------------------------------ MODULE Keyboard ------------------------------
(***************************************************************************)
(* The virtual keyboard of a receiver (receiver.py, class Keyboard) and    *)
(* the loop that feeds it.  What a provider says in a session arrives in   *)
(* order, one message after the other.  Text is typed character by         *)
(* character with pauses between them, and all messages behind it wait.    *)
(*                                                                         *)
(* How sessions come about, and which messages open in one, is what module *)
(* KbRelay is about: here a session is there or not, and a break loses     *)
(* what is under way.                                                      *)
(***************************************************************************)
EXTENDS Naturals, Sequences, FiniteSets, SequencesExt

CONSTANTS
    Codes,               \* the keys
    LeftShift, ShiftKeys, \* the keys that shift, and the one that text is shifted with
    CharMap              \* the key of a character, and whether it needs shift

\* Text is shifted with a key that shifts, and no character has the key of one.
ASSUME KeyboardAssumption == /\ LeftShift \in ShiftKeys
                             /\ \A ch \in DOMAIN CharMap : CharMap[ch].code \notin ShiftKeys

VARIABLES
    live,   \* the provider has a session it may use
    wire,   \* what the receiver has not handled yet
    kb,     \* down: the keys Keyboard has marked down; and the text being typed
    device  \* the keys that are down on the device

kbvars == <<live, wire, kb, device>>

KeyMsg(c, d) == [type |-> "key", code |-> c, down |-> d]
TextMsg(s) == [type |-> "text", text |-> s]
ReleaseAll == [type |-> "release_all"]

\* The text: all of it, what has come out, what waits for the helper, the rest; and the
\* places in "out" of what should have come out and was lost.
NoText == [whole |-> << >>, out |-> << >>, other |-> << >>, rest |-> << >>, lost |-> {}]

KbInit == /\ live \in BOOLEAN
          /\ wire = << >>
          /\ kb = [down |-> {}, text |-> NoText]
          /\ device = {}

Busy == kb.text.other # << >> \/ kb.text.rest # << >>

\* session.encrypt and send of the provider, if its session may be used.
Say(msgs) == wire' = IF live THEN wire \o msgs ELSE wire

-----------------------------------------------------------------------------
\* key: a press of a key that is down and a release of one that is not are ignored.
OnKey(c, d) ==
    \/ d = (c \in kb.down) /\ UNCHANGED <<kb, device>>
    \/ /\ d # (c \in kb.down)
       /\ kb' = [kb EXCEPT !.down = IF d THEN @ \cup {c} ELSE @ \ {c}]
       /\ device' = IF d THEN device \cup {c} ELSE device \ {c}

OnReleaseAll == /\ kb' = [kb EXCEPT !.down = {}]
                /\ device' = device \ kb.down

OnText(s) == /\ kb' = [kb EXCEPT !.text = [NoText EXCEPT !.whole = s, !.rest = s]]
             /\ UNCHANGED device

Receive == /\ wire # << >> /\ ~ Busy
           /\ wire' = Tail(wire)
           /\ LET m == Head(wire)
              IN  \/ m.type = "key" /\ OnKey(m.code, m.down)
                  \/ m.type = "text" /\ OnText(m.text)
                  \/ m.type = "release_all" /\ OnReleaseAll
           /\ UNCHANGED live

\* mutant: shift is put down and lifted again though it is held
TappedShifting(c, shift) == device \ ({c} \cup IF shift THEN {LeftShift} ELSE {})

\* The device after a character has been tapped: its key is up, and so is the
\* shift that the tap has put down because none was held.
Tapped(c, shift) ==
    device \ ({c} \cup IF shift /\ kb.down \cap ShiftKeys = {} THEN {LeftShift} ELSE {})

\* mutant: the helper is called once, for all the text
HelperLast(t) == t.other # << >> /\ t.rest = << >>

\* The helper types what waits for it before the next character that has a key.
HelperNext(t) == t.other # << >> /\ (t.rest # << >> => Head(t.rest) \in DOMAIN CharMap)

\* _type_external: the helper types what waits for it; or it is not installed (or
\* fails), and this text is dropped.
Helped(t) == [t EXCEPT !.out = @ \o t.other, !.other = << >>]
Unhelped(t) ==
    [Helped(t) EXCEPT !.lost = @ \cup ((Len(t.out) + 1)..(Len(t.out) + Len(t.other)))]

\* type_text goes on: it collects, calls the helper or taps.
TypeNext ==
    LET t == kb.text
        ch == Head(t.rest)
    IN  /\ Busy
        /\ \/ /\ HelperNext(t)
              /\ \/ kb' = [kb EXCEPT !.text = Helped(t)]
                 \/ kb' = [kb EXCEPT !.text = Unhelped(t)]
              /\ UNCHANGED device
           \/ /\ t.rest # << >> /\ ch \notin DOMAIN CharMap
              /\ kb' = [kb EXCEPT !.text.other = Append(@, ch), !.text.rest = Tail(@)]
              /\ UNCHANGED device
           \/ /\ ~ HelperNext(t)
              /\ t.rest # << >> /\ ch \in DOMAIN CharMap
              /\ kb' = [kb EXCEPT !.text.out = Append(@, ch), !.text.rest = Tail(@)]
              /\ device' = Tapped(CharMap[ch].code, CharMap[ch].shift)
        /\ UNCHANGED <<live, wire>>

-----------------------------------------------------------------------------
\* A new session: the receiver releases every key at the handshake, and the
\* provider confirms with a release_all.
Starts == /\ ~ live
          /\ live' = TRUE
          /\ wire' = Append(wire, ReleaseAll)
          /\ UNCHANGED <<kb, device>>

\* The session ends (end_session): what is under way then may be lost.
Ends == /\ live
        /\ live' = FALSE
        /\ \E k \in 0..Len(wire) : wire' = Append(SubSeq(wire, 1, k), ReleaseAll)
        /\ UNCHANGED <<kb, device>>
=============================================================================
