------------------------------- MODULE Typing -------------------------------
(***************************************************************************)
(* From the fingers of a user to the device of a receiver: one provider,   *)
(* which is the window on X11 or on Windows, or the gateway with its       *)
(* pages, a session that comes and goes, and one receiver.                 *)
(***************************************************************************)
EXTENDS Capture, Pad

CONSTANT Fronts \* the kinds of providers: "x11", "win32", "web"

ASSUME TypingAssumption == MaxMoves \in [Fronts -> Nat]

typingvars == <<kbvars, capvars, padvars, front, moves>>

TypingInit == /\ front \in Fronts
              /\ moves = 0
              /\ KbInit /\ CapInit /\ PadInit

\* The session of the gateway starts or ends.
GatewaySessionMoves == /\ Moves
                       /\ Starts \/ Ends
                       /\ UNCHANGED <<front, capvars, padvars>>

PageMoves == /\ Moves
             /\ \E b \in Browsers : \/ PageOpens(b) \/ PageCloses(b) \/ PageDies(b)
                                    \/ SocketBreaks(b) \/ SocketReopens(b)
                                    \/ PageActs(b)
             /\ UNCHANGED <<live, kb, device, front, capvars>>

Native == front # "web" /\ UNCHANGED padvars
Web == front = "web"

WindowHandles == Native /\ Handle
WindowTimer == Native /\ Timer
HandlerStep == Web /\ (\E b \in Browsers : HandlerEnds(b)) /\ UNCHANGED <<live, kb, device, front, moves, capvars>>
KeyboardStep == (Receive \/ TypeNext) /\ UNCHANGED <<capvars, padvars, front, moves>>

TypingNext == \/ Native /\ (UserMoves \/ SessionMoves)
              \/ WindowHandles
              \/ WindowTimer
              \/ Web /\ (PageMoves \/ GatewaySessionMoves)
              \/ HandlerStep
              \/ KeyboardStep

\* The event loops go on: an event that waits is handled, a timer fires, the
\* receiver reads on and types on.  Nobody has to do anything.
TypingSpec == /\ TypingInit /\ [][TypingNext]_typingvars
              /\ WF_typingvars(WindowHandles) /\ WF_typingvars(WindowTimer)
              /\ WF_typingvars(KeyboardStep)

-----------------------------------------------------------------------------
TypingTypeOK ==
    /\ live \in BOOLEAN
    /\ kb.down \subseteq Codes /\ device \subseteq Codes
    /\ user \in [hand : SUBSET Codes, focused : BOOLEAN]
    /\ \A i \in 1..Len(wire) : \/ wire[i] = ReleaseAll \/ wire[i] \in {TextMsg(s) : s \in Texts}
                              \/ wire[i] \in {KeyMsg(c, d) : c \in Codes, d \in BOOLEAN}
    /\ cap \in [pressed : SUBSET Codes, pending : SUBSET (Codes \X (0..MaxMoves[front]))]
    /\ page \in [Browsers -> [open : BOOLEAN, socket : BOOLEAN, focused : BOOLEAN,
                              keys : SUBSET DOMAIN JsToCode, sticky : SUBSET Modifiers]]
    /\ handlers \in [Browsers -> 0..MaxHandlers]

\* On Windows the user holds one variant of a modifier at a time.
OneVariant == front = "win32" => \A c \in user.hand : Sibling(c) \cap user.hand = {}

\* The window handles the press of a key that the user has struck.
HandlesStrike == WindowHandles /\ Head(xevents).kind = "press" /\ Head(xevents).byHand

\* A key is struck together with those that are held then, and no other: when the
\* window handles a press, what it takes to be down besides is what the user held
\* when the key was struck (provider.py:440-442: "keeps Shift+h, i in order").
TypedAsStruck ==
    [][HandlesStrike => LET e == Head(xevents)
                        IN  cap'.pressed \subseteq e.hand \cup {e.code}]_typingvars

\* A key that is struck is typed, however quickly it is struck again, though
\* repetitions of a key that is held are not: its press is sent, last of all.
EveryStrikeIsTyped ==
    [][HandlesStrike /\ live =>
          Len(wire') > 0 /\ Last(wire') = KeyMsg(Head(xevents).code, TRUE)]_typingvars

\* No key stays down for nothing: a key the user does not hold, or holds while
\* the window does not have the focus, comes up on the device (README.md:266).
LiftedIsLifted ==
    \A c \in Codes : LET held == c \in user.hand /\ user.focused
                     IN  front # "web" /\ ~ held ~> held \/ c \notin device

\* gateway.py:382: no keys are left down when the browsers have gone away.
PagesGone == LET gone == \A b \in Browsers : handlers[b] = 0
             IN  front = "web" /\ gone ~> ~ gone \/ device = {}

\* What type_text does to the device agrees with what Keyboard has marked: it
\* holds nothing that a release_all would forget, and no shift too many or too
\* few, whatever text is typed with whatever keys held.
DeviceFollows == /\ device \subseteq kb.down
                 /\ device \cap ShiftKeys = kb.down \cap ShiftKeys

\* Text comes out in order, though some of its characters are typed by another
\* program; and what has a key comes out in any case, wherever that program is
\* missing (receiver.py:150-152).
TextInOrder == LET t == kb.text
               IN  /\ t.whole = t.out \o t.other \o t.rest
                   /\ \A i \in t.lost : i \in 1..Len(t.out) /\ t.out[i] \notin DOMAIN CharMap

\* gateway.py:508: "Sticky modifiers apply to the next key or typed character":
\* a modifier that is tapped goes down on the receiver.
StickyApplies ==
    [][\A b \in Browsers, m \in Modifiers :
          /\ live /\ page[b].socket
          /\ m \notin page[b].sticky /\ m \in page'[b].sticky
          => wire' # wire]_typingvars
=============================================================================
