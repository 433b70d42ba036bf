--------------------------------- MODULE Pad ---------------------------------
(***************************************************************************)
(* The page of the web gateway (gateway.py, PAGE_HTML) and the handler of  *)
(* its websocket, which turns what a page sends into messages of the       *)
(* gateway's session.  The page reconnects by itself; the handler of a     *)
(* broken socket may end long after the page has opened another one.       *)
(*                                                                         *)
(* A page's socket is ordered, so what it sends while the socket is open   *)
(* is taken to be handled at once.                                         *)
(***************************************************************************)
EXTENDS Keyboard

CONSTANTS
    Browsers,
    JsToCode,    \* JS_TO_CODE: the keys of the names the page may use
    Buttons,     \* the names on its buttons for single keys
    Modifiers,   \* the names on its buttons for sticky modifiers
    Characters,
    Texts,       \* what may be entered on an on-screen keyboard
    MaxHandlers  \* bound on the handlers of one page that have not ended

\* Names stand for keys, and texts are of characters.
ASSUME PadAssumption == /\ \A js \in DOMAIN JsToCode : JsToCode[js] \in Codes
                        /\ IsFiniteSet(Modifiers)
                        /\ Texts \subseteq Seq(Characters)
                        /\ MaxHandlers \in Nat

VARIABLES
    page,     \* the page: open, its socket open, the pad focused, keys held, sticky
    handlers  \* the handlers of its sockets that have not ended

padvars == <<page, handlers>>

Closed == [open |-> FALSE, socket |-> FALSE, focused |-> FALSE, keys |-> {}, sticky |-> {}]

PadInit == /\ page = [b \in Browsers |-> Closed]
           /\ handlers = [b \in Browsers |-> 0]

\* mutant: a name the gateway does not know is passed on
KeyUnchecked(js, d) ==
    <<KeyMsg(IF js \in DOMAIN JsToCode THEN JsToCode[js] ELSE js, d)>>

\* What the gateway makes of a key: a name it does not know is nothing.
Key(js, d) == IF js \in DOMAIN JsToCode THEN <<KeyMsg(JsToCode[js], d)>> ELSE << >>

\* send on the page: only an open socket sends, and only a secure session is used.
Sends(b, msgs) == IF page[b].socket THEN Say(msgs) ELSE UNCHANGED wire

\* What a page sends when it drops the sticky modifiers.
StickyUp(b) == LET known == SetToSeq(page[b].sticky \cap DOMAIN JsToCode)
               IN  [i \in 1..Len(known) |-> KeyMsg(JsToCode[known[i]], FALSE)]

-----------------------------------------------------------------------------
(* Sockets and pages.                                                      *)

OpensSocket(b) == /\ handlers[b] < MaxHandlers
                  /\ handlers' = [handlers EXCEPT ![b] = @ + 1]

PageOpens(b) == /\ ~ page[b].open
                /\ page' = [page EXCEPT ![b] = [Closed EXCEPT !.open = TRUE, !.socket = TRUE]]
                /\ OpensSocket(b)
                /\ UNCHANGED wire

\* pagehide
PageCloses(b) == /\ page[b].open
                 /\ page' = [page EXCEPT ![b] = Closed]
                 /\ Sends(b, <<ReleaseAll>>)
                 /\ UNCHANGED handlers

\* The browser is gone without a word, or just its socket.
PageDies(b) == /\ page[b].open
               /\ page' = [page EXCEPT ![b] = Closed]
               /\ UNCHANGED <<wire, handlers>>

SocketBreaks(b) == /\ page[b].socket
                   /\ page' = [page EXCEPT ![b].socket = FALSE]
                   /\ UNCHANGED <<wire, handlers>>

SocketReopens(b) == /\ page[b].open /\ ~ page[b].socket
                    /\ page' = [page EXCEPT ![b].socket = TRUE]
                    /\ OpensSocket(b)
                    /\ UNCHANGED wire

\* mutant: a handler that ends leaves the keys of its page down
HandlerEndsHolding(b) == /\ handlers[b] > (IF page[b].socket THEN 1 ELSE 0)
                         /\ handlers' = [handlers EXCEPT ![b] = @ - 1]
                         /\ UNCHANGED <<page, wire>>

\* The handler of a socket that is not open any more ends.
HandlerEnds(b) == /\ handlers[b] > (IF page[b].socket THEN 1 ELSE 0)
                  /\ handlers' = [handlers EXCEPT ![b] = @ - 1]
                  /\ Say(<<ReleaseAll>>)
                  /\ UNCHANGED page

-----------------------------------------------------------------------------
(* What the page sends.                                                    *)

\* A sticky modifier is tapped.
Sticks(b, m) == /\ page[b].open
                /\ page' = [page EXCEPT ![b].sticky = IF m \in @ THEN @ \ {m} ELSE @ \cup {m}]
                /\ Sends(b, Key(m, m \notin page[b].sticky))

\* A button for a single key, or what stands for one on an on-screen keyboard.
Taps(b, js) == /\ page[b].open
               /\ page' = [page EXCEPT ![b].sticky = {}]
               /\ Sends(b, Key(js, TRUE) \o Key(js, FALSE) \o StickyUp(b))

\* keydown, repeated while the key is held
KeyDown(b, js) == /\ page[b].open
                  /\ page' = [page EXCEPT ![b].keys = @ \cup {js}]
                  /\ IF page[b].focused THEN Sends(b, Key(js, TRUE)) ELSE UNCHANGED wire

\* keyup: seen only if the pad has the focus then
KeyUp(b, js) ==
    LET seen == page[b].focused
    IN  /\ js \in page[b].keys
        /\ page' = [page EXCEPT ![b].keys = @ \ {js}, ![b].sticky = IF seen THEN {} ELSE @]
        /\ IF seen THEN Sends(b, Key(js, FALSE) \o StickyUp(b)) ELSE UNCHANGED wire

Enters(b, s) == /\ page[b].focused
                /\ page' = [page EXCEPT ![b].sticky = {}]
                /\ Sends(b, <<TextMsg(s)>> \o StickyUp(b))

PadFocus(b) == /\ page[b].open /\ ~ page[b].focused
               /\ page' = [page EXCEPT ![b].focused = TRUE]
               /\ UNCHANGED wire

Blurs(b) == /\ page[b].focused
            /\ page' = [page EXCEPT ![b].focused = FALSE, ![b].sticky = {}]
            /\ Sends(b, StickyUp(b))

ReleaseButton(b) == /\ page[b].open
                    /\ page' = [page EXCEPT ![b].sticky = {}]
                    /\ Sends(b, <<ReleaseAll>>)

PageActs(b) == /\ \/ \E m \in Modifiers : Sticks(b, m)
                  \/ \E js \in Buttons : Taps(b, js)
                  \/ \E js \in DOMAIN JsToCode : KeyDown(b, js) \/ KeyUp(b, js)
                  \/ \E s \in Texts : Enters(b, s)
                  \/ PadFocus(b) \/ Blurs(b) \/ ReleaseButton(b)
               /\ UNCHANGED handlers
=============================================================================
