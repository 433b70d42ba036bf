------------------------------ MODULE Gateway ------------------------------
(***************************************************************************)
(* The web gateway (gateway.py): class RelayProvider, which is a provider  *)
(* shared by all the browsers that have its page open, and the websocket   *)
(* handler of each page.  It is one asyncio thread, and nothing in its     *)
(* handlers waits: a message of the relay or of a page is one step.        *)
(*                                                                         *)
(* A page and its handler are joined by an ordered stream, so what a page  *)
(* sends is taken to be handled at once, and what is pushed to the pages   *)
(* to be shown at once.                                                    *)
(***************************************************************************)
EXTENDS Clients

CONSTANTS Browsers, Of,  \* pages, and the gateway each is a page of
          TrustedKeys    \* the keys in the gateways' folder of receivers

ASSUME GatewayAssumption == Of \in [Browsers -> Providers]

VARIABLES gw,   \* the fields of RelayProvider, and the state last pushed to its pages
          page  \* each page: open or not, and the keys it has sent down and not up

\* session: None, or its ephemeral key and the receiver whose reply was
\* verified and trusted (None before).
Starting == [connected |-> FALSE, receivers |-> {}, current |-> None, desired |-> None,
             session |-> None]

Fields == [connected : BOOLEAN, receivers : SUBSET Names, current : Names \cup {None},
           desired : Names \cup {None},
           session : {None} \cup [epk : Ephemerals, with : Receivers \cup {None}]]

Secure(g) == g.session # None /\ g.session.with # None

\* state(): what a page is told
State(g) == [connected |-> g.connected, receivers |-> g.receivers, current |-> g.current,
             secure |-> Secure(g)]

PageState == [connected : BOOLEAN, receivers : SUBSET Names, current : Names \cup {None},
              secure : BOOLEAN]

GwInit == /\ gw = [p \in Providers |-> [now |-> Starting, shown |-> State(Starting)]]
          /\ page = [b \in Browsers |-> [open |-> FALSE, held |-> {}]]

\* mutant: a change is not pushed to the pages
ChangedUnseen(p, g) == gw' = [gw EXCEPT ![p].now = g]

\* The fields change and the pages are told.
Changed(p, g) == gw' = [gw EXCEPT ![p] = [now |-> g, shown |-> State(g)]]

GwAsks(p, n) == Send(p, IF gw[p].now.connected THEN <<SelectReq(n)>> ELSE << >>)

\* Sealed and sent, if there is a session that may be used.
GwSeals(p, plain) ==
    LET s == gw[p].now.session
    IN  Send(p, IF Secure(gw[p].now) THEN <<Blob(Sealed(p, s.epk, s.with, plain))>> ELSE << >>)

-----------------------------------------------------------------------------
(* Messages from the relay (handle, handle_e2e).                           *)

\* The gateway does not remember what it has asked for: it asks again with every
\* list until it is attached.
GwOnReceivers(p, m) ==
    LET g == [gw[p].now EXCEPT !.receivers = m.names]
    IN  /\ Changed(p, g)
        /\ IF g.desired \in m.names /\ g.current # g.desired THEN GwAsks(p, g.desired)
           ELSE UNCHANGED up

\* mutant: the session outlives the attachment
GwOnSelectedGoesOn(p, m, held) ==
    LET g == [gw[p].now EXCEPT !.current = m.who]
        own == IF gw[p].now.session = None THEN {} ELSE {<<p, gw[p].now.session.epk>>}
    IN  \/ m.who = None /\ Changed(p, g) /\ UNCHANGED up
        \/ /\ m.who # None
           /\ \E e \in Fresh(p, held \cup own) :
                 /\ Changed(p, [g EXCEPT !.session = [epk |-> e, with |-> None]])
                 /\ Send(p, <<Blob(Hs1(p, e))>>)

GwOnSelected(p, m, held) ==
    LET g == [gw[p].now EXCEPT !.current = m.who]
        own == IF gw[p].now.session = None THEN {} ELSE {<<p, gw[p].now.session.epk>>}
    IN  \/ m.who = None /\ Changed(p, [g EXCEPT !.session = None]) /\ UNCHANGED up
        \/ /\ m.who # None
           /\ \E e \in Fresh(p, held \cup own) :
                 /\ Changed(p, [g EXCEPT !.session = [epk |-> e, with |-> None]])
                 /\ Send(p, <<Blob(Hs1(p, e))>>)

GwGivesUp(p) == /\ Changed(p, [gw[p].now EXCEPT !.session = None, !.desired = None])
                /\ GwAsks(p, None)

\* Session.finish verifies the reply, and the receiver's key is in the folder.
GwAccepts(p, b) == /\ b.answers = <<p, gw[p].now.session.epk>>
                   /\ KeyOf[b.pub] \in TrustedKeys

GwOnE2E(p, b) ==
    LET g == gw[p].now
        waiting == g.session # None /\ g.session.with = None
    IN  \/ b.step = "err" /\ GwGivesUp(p)
        \/ b.step # "err" /\ ~ (b.step = "hs2" /\ waiting) /\ UNCHANGED <<gw, up>>
        \/ b.step = "hs2" /\ waiting /\ ~ GwAccepts(p, b) /\ GwGivesUp(p)
        \/ /\ b.step = "hs2" /\ waiting /\ GwAccepts(p, b)
           /\ Changed(p, [g EXCEPT !.session.with = b.pub])
           /\ Send(p, <<Blob(Sealed(p, g.session.epk, b.pub, ReleaseAll))>>)

GwConsumes(p, held) ==
    /\ gw[p].now.connected
    /\ Deliver(p)
    /\ LET m == Head(link[p].queue)
       IN  \/ m.type = "receivers" /\ GwOnReceivers(p, m)
           \/ m.type = "selected" /\ GwOnSelected(p, m, held)
           \/ m.type = "e2e" /\ GwOnE2E(p, m.body)
           \/ m.type = "notice" /\ UNCHANGED <<gw, up>>
    /\ UNCHANGED page

-----------------------------------------------------------------------------
(* The connection (run).  The list of receivers outlives it.               *)

\* mutant: the receiver attached to on the last connection is not forgotten
GwConnectsStale(p) == /\ ~ gw[p].now.connected
                      /\ ProviderJoin(p)
                      /\ Changed(p, [gw[p].now EXCEPT !.connected = TRUE])
                      /\ UNCHANGED <<up, page>>

GwConnects(p) == /\ ~ gw[p].now.connected
                 /\ ProviderJoin(p)
                 /\ Changed(p, [gw[p].now EXCEPT !.connected = TRUE, !.current = None])
                 /\ UNCHANGED <<up, page>>

GwDisconnects(p) == /\ gw[p].now.connected
                    /\ Changed(p, [gw[p].now EXCEPT !.connected = FALSE, !.session = None])
                    /\ UNCHANGED <<vars, up, page>>

-----------------------------------------------------------------------------
(* The pages.                                                              *)

PageOpens(b) == /\ ~ page[b].open
                /\ page' = [page EXCEPT ![b].open = TRUE]
                /\ UNCHANGED <<vars, up, gw>>

\* mutant: the handler ends without releasing the page's keys
PageClosesHolding(b) == /\ page[b].open
                        /\ page' = [page EXCEPT ![b] = [open |-> FALSE, held |-> {}]]
                        /\ UNCHANGED <<vars, up, gw>>

\* The handler ends: whatever any page holds is released.
PageCloses(b) == /\ page[b].open
                 /\ page' = [page EXCEPT ![b] = [open |-> FALSE, held |-> {}]]
                 /\ GwSeals(Of[b], ReleaseAll)
                 /\ UNCHANGED <<vars, gw>>

\* Release, and the sticky modifiers.
PageReleases(b) == /\ page[b].open
                   /\ page' = [page EXCEPT ![b].held = {}]
                   /\ GwSeals(Of[b], ReleaseAll)
                   /\ UNCHANGED <<vars, gw>>

\* A key goes down, again and again while it is held, or up.
PageKey(b, c, d) ==
    /\ page[b].open
    /\ page' = [page EXCEPT ![b].held = IF d THEN @ \cup {c} ELSE @ \ {c}]
    /\ GwSeals(Of[b], KeyMsg(c, d))
    /\ UNCHANGED <<vars, gw>>

\* mutant: nothing is asked for if that receiver is attached
PickAsksIfNew(p, n) == IF n = gw[p].now.current THEN UNCHANGED up ELSE GwAsks(p, n)

PickAsks(p, n) == GwAsks(p, n)

\* A page picks n; the pages are told only with the reply.
PagePicks(b, n) ==
    LET p == Of[b]
        wish == IF n \in gw[p].now.receivers THEN n ELSE None
    IN  /\ page[b].open
        /\ gw' = [gw EXCEPT ![p].now.desired = wish, ![p].now.session = None]
        /\ PickAsks(p, wish)
        /\ UNCHANGED <<vars, page>>
=============================================================================
