---------------------------- MODULE GatewayRelay ----------------------------
(***************************************************************************)
(* Gateways with their pages, the relay and receivers, joined as in module *)
(* KbRelay.                                                                *)
(***************************************************************************)
EXTENDS Gateway, ReceiverApp

CONSTANT MaxUp \* bound on the unread requests of a client that its pages may add to

webvars == <<auth, revoked, link, receivers, target, provider, view, up, gw, page, rx>>

WebInit == /\ Init
           /\ auth = Keys
           /\ up = [x \in Peers |-> << >>]
           /\ GwInit
           /\ RxInit

\* the clients that believe they are connected
Online == {p \in Providers : gw[p].now.connected} \cup {r \in Receivers : rx[r].connected}

ServerStep(x) == /\ \/ ServerReads(x)
                    \/ ServerSeesBreak(x, Online) /\ ServerDrops(x)
                 /\ UNCHANGED <<gw, page, rx>>

GatewayStep(p) == /\ \/ GwConsumes(p, Held)
                     \/ GwConnects(p)
                     \/ ClientSeesBreak(p) /\ GwDisconnects(p)
                  /\ UNCHANGED rx

PageStep(b) == /\ Len(up[Of[b]]) < MaxUp
               /\ \/ PageOpens(b) \/ PageCloses(b) \/ PageReleases(b)
                  \/ \E c \in KeyCodes, d \in BOOLEAN : PageKey(b, c, d)
                  \/ \E n \in Names \cup {None} : PagePicks(b, n)
               /\ UNCHANGED rx

ReceiverStep(r) == /\ \/ RxConsumes(r)
                      \/ RxConnects(r)
                      \/ ClientSeesBreak(r) /\ RxDisconnects(r)
                   /\ UNCHANGED <<gw, page>>

WebNext == \/ \E x \in Peers : ServerStep(x)
           \/ \E p \in Providers : GatewayStep(p)
           \/ \E b \in Browsers : PageStep(b)
           \/ \E r \in Receivers : ReceiverStep(r)

WebSpec == WebInit /\ [][WebNext]_webvars

-----------------------------------------------------------------------------
WebTypeOK ==
    /\ TypeOK
    /\ up \in [Peers -> Seq(Request)]
    /\ gw \in [Providers -> [now : Fields, shown : PageState]]
    /\ page \in [Browsers -> [open : BOOLEAN, held : SUBSET KeyCodes]]
    /\ rx \in [Receivers -> Device]

\* What pages say of typing is true at any time, however late the messages arrived
\* that led to it: the receiver that holds the keys of a session that may be used
\* goes by the name the pages were shown last, with the lock.
TypedWhereShown ==
    \A p \in Providers : LET g == gw[p].now
                         IN  Secure(g) => /\ gw[p].shown.secure
                                          /\ gw[p].shown.current = Name(g.session.with)

\* No key stays down for nothing: once everything has arrived, a key a receiver
\* holds is one that an open page of the gateway in session with it holds.
NoKeyLeftByPages ==
    Quiet(Online) => \A r \in Receivers : \A c \in rx[r].down :
        \E b \in Browsers : LET g == gw[Of[b]].now
                            IN  /\ page[b].open /\ c \in page[b].held
                                /\ Secure(g) /\ g.session.with = r
                                /\ rx[r].session = <<Of[b], g.session.epk>>

\* Once everything has arrived, a secure session is one the receiver is in, and
\* is with the receiver a page picked last.
SecureAsPicked ==
    Quiet(Online) => \A p \in Providers : LET g == gw[p].now
                                          IN  Secure(g) =>
        /\ rx[g.session.with].session = <<p, g.session.epk>>
        /\ g.current = g.desired

\* Once everything has arrived, the pages show what is the case, though a pick
\* itself is not pushed to them.
PagesShowTruth ==
    Quiet(Online) => \A p \in Providers : gw[p].shown = State(gw[p].now)

\* Once everything has arrived, the relay has a gateway that sees the receiver
\* last picked attached to it, whatever broke in between.
GatewayReattached ==
    Quiet(Online) => \A p \in Providers : LET g == gw[p].now
                                          IN  g.connected /\ g.desired \in g.receivers =>
        PartnerName(p) = g.desired
=============================================================================
