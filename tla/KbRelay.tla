------------------------------ MODULE KbRelay ------------------------------
(***************************************************************************)
(* The whole system: native providers, the relay and receivers, joined by  *)
(* a queue of requests and a queue of messages per connection.  Any        *)
(* connection may break at any time, and either end may notice first.      *)
(***************************************************************************)
EXTENDS ProviderApp, ReceiverApp

CONSTANT MaxUp \* bound on the unread requests of a client that its user may add to

ASSUME SysAssumption == FirstPins \in [Providers -> [Names -> Keys \cup {None}]]

sysvars == <<auth, revoked, link, receivers, target, provider, view, up, net, app, pinned, rx>>

SysInit == /\ Init
           /\ auth = Keys
           /\ up = [x \in Peers |-> << >>]
           /\ AppInit
           /\ RxInit

\* the clients that believe they are connected
Online == {p \in Providers : net[p].up} \cup {r \in Receivers : rx[r].connected}

ServerStep(x) == /\ \/ ServerReads(x)
                    \/ ServerSeesBreak(x, Online) /\ ServerDrops(x)
                 /\ UNCHANGED <<net, app, pinned, rx>>

ProviderStep(p) == /\ \/ Poll(p, Held)
                      \/ \E yes \in BOOLEAN : Answer(p, yes)
                   /\ UNCHANGED rx

NetStep(p) == /\ \/ NetConnects(p)
                 \/ NetFails(p)
                 \/ ClientSeesBreak(p) /\ NetLoses(p)
              /\ UNCHANGED <<app, pinned, rx>>

UserStep(p) == /\ Len(up[p]) < MaxUp
               /\ \/ \E n \in Names : OnPick(p, n)
                  \/ OnStop(p)
                  \/ \E c \in KeyCodes : OnKeyDown(p, c) \/ OnKeyUp(p, c)
                  \/ OnFocusOut(p)
               /\ UNCHANGED rx

ReceiverStep(r) == /\ \/ RxConsumes(r)
                      \/ RxConnects(r)
                      \/ ClientSeesBreak(r) /\ RxDisconnects(r)
                   /\ UNCHANGED <<net, app, pinned>>

SysNext == \/ \E x \in Peers : ServerStep(x)
           \/ \E p \in Providers : ProviderStep(p) \/ NetStep(p) \/ UserStep(p)
           \/ \E r \in Receivers : ReceiverStep(r)

\* Everything has arrived, at the windows too.
Settled == Quiet(Online) /\ \A p \in Providers : net[p].events = << >>

SysSpec == SysInit /\ [][SysNext]_sysvars

-----------------------------------------------------------------------------
SysTypeOK ==
    /\ TypeOK
    /\ up \in [Peers -> Seq(Request)]
    /\ net \in [Providers -> [up : BOOLEAN, events : Seq(Event)]]
    /\ app \in [Providers -> Window]
    /\ pinned \in [Providers -> [Names -> Keys \cup {None}]]
    /\ rx \in [Receivers -> Device]

\* "Typing into X" is true: the receiver that holds the keys of the session the
\* user types into goes by the name the window shows, however late the
\* messages that led to it arrived.
TypingWhereShown ==
    \A p \in Providers : Live(app[p]) => Name(app[p].session.with) = app[p].current

\* No key stays down for nothing: once everything has arrived, a key a receiver
\* holds is one that a provider in session with it holds.
NoStuckKeys ==
    Settled => \A r \in Receivers : \A c \in rx[r].down :
        \E p \in Providers : /\ Live(app[p]) /\ app[p].session.with = r
                             /\ rx[r].session = <<p, app[p].session.epk>>
                             /\ c \in app[p].pressed

\* Once everything has arrived, a provider that shows a live session has it
\* with a receiver that is in the same session.
SessionsAgree ==
    Settled => \A p \in Providers : Live(app[p]) =>
        rx[app[p].session.with].session = <<p, app[p].session.epk>>

\* The relay has a provider that is connected and sees the receiver the user
\* picked attached to it once everything has arrived, whatever broke in between:
\* the window asks again with every list, and not again while it waits for a reply.
Reattached ==
    Settled => \A p \in Providers :
        app[p].connected /\ app[p].desired \in app[p].receivers => PartnerName(p) = app[p].desired

\* README.md:265: everything typed goes to the receiver clicked last.
PickWins ==
    Settled => \A p \in Providers :
        Live(app[p]) => app[p].desired \in {None, app[p].current}

\* README.md:267: the provider re-attaches to the receiver last picked; it
\* forgets the pick only if the user stops, or does not trust its key.
PickKept ==
    [][\A p \in Providers : app[p].desired # None /\ app'[p].desired = None =>
          OnStop(p) \/ Answer(p, FALSE)]_sysvars

\* kbrelay_common.py:185-186: the session is used only once its key is trusted.
TrustedBeforeUse ==
    \A p \in Providers : \A i \in 1..Len(up[p]) :
        LET m == up[p][i]
        IN  m.type = "blob" /\ m.body.step = "ct" => KnownKey(p, m.body.keys[3])
=============================================================================
