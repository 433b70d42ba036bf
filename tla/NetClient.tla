----------------------------- MODULE NetClient -----------------------------
(***************************************************************************)
(* The connection thread of the native provider (provider.py, class        *)
(* NetClient).  It connects, reconnects and receives on its own; the       *)
(* window learns of all that through a queue of events, which it takes     *)
(* from when it gets to it.  What the window sends goes out on whatever    *)
(* connection there is then.                                               *)
(*                                                                         *)
(* Passing a message on from the connection to the queue makes no          *)
(* difference to anybody until the connection is lost: so that is when the *)
(* messages received until then are put into the queue.                    *)
(***************************************************************************)
EXTENDS Clients

CONSTANT MaxEvents \* bound on the events a window that is busy leaves untaken

VARIABLE net \* up: there is a connection; events: those the window has not taken

ConnectedEvent == [kind |-> "connected"]
DisconnectedEvent == [kind |-> "disconnected"]
Received(m) == [kind |-> "msg", msg |-> m]

Event == {ConnectedEvent, DisconnectedEvent} \cup [kind : {"msg"}, msg : Message]

NetInit == net = [p \in Providers |-> [up |-> FALSE, events |-> << >>]]

Reports(p, isUp, events) ==
    /\ Len(net[p].events) + Len(events) <= MaxEvents
    /\ net' = [net EXCEPT ![p] = [up |-> isUp, events |-> @.events \o events]]

\* NetClient.send: nothing is sent without a connection.
NetSends(p, requests) == IF net[p].up THEN Send(p, requests) ELSE UNCHANGED up

NetConnects(p) == /\ ~ net[p].up
                  /\ ProviderJoin(p)
                  /\ Reports(p, TRUE, <<ConnectedEvent>>)
                  /\ UNCHANGED up

\* An attempt to connect fails, which the window is told like a loss.
NetFails(p) == /\ ~ net[p].up
               /\ Reports(p, FALSE, <<DisconnectedEvent>>)
               /\ UNCHANGED <<vars, up>>

\* mutant: the window is not told of the loss, only of the new connection
NetLosesSilently(p) == /\ net[p].up
                       /\ Reports(p, FALSE, << >>)
                       /\ UNCHANGED <<vars, up>>

\* The connection is lost; the relay may notice later.
NetLoses(p) ==
    /\ net[p].up
    /\ \E k \in 0..Len(link[p].queue) :
          Reports(p, FALSE, Append([i \in 1..k |-> Received(link[p].queue[i])], DisconnectedEvent))
    /\ UNCHANGED <<vars, up>>

\* The handshake replies that wait for the window mention ephemeral keys of p.
InEvents(p) == {net[p].events[i].msg.body.answers :
                  i \in {j \in 1..Len(net[p].events) :
                           /\ net[p].events[j].kind = "msg"
                           /\ net[p].events[j].msg.type = "e2e"
                           /\ net[p].events[j].msg.body.step = "hs2"}}
=============================================================================
