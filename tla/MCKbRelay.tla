----------------------------- MODULE MCKbRelay -----------------------------
(***************************************************************************)
(* Small systems for TLC.  r1 and r2 are connections of one device, r3 is  *)
(* another device.                                                         *)
(***************************************************************************)
EXTENDS KbRelay, FiniteSetsExt, TLC

CONSTANTS p1, p2, r1, r2, r3, kp, k1, k3, n1, n3, c, e1, e2, e3,
          MaxBacklog \* bound on the requests and messages under way

MCKeyOf == [x \in Peers |-> IF x \in Providers THEN kp ELSE IF x = r3 THEN k3 ELSE k1]

MCFileName == [k \in Keys |-> IF k = k3 THEN n3 ELSE n1]

MCNoCustom == [x \in Peers |-> None]

MCPayloads == Blobs

\* every receiver trusts every provider; r3 trusts nobody
MCAllows == [r \in Receivers |-> Providers]
MCAllowsButR3 == [r \in Receivers |-> IF r = r3 THEN {} ELSE Providers]

\* every device is pinned under its name; none is; p2 has pinned none
MCPinned == [p \in Providers |-> [n \in Names |-> IF n = n3 THEN k3 ELSE k1]]
MCUnpinned == [p \in Providers |-> [n \in Names |-> None]]
MCPinnedButP2 == [MCPinned EXCEPT ![p2] = [n \in Names |-> None]]

\* ephemeral keys are fresh, and nothing else is told of them
Interchangeable == Permutations(Ephemerals)

\* Everything but what the relay has told each client: no step reads it.
WithoutHistory == <<auth, revoked, link, receivers, target, provider, up, net, app, pinned, rx>>

\* The user leaves the window only while a key is held: else it never matters.
\* An attempt to connect fails only if the window has taken all events.
StaysFocused ==
    \A p \in Providers :
        /\ app[p].pressed = {} => ~ (OnFocusOut(p) /\ up' # up)
        /\ net[p].events # << >> => ~ NetFails(p)

\* The user picks and stops only while no earlier request for a receiver is
\* unanswered: what goes wrong otherwise is what PickWins shows.
Answered(p) == /\ \A i \in 1..Len(up[p]) : up[p][i].type # "select"
               /\ \A i \in 1..Len(link[p].queue) : link[p].queue[i].type # "selected"
PatientUser ==
    /\ StaysFocused
    /\ \A p \in Providers :
          rx' = rx /\ ((\E n \in Names : OnPick(p, n)) \/ OnStop(p)) => Answered(p)

\* r3, which refuses everybody, reads what it is told, or loses its connection,
\* before anything else happens.
PromptRefusal ==
    /\ StaysFocused
    /\ link[r3].queue # << >> => link'[r3].queue # link[r3].queue \/ rx'[r3] # rx[r3]

\* p1 may be so slow that its queue overflows, and no other client.  It reads nothing more of a
\* connection that the relay has closed, and with a receiver picked it then stays away.
SlowProvider ==
    /\ StaysFocused
    /\ \A x \in Peers \ {p1} : link'[x].state # "closed"
    /\ link[p1].state = "closed" => ~ Poll(p1, Held)
    /\ app[p1].desired # None => ~ NetConnects(p1)

Backlog(counted) == /\ \A x \in Peers : Len(up[x]) <= MaxUp + 1
                    /\ MapThenSumSet(LAMBDA x : Len(up[x]) + counted[x], Peers) <= MaxBacklog

Bounded == Backlog([x \in Peers |-> Len(link[x].queue)])

\* A full queue leaves room for one more request or message, and a closed one for two:
\* so that something else happens when it overflows, and afterwards.
BoundedButFull == Backlog([x \in Peers |-> CASE link[x].state = "closed" -> 1
                                             [] Len(link[x].queue) >= MaxQueue -> MaxBacklog - 1
                                             [] OTHER -> Len(link[x].queue)])
=============================================================================
