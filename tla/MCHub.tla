------------------------------- MODULE MCHub -------------------------------
(***************************************************************************)
(* Small relays for TLC: two providers, and receiver connections of which  *)
(* r1 and r2 belong to one device (the same key), r3 to another.           *)
(***************************************************************************)
EXTENDS Hub, FiniteSetsExt, TLC

CONSTANTS p1, p2, r1, r2, r3, \* connections
          kp, k1, k3,         \* keys
          n1, n3,             \* names
          small, huge,        \* blobs
          MaxBacklog          \* bound on the undelivered messages of all peers together

MCKeyOf == [x \in Peers |-> IF x \in Providers THEN kp ELSE IF x = r3 THEN k3 ELSE k1]

MCFileName == [k \in Keys |-> IF k = k3 THEN n3 ELSE n1]

\* r2 asks for the name of the other device
MCCustom == [x \in Peers |-> IF x = r2 THEN n3 ELSE None]

\* nobody asks for a name of its own
MCNoCustom == [x \in Peers |-> None]

Backlog == MapThenSumSet(LAMBDA x : Len(link[x].queue), Peers) <= MaxBacklog

\* Everything but the messages.  They decide nothing about it except when a
\* full queue closes a connection, which WriterFails may do at any time: runs
\* of properties about Core need one state for all contents of the queues.
Core == <<auth, revoked, [x \in Peers |-> link[x].state], receivers, target, provider>>

Interchangeable == Permutations({p1, p2}) \cup Permutations({r1, r2})
=============================================================================
