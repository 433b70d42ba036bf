----------------------------- MODULE MCGateway -----------------------------
(***************************************************************************)
(* A small gateway.  r1 and r2 are connections of one device, r3 is        *)
(* another device.                                                         *)
(***************************************************************************)
EXTENDS GatewayRelay, FiniteSetsExt, TLC

CONSTANTS p1, r1, r2, r3, kp, k1, k3, n1, n3, c, b1, b2, e1, e2, e3,
          MaxBacklog \* bound on the requests and messages under way

MCKeyOf == [x \in Peers |-> IF x \in Providers THEN kp ELSE IF x = r3 THEN k3 ELSE k1]

MCFileName == [k \in Keys |-> IF k = k3 THEN n3 ELSE n1]

MCNoCustom == [x \in Peers |-> None]

MCPayloads == Blobs

MCOf == [b \in Browsers |-> p1]

\* every receiver has the gateway's key in its folder
MCAllows == [r \in Receivers |-> Providers]

\* ephemeral keys are fresh, and nothing else is told of them; one page is like
\* another
Interchangeable == Permutations(Ephemerals) \cup Permutations(Browsers)

\* Everything but what the relay has told each client: no step reads it.
WithoutHistory == <<auth, revoked, link, receivers, target, provider, up, gw, page, rx>>

\* A page closes, or releases all keys, only while a key is held: else it changes
\* nothing.  One that has closed is opened again before anything else happens, as
\* if another page were always open.  Keys do not repeat.
PagesReopen ==
    \A b \in Browsers :
        /\ page[b].open \/ page'[b].open
        /\ page[b].held = {} => page'[b].open
        /\ Len(up'[Of[b]]) > Len(up[Of[b]]) =>
              /\ page[b].held = {} => ~ PageReleases(b)
              /\ \A k \in KeyCodes : ~ PageKey(b, k, k \in page[b].held)

\* r3 is online from the start, as soon as a page is open, and reads at once what
\* it is told.
R3Online == /\ rx[r3].connected \/ rx'[r3].connected \/ \E b \in Browsers : ~ page[b].open
            /\ link[r3].queue = << >> \/ link'[r3].queue # link[r3].queue

Bounded == /\ \A x \in Peers : Len(up[x]) <= MaxUp + 1
           /\ MapThenSumSet(LAMBDA x : Len(up[x]) + Len(link[x].queue), Peers) <= MaxBacklog
=============================================================================
