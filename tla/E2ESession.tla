----------------------------- MODULE E2ESession -----------------------------
(***************************************************************************)
(* End-to-end sessions (kbrelay_common.py, class Session) between          *)
(* providers and receivers across a network that may lose, duplicate,      *)
(* delay and reorder whatever is sent: what the relay and the connections  *)
(* guarantee (module Hub) is not relied on here.                           *)
(*                                                                         *)
(* Cryptography is symbolic: a signature is the claim it makes, a session  *)
(* key is named by what _derive mixes into it, the two identities and the  *)
(* two ephemeral keys, and only the two sessions that derived a key can    *)
(* seal or open under it.  Ephemeral keys are numbered in the order in     *)
(* which they are generated, so that no two are equal.                     *)
(***************************************************************************)
EXTENDS Naturals, Sequences

CONSTANTS Providers, Receivers,
          Authorized, \* the providers in each receiver's folder
          MaxKeys,    \* bound on the ephemeral keys generated
          MaxSealed,  \* bound on the messages sealed in one session
          None        \* Python's None

SessionKeys == [provider : Providers, pepk : Nat, receiver : Receivers, repk : Nat]

ASSUME E2EAssumption ==
    /\ Authorized \in [Receivers -> SUBSET Providers]
    /\ MaxKeys \in Nat /\ MaxSealed \in Nat
    /\ None \notin SessionKeys

VARIABLES made,  \* ephemeral keys generated so far, by anyone
          prov,  \* the session object of each provider
          recv,  \* the session object of each receiver
          net,   \* every blob sent so far: each may arrive any number of times
          typed  \* history: the messages each receiver has opened, in order

e2evars == <<made, prov, recv, net, typed>>

-----------------------------------------------------------------------------
\* _derive: the key of a session, and the blobs
Key(p, e, r, f) == [provider |-> p, pepk |-> e, receiver |-> r, repk |-> f]
Hs1(p, e) == [step |-> 1, pub |-> p, epk |-> e]
\* mutant: a receiver signs its own identity instead of the provider's
Hs2Misbound(r, f, p, e) == [step |-> 2, pub |-> r, epk |-> f, signed |-> <<r, e>>]
Hs2(r, f, p, e) == [step |-> 2, pub |-> r, epk |-> f, signed |-> <<p, e>>]
Ct(k, c) == [step |-> 3, key |-> k, counter |-> c]

\* A provider's session: its ephemeral key (the last one it generated, also
\* once the session is dropped), whether it is in use, its key, its counter.
NewSession(e, live) == [eph |-> e, live |-> live, key |-> None, sent |-> 0]

Init == /\ made = 0
        /\ prov = [p \in Providers |-> NewSession(0, FALSE)]
        /\ recv = [r \in Receivers |-> [key |-> None, next |-> 0]]
        /\ net = {}
        /\ typed = [r \in Receivers |-> << >>]

\* A provider that is attached to a receiver starts over with a new session.
Hello(p) ==
    /\ made < MaxKeys
    /\ made' = made + 1
    /\ prov' = [prov EXCEPT ![p] = NewSession(made + 1, TRUE)]
    /\ net' = net \cup {Hs1(p, made + 1)}
    /\ UNCHANGED <<recv, typed>>

\* mutant: one ephemeral key serves all sessions of a receiver
ReceiverEphFixed(r) == IF recv[r].key = None THEN made + 1 ELSE recv[r].key.repk

\* Every Session object generates its ephemeral key.
ReceiverEph(r) == made + 1

\* mutant: a receiver trusts the providers of every folder
TrustsAnyFolder(r, p) == p \in UNION {Authorized[s] : s \in Receivers}

\* The caller of accept looks the provider's key up in its own folder.
Trusts(r, p) == p \in Authorized[r]

\* A receiver drops the session it has and checks the handshake of a provider,
\* a repeated one too.
Accept(r, m) ==
    /\ made < MaxKeys
    /\ m \in net /\ m.step = 1
    /\ made' = made + 1
    /\ \/ /\ Trusts(r, m.pub)
          /\ recv' = [recv EXCEPT ![r] = [key |-> Key(m.pub, m.epk, r, ReceiverEph(r)), next |-> 0]]
          /\ net' = net \cup {Hs2(r, ReceiverEph(r), m.pub, m.epk)}
       \/ /\ ~ Trusts(r, m.pub)
          /\ recv' = [recv EXCEPT ![r] = [key |-> None, next |-> 0]]
          /\ UNCHANGED net
    /\ UNCHANGED <<prov, typed>>

\* A provider that waits for a reply checks the one it gets; a bad signature
\* ends the session.
Finish(p, m) ==
    /\ prov[p].live /\ prov[p].key = None
    /\ m \in net /\ m.step = 2
    /\ \/ /\ m.signed = <<p, prov[p].eph>>
          /\ prov' = [prov EXCEPT ![p].key = Key(p, prov[p].eph, m.pub, m.epk)]
       \/ /\ m.signed # <<p, prov[p].eph>>
          /\ prov' = [prov EXCEPT ![p].live = FALSE]
    /\ UNCHANGED <<made, recv, net, typed>>

Encrypt(p) ==
    /\ prov[p].live /\ prov[p].key # None
    /\ prov[p].sent < MaxSealed
    /\ net' = net \cup {Ct(prov[p].key, prov[p].sent)}
    /\ prov' = [prov EXCEPT ![p].sent = @ + 1]
    /\ UNCHANGED <<made, recv, typed>>

\* mutants: the counter is not checked; it is moved past the next message
OpensAnyCounter(r, m) == m.key = recv[r].key
NextSkips(m) == m.counter + 2

\* A receiver opens a message of its session that is not behind its counter;
\* anything else is an E2EError that leaves the session as it is.
Opens(r, m) == m.key = recv[r].key /\ m.counter >= recv[r].next
NextCounter(m) == m.counter + 1

Decrypt(r, m) ==
    /\ m \in net /\ m.step = 3
    /\ Opens(r, m)
    /\ recv' = [recv EXCEPT ![r].next = NextCounter(m)]
    /\ typed' = [typed EXCEPT ![r] = Append(@, m)]
    /\ UNCHANGED <<made, prov, net>>

\* Detached, disconnected, stopped: the session is dropped.
ProviderDrops(p) == /\ prov[p].live
                    /\ prov' = [prov EXCEPT ![p].live = FALSE]
                    /\ UNCHANGED <<made, recv, net, typed>>

ReceiverDrops(r) == /\ recv[r].key # None
                    /\ recv' = [recv EXCEPT ![r] = [key |-> None, next |-> 0]]
                    /\ UNCHANGED <<made, prov, net, typed>>

Next == \/ \E p \in Providers : \/ Hello(p) \/ Encrypt(p) \/ ProviderDrops(p)
                                \/ \E m \in net : Finish(p, m)
        \/ \E r \in Receivers : \/ ReceiverDrops(r)
                                \/ \E m \in net : Accept(r, m) \/ Decrypt(r, m)

Spec == Init /\ [][Next]_e2evars

-----------------------------------------------------------------------------
Blobs == [step : {1}, pub : Providers, epk : Nat]
           \cup [step : {2}, pub : Receivers, epk : Nat, signed : Providers \X Nat]
           \cup [step : {3}, key : SessionKeys, counter : Nat]

E2ETypeOK ==
    /\ made \in Nat
    /\ prov \in [Providers -> [eph : Nat, live : BOOLEAN, key : SessionKeys \cup {None}, sent : Nat]]
    /\ recv \in [Receivers -> [key : SessionKeys \cup {None}, next : Nat]]
    /\ net \in SUBSET Blobs
    /\ typed \in [Receivers -> Seq([step : {3}, key : SessionKeys, counter : Nat])]

\* a was sealed before b, by the same provider
SealedBefore(a, b) == \/ a.key.pepk < b.key.pepk
                      \/ a.key = b.key /\ a.counter < b.counter

\* kbrelay_common.py:164-165, nothing can be replayed or reordered: a receiver
\* opens what a provider sealed in the order in which it was sealed, and
\* nothing twice, within a session and across all sessions the two ever have.
TypedInOrder ==
    \A r \in Receivers : \A i, j \in DOMAIN typed[r] :
        i < j /\ typed[r][i].key.provider = typed[r][j].key.provider
            => SealedBefore(typed[r][i], typed[r][j])

\* Losing messages never wedges a session: while both ends hold its key, the
\* receiver's counter is not ahead of what the provider seals next.
NextIsOpened ==
    \A p \in Providers, r \in Receivers :
        prov[p].key # None /\ prov[p].key = recv[r].key => recv[r].next <= prov[p].sent

\* Only a provider in the receiver's folder types, and only what it sealed for
\* this receiver.
TypedIsAuthorized ==
    \A r \in Receivers : \A i \in DOMAIN typed[r] :
        /\ typed[r][i].key.provider \in Authorized[r]
        /\ typed[r][i].key.receiver = r
        /\ typed[r][i] \in net
=============================================================================
