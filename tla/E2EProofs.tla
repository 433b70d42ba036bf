----------------------------- MODULE E2EProofs -----------------------------
(***************************************************************************)
(* Proofs about end-to-end sessions, for any number of providers,          *)
(* receivers, sessions and messages, and whatever the network does.        *)
(*                                                                         *)
(* The argument: ephemeral keys are numbered in the order they are made,   *)
(* so a session of provider p is an interval, from p's ephemeral key to    *)
(* the receiver's.  p seals in a session only while its ephemeral key is   *)
(* p's last, so the intervals of p's sessions that carry messages are      *)
(* disjoint; and a receiver's own ephemeral keys only grow.  A receiver    *)
(* that opened a message of one interval can never get back to an earlier. *)
(***************************************************************************)
EXTENDS E2ESession, SequenceTheorems, TLAPS

Cts == {m \in net : m.step = 3}

\* Handshakes carry ephemeral keys that have been made, the receiver's after
\* the provider's it answers.
Handshakes ==
    /\ \A p \in Providers : prov[p].eph <= made
    /\ \A m \in net : m.step = 1 => m.epk <= prov[m.pub].eph
    /\ \A m \in net : m.step = 2 => m.signed[2] < m.epk /\ m.epk <= made

\* A provider has keys for its last ephemeral key only.
ProviderKeys ==
    \A p \in Providers :
        /\ prov[p].key # None => /\ prov[p].key.provider = p
                                 /\ prov[p].key.pepk = prov[p].eph
                                 /\ prov[p].key.pepk < prov[p].key.repk
                                 /\ prov[p].key.repk <= made

\* A message was sealed in the provider's present session, or in one that was
\* over when the provider made its present ephemeral key.
Intervals ==
    \A m \in Cts :
        LET k == m.key
            s == prov[k.provider]
        IN  /\ k.pepk < k.repk /\ k.repk <= made
            /\ \/ k = s.key /\ k.pepk = s.eph /\ m.counter < s.sent
               \/ k.repk < s.eph

\* The intervals of one provider's sessions are disjoint.
Disjoint ==
    \A m, n \in Cts : m.key.provider = n.key.provider =>
        \/ m.key = n.key
        \/ m.key.repk < n.key.pepk
        \/ n.key.repk < m.key.pepk

\* A receiver's key is its own, of an authorized provider, and its counter is
\* one past a message of that session.
ReceiverKeys ==
    \A r \in Receivers : recv[r].key # None =>
        /\ recv[r].key.receiver = r
        /\ recv[r].key.provider \in Authorized[r]
        /\ recv[r].key.repk <= made
        /\ recv[r].next = 0 \/ \E m \in Cts : m.key = recv[r].key /\ recv[r].next = m.counter + 1

\* What a receiver has opened is behind its present session and counter.
Behind ==
    \A r \in Receivers : \A i \in DOMAIN typed[r] :
        /\ typed[r][i] \in Cts
        /\ recv[r].key # None => \/ typed[r][i].key.repk < recv[r].key.repk
                                 \/ typed[r][i].key = recv[r].key /\ typed[r][i].counter < recv[r].next

Inv == /\ Handshakes /\ ProviderKeys /\ Intervals /\ Disjoint /\ ReceiverKeys /\ Behind
       /\ TypedInOrder /\ NextIsOpened /\ TypedIsAuthorized

-----------------------------------------------------------------------------
\* Every variable keeps its type.
THEOREM E2ETypeCorrect == Spec => []E2ETypeOK
<1>1. Init => E2ETypeOK
  BY EmptySeq DEF Init, E2ETypeOK, NewSession
<1>2. E2ETypeOK /\ [Next]_e2evars => E2ETypeOK'
  <2> SUFFICES ASSUME E2ETypeOK, [Next]_e2evars
               PROVE  E2ETypeOK'
    OBVIOUS
  <2> DEFINE Sessions == [eph : Nat, live : BOOLEAN, key : SessionKeys \cup {None}, sent : Nat]
  <2> USE DEF E2ETypeOK
  <2>1. ASSUME NEW p \in Providers, Hello(p)
        PROVE  E2ETypeOK'
    <3>1. made + 1 \in Nat
      OBVIOUS
    <3>2. net' \in SUBSET Blobs
      BY <2>1, <3>1 DEF Hello, Hs1, Blobs
    <3>3. NewSession(made + 1, TRUE) \in Sessions
      BY <3>1 DEF NewSession
    <3> QED
      BY <2>1, <3>1, <3>2, <3>3 DEF Hello
  <2>2. ASSUME NEW p \in Providers, Encrypt(p)
        PROVE  E2ETypeOK'
    <3>1. net' \in SUBSET Blobs
      BY <2>2 DEF Ct, Blobs, Encrypt
    <3>2. [prov[p] EXCEPT !.sent = @ + 1] \in Sessions
      <4>1. prov[p] \in Sessions
        OBVIOUS
      <4>2. prov[p].sent + 1 \in Nat
        BY <4>1
      <4> QED
        BY <4>1, <4>2
    <3>3. prov' \in [Providers -> Sessions]
      BY <2>2, <3>2 DEF Encrypt
    <3> QED
      BY <2>2, <3>1, <3>3 DEF Encrypt
  <2>3. ASSUME NEW p \in Providers, ProviderDrops(p)
        PROVE  E2ETypeOK'
    BY <2>3 DEF ProviderDrops
  <2>4. ASSUME NEW p \in Providers, NEW m \in net, Finish(p, m)
        PROVE  E2ETypeOK'
    <3>1. Key(p, prov[p].eph, m.pub, m.epk) \in SessionKeys
      BY <2>4 DEF Finish, Key, SessionKeys, Blobs
    <3>2. prov' \in [Providers -> Sessions]
      <4>1. /\ [prov[p] EXCEPT !.key = Key(p, prov[p].eph, m.pub, m.epk)] \in Sessions
            /\ [prov[p] EXCEPT !.live = FALSE] \in Sessions
        BY <3>1
      <4>2. \/ prov' = [prov EXCEPT ![p] = [prov[p] EXCEPT !.key = Key(p, prov[p].eph, m.pub, m.epk)]]
            \/ prov' = [prov EXCEPT ![p] = [prov[p] EXCEPT !.live = FALSE]]
        BY <2>4 DEF Finish
      <4> QED
        BY <4>1, <4>2
    <3> QED
      BY <2>4, <3>2 DEF Finish
  <2>5. ASSUME NEW r \in Receivers, ReceiverDrops(r)
        PROVE  E2ETypeOK'
    BY <2>5 DEF ReceiverDrops
  <2>6. ASSUME NEW r \in Receivers, NEW m \in net, Accept(r, m)
        PROVE  E2ETypeOK'
    <3>1. /\ Key(m.pub, m.epk, r, made + 1) \in SessionKeys
          /\ Hs2(r, made + 1, m.pub, m.epk) \in Blobs
      BY <2>6 DEF Accept, Trusts, Key, Hs2, SessionKeys, Blobs
    <3>2. recv' \in [Receivers -> [key : SessionKeys \cup {None}, next : Nat]]
      <4>1. /\ [key |-> Key(m.pub, m.epk, r, made + 1), next |-> 0]
                 \in [key : SessionKeys \cup {None}, next : Nat]
            /\ [key |-> None, next |-> 0] \in [key : SessionKeys \cup {None}, next : Nat]
        BY <3>1
      <4> QED
        BY <2>6, <4>1 DEF Accept, ReceiverEph
    <3>3. net' \in SUBSET Blobs
      BY <2>6, <3>1 DEF Accept, ReceiverEph
    <3>4. made' \in Nat /\ UNCHANGED <<prov, typed>>
      BY <2>6 DEF Accept
    <3> QED
      BY <3>2, <3>3, <3>4
  <2>7. ASSUME NEW r \in Receivers, NEW m \in net, Decrypt(r, m)
        PROVE  E2ETypeOK'
    <3>1. m \in [step : {3}, key : SessionKeys, counter : Nat]
      BY <2>7 DEF Decrypt, Blobs
    <3>2. Append(typed[r], m) \in Seq([step : {3}, key : SessionKeys, counter : Nat])
      BY <3>1, AppendProperties
    <3>3. recv' \in [Receivers -> [key : SessionKeys \cup {None}, next : Nat]]
      <4>1. [recv[r] EXCEPT !.next = m.counter + 1] \in [key : SessionKeys \cup {None}, next : Nat]
        <5>1. recv[r] \in [key : SessionKeys \cup {None}, next : Nat]
          OBVIOUS
        <5>2. m.counter + 1 \in Nat
          BY <3>1
        <5> QED
          BY <5>1, <5>2
      <4> QED
        BY <2>7, <4>1 DEF Decrypt, NextCounter
    <3>4. typed' \in [Receivers -> Seq([step : {3}, key : SessionKeys, counter : Nat])]
      BY <2>7, <3>2 DEF Decrypt
    <3> QED
      BY <2>7, <3>3, <3>4 DEF Decrypt
  <2>8. CASE UNCHANGED e2evars
    BY <2>8 DEF e2evars
  <2> QED
    BY <2>1, <2>2, <2>3, <2>4, <2>5, <2>6, <2>7, <2>8 DEF Next
<1> QED
  BY <1>1, <1>2, PTL DEF Spec

-----------------------------------------------------------------------------
\* What a blob of each kind is made of.
LEMMA BlobTypes ==
    ASSUME E2ETypeOK
    PROVE  /\ \A m \in net : m.step = 1 => m.pub \in Providers /\ m.epk \in Nat
           /\ \A m \in net : m.step = 2 => m.pub \in Receivers /\ m.signed \in Providers \X Nat /\ m.epk \in Nat
           /\ \A m \in Cts : /\ m.key \in SessionKeys /\ m.key # None /\ m.counter \in Nat
                             /\ m.key.provider \in Providers
                             /\ m.key.pepk \in Nat /\ m.key.repk \in Nat
<1>1. \A m \in net : m \in Blobs
  BY DEF E2ETypeOK
<1>2. \A m \in net : m.step = 1 => m.pub \in Providers /\ m.epk \in Nat
  BY <1>1 DEF Blobs
<1>3. \A m \in net : m.step = 2 => m.pub \in Receivers /\ m.signed \in Providers \X Nat /\ m.epk \in Nat
  BY <1>1 DEF Blobs
<1>4. \A m \in Cts : m.key \in SessionKeys /\ m.counter \in Nat
  BY <1>1 DEF Cts, Blobs
<1> QED
  BY <1>2, <1>3, <1>4, E2EAssumption DEF SessionKeys

\* What the fields of the session objects are.
LEMMA FieldTypes ==
    ASSUME E2ETypeOK
    PROVE  /\ made \in Nat
           /\ \A p \in Providers :
                 /\ prov[p].eph \in Nat /\ prov[p].sent \in Nat
                 /\ prov[p].key # None => prov[p].key.pepk \in Nat /\ prov[p].key.repk \in Nat
           /\ \A r \in Receivers :
                 /\ recv[r].next \in Nat
                 /\ recv[r].key # None => recv[r].key.pepk \in Nat /\ recv[r].key.repk \in Nat
BY DEF E2ETypeOK, SessionKeys

\* A new session: every message sealed so far is of a session that is over.
LEMMA HelloStep ==
    ASSUME E2ETypeOK, Inv, NEW p \in Providers, Hello(p)
    PROVE  Inv'
<1> USE DEF Inv
<1>1. /\ made' = made + 1 /\ made \in Nat
      /\ net' = net \cup {Hs1(p, made + 1)}
      /\ UNCHANGED <<recv, typed>>
  BY DEF Hello, E2ETypeOK
<1>2. Cts' = Cts
  BY <1>1 DEF Cts, Hs1
<1>3. /\ prov'[p].eph = made + 1 /\ prov'[p].key = None
      /\ \A q \in Providers : q # p => prov'[q] = prov[q]
  BY DEF Hello, NewSession, E2ETypeOK
<1>4. Handshakes'
  <2>1. \A q \in Providers : prov'[q].eph <= made' /\ prov[q].eph <= prov'[q].eph
    BY <1>1, <1>3, FieldTypes DEF Handshakes
  <2>2. \A m \in net : m.step = 1 => m.epk <= prov'[m.pub].eph
    BY <2>1, <1>1, <1>3, BlobTypes, FieldTypes DEF Handshakes
  <2>3. \A m \in net : m.step = 2 => m.signed[2] < m.epk /\ m.epk <= made'
    BY <1>1, BlobTypes DEF Handshakes
  <2> QED
    BY <2>1, <2>2, <2>3, <1>1, <1>3 DEF Handshakes, Hs1
<1>5. ProviderKeys'
  <2>1. \A q \in Providers : prov'[q].key # None => q # p /\ prov'[q] = prov[q]
    BY <1>3
  <2> QED
    BY <2>1, <1>1, FieldTypes DEF ProviderKeys
<1>6. Intervals'
  <2> SUFFICES ASSUME NEW m \in Cts
               PROVE  LET k == m.key
                          s == prov'[k.provider]
                      IN  /\ k.pepk < k.repk /\ k.repk <= made'
                          /\ \/ k = s.key /\ k.pepk = s.eph /\ m.counter < s.sent
                             \/ k.repk < s.eph
    BY <1>2 DEF Intervals
  <2>1. m.key.pepk < m.key.repk /\ m.key.repk < made + 1
    BY <1>1, BlobTypes DEF Intervals
  <2>2. CASE m.key.provider = p
    BY <2>1, <2>2, <1>1, <1>3, BlobTypes
  <2>3. CASE m.key.provider # p
    BY <2>1, <2>3, <1>1, <1>3, BlobTypes DEF Intervals
  <2> QED
    BY <2>2, <2>3
<1>7. Disjoint' /\ Behind' /\ TypedInOrder'
  BY <1>1, <1>2 DEF Disjoint, Behind, TypedInOrder, SealedBefore
<1>8. ReceiverKeys'
  BY <1>1, <1>2, FieldTypes DEF ReceiverKeys
<1>9. NextIsOpened' /\ TypedIsAuthorized'
  BY <1>1, <1>3 DEF NextIsOpened, TypedIsAuthorized
<1> QED
  BY <1>4, <1>5, <1>6, <1>7, <1>8, <1>9

\* A new message belongs to the provider's present session.
LEMMA EncryptStep ==
    ASSUME E2ETypeOK, Inv, NEW p \in Providers, Encrypt(p)
    PROVE  Inv'
<1> USE DEF Inv
<1> DEFINE n == Ct(prov[p].key, prov[p].sent)
<1>1. /\ prov[p].key # None /\ net' = net \cup {n}
      /\ prov' = [prov EXCEPT ![p].sent = @ + 1]
      /\ UNCHANGED <<made, recv, typed>>
  BY DEF Encrypt
<1>2. /\ Cts' = Cts \cup {n}
      /\ n.key = prov[p].key /\ n.counter = prov[p].sent /\ n.key.provider = p
  BY <1>1 DEF Cts, Ct, ProviderKeys
<1>3. /\ \A q \in Providers : prov'[q].key = prov[q].key /\ prov'[q].eph = prov[q].eph
      /\ prov'[p].sent = prov[p].sent + 1 /\ prov[p].sent \in Nat
      /\ \A q \in Providers \ {p} : prov'[q] = prov[q]
  BY <1>1 DEF E2ETypeOK
<1>4. Handshakes'
  BY <1>1, <1>3 DEF Handshakes, Ct
<1>5. ProviderKeys'
  BY <1>1, <1>3 DEF ProviderKeys
<1>6. Intervals'
  <2> SUFFICES ASSUME NEW m \in Cts'
               PROVE  LET k == m.key
                          s == prov'[k.provider]
                      IN  /\ k.pepk < k.repk /\ k.repk <= made'
                          /\ \/ k = s.key /\ k.pepk = s.eph /\ m.counter < s.sent
                             \/ k.repk < s.eph
    BY DEF Intervals
  <2>1. CASE m = n
    BY <2>1, <1>1, <1>2, <1>3 DEF ProviderKeys
  <2>2. CASE m \in Cts
    BY <2>2, <1>1, <1>3, BlobTypes DEF Intervals
  <2> QED
    BY <2>1, <2>2, <1>2
<1>7. Disjoint'
  <2>1. \A m \in Cts : m.key.provider = p => m.key = n.key \/ m.key.repk < n.key.pepk
    BY <1>1, <1>2 DEF Intervals, ProviderKeys
  <2> QED
    BY <1>2, <2>1 DEF Disjoint
<1>8. ReceiverKeys'
  BY <1>1, <1>2 DEF ReceiverKeys
<1>9. Behind' /\ TypedInOrder' /\ TypedIsAuthorized'
  BY <1>1, <1>2 DEF Behind, TypedInOrder, SealedBefore, TypedIsAuthorized
<1>10. NextIsOpened'
  BY <1>1, <1>3 DEF NextIsOpened, E2ETypeOK
<1> QED
  BY <1>4, <1>5, <1>6, <1>7, <1>8, <1>9, <1>10

\* Nothing has been sealed or opened under a key that is new to the provider.
LEMMA FinishStep ==
    ASSUME E2ETypeOK, Inv, NEW p \in Providers, NEW m \in net, Finish(p, m)
    PROVE  Inv'
<1> USE DEF Inv
<1> DEFINE k == Key(p, prov[p].eph, m.pub, m.epk)
<1>1. /\ prov[p].key = None
      /\ m.step = 2
      /\ UNCHANGED <<made, recv, net, typed>>
      /\ \/ m.signed = <<p, prov[p].eph>> /\ prov' = [prov EXCEPT ![p].key = k]
         \/ prov' = [prov EXCEPT ![p].live = FALSE]
  BY DEF Finish
<1>2. /\ \A q \in Providers : prov'[q].eph = prov[q].eph /\ prov'[q].sent = prov[q].sent
      /\ \A q \in Providers \ {p} : prov'[q].key = prov[q].key
      /\ \/ prov'[p].key = None
         \/ prov'[p].key = k /\ m.signed = <<p, prov[p].eph>>
  <2>1. CASE m.signed = <<p, prov[p].eph>> /\ prov' = [prov EXCEPT ![p].key = k]
    BY <2>1 DEF E2ETypeOK
  <2>2. CASE prov' = [prov EXCEPT ![p].live = FALSE]
    <3>1. \A q \in Providers : q # p => prov'[q] = prov[q]
      BY <2>2 DEF E2ETypeOK
    <3>2. prov'[p] = [prov[p] EXCEPT !.live = FALSE]
      BY <2>2 DEF E2ETypeOK
    <3>3. prov'[p].eph = prov[p].eph /\ prov'[p].sent = prov[p].sent /\ prov'[p].key = prov[p].key
      BY <3>2 DEF E2ETypeOK
    <3>4. prov[p].key = None
      BY <1>1
    <3> QED
      BY <3>1, <3>3, <3>4
  <2> QED
    BY <2>1, <2>2, <1>1
<1>3. Cts' = Cts
  BY <1>1 DEF Cts
<1>4. /\ k.provider = p /\ k.pepk = prov[p].eph /\ k.repk = m.epk
      /\ m.signed = <<p, prov[p].eph>> => k.pepk < k.repk /\ k.repk <= made
  BY <1>1 DEF Key, Handshakes
<1>5. \A c \in Cts : c.key.provider = p => c.key.repk < prov[p].eph
  BY <1>1, BlobTypes DEF Intervals
<1>6. Handshakes' /\ ProviderKeys'
  <2>1. Handshakes'
    BY <1>1, <1>2, BlobTypes DEF Handshakes
  <2>2. ProviderKeys'
    BY <1>1, <1>2, <1>4 DEF ProviderKeys
  <2> QED
    BY <2>1, <2>2
<1>7. Intervals'
  BY <1>1, <1>2, <1>3, <1>5, BlobTypes DEF Intervals
<1>8. Disjoint' /\ ReceiverKeys' /\ Behind' /\ TypedInOrder' /\ TypedIsAuthorized'
  BY <1>1, <1>3 DEF Disjoint, ReceiverKeys, Behind, TypedInOrder, SealedBefore, TypedIsAuthorized
<1>9. ASSUME NEW r \in Receivers, prov'[p].key = k, m.signed = <<p, prov[p].eph>>, k = recv[r].key
      PROVE  recv[r].next = 0
  <2> SUFFICES ASSUME NEW c \in Cts, c.key = k
               PROVE  FALSE
    <3>1. k # None
      <4>1. k \in SessionKeys
        BY <1>1, BlobTypes, FieldTypes DEF Key, SessionKeys
      <4> QED
        BY <4>1, E2EAssumption
    <3> QED
      BY <3>1, <1>9 DEF ReceiverKeys
  <2>1. k.repk < prov[p].eph /\ k.pepk < k.repk /\ k.pepk = prov[p].eph
    BY <1>4, <1>5, <1>9
  <2> QED
    BY <2>1, BlobTypes
<1>10. NextIsOpened'
  <2> SUFFICES ASSUME NEW q \in Providers, NEW r \in Receivers,
                      prov'[q].key # None, prov'[q].key = recv[r].key
               PROVE  recv[r].next <= prov[q].sent
    BY <1>1, <1>2 DEF NextIsOpened
  <2>1. CASE q # p
    BY <2>1, <1>2 DEF NextIsOpened
  <2>2. CASE q = p
    BY <2>2, <1>2, <1>9, FieldTypes
  <2> QED
    BY <2>1, <2>2
<1> QED
  BY <1>6, <1>7, <1>8, <1>10

\* A receiver's new key is later than all it has opened messages under.
LEMMA AcceptStep ==
    ASSUME E2ETypeOK, Inv, NEW r \in Receivers, NEW m \in net, Accept(r, m)
    PROVE  Inv'
<1> USE DEF Inv
<1> DEFINE k == Key(m.pub, m.epk, r, made + 1)
<1>1. /\ made' = made + 1 /\ made \in Nat
      /\ m.step = 1
      /\ UNCHANGED <<prov, typed>>
      /\ \/ recv'[r].key = None
         \/ recv'[r].key = k /\ m.pub \in Authorized[r]
      /\ recv'[r].next = 0
      /\ \A q \in Receivers : q # r => recv'[q] = recv[q]
  BY DEF Accept, Trusts, ReceiverEph, E2ETypeOK
<1>2. net' = net \/ net' = net \cup {Hs2(r, made + 1, m.pub, m.epk)}
  BY DEF Accept, ReceiverEph
<1>3. Cts' = Cts
  BY <1>2 DEF Cts, Hs2
<1>4. m.pub \in Providers /\ m.epk \in Nat /\ m.epk < made + 1
  BY <1>1, BlobTypes, FieldTypes DEF Handshakes
<1>5. k \in SessionKeys /\ k # None /\ k.provider = m.pub /\ k.receiver = r /\ k.repk = made + 1
  BY <1>1, <1>4, E2EAssumption DEF Key, SessionKeys
<1>6. Handshakes'
  <2>1. \A p \in Providers : prov'[p].eph <= made'
    BY <1>1, FieldTypes DEF Handshakes
  <2>2. \A n \in net : n.step = 2 => n.signed[2] < n.epk /\ n.epk <= made'
    BY <1>1, BlobTypes DEF Handshakes
  <2>3. \A n \in net' \ net : n.step = 2 /\ n.signed[2] < n.epk /\ n.epk <= made'
    BY <1>1, <1>2, <1>4 DEF Hs2
  <2> QED
    BY <1>1, <2>1, <2>2, <2>3 DEF Handshakes
<1>7. ProviderKeys'
  BY <1>1, FieldTypes DEF ProviderKeys
<1>8. Intervals' /\ Disjoint'
  BY <1>1, <1>3, BlobTypes DEF Intervals, Disjoint
<1>9. ReceiverKeys'
  <2>1. \A q \in Receivers : q # r => (recv[q].key # None => recv[q].key.repk <= made')
    BY <1>1, FieldTypes DEF ReceiverKeys
  <2> QED
    BY <1>1, <1>3, <1>5, <2>1 DEF ReceiverKeys
<1>10. Behind'
  <2>1. \A i \in DOMAIN typed[r] : typed[r][i].key.repk < made + 1
    BY <1>1, BlobTypes DEF Behind, Intervals
  <2> QED
    BY <1>1, <1>3, <1>5, <2>1 DEF Behind
<1>11. TypedInOrder' /\ TypedIsAuthorized'
  BY <1>1, <1>2 DEF TypedInOrder, SealedBefore, TypedIsAuthorized
<1>12. NextIsOpened'
  BY <1>1, FieldTypes DEF NextIsOpened
<1> QED
  BY <1>6, <1>7, <1>8, <1>9, <1>10, <1>11, <1>12

\* What the receiver opens was sealed after all it opened of that provider.
LEMMA DecryptStep ==
    ASSUME E2ETypeOK, Inv, NEW r \in Receivers, NEW m \in net, Decrypt(r, m)
    PROVE  Inv'
<1> USE DEF Inv
<1>1. /\ m \in Cts /\ m.key = recv[r].key /\ recv[r].next <= m.counter
      /\ UNCHANGED <<made, prov, net>>
      /\ recv'[r].key = m.key /\ recv'[r].next = m.counter + 1
      /\ \A q \in Receivers : q # r => recv'[q] = recv[q]
  BY DEF Decrypt, Opens, NextCounter, Cts, E2ETypeOK
<1>2. /\ typed' = [typed EXCEPT ![r] = Append(@, m)]
      /\ Cts' = Cts
  BY <1>1 DEF Decrypt, Cts
<1>3. m.key # None /\ m.counter \in Nat /\ m.key.repk \in Nat
  BY <1>1, BlobTypes
<1>4. /\ \A q \in Receivers : q # r => typed'[q] = typed[q]
      /\ DOMAIN typed'[r] = 1..(Len(typed[r]) + 1)
      /\ Len(typed[r]) \in Nat /\ DOMAIN typed[r] = 1..Len(typed[r])
      /\ \A i \in DOMAIN typed[r] : typed'[r][i] = typed[r][i]
      /\ typed'[r][Len(typed[r]) + 1] = m
  <2>1. typed[r] \in Seq([step : {3}, key : SessionKeys, counter : Nat])
    BY DEF E2ETypeOK
  <2>2. m \in [step : {3}, key : SessionKeys, counter : Nat]
    BY <1>1 DEF E2ETypeOK, Cts, Blobs
  <2>3. typed'[r] = Append(typed[r], m) /\ \A q \in Receivers : q # r => typed'[q] = typed[q]
    BY <1>2 DEF E2ETypeOK
  <2> QED
    BY <2>1, <2>2, <2>3, AppendProperties, LenProperties
<1>5. Handshakes' /\ ProviderKeys' /\ Intervals' /\ Disjoint'
  BY <1>1, <1>2 DEF Handshakes, ProviderKeys, Intervals, Disjoint
<1>6. ReceiverKeys'
  BY <1>1, <1>2, <1>3 DEF ReceiverKeys
<1>7. Behind'
  <2>1. ASSUME NEW i \in DOMAIN typed[r]
        PROVE  /\ typed[r][i] \in Cts
               /\ \/ typed[r][i].key.repk < m.key.repk
                  \/ typed[r][i].key = m.key /\ typed[r][i].counter < m.counter + 1
    BY <2>1, <1>1, <1>3, BlobTypes, FieldTypes DEF Behind
  <2>2. ASSUME NEW i \in DOMAIN typed'[r]
        PROVE  /\ typed'[r][i] \in Cts
               /\ \/ typed'[r][i].key.repk < m.key.repk
                  \/ typed'[r][i].key = m.key /\ typed'[r][i].counter < m.counter + 1
    BY <2>1, <2>2, <1>1, <1>3, <1>4
  <2> QED
    BY <2>2, <1>1, <1>2, <1>4 DEF Behind
<1>8. ASSUME NEW i \in DOMAIN typed[r], typed[r][i].key.provider = m.key.provider
      PROVE  SealedBefore(typed[r][i], m)
  <2> DEFINE t == typed[r][i]
  <2>1. t \in Cts
    BY DEF Behind
  <2>2. CASE t.key = m.key /\ t.counter < recv[r].next
    BY <2>1, <2>2, <1>1, BlobTypes, FieldTypes DEF SealedBefore
  <2>3. CASE t.key.repk < m.key.repk
    <3>1. t.key # m.key /\ ~ (m.key.repk < t.key.pepk)
      BY <2>1, <2>3, <1>1, BlobTypes DEF Intervals
    <3>2. t.key.repk < m.key.pepk
      BY <3>1, <2>1, <1>1, <1>8 DEF Disjoint
    <3> QED
      BY <3>2, <2>1, <1>1, BlobTypes DEF SealedBefore, Intervals
  <2> QED
    BY <2>2, <2>3, <1>1, <1>3 DEF Behind
<1>9. TypedInOrder'
  <2> SUFFICES ASSUME NEW q \in Receivers, NEW i \in DOMAIN typed'[q], NEW j \in DOMAIN typed'[q],
                      i < j, typed'[q][i].key.provider = typed'[q][j].key.provider
               PROVE  SealedBefore(typed'[q][i], typed'[q][j])
    BY DEF TypedInOrder, SealedBefore
  <2>1. CASE q # r \/ j \in DOMAIN typed[r]
    BY <2>1, <1>4 DEF TypedInOrder
  <2>2. CASE q = r /\ j \notin DOMAIN typed[r]
    <3>1. j = Len(typed[r]) + 1 /\ i \in DOMAIN typed[r]
      BY <2>2, <1>4
    <3> QED
      BY <3>1, <2>2, <1>4, <1>8
  <2> QED
    BY <2>1, <2>2
<1>10. NextIsOpened'
  <2> SUFFICES ASSUME NEW p \in Providers, prov[p].key # None, prov[p].key = m.key
               PROVE  m.counter + 1 <= prov[p].sent
    BY <1>1 DEF NextIsOpened
  <2>1. m.key.provider = p /\ m.key.pepk = prov[p].eph /\ m.key.pepk < m.key.repk
    BY DEF ProviderKeys
  <2>2. m.counter < prov[p].sent
    BY <2>1, <1>1, BlobTypes, FieldTypes DEF Intervals
  <2> QED
    BY <2>2, <1>3, FieldTypes
<1>11. TypedIsAuthorized'
  BY <1>1, <1>2, <1>3, <1>4 DEF TypedIsAuthorized, ReceiverKeys, Cts
<1> QED
  BY <1>5, <1>6, <1>7, <1>9, <1>10, <1>11

\* Dropping a session disturbs nothing.
LEMMA DropsStep ==
    ASSUME E2ETypeOK, Inv,
           \/ \E p \in Providers : ProviderDrops(p)
           \/ \E r \in Receivers : ReceiverDrops(r)
           \/ UNCHANGED e2evars
    PROVE  Inv'
<1> USE DEF Inv
<1>1. /\ UNCHANGED <<made, net, typed>>
      /\ \A p \in Providers : /\ prov'[p].eph = prov[p].eph /\ prov'[p].sent = prov[p].sent
                              /\ prov'[p].key = prov[p].key
      /\ \A r \in Receivers : recv'[r] = recv[r] \/ recv'[r].key = None
  <2>1. ASSUME NEW p \in Providers, ProviderDrops(p)
        PROVE  /\ UNCHANGED <<made, net, typed, recv>>
               /\ \A q \in Providers : /\ prov'[q].eph = prov[q].eph /\ prov'[q].sent = prov[q].sent
                                       /\ prov'[q].key = prov[q].key
    <3>1. prov' = [prov EXCEPT ![p].live = FALSE] /\ UNCHANGED <<made, net, typed, recv>>
      BY <2>1 DEF ProviderDrops
    <3> QED
      BY <3>1 DEF E2ETypeOK
  <2>2. ASSUME NEW r \in Receivers, ReceiverDrops(r)
        PROVE  /\ UNCHANGED <<made, net, typed, prov>>
               /\ \A q \in Receivers : recv'[q] = recv[q] \/ recv'[q].key = None
    BY <2>2 DEF ReceiverDrops, E2ETypeOK
  <2> QED
    BY <2>1, <2>2 DEF e2evars
<1>2. Cts' = Cts
  BY <1>1 DEF Cts
<1>3. Handshakes' /\ ProviderKeys' /\ Intervals' /\ Disjoint'
  BY <1>1, <1>2, BlobTypes DEF Handshakes, ProviderKeys, Intervals, Disjoint
<1>4. ReceiverKeys' /\ Behind'
  BY <1>1, <1>2 DEF ReceiverKeys, Behind
<1>5. TypedInOrder' /\ NextIsOpened' /\ TypedIsAuthorized'
  BY <1>1 DEF TypedInOrder, SealedBefore, NextIsOpened, TypedIsAuthorized
<1> QED
  BY <1>3, <1>4, <1>5

-----------------------------------------------------------------------------
\* kbrelay_common.py, class Session: whatever the network loses, repeats or
\* reorders, a receiver opens a provider's messages in the order they were
\* sealed and none twice, across sessions; a session never gets stuck behind
\* its counter; and only authorized providers type.
THEOREM SessionsHold == Spec => [](TypedInOrder /\ NextIsOpened /\ TypedIsAuthorized)
<1>1. Init => Inv
  <2> SUFFICES ASSUME Init
               PROVE  Inv
    OBVIOUS
  <2>1. /\ \A p \in Providers : prov[p].eph = 0 /\ prov[p].key = None
        /\ \A r \in Receivers : recv[r].key = None /\ DOMAIN typed[r] = {}
        /\ net = {} /\ Cts = {} /\ made = 0
    BY DEF Init, NewSession, Cts
  <2> QED
    BY <2>1 DEF Inv, Handshakes, ProviderKeys, Intervals, Disjoint, ReceiverKeys, Behind,
                TypedInOrder, NextIsOpened, TypedIsAuthorized
<1>2. E2ETypeOK /\ Inv /\ [Next]_e2evars => Inv'
  BY HelloStep, EncryptStep, FinishStep, AcceptStep, DecryptStep, DropsStep DEF Next
<1>3. Inv => TypedInOrder /\ NextIsOpened /\ TypedIsAuthorized
  BY DEF Inv
<1> QED
  BY <1>1, <1>2, <1>3, E2ETypeCorrect, PTL DEF Spec
=============================================================================
