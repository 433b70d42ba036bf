----------------------------- MODULE NewsProofs -----------------------------
(***************************************************************************)
(* What clients learn is what is the case (module Hub): each client is     *)
(* told of every change of its attachment, and what is forwarded to it     *)
(* stands between the right announcements.                                 *)
(***************************************************************************)
EXTENDS HubProofs

Link == [state : {"none", "open", "closed"}, queue : Seq(Message)]

\* ToldBy for any queue: who a client that believes in v believes in after the
\* first i messages of q.
Told(v, q, i, w) ==
    \/ /\ v = w
       /\ \A j \in 1..i : ~ Announces(q[j])
    \/ \E j \in 1..i : /\ Announces(q[j]) /\ q[j].who = w
                       /\ \A k \in (j+1)..i : ~ Announces(q[k])

After(v, m) == IF Announces(m) THEN m.who ELSE v

Sender(m) == IF m.from \in Receivers THEN Name(m.from) ELSE m.from

Context(v, q) == \A i \in 1..Len(q) : q[i].type = "e2e" => Told(v, q, i, Sender(q[i]))

\* What holds for a client with connection l that believes in v now, and that is
\* attached to w.
Informed(l, v, w) == /\ l.state = "open" => Told(v, l.queue, Len(l.queue), w)
                     /\ Context(v, l.queue)

AllInformed == \A x \in Peers : Informed(link[x], view[x].who, PartnerName(x))

-----------------------------------------------------------------------------
(* Queues.                                                                 *)

\* The messages behind the first i make no difference.
LEMMA ToldPrefix ==
    ASSUME NEW v, NEW w, NEW q, NEW s, NEW i \in Nat, \A j \in 1..i : s[j] = q[j], Told(v, q, i, w)
    PROVE  Told(v, s, i, w)
BY DEF Told

\* One more message is what it announces, or nothing.
LEMMA ToldNext ==
    ASSUME NEW v, NEW w, NEW q, NEW i \in Nat, Told(v, q, i, w)
    PROVE  Told(v, q, i + 1, After(w, q[i + 1]))
<1>1. CASE Announces(q[i + 1])
  <2>1. i + 1 \in 1..(i + 1) /\ \A k \in (i + 1 + 1)..(i + 1) : FALSE
    OBVIOUS
  <2> QED
    BY <1>1, <2>1 DEF Told, After
<1>2. CASE ~ Announces(q[i + 1])
  <2>1. \A k \in 1..(i + 1) : k \in 1..i \/ k = i + 1
    OBVIOUS
  <2>2. CASE v = w /\ \A j \in 1..i : ~ Announces(q[j])
    BY <1>2, <2>1, <2>2 DEF Told, After
  <2>3. ASSUME NEW j \in 1..i, Announces(q[j]), q[j].who = w, \A k \in (j+1)..i : ~ Announces(q[k])
        PROVE  Told(v, q, i + 1, After(w, q[i + 1]))
    <3>1. j \in 1..(i + 1) /\ \A k \in (j+1)..(i + 1) : k \in (j+1)..i \/ k = i + 1
      OBVIOUS
    <3>2. \A k \in (j+1)..(i + 1) : ~ Announces(q[k])
      BY <1>2, <2>3, <3>1
    <3> QED
      BY <1>2, <2>3, <3>1, <3>2 DEF Told, After
  <2> QED
    BY <2>2, <2>3 DEF Told
<1> QED
  BY <1>1, <1>2

\* A client that has consumed a message believes what it says.
LEMMA ToldTail ==
    ASSUME NEW v, NEW w, NEW q \in Seq(Message), q # << >>, NEW i \in 1..Len(q), Told(v, q, i, w)
    PROVE  Told(After(v, Head(q)), Tail(q), i - 1, w)
<1>1. /\ i - 1 \in Nat /\ 1 \in 1..i /\ Head(q) = q[1]
      /\ \A j \in 1..(i - 1) : Tail(q)[j] = q[j + 1] /\ j + 1 \in 1..i
  OBVIOUS
<1>2. CASE v = w /\ \A j \in 1..i : ~ Announces(q[j])
  BY <1>1, <1>2 DEF Told, After
<1>3. ASSUME NEW j \in 1..i, Announces(q[j]), q[j].who = w, \A k \in (j+1)..i : ~ Announces(q[k])
      PROVE  Told(After(v, Head(q)), Tail(q), i - 1, w)
  <2>1. CASE j = 1
    <3>1. \A k \in 1..(i - 1) : k + 1 \in (j+1)..i
      BY <2>1
    <3> QED
      BY <1>1, <1>3, <2>1, <3>1 DEF Told, After
  <2>2. CASE j # 1
    <3>1. j - 1 \in 1..(i - 1) /\ (j - 1) + 1 = j /\ \A k \in ((j - 1)+1)..(i - 1) : k \in 1..(i - 1) /\ k + 1 \in (j+1)..i
      BY <2>2
    <3>2. Announces(Tail(q)[j - 1]) /\ Tail(q)[j - 1].who = w
      BY <1>1, <1>3, <3>1
    <3>3. \A k \in ((j - 1)+1)..(i - 1) : ~ Announces(Tail(q)[k])
      BY <1>1, <1>3, <3>1
    <3> QED
      BY <3>1, <3>2, <3>3 DEF Told
  <2> QED
    BY <2>1, <2>2
<1> QED
  BY <1>2, <1>3 DEF Told

\* Sending keeps a client informed if the message says what is the case, or
\* leaves it as it was and comes from the partner if it is a blob.
LEMMA PutInformed ==
    ASSUME NEW l \in Link, NEW v, NEW w, NEW m \in Message, Informed(l, v, w),
           m.type = "e2e" => Sender(m) = w
    PROVE  Informed(Put(l, m), v, After(w, m))
<1>1. CASE Put(l, m) = l /\ l.state # "open"
  BY <1>1 DEF Informed
<1>2. CASE Put(l, m) = [l EXCEPT !.state = "closed"]
  BY <1>2 DEF Informed, Link
<1>3. CASE l.state = "open" /\ Put(l, m) = [l EXCEPT !.queue = Append(@, m)]
  <2> DEFINE q == l.queue
             s == Append(q, m)
  <2>0. Put(l, m).queue = s /\ Put(l, m).state = "open"
    BY <1>3 DEF Link
  <2>1. /\ q \in Seq(Message) /\ s \in Seq(Message)
        /\ Len(q) \in Nat /\ Len(s) = Len(q) + 1 /\ s[Len(q) + 1] = m
        /\ \A j \in 1..Len(q) : s[j] = q[j]
    BY AppendProperties DEF Link
  <2>2. Told(v, q, Len(q), w)
    BY <1>3 DEF Informed
  <2>3. Told(v, s, Len(q), w)
    BY <2>1, <2>2, ToldPrefix
  <2>4. Told(v, s, Len(s), After(w, m))
    <3> HIDE DEF q, s
    <3> QED
      BY <2>1, <2>3, ToldNext
  <2>5. ASSUME NEW i \in 1..Len(s), s[i].type = "e2e"
        PROVE  Told(v, s, i, Sender(s[i]))
    <3>1. CASE i \in 1..Len(q)
      <4>1. Told(v, q, i, Sender(q[i]))
        BY <2>1, <2>5, <3>1 DEF Informed, Context
      <4>2. s[i] = q[i] /\ i \in Nat /\ \A j \in 1..i : s[j] = q[j]
        BY <2>1, <3>1
      <4> QED
        BY <4>1, <4>2, ToldPrefix
    <3>2. CASE i = Len(s)
      <4>1. s[i] = m /\ ~ Announces(m)
        BY <2>1, <2>5, <3>2 DEF Announces
      <4> QED
        BY <2>4, <2>5, <3>2, <4>1 DEF After
    <3> QED
      BY <2>1, <3>1, <3>2
  <2> HIDE DEF s
  <2> QED
    BY <2>0, <2>4, <2>5 DEF Informed, Context
<1> QED
  BY <1>1, <1>2, <1>3 DEF Put, Link

\* Closing keeps a client informed of whatever is the case.
LEMMA CloseInformed ==
    ASSUME NEW l \in Link, NEW v, NEW w, NEW u, Informed(l, v, w)
    PROVE  Informed([l EXCEPT !.state = "closed"], v, u)
BY DEF Informed, Link
-----------------------------------------------------------------------------
(* The relay's steps.                                                      *)

\* Those a message is not for are as informed as before, those it is for are
\* informed of what it says.
LEMMA TellAt ==
    ASSUME NEW links, NEW S, NEW m, NEW x \in Peers
    PROVE  Tell(links, S, m)[x] = IF x \in S THEN Put(links[x], m) ELSE links[x]
BY DEF Tell

LEMMA SaysNothing ==
    /\ ~ Announces(Notice) /\ Notice.type # "e2e"
    /\ \A rs : ~ Announces(ReceiversMsg(rs)) /\ ReceiversMsg(rs).type # "e2e"
    /\ \A x, b : ~ Announces(E2E(x, b)) /\ E2E(x, b).from = x
BY DEF Announces, Notice, ReceiversMsg, E2E

LEMMA SaysWho ==
    /\ Announces(Detached) /\ Detached.who = None /\ Detached.type # "e2e"
    /\ \A n : Announces(Selected(n)) /\ Selected(n).who = n /\ Selected(n).type # "e2e"
    /\ \A p : Announces(Attached(p)) /\ Attached(p).who = p /\ Attached(p).type # "e2e"
BY DEF Announces, Detached, Selected, Attached

\* The list tells nobody of an attachment.
LEMMA BroadcastInformed ==
    ASSUME NEW links \in Links, NEW rs, NEW x \in Peers, NEW v, NEW w, Informed(links[x], v, w)
    PROVE  Informed(Broadcast(links, rs)[x], v, w)
<1>1. ReceiversMsg(rs) \in Message /\ links[x] \in Link
  BY MessageTypes DEF Links, Link
<1>2. Informed(Put(links[x], ReceiversMsg(rs)), v, w)
  BY <1>1, PutInformed, SaysNothing DEF After
<1> QED
  BY <1>2, TellAt DEF Broadcast

\* A client that hears Selected(None) or Detached knows it is alone.
LEMMA PutWho ==
    ASSUME NEW l \in Link, NEW v, NEW w, NEW u, NEW m \in Message, Informed(l, v, w),
           Announces(m), m.who = u
    PROVE  Informed(Put(l, m), v, u)
BY PutInformed DEF After, Announces

LEMMA NewLinkInformed == Informed(Accepted, None, None) /\ \A v, w : Informed(NoLink, v, w)
<1>1. Informed(Accepted, None, None)
  BY SaysNothing DEF Informed, Accepted, Told, Context
<1>2. \A v, w : Informed(NoLink, v, w)
  BY DEF Informed, NoLink, Context
<1> QED
  BY <1>1, <1>2

\* Who a peer is attached to.
LEMMA PartnerNames ==
    /\ \A p \in Providers : PartnerName(p) = IF target[p] = None THEN None ELSE Name(target[p])
    /\ \A r \in Receivers : PartnerName(r) = provider[r]
    /\ \A p \in Providers : PartnerName(p)' = IF target'[p] = None THEN None ELSE Name(target'[p])
    /\ \A r \in Receivers : PartnerName(r)' = provider'[r]
BY HubAssumption DEF PartnerName, Partner

\* Nobody is attached without a connection.
LEMMA AloneUnconnected ==
    ASSUME TypeOK, Attachments, NEW x \in Peers, link[x].state = "none"
    PROVE  PartnerName(x) = None
BY HubAssumption, PartnerNames DEF TypeOK, Attachments, AttachmentSymmetric, AttachedIsRegistered, Connected, Peers

\* A receiver's registration or departure: the providers it drops are told.
LEMMA DroppedInformed ==
    ASSUME TypeOK, Attachments, AllInformed, NEW R \in SUBSET Receivers, DetachReceivers(R),
           NEW links \in Links, NEW p \in Providers, links[p] = link[p]
    PROVE  Informed(Tell(links, Dropped(R), Selected(None))[p], view[p].who, PartnerName(p)')
<1> USE DEF Peers
<1>1. Informed(link[p], view[p].who, PartnerName(p)) /\ link[p] \in Link
  BY DEF AllInformed, TypeOK, Link
<1>2. CASE p \in Dropped(R)
  <2>1. PartnerName(p)' = None
    BY <1>2, PartnerNames DEF DetachReceivers
  <2>2. Selected(None) \in Message
    BY MessageTypes
  <2> QED
    BY <1>1, <1>2, <2>1, <2>2, PutWho, SaysWho, TellAt
<1>3. CASE p \notin Dropped(R)
  <2>1. PartnerName(p)' = PartnerName(p)
    BY <1>3, PartnerNames DEF DetachReceivers
  <2> QED
    BY <1>1, <1>3, <2>1, TellAt
<1> QED
  BY <1>2, <1>3

LEMMA ReceiverJoinInformed ==
    ASSUME TypeOK, Attachments, AllInformed, NEW r \in Receivers, ReceiverJoin(r)
    PROVE  AllInformed'
<1> USE HubAssumption DEF Peers
<1> DEFINE old == {receivers[Name(r)]} \ {None}
           a == [link EXCEPT ![r] = Accepted]
           b == Tell(a, Dropped(old), Selected(None))
           c == Close(b, old)
<1>1. old \in SUBSET Receivers /\ r \notin old
  BY DEF ReceiverJoin, Name, TypeOK, Attachments, OfferedIsConnected, Connected
<1>2. DetachReceivers(old) /\ link' = Broadcast(c, receivers') /\ view' = Blank(r)
  BY DEF ReceiverJoin
<1>3. Accepted \in Link
  BY MessageTypes DEF Accepted, Link
<1>4. a \in Links
  BY <1>3 DEF TypeOK, Links, Link
<1>5. b \in Links /\ c \in Links
  BY <1>4, TellFacts, CloseFacts, MessageTypes
<1>6. SUFFICES ASSUME NEW x \in Peers
               PROVE  Informed(c[x], view'[x].who, PartnerName(x)')
  BY <1>2, <1>5, BroadcastInformed DEF AllInformed
<1>7. CASE x = r
  <2>1. c[x] = Accepted
    <3>1. r \notin Dropped(old)
      BY DEF Dropped
    <3> QED
      BY <1>1, <1>7, <3>1 DEF Close, Tell, TypeOK
  <2>2. view'[x].who = None
    BY <1>2, <1>7 DEF Blank, TypeOK
  <2>3. PartnerName(x)' = None
    BY <1>1, <1>2, <1>7, AloneUnconnected, PartnerNames DEF ReceiverJoin, DetachReceivers
  <2> QED
    BY <2>1, <2>2, <2>3, NewLinkInformed
<1>8. CASE x \in Providers
  <2>1. c[x] = b[x] /\ a[x] = link[x] /\ view'[x] = view[x]
    BY <1>1, <1>2, <1>8 DEF Close, Blank, TypeOK
  <2>2. Informed(b[x], view[x].who, PartnerName(x)')
    BY <1>1, <1>2, <1>4, <1>8, <2>1, DroppedInformed
  <2> QED
    BY <2>1, <2>2
<1>9. CASE x \in Receivers \ {r}
  <2>1. view'[x] = view[x]
    BY <1>2, <1>9 DEF Blank, TypeOK
  <2>2. b[x] = link[x] /\ link[x] \in Link
    BY <1>9 DEF Tell, Dropped, TypeOK, Link
  <2>3. Informed(link[x], view[x].who, PartnerName(x))
    BY DEF AllInformed
  <2>4. CASE x \in old /\ link[x].state = "open"
    BY <2>1, <2>2, <2>3, <2>4, CloseInformed DEF Close
  <2>5. CASE x \in old /\ link[x].state # "open"
    BY <2>1, <2>2, <2>3, <2>5 DEF Close, Informed
  <2>6. CASE x \notin old
    <3>1. PartnerName(x)' = PartnerName(x)
      BY <1>2, <1>9, <2>6, PartnerNames DEF DetachReceivers
    <3> QED
      BY <2>1, <2>2, <2>3, <2>6, <3>1 DEF Close
  <2> QED
    BY <2>4, <2>5, <2>6
<1> QED
  BY <1>7, <1>8, <1>9

LEMMA ReceiverLeaveInformed ==
    ASSUME TypeOK, Attachments, AllInformed, NEW r \in Receivers, ReceiverLeave(r)
    PROVE  AllInformed'
<1> USE HubAssumption DEF Peers
<1> DEFINE gone == [link EXCEPT ![r] = NoLink]
           a == Tell(gone, Dropped({r}), Selected(None))
<1>1. NoLink \in Link /\ view' = Blank(r)
  BY EmptySeq DEF NoLink, Link, ReceiverLeave
<1>2. gone \in Links
  BY <1>1 DEF TypeOK, Links, Link
<1>3. a \in Links
  BY <1>2, TellFacts, MessageTypes
<1>4. \A x \in Peers \ {r} : /\ view'[x] = view[x] /\ gone[x] = link[x]
                             /\ Informed(link[x], view[x].who, PartnerName(x))
  BY <1>1 DEF Blank, TypeOK, AllInformed
<1>5. CASE DetachReceivers({r}) /\ link' = Broadcast(a, receivers')
  <2>1. SUFFICES ASSUME NEW x \in Peers
                 PROVE  Informed(a[x], view'[x].who, PartnerName(x)')
    BY <1>3, <1>5, BroadcastInformed DEF AllInformed
  <2>2. CASE x = r
    <3>1. a[x] = NoLink
      BY <2>2 DEF Tell, Dropped, TypeOK
    <3> QED
      BY <3>1, NewLinkInformed
  <2>3. CASE x \in Providers
    BY <1>2, <1>4, <1>5, <2>3, DroppedInformed
  <2>4. CASE x \in Receivers \ {r}
    <3>1. a[x] = link[x]
      BY <1>4, <2>4 DEF Tell, Dropped
    <3>2. PartnerName(x)' = PartnerName(x)
      BY <1>5, <2>4, PartnerNames DEF DetachReceivers
    <3> QED
      BY <1>4, <2>4, <3>1, <3>2
  <2> QED
    BY <2>2, <2>3, <2>4
<1>6. CASE link' = gone /\ UNCHANGED <<target, provider>>
  <2>1. SUFFICES ASSUME NEW x \in Peers
                 PROVE  Informed(gone[x], view'[x].who, PartnerName(x)')
    BY <1>6 DEF AllInformed
  <2>2. CASE x = r
    <3>1. gone[x] = NoLink
      BY <2>2 DEF TypeOK
    <3> QED
      BY <3>1, NewLinkInformed
  <2>3. CASE x # r
    <3>1. PartnerName(x)' = PartnerName(x)
      BY <1>6, PartnerNames
    <3> QED
      BY <1>4, <2>3, <3>1
  <2> QED
    BY <2>2, <2>3
<1> QED
  BY <1>5, <1>6 DEF ReceiverLeave

\* A select tells everybody whose attachment it changes, except the provider
\* itself.
LEMMA AnnounceInformed ==
    ASSUME TypeOK, AllInformed, NEW p \in Providers, NEW new \in Receivers \cup {None},
           Retarget(p, new), NEW x \in Peers \ {p}
    PROVE  Informed(Announce(p, new)[x], view[x].who, PartnerName(x)')
<1> USE HubAssumption DEF Peers
<1>1. Informed(link[x], view[x].who, PartnerName(x)) /\ link[x] \in Link
  BY DEF AllInformed, TypeOK, Link
<1>2. /\ Left(p, new) \subseteq Receivers /\ Gained(p, new) \subseteq Receivers
      /\ Left(p, new) \cap Gained(p, new) = {} /\ Robbed(p, new) \subseteq Providers \ {p}
  BY DEF Left, Gained, Robbed
<1>3. CASE x \in Left(p, new)
  <2>1. Announce(p, new)[x] = Put(link[x], Detached)
    BY <1>2, <1>3, TellAt DEF Announce
  <2>2. PartnerName(x)' = None
    BY <1>2, <1>3, PartnerNames DEF Retarget
  <2> QED
    BY <1>1, <2>1, <2>2, PutWho, SaysWho, MessageTypes
<1>4. CASE x \in Gained(p, new)
  <2>1. Announce(p, new)[x] = Put(link[x], Attached(p))
    BY <1>2, <1>4, TellAt DEF Announce
  <2>2. PartnerName(x)' = p
    BY <1>2, <1>4, PartnerNames DEF Retarget
  <2> QED
    BY <1>1, <2>1, <2>2, PutWho, SaysWho, MessageTypes
<1>5. CASE x \in Robbed(p, new)
  <2>1. Announce(p, new)[x] = Put(link[x], Selected(None))
    BY <1>2, <1>5, TellAt DEF Announce
  <2>2. PartnerName(x)' = None
    BY <1>2, <1>5, PartnerNames DEF Retarget
  <2>3. Selected(None) \in Message
    BY MessageTypes
  <2> QED
    BY <1>1, <2>1, <2>2, <2>3, PutWho, SaysWho
<1>6. CASE x \notin Left(p, new) \cup Gained(p, new) \cup Robbed(p, new)
  <2>1. Announce(p, new)[x] = link[x]
    BY <1>6, TellAt DEF Announce
  <2>2. PartnerName(x)' = PartnerName(x)
    BY <1>2, <1>6, PartnerNames DEF Retarget
  <2> QED
    BY <1>1, <2>1, <2>2
<1> QED
  BY <1>3, <1>4, <1>5, <1>6

LEMMA SelectInformed ==
    ASSUME TypeOK, Attachments, AllInformed, NEW p \in Providers, NEW n \in Names \cup {None}, Select(p, n)
    PROVE  AllInformed'
<1> USE HubAssumption DEF Peers
<1> DEFINE new == IF n \in Names THEN receivers[n] ELSE None
           reply == Selected(IF new = None THEN None ELSE n)
<1>1. new \in Receivers \cup {None} /\ (new # None => n = Name(new))
  BY DEF TypeOK, Attachments, OfferedIsConnected
<1>2. Retarget(p, new) /\ link' = Tell(Announce(p, new), {p}, reply) /\ view' = view
  BY DEF Select
<1>3. Announce(p, new)[p] = link[p]
  BY TellAt DEF Announce, Left, Gained, Robbed
<1>4. reply \in Message /\ reply.who = PartnerName(p)'
  <2>1. target'[p] = new
    BY <1>2 DEF Retarget
  <2>2. PartnerName(p)' = IF new = None THEN None ELSE n
    BY <1>1, <2>1, PartnerNames
  <2> QED
    BY <1>1, <2>2, SaysWho, MessageTypes
<1>5. Informed(Put(link[p], reply), view[p].who, PartnerName(p)')
  <2>1. Informed(link[p], view[p].who, PartnerName(p)) /\ link[p] \in Link
    BY DEF AllInformed, TypeOK, Link
  <2>2. Announces(reply)
    BY SaysWho
  <2> HIDE DEF reply
  <2> QED
    BY <1>4, <2>1, <2>2, PutWho
<1>6. ASSUME NEW x \in Peers
      PROVE  Informed(link'[x], view'[x].who, PartnerName(x)')
  <2>1. CASE x = p
    BY <1>2, <1>3, <1>5, <2>1, TellAt
  <2>2. CASE x # p
    <3>1. link'[x] = Announce(p, new)[x] /\ view'[x] = view[x]
      BY <1>2, <2>2, TellAt
    <3>2. Informed(Announce(p, new)[x], view[x].who, PartnerName(x)')
      <4> HIDE DEF new
      <4> QED
        BY <1>1, <1>2, <2>2, AnnounceInformed
    <3> QED
      BY <3>1, <3>2
  <2> QED
    BY <2>1, <2>2
<1> QED
  BY <1>6 DEF AllInformed

LEMMA ProviderLeaveInformed ==
    ASSUME TypeOK, AllInformed, NEW p \in Providers, ProviderLeave(p)
    PROVE  AllInformed'
<1> USE HubAssumption DEF Peers
<1>1. Retarget(p, None) /\ link' = [Announce(p, None) EXCEPT ![p] = NoLink] /\ view' = Blank(p)
  BY DEF ProviderLeave
<1>2. ASSUME NEW x \in Peers
      PROVE  Informed(link'[x], view'[x].who, PartnerName(x)')
  <2>1. CASE x = p
    <3>1. link'[x] = NoLink
      BY <1>1, <2>1 DEF Announce, Tell
    <3> QED
      BY <3>1, NewLinkInformed
  <2>2. CASE x # p
    <3>1. link'[x] = Announce(p, None)[x] /\ view'[x] = view[x]
      BY <1>1, <2>2 DEF Announce, Tell, Blank, TypeOK
    <3> QED
      BY <1>1, <2>2, <3>1, AnnounceInformed
  <2> QED
    BY <2>1, <2>2
<1> QED
  BY <1>2 DEF AllInformed

LEMMA ProviderJoinInformed ==
    ASSUME TypeOK, Attachments, AllInformed, NEW p \in Providers, ProviderJoin(p)
    PROVE  AllInformed'
<1> USE HubAssumption DEF Peers
<1> DEFINE a == [link EXCEPT ![p] = Accepted]
<1>1. link' = Tell(a, {p}, ReceiversMsg(receivers)) /\ view' = Blank(p) /\ UNCHANGED <<target, provider>>
  BY DEF ProviderJoin
<1>2. Accepted \in Link /\ ReceiversMsg(receivers) \in Message
  BY MessageTypes DEF Accepted, Link
<1> DEFINE m == ReceiversMsg(receivers)
<1>4. /\ link'[p] = Put(Accepted, m) /\ view'[p].who = None
      /\ \A z \in Peers \ {p} : link'[z] = link[z] /\ view'[z] = view[z]
  <2>1. a[p] = Accepted /\ \A z \in Peers \ {p} : a[z] = link[z]
    BY DEF TypeOK
  <2>2. \A z \in Peers : link'[z] = IF z \in {p} THEN Put(a[z], m) ELSE a[z]
    <3> HIDE DEF a, m
    <3> QED
      BY <1>1, TellAt DEF m
  <2>3. view'[p].who = None /\ \A z \in Peers \ {p} : view'[z] = view[z]
    BY <1>1 DEF Blank, TypeOK
  <2> HIDE DEF a, m
  <2> QED
    BY <2>1, <2>2, <2>3
<1>3. ASSUME NEW x \in Peers
      PROVE  Informed(link'[x], view'[x].who, PartnerName(x)')
  <2>1. PartnerName(x)' = PartnerName(x)
    BY <1>1, PartnerNames
  <2>2. CASE x = p
    <3>1. link'[x] = Put(Accepted, ReceiversMsg(receivers)) /\ view'[x].who = None
      BY <1>4, <2>2
    <3>2. PartnerName(x) = None
      BY <2>2, AloneUnconnected DEF ProviderJoin
    <3>3. Informed(Put(Accepted, ReceiversMsg(receivers)), None, None)
      <4>1. Informed(Accepted, None, None) /\ ReceiversMsg(receivers).type # "e2e"
        BY NewLinkInformed, SaysNothing
      <4>2. After(None, ReceiversMsg(receivers)) = None
        BY SaysNothing DEF After
      <4>3. Informed(Put(Accepted, ReceiversMsg(receivers)), None, After(None, ReceiversMsg(receivers)))
        BY <1>2, <4>1, PutInformed
      <4> QED
        BY <4>2, <4>3
    <3> QED
      BY <2>1, <3>1, <3>2, <3>3
  <2>3. CASE x # p
    <3>1. link'[x] = link[x] /\ view'[x] = view[x]
      BY <1>4, <2>3
    <3> QED
      BY <2>1, <3>1 DEF AllInformed
  <2> QED
    BY <2>2, <2>3
<1> QED
  BY <1>3 DEF AllInformed

\* A blob comes from the partner.
LEMMA ForwardInformed ==
    ASSUME TypeOK, Attachments, AllInformed, NEW x \in Peers, NEW b \in Payloads, Forward(x, b)
    PROVE  AllInformed'
<1> USE HubAssumption DEF Peers
<1> DEFINE y == Partner(x)
           m == E2E(x, b)
<1>1. y \in Peers /\ link' = Tell(link, {y}, m) /\ UNCHANGED <<view, target, provider>>
  BY DEF Forward, Partner, TypeOK
<1>2. Partner(y) = x
  BY <1>1 DEF Partner, Attachments, AttachmentSymmetric, TypeOK, Forward
<1>3. Sender(m) = PartnerName(y)
  BY <1>1, <1>2, SaysNothing DEF Sender, PartnerName, Partner, TypeOK
<1>4. m \in Message /\ ~ Announces(m)
  BY MessageTypes, SaysNothing
<1>5. ASSUME NEW z \in Peers
      PROVE  Informed(link'[z], view'[z].who, PartnerName(z)')
  <2>1. PartnerName(z)' = PartnerName(z)
    BY <1>1, PartnerNames
  <2>2. Informed(link[z], view[z].who, PartnerName(z)) /\ link[z] \in Link
    BY DEF AllInformed, TypeOK, Link
  <2>3. CASE z = y
    <3>1. Informed(Put(link[z], m), view[z].who, After(PartnerName(z), m))
      <4> HIDE DEF m, y
      <4> QED
        BY <1>3, <1>4, <2>2, <2>3, PutInformed
    <3> QED
      BY <1>1, <1>4, <2>1, <2>3, <3>1, TellAt DEF After
  <2>4. CASE z # y
    BY <1>1, <2>1, <2>2, <2>4, TellAt
  <2> QED
    BY <2>3, <2>4
<1> QED
  BY <1>5 DEF AllInformed

LEMMA PingInformed ==
    ASSUME TypeOK, AllInformed, NEW x \in Peers, Ping(x)
    PROVE  AllInformed'
<1>1. link' = Tell(link, {x}, Notice) /\ UNCHANGED <<view, target, provider>>
  BY DEF Ping
<1>2. ASSUME NEW z \in Peers
      PROVE  Informed(link'[z], view'[z].who, PartnerName(z)')
  <2>1. PartnerName(z)' = PartnerName(z)
    BY <1>1, PartnerNames DEF Peers
  <2>2. Informed(link[z], view[z].who, PartnerName(z)) /\ link[z] \in Link
    BY DEF AllInformed, TypeOK, Link
  <2>3. Informed(Put(link[z], Notice), view[z].who, After(PartnerName(z), Notice))
    BY <2>2, PutInformed, SaysNothing, MessageTypes
  <2>4. After(PartnerName(z), Notice) = PartnerName(z)
    BY SaysNothing DEF After
  <2> QED
    BY <1>1, <2>1, <2>2, <2>3, <2>4, TellAt
<1> QED
  BY <1>2 DEF AllInformed

\* A failing writer and SIGHUP close connections.
LEMMA ClosingInformed ==
    ASSUME TypeOK, AllInformed, NEW S, link' = Close(link, S), UNCHANGED <<view, target, provider>>
    PROVE  AllInformed'
<1>1. ASSUME NEW z \in Peers
      PROVE  Informed(link'[z], view'[z].who, PartnerName(z)')
  <2>1. PartnerName(z)' = PartnerName(z)
    BY PartnerNames DEF Peers
  <2>2. Informed(link[z], view[z].who, PartnerName(z)) /\ link[z] \in Link
    BY DEF AllInformed, TypeOK, Link
  <2>3. link'[z] = link[z] \/ link'[z] = [link[z] EXCEPT !.state = "closed"]
    BY DEF Close
  <2> QED
    BY <2>1, <2>2, <2>3, CloseInformed
<1> QED
  BY <1>1 DEF AllInformed

\* Consuming a message moves what it says from the queue to the client's view.
LEMMA DeliverInformed ==
    ASSUME TypeOK, AllInformed, NEW x \in Peers, Deliver(x)
    PROVE  AllInformed'
<1> DEFINE q == link[x].queue
           m == Head(q)
           v == view[x].who
<1>1. q \in Seq(Message) /\ q # << >> /\ link[x] \in Link
  BY DEF TypeOK, Link, Deliver
<1>2. link' = [link EXCEPT ![x].queue = Tail(q)] /\ UNCHANGED <<target, provider>>
  BY DEF Deliver
<1>3. view'[x].who = After(v, m) /\ \A z \in Peers \ {x} : view'[z] = view[z]
  <2>1. CASE Announces(m)
    <3>1. view' = [view EXCEPT ![x].who = m.who]
      BY <2>1 DEF Deliver, Announces
    <3> QED
      BY <2>1, <3>1 DEF After, TypeOK
  <2>2. CASE ~ Announces(m) /\ m.type = "receivers"
    <3>1. view' = [view EXCEPT ![x].names = m.names]
      BY <2>2 DEF Deliver, Announces
    <3> QED
      BY <2>2, <3>1 DEF After, TypeOK
  <2>3. CASE ~ Announces(m) /\ m.type # "receivers"
    <3>1. view' = view
      BY <2>3 DEF Deliver, Announces
    <3> QED
      BY <2>3, <3>1 DEF After
  <2> QED
    BY <2>1, <2>2, <2>3
<1>4. Informed(link[x], v, PartnerName(x))
  BY DEF AllInformed
<1>5. Len(Tail(q)) = Len(q) - 1 /\ Len(q) \in 1..Len(q)
      /\ \A i \in 1..Len(Tail(q)) : i + 1 \in 1..Len(q) /\ Tail(q)[i] = q[i + 1] /\ (i + 1) - 1 = i
  <2> HIDE DEF q
  <2> QED
    BY <1>1
<1>6. link[x].state = "open" => Told(After(v, m), Tail(q), Len(Tail(q)), PartnerName(x))
  <2> SUFFICES ASSUME link[x].state = "open"
               PROVE  Told(After(v, m), Tail(q), Len(Tail(q)), PartnerName(x))
    OBVIOUS
  <2>1. Told(v, q, Len(q), PartnerName(x))
    BY <1>4 DEF Informed
  <2>2. Told(After(v, Head(q)), Tail(q), Len(q) - 1, PartnerName(x))
    <3> HIDE DEF q, v
    <3> QED
      BY <1>1, <1>5, <2>1, ToldTail
  <2> QED
    BY <1>5, <2>2
<1>7. Context(After(v, m), Tail(q))
  <2> SUFFICES ASSUME NEW i \in 1..Len(Tail(q)), Tail(q)[i].type = "e2e"
               PROVE  Told(After(v, m), Tail(q), i, Sender(Tail(q)[i]))
    BY DEF Context
  <2>1. Told(v, q, i + 1, Sender(q[i + 1]))
    BY <1>4, <1>5 DEF Informed, Context
  <2>2. Told(After(v, Head(q)), Tail(q), (i + 1) - 1, Sender(q[i + 1]))
    <3> HIDE DEF q, v
    <3> QED
      BY <1>1, <1>5, <2>1, ToldTail
  <2> QED
    BY <1>5, <2>2
<1>8. ASSUME NEW z \in Peers
      PROVE  Informed(link'[z], view'[z].who, PartnerName(z)')
  <2>1. PartnerName(z)' = PartnerName(z)
    BY <1>2, PartnerNames DEF Peers
  <2>2. CASE z = x
    <3>1. link'[x].state = link[x].state /\ link'[x].queue = Tail(q)
      BY <1>2 DEF TypeOK
    <3> HIDE DEF q, v, m
    <3> QED
      BY <1>3, <1>6, <1>7, <2>1, <2>2, <3>1 DEF Informed
  <2>3. CASE z # x
    <3>1. link'[z] = link[z]
      BY <1>2, <2>3 DEF TypeOK
    <3> QED
      BY <1>3, <2>1, <2>3, <3>1 DEF AllInformed
  <2> QED
    BY <2>2, <2>3
<1> QED
  BY <1>8 DEF AllInformed

LEMMA InformedStep ==
    ASSUME TypeOK, Attachments, AllInformed, [Next]_vars
    PROVE  AllInformed'
<1>1. ASSUME NEW k \in Keys, Approve(k) \/ Revoke(k)
      PROVE  AllInformed'
  <2>1. UNCHANGED <<link, view, target, provider>>
    BY <1>1 DEF Approve, Revoke
  <2> QED
    BY <2>1, PartnerNames DEF AllInformed, Peers
<1>2. CASE UNCHANGED vars
  <2>1. UNCHANGED <<link, view, target, provider>>
    BY <1>2 DEF vars
  <2> QED
    BY <2>1, PartnerNames DEF AllInformed, Peers
<1>3. CASE Revalidate
  BY <1>3, ClosingInformed DEF Revalidate
<1>4. ASSUME NEW x \in Peers, WriterFails(x)
      PROVE  AllInformed'
  BY <1>4, ClosingInformed DEF WriterFails
<1> QED
  BY <1>1, <1>2, <1>3, <1>4, ReceiverJoinInformed, ReceiverLeaveInformed, ProviderJoinInformed,
     ProviderLeaveInformed, SelectInformed, ForwardInformed, PingInformed, DeliverInformed DEF Next

\* AllInformed says what the properties of Hub say.
LEMMA InformedMeans ==
    ASSUME AllInformed
    PROVE  ToldPartner /\ BlobsInContext
<1>1. \A x \in Peers : \A i, w : Told(view[x].who, link[x].queue, i, w) <=> ToldBy(x, i, w)
  BY DEF Told, ToldBy
<1>2. ToldPartner
  BY <1>1 DEF AllInformed, Informed, ToldPartner
<1>3. BlobsInContext
  BY <1>1 DEF AllInformed, Informed, Context, Sender, BlobsInContext
<1> QED
  BY <1>2, <1>3

\* Whatever takes or gives an attachment, both ends are told, and a client never
\* meets a blob out of context (Hub.select, detach_receiver, forward).
THEOREM NewsIsTrue == Spec => [](ToldPartner /\ BlobsInContext)
<1>1. Init => AllInformed
  BY NewLinkInformed DEF Init, AllInformed
<1>2. TypeOK /\ Attachments /\ AllInformed /\ [Next]_vars => AllInformed'
  BY InformedStep
<1>3. AllInformed => ToldPartner /\ BlobsInContext
  BY InformedMeans
<1>4. TypeOK /\ Attachments /\ [Next]_vars => Attachments'
  BY AttachmentsStep
<1> QED
  BY <1>1, <1>2, <1>3, <1>4, AttachmentsInit, TypeCorrect, PTL DEF Spec

-----------------------------------------------------------------------------
(* The list of receivers.                                                  *)

\* The last list that a client who has seen the names v will have seen after q.
Heard(v, q, w) ==
    \/ /\ v = w
       /\ \A i \in 1..Len(q) : q[i].type # "receivers"
    \/ \E i \in 1..Len(q) : /\ q[i].type = "receivers" /\ q[i].names = w
                            /\ \A j \in (i+1)..Len(q) : q[j].type # "receivers"

Listed(l, v, w) == l.state = "open" => Heard(v, l.queue, w)

Now == {n \in Names : receivers[n] # None}

AllListed == \A p \in Providers : Listed(link[p], view[p].names, Now)

\* A list is the last one; another message makes no difference.
LEMMA PutListed ==
    ASSUME NEW l \in Link, NEW v, NEW w, NEW m \in Message,
           (m.type = "receivers" /\ m.names = w) \/ (m.type # "receivers" /\ Listed(l, v, w))
    PROVE  Listed(Put(l, m), v, w)
<1>1. CASE Put(l, m).state # "open"
  BY <1>1 DEF Listed
<1>2. CASE l.state = "open" /\ Put(l, m) = [l EXCEPT !.queue = Append(@, m)]
  <2> DEFINE q == l.queue
             s == Append(q, m)
  <2>0. Put(l, m).queue = s
    BY <1>2 DEF Link
  <2>1. /\ Len(q) \in Nat /\ Len(s) = Len(q) + 1 /\ s[Len(q) + 1] = m
        /\ \A j \in 1..Len(q) : s[j] = q[j]
    BY AppendProperties DEF Link
  <2>2. CASE m.type = "receivers" /\ m.names = w
    <3>1. Len(q) + 1 \in 1..Len(s) /\ \A j \in (Len(q) + 1 + 1)..Len(s) : FALSE
      BY <2>1
    <3>2. Heard(v, s, w)
      <4> HIDE DEF q, s
      <4> QED
        BY <2>1, <2>2, <3>1 DEF Heard
    <3> QED
      BY <2>0, <3>2 DEF Listed
  <2>3. CASE m.type # "receivers" /\ Heard(v, q, w)
    <3>1. \A j \in 1..Len(s) : j \in 1..Len(q) \/ j = Len(q) + 1
      BY <2>1
    <3>2. ASSUME v = w, \A i \in 1..Len(q) : q[i].type # "receivers"
          PROVE  Heard(v, s, w)
      <4>1. \A j \in 1..Len(s) : s[j].type # "receivers"
        <5> HIDE DEF q, s
        <5> QED
          BY <2>1, <2>3, <3>1, <3>2
      <4> QED
        BY <3>2, <4>1 DEF Heard
    <3>3. ASSUME NEW i \in 1..Len(q), q[i].type = "receivers", q[i].names = w,
                 \A j \in (i+1)..Len(q) : q[j].type # "receivers"
          PROVE  Heard(v, s, w)
      <4>1. i \in 1..Len(s) /\ \A j \in (i+1)..Len(s) : (j \in (i+1)..Len(q) /\ j \in 1..Len(q)) \/ j = Len(q) + 1
        BY <2>1
      <4>2. s[i].type = "receivers" /\ s[i].names = w
        BY <2>1, <3>3
      <4>3. \A j \in (i+1)..Len(s) : s[j].type # "receivers"
        <5> HIDE DEF q, s
        <5> QED
          BY <2>1, <2>3, <3>3, <4>1
      <4> QED
        BY <4>1, <4>2, <4>3 DEF Heard
    <3>4. Heard(v, s, w)
      BY <2>3, <3>2, <3>3 DEF Heard
    <3> QED
      BY <2>0, <3>4 DEF Listed
  <2> QED
    BY <1>2, <2>2, <2>3 DEF Listed
<1> QED
  BY <1>1, <1>2 DEF Put, Link

LEMMA TellListed ==
    ASSUME NEW links \in Links, NEW S, NEW m \in Message, m.type # "receivers",
           NEW x \in Peers, NEW v, NEW w, Listed(links[x], v, w)
    PROVE  Listed(Tell(links, S, m)[x], v, w)
BY PutListed, TellAt DEF Links, Link

LEMMA AnnounceListed ==
    ASSUME link \in Links, NEW p \in Providers, NEW new,
           NEW x \in Peers, NEW v, NEW w, Listed(link[x], v, w)
    PROVE  Listed(Announce(p, new)[x], v, w)
<1> DEFINE a == Tell(link, Left(p, new), Detached)
           b == Tell(a, Robbed(p, new), Selected(None))
<1>0. /\ Detached \in Message /\ Selected(None) \in Message /\ Attached(p) \in Message
      /\ Detached.type # "receivers" /\ Selected(None).type # "receivers" /\ Attached(p).type # "receivers"
  BY MessageTypes DEF Detached, Selected, Attached
<1>1. a \in Links /\ Listed(a[x], v, w)
  BY <1>0, TellFacts, TellListed
<1>2. b \in Links /\ Listed(b[x], v, w)
  <2> HIDE DEF a
  <2> QED
    BY <1>0, <1>1, TellFacts, TellListed
<1>3. Announce(p, new) = Tell(b, Gained(p, new), Attached(p))
  BY DEF Announce
<1> HIDE DEF b
<1> QED
  BY <1>0, <1>2, <1>3, TellListed

\* A broadcast tells every connected provider what is the case.
LEMMA BroadcastListed ==
    ASSUME NEW links \in Links, NEW p \in Providers, NEW v
    PROVE  Listed(Broadcast(links, receivers')[p], v, Now')
<1>0. p \in Peers /\ links[p] \in Link
  BY DEF Peers, Links, Link
<1>1. CASE links[p].state = "none"
  <2>1. Broadcast(links, receivers')[p] = links[p]
    BY <1>0, <1>1, TellAt DEF Broadcast, Connected
  <2> QED
    BY <1>1, <2>1 DEF Listed
<1>2. CASE links[p].state # "none"
  <2> DEFINE m == ReceiversMsg(receivers')
  <2>1. Broadcast(links, receivers')[p] = Put(links[p], m)
    BY <1>0, <1>2, TellAt DEF Broadcast, Connected
  <2>2. m \in Message /\ m.type = "receivers" /\ m.names = Now'
    BY MessageTypes DEF ReceiversMsg, Now
  <2>3. Listed(Put(links[p], m), v, m.names)
    BY <1>0, <2>2, PutListed
  <2> QED
    BY <2>1, <2>2, <2>3
<1> QED
  BY <1>1, <1>2

\* A client that has consumed a list has seen it.
LEMMA HeardTail ==
    ASSUME NEW v, NEW w, NEW q \in Seq(Message), q # << >>, Heard(v, q, w)
    PROVE  Heard(IF Head(q).type = "receivers" THEN Head(q).names ELSE v, Tail(q), w)
<1> DEFINE t == Tail(q)
           u == IF Head(q).type = "receivers" THEN Head(q).names ELSE v
<1>1. /\ Len(q) \in Nat /\ 1 \in 1..Len(q) /\ Head(q) = q[1] /\ Len(t) = Len(q) - 1
      /\ \A j \in 1..Len(t) : t[j] = q[j + 1] /\ j + 1 \in 1..Len(q)
  OBVIOUS
<1>2. ASSUME v = w, \A i \in 1..Len(q) : q[i].type # "receivers"
      PROVE  Heard(u, t, w)
  <2> HIDE DEF t
  <2> QED
    BY <1>1, <1>2 DEF Heard
<1>3. ASSUME NEW i \in 1..Len(q), q[i].type = "receivers", q[i].names = w,
             \A j \in (i+1)..Len(q) : q[j].type # "receivers"
      PROVE  Heard(u, t, w)
  <2>1. CASE i = 1
    <3>1. \A j \in 1..Len(t) : j + 1 \in (i+1)..Len(q)
      BY <1>1, <2>1
    <3> HIDE DEF t
    <3> QED
      BY <1>1, <1>3, <2>1, <3>1 DEF Heard
  <2>2. CASE i # 1
    <3>1. i - 1 \in 1..Len(t) /\ (i - 1) + 1 = i
          /\ \A j \in ((i - 1)+1)..Len(t) : j \in 1..Len(t) /\ j + 1 \in (i+1)..Len(q)
      BY <1>1, <2>2
    <3>2. t[i - 1].type = "receivers" /\ t[i - 1].names = w
      BY <1>1, <1>3, <3>1
    <3>3. \A j \in ((i - 1)+1)..Len(t) : t[j].type # "receivers"
      BY <1>1, <1>3, <3>1
    <3> HIDE DEF t
    <3> QED
      BY <3>1, <3>2, <3>3 DEF Heard
  <2> QED
    BY <2>1, <2>2
<1> QED
  BY <1>2, <1>3 DEF Heard

\* Every step keeps providers listed.
LEMMA ListedStep ==
    ASSUME TypeOK, AllListed, [Next]_vars
    PROVE  AllListed'
<1> USE HubAssumption
<1>0. link \in Links /\ \A p \in Providers : p \in Peers /\ link[p] \in Link /\ Listed(link[p], view[p].names, Now)
  BY DEF TypeOK, Links, Link, AllListed, Peers
<1>1. ASSUME NEW r \in Receivers, ReceiverJoin(r)
      PROVE  AllListed'
  <2> DEFINE old == {receivers[Name(r)]} \ {None}
             c == Close(Tell([link EXCEPT ![r] = Accepted], Dropped(old), Selected(None)), old)
  <2>1. Accepted \in Link
    BY MessageTypes DEF Accepted, Link
  <2>2. [link EXCEPT ![r] = Accepted] \in Links
    BY <2>1 DEF TypeOK, Links, Link
  <2>3. c \in Links
    BY <2>2, TellFacts, CloseFacts, MessageTypes
  <2>4. link' = Broadcast(c, receivers')
    BY <1>1 DEF ReceiverJoin
  <2> HIDE DEF c
  <2> QED
    BY <2>3, <2>4, BroadcastListed DEF AllListed
<1>2. ASSUME NEW r \in Receivers, ReceiverLeave(r)
      PROVE  AllListed'
  <2> DEFINE gone == [link EXCEPT ![r] = NoLink]
             a == Tell(gone, Dropped({r}), Selected(None))
  <2>1. NoLink \in Link
    BY EmptySeq DEF NoLink, Link
  <2>2. gone \in Links
    BY <2>1 DEF TypeOK, Links, Link
  <2>3. a \in Links
    BY <2>2, TellFacts, MessageTypes
  <2>4. CASE link' = Broadcast(a, receivers')
    <3> HIDE DEF a
    <3> QED
      BY <2>3, <2>4, BroadcastListed DEF AllListed
  <2>5. CASE Registered(r) = {} /\ link' = gone
    <3>1. receivers' = receivers
      BY <1>2, <2>5 DEF ReceiverLeave, TypeOK
    <3>2. Now' = Now
      BY <3>1 DEF Now
    <3>3. \A p \in Providers : link'[p] = link[p] /\ view'[p] = view[p]
      BY <1>2, <2>5 DEF ReceiverLeave, Blank, TypeOK, Peers
    <3> QED
      BY <1>0, <3>2, <3>3 DEF AllListed
  <2> QED
    BY <1>2, <2>4, <2>5 DEF ReceiverLeave
<1>3. ASSUME receivers' = receivers,
             \A p \in Providers : Listed(link'[p], view'[p].names, Now)
      PROVE  AllListed'
  <2>1. Now' = Now
    BY <1>3 DEF Now
  <2> QED
    BY <1>3, <2>1 DEF AllListed
<1>4. ASSUME NEW p \in Providers, ProviderJoin(p)
      PROVE  AllListed'
  <2> DEFINE a == [link EXCEPT ![p] = Accepted]
             m == ReceiversMsg(receivers)
  <2>1. link' = Tell(a, {p}, m) /\ view' = Blank(p) /\ receivers' = receivers
    BY <1>4 DEF ProviderJoin
  <2>2. Accepted \in Link /\ m \in Message /\ m.type = "receivers" /\ m.names = Now
    BY MessageTypes DEF Accepted, Link, ReceiversMsg, Now
  <2>3. a[p] = Accepted /\ \A q \in Providers \ {p} : a[q] = link[q]
    BY DEF TypeOK, Peers
  <2>4. \A q \in Providers : link'[q] = IF q \in {p} THEN Put(a[q], m) ELSE a[q]
    <3> HIDE DEF a, m
    <3> QED
      BY <1>0, <2>1, TellAt
  <2>5. \A q \in Providers \ {p} : view'[q] = view[q]
    BY <2>1 DEF Blank, TypeOK, Peers
  <2> HIDE DEF a, m
  <2>6. Listed(link'[p], view'[p].names, Now)
    BY <2>2, <2>3, <2>4, PutListed
  <2>7. \A q \in Providers \ {p} : Listed(link'[q], view'[q].names, Now)
    BY <1>0, <2>3, <2>4, <2>5
  <2> QED
    BY <1>3, <2>1, <2>6, <2>7
<1>5. ASSUME NEW p \in Providers, ProviderLeave(p)
      PROVE  AllListed'
  <2>1. link' = [Announce(p, None) EXCEPT ![p] = NoLink] /\ view' = Blank(p) /\ receivers' = receivers
    BY <1>5 DEF ProviderLeave
  <2>2. ASSUME NEW q \in Providers
        PROVE  Listed(link'[q], view'[q].names, Now)
    <3>1. CASE q = p
      <4>1. link'[q] = NoLink
        BY <1>0, <2>1, <3>1 DEF Announce, Tell
      <4> QED
        BY <4>1 DEF Listed, NoLink
    <3>2. CASE q # p
      <4>1. link'[q] = Announce(p, None)[q] /\ view'[q] = view[q]
        BY <1>0, <2>1, <3>2 DEF Announce, Tell, Blank, TypeOK
      <4> QED
        BY <1>0, <4>1, AnnounceListed
    <3> QED
      BY <3>1, <3>2
  <2> QED
    BY <1>3, <2>1, <2>2
<1>6. ASSUME NEW p \in Providers, NEW n \in Names \cup {None}, Select(p, n)
      PROVE  AllListed'
  <2> DEFINE new == IF n \in Names THEN receivers[n] ELSE None
             reply == Selected(IF new = None THEN None ELSE n)
  <2>1. link' = Tell(Announce(p, new), {p}, reply) /\ view' = view /\ receivers' = receivers
    BY <1>6 DEF Select
  <2>2. reply \in Message /\ reply.type # "receivers"
    BY MessageTypes DEF Selected
  <2>3. Announce(p, new) \in Links
    BY <1>0, AnnounceFacts
  <2>4. ASSUME NEW q \in Providers
        PROVE  Listed(link'[q], view'[q].names, Now)
    <3>1. Listed(Announce(p, new)[q], view[q].names, Now)
      <4> HIDE DEF new
      <4> QED
        BY <1>0, AnnounceListed
    <3> HIDE DEF new, reply
    <3> QED
      BY <1>0, <2>1, <2>2, <2>3, <3>1, TellListed
  <2> QED
    BY <1>3, <2>1, <2>4
<1>7. ASSUME NEW S, NEW m \in Message, m.type # "receivers", link' = Tell(link, S, m), UNCHANGED <<view, receivers>>
      PROVE  AllListed'
  BY <1>0, <1>3, <1>7, TellListed
<1>8. ASSUME NEW x \in Peers, NEW b \in Payloads, Forward(x, b)
      PROVE  AllListed'
  <2>1. E2E(x, b) \in Message /\ E2E(x, b).type # "receivers"
    BY MessageTypes DEF E2E
  <2> QED
    BY <1>7, <1>8, <2>1 DEF Forward
<1>9. ASSUME NEW x \in Peers, Ping(x)
      PROVE  AllListed'
  <2>1. Notice \in Message /\ Notice.type # "receivers"
    BY MessageTypes DEF Notice
  <2> QED
    BY <1>7, <1>9, <2>1 DEF Ping
<1>10. ASSUME NEW S, link' = Close(link, S), UNCHANGED <<view, receivers>>
       PROVE  AllListed'
  <2>1. \A p \in Providers : link'[p] = link[p] \/ link'[p] = [link[p] EXCEPT !.state = "closed"]
    BY <1>0, <1>10 DEF Close
  <2>2. ASSUME NEW p \in Providers
        PROVE  Listed(link'[p], view'[p].names, Now)
    <3>1. CASE link'[p] = link[p]
      BY <1>0, <1>10, <3>1
    <3>2. CASE link'[p] = [link[p] EXCEPT !.state = "closed"]
      <4>1. link'[p].state = "closed"
        BY <1>0, <3>2 DEF Link, TypeOK
      <4> QED
        BY <4>1 DEF Listed
    <3> QED
      BY <2>1, <3>1, <3>2
  <2> QED
    BY <1>3, <1>10, <2>2
<1>11. ASSUME NEW x \in Peers, Deliver(x)
       PROVE  AllListed'
  <2> DEFINE q == link[x].queue
             m == Head(q)
  <2>1. q \in Seq(Message) /\ q # << >>
    BY <1>11 DEF TypeOK, Deliver
  <2>2. link' = [link EXCEPT ![x].queue = Tail(q)] /\ receivers' = receivers
    BY <1>11 DEF Deliver
  <2>3. /\ view'[x].names = IF m.type = "receivers" THEN m.names ELSE view[x].names
        /\ \A z \in Peers \ {x} : view'[z] = view[z]
    <3>1. CASE m.type \in {"selected", "attached", "detached"}
      <4>1. view' = [view EXCEPT ![x].who = m.who]
        BY <1>11, <3>1 DEF Deliver
      <4> QED
        BY <3>1, <4>1 DEF TypeOK
    <3>2. CASE m.type = "receivers"
      <4>1. view' = [view EXCEPT ![x].names = m.names]
        BY <1>11, <3>2 DEF Deliver
      <4> QED
        BY <3>2, <4>1 DEF TypeOK
    <3>3. CASE m.type \notin {"selected", "attached", "detached", "receivers"}
      <4>1. view' = view
        BY <1>11, <3>3 DEF Deliver
      <4> QED
        BY <3>3, <4>1
    <3> QED
      BY <3>1, <3>2, <3>3
  <2>4. ASSUME NEW p \in Providers
        PROVE  Listed(link'[p], view'[p].names, Now)
    <3>1. CASE p = x
      <4>1. link'[p].state = link[p].state /\ link'[p].queue = Tail(q)
        BY <1>0, <2>2, <3>1 DEF Link, TypeOK
      <4>2. link[p].state = "open" => Heard(view[p].names, q, Now)
        BY <1>0, <3>1 DEF Listed
      <4> HIDE DEF q
      <4> QED
        BY <2>1, <2>3, <3>1, <4>1, <4>2, HeardTail DEF Listed
    <3>2. CASE p # x
      <4>1. link'[p] = link[p]
        BY <1>0, <2>2, <3>2 DEF TypeOK
      <4> QED
        BY <1>0, <2>3, <3>2, <4>1
    <3> QED
      BY <3>1, <3>2
  <2> QED
    BY <1>3, <2>2, <2>4
<1>12. ASSUME NEW k \in Keys, Approve(k) \/ Revoke(k)
       PROVE  AllListed'
  BY <1>0, <1>3, <1>12 DEF Approve, Revoke
<1>13. CASE UNCHANGED vars
  BY <1>0, <1>3, <1>13 DEF vars
<1>14. ASSUME NEW x \in Peers, WriterFails(x)
       PROVE  AllListed'
  BY <1>10, <1>14 DEF WriterFails
<1>15. CASE Revalidate
  BY <1>10, <1>15 DEF Revalidate
<1> QED
  BY <1>1, <1>2, <1>4, <1>5, <1>6, <1>8, <1>9, <1>11, <1>12, <1>13, <1>14, <1>15 DEF Next

\* The last list a provider has been sent is the list of registered names: it is
\* sent after every change of the registry (Hub.broadcast_receivers).
THEOREM ListsAreTrue == Spec => []ToldList
<1>1. Init => AllListed
  BY DEF Init, AllListed, Listed, NoLink, Peers
<1>2. TypeOK /\ AllListed /\ [Next]_vars => AllListed'
  BY ListedStep
<1>3. AllListed => ToldList
  BY DEF AllListed, Listed, Heard, Now, ToldList
<1> QED
  BY <1>1, <1>2, <1>3, TypeCorrect, PTL DEF Spec

=============================================================================
