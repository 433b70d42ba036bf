----------------------------- MODULE HubProofs -----------------------------
(***************************************************************************)
(* Proofs about the relay server for any number of connections, devices,   *)
(* names and queue lengths: its types, the invariant behind attachments,   *)
(* and that it implements Attachment.                                      *)
(***************************************************************************)
EXTENDS Hub, SequenceTheorems, TLAPS

Links == [Peers -> [state : {"none", "open", "closed"}, queue : Seq(Message)]]

\* Sending and closing never create or remove a connection, nor open one.
Calmer(new, old) ==
    \A x \in Peers : /\ new[x].state = "none" <=> old[x].state = "none"
                     /\ new[x].state = "open" => old[x].state = "open"

-----------------------------------------------------------------------------
(* What the operators on connections return.                               *)

\* Every message the relay's handlers build is one of Message.
LEMMA MessageTypes ==
    /\ Notice \in Message /\ Detached \in Message
    /\ \A n \in Names \cup {None} : Selected(n) \in Message
    /\ \A p \in Providers : Attached(p) \in Message
    /\ \A x \in Peers, b \in Payloads : E2E(x, b) \in Message
    /\ \A rs : ReceiversMsg(rs) \in Message
BY DEF Notice, Detached, Selected, Attached, E2E, ReceiversMsg, Message

\* Connection.send keeps a connection's type; it may close it, never open it.
LEMMA PutFacts ==
    ASSUME NEW l \in [state : {"none", "open", "closed"}, queue : Seq(Message)],
           NEW m \in Message
    PROVE  /\ Put(l, m) \in [state : {"none", "open", "closed"}, queue : Seq(Message)]
           /\ Put(l, m).state = "none" <=> l.state = "none"
           /\ Put(l, m).state = "open" => l.state = "open"
<1>1. Append(l.queue, m) \in Seq(Message)
  BY AppendProperties
<1> QED
  BY <1>1 DEF Put

\* So does sending one message to any set of peers.
LEMMA TellFacts ==
    ASSUME NEW links \in Links, NEW S, NEW m \in Message
    PROVE  Tell(links, S, m) \in Links /\ Calmer(Tell(links, S, m), links)
<1>1. \A x \in Peers :
         /\ Tell(links, S, m)[x] \in [state : {"none", "open", "closed"}, queue : Seq(Message)]
         /\ Tell(links, S, m)[x].state = "none" <=> links[x].state = "none"
         /\ Tell(links, S, m)[x].state = "open" => links[x].state = "open"
  <2> TAKE x \in Peers
  <2>1. links[x] \in [state : {"none", "open", "closed"}, queue : Seq(Message)]
    BY DEF Links
  <2>2. Tell(links, S, m)[x] = IF x \in S THEN Put(links[x], m) ELSE links[x]
    BY DEF Tell
  <2> QED
    BY <2>1, <2>2, PutFacts
<1>2. DOMAIN Tell(links, S, m) = Peers /\ Tell(links, S, m) = [x \in Peers |-> Tell(links, S, m)[x]]
  BY DEF Tell
<1> QED
  BY <1>1, <1>2 DEF Links, Calmer

\* Connection.close leaves none of the peers it is called for open.
LEMMA CloseFacts ==
    ASSUME NEW links \in Links, NEW S
    PROVE  /\ Close(links, S) \in Links
           /\ Calmer(Close(links, S), links)
           /\ \A x \in S \cap Peers : Close(links, S)[x].state # "open"
BY DEF Links, Calmer, Close

\* One handler sends several messages: the facts of each chain.
LEMMA CalmerTransitive ==
    ASSUME NEW a, NEW b, NEW c, Calmer(a, b), Calmer(b, c)
    PROVE  Calmer(a, c)
BY DEF Calmer

\* A broadcast is a Tell.
LEMMA BroadcastFacts ==
    ASSUME NEW links \in Links, NEW rs
    PROVE  Broadcast(links, rs) \in Links /\ Calmer(Broadcast(links, rs), links)
BY TellFacts, MessageTypes DEF Broadcast

\* So are the announcements of a select.
LEMMA AnnounceFacts ==
    ASSUME link \in Links, NEW p \in Providers, NEW new
    PROVE  Announce(p, new) \in Links /\ Calmer(Announce(p, new), link)
<1> DEFINE a == Tell(link, Left(p, new), Detached)
           b == Tell(a, Robbed(p, new), Selected(None))
<1>1. a \in Links /\ Calmer(a, link)
  BY TellFacts, MessageTypes
<1>2. b \in Links /\ Calmer(b, a)
  BY <1>1, TellFacts, MessageTypes
<1>3. Announce(p, new) \in Links /\ Calmer(Announce(p, new), b)
  BY <1>2, TellFacts, MessageTypes DEF Announce
<1> QED
  BY <1>1, <1>2, <1>3, CalmerTransitive

-----------------------------------------------------------------------------
(* What each action does to the connections.                               *)

\* Only the connections of S may come to be, or be gone.
CalmerBut(S) ==
    \A x \in Peers \ S : /\ link'[x].state = "none" <=> link[x].state = "none"
                         /\ link'[x].state = "open" => link[x].state = "open"

\* A registration opens the newcomer's connection and leaves a previous
\* connection of the name closed.
LEMMA ReceiverJoinLinks ==
    ASSUME TypeOK, NEW r \in Receivers, ReceiverJoin(r)
    PROVE  /\ link' \in Links
           /\ CalmerBut({r})
           /\ link'[r].state # "none"
           /\ \A x \in Receivers \ {r} : receivers[Name(r)] = x => link'[x].state # "open"
<1> DEFINE old == {receivers[Name(r)]} \ {None}
           a == [link EXCEPT ![r] = Accepted]
           b == Tell(a, Dropped(old), Selected(None))
           c == Close(b, old)
<1> USE DEF Peers
<1>1. a \in Links
  BY MessageTypes DEF TypeOK, Accepted, Links
<1>2. b \in Links /\ Calmer(b, a)
  BY <1>1, TellFacts, MessageTypes
<1>3. c \in Links /\ Calmer(c, b) /\ \A x \in old \cap Peers : c[x].state # "open"
  BY <1>2, CloseFacts
<1>4. link' \in Links /\ Calmer(link', c)
  BY <1>3, BroadcastFacts DEF ReceiverJoin
<1>5. Calmer(link', a)
  BY <1>2, <1>3, <1>4, CalmerTransitive
<1>6. CalmerBut({r}) /\ link'[r].state # "none"
  BY <1>5 DEF CalmerBut, Calmer, TypeOK, Accepted
<1>7. ASSUME NEW x \in Receivers \ {r}, receivers[Name(r)] = x
      PROVE  link'[x].state # "open"
  BY <1>3, <1>4, <1>7, HubAssumption DEF Calmer
<1> QED
  BY <1>4, <1>6, <1>7

\* The end of a receiver's handler ends its connection and no other.
LEMMA ReceiverLeaveLinks ==
    ASSUME TypeOK, NEW r \in Receivers, ReceiverLeave(r)
    PROVE  /\ link' \in Links
           /\ CalmerBut({r})
           /\ link'[r].state = "none"
<1> DEFINE gone == [link EXCEPT ![r] = NoLink]
<1> USE DEF Peers
<1>1. gone \in Links
  BY EmptySeq DEF TypeOK, NoLink, Links
<1>2. Tell(gone, Dropped({r}), Selected(None)) \in Links
      /\ Calmer(Tell(gone, Dropped({r}), Selected(None)), gone)
  BY <1>1, TellFacts, MessageTypes
<1>3. link' \in Links /\ Calmer(link', gone)
  <2>1. CASE link' = gone
    BY <2>1, <1>1 DEF Calmer
  <2>2. CASE link' = Broadcast(Tell(gone, Dropped({r}), Selected(None)), receivers')
    BY <2>2, <1>2, BroadcastFacts, CalmerTransitive
  <2> QED
    BY <2>1, <2>2 DEF ReceiverLeave
<1> QED
  BY <1>3 DEF CalmerBut, Calmer, TypeOK, NoLink

\* A provider's handshake opens its connection and no other.
LEMMA ProviderJoinLinks ==
    ASSUME TypeOK, NEW p \in Providers, ProviderJoin(p)
    PROVE  /\ link' \in Links
           /\ CalmerBut({p})
           /\ link'[p].state # "none"
<1> DEFINE a == [link EXCEPT ![p] = Accepted]
<1> USE DEF Peers
<1>1. a \in Links
  BY MessageTypes DEF TypeOK, Accepted, Links
<1>2. link' \in Links /\ Calmer(link', a)
  BY <1>1, TellFacts, MessageTypes DEF ProviderJoin
<1> QED
  BY <1>2 DEF CalmerBut, Calmer, TypeOK, Accepted

\* The end of a provider's handler ends its connection and no other.
LEMMA ProviderLeaveLinks ==
    ASSUME TypeOK, NEW p \in Providers, ProviderLeave(p)
    PROVE  /\ link' \in Links
           /\ CalmerBut({p})
           /\ link'[p].state = "none"
<1> USE DEF Peers
<1>1. Announce(p, None) \in Links /\ Calmer(Announce(p, None), link)
  BY AnnounceFacts DEF TypeOK, Links
<1>2. link' = [Announce(p, None) EXCEPT ![p] = NoLink]
  BY DEF ProviderLeave
<1> QED
  BY <1>1, <1>2, EmptySeq DEF CalmerBut, Calmer, NoLink, Links

\* The actions that neither open nor end a connection.
Others == \/ \E p \in Providers : \E n \in Names \cup {None} : Select(p, n)
          \/ \E x \in Peers : \/ \E b \in Payloads : Forward(x, b)
                              \/ Ping(x)
                              \/ WriterFails(x)
                              \/ Deliver(x)
          \/ Revalidate

\* Selecting, forwarding, consuming, closing: no connection comes or goes.
LEMMA OthersLinks ==
    ASSUME TypeOK, Others
    PROVE  link' \in Links /\ Calmer(link', link)
<1>0. link \in Links
  BY DEF TypeOK, Links
<1>1. ASSUME NEW p \in Providers, NEW n \in Names \cup {None}, Select(p, n)
      PROVE  link' \in Links /\ Calmer(link', link)
  <2> DEFINE new == IF n \in Names THEN receivers[n] ELSE None
             reply == Selected(IF new = None THEN None ELSE n)
  <2>1. Announce(p, new) \in Links /\ Calmer(Announce(p, new), link)
    BY <1>0, AnnounceFacts
  <2>2. reply \in Message
    BY MessageTypes
  <2>3. link' = Tell(Announce(p, new), {p}, reply)
    BY <1>1 DEF Select
  <2> QED
    BY <2>1, <2>2, <2>3, TellFacts, CalmerTransitive
<1>2. ASSUME NEW x \in Peers, NEW b \in Payloads, Forward(x, b)
      PROVE  link' \in Links /\ Calmer(link', link)
  BY <1>0, <1>2, TellFacts, MessageTypes DEF Forward
<1>3. ASSUME NEW x \in Peers, Ping(x)
      PROVE  link' \in Links /\ Calmer(link', link)
  BY <1>0, <1>3, TellFacts, MessageTypes DEF Ping
<1>4. ASSUME NEW x \in Peers, WriterFails(x)
      PROVE  link' \in Links /\ Calmer(link', link)
  BY <1>0, <1>4, CloseFacts DEF WriterFails
<1>5. ASSUME NEW x \in Peers, Deliver(x)
      PROVE  link' \in Links /\ Calmer(link', link)
  <2>1. Tail(link[x].queue) \in Seq(Message)
    BY <1>0, <1>5, HeadTailProperties DEF Deliver, Links
  <2> QED
    BY <1>0, <1>5, <2>1 DEF Deliver, Links, Calmer
<1>6. ASSUME Revalidate
      PROVE  link' \in Links /\ Calmer(link', link)
  BY <1>0, <1>6, CloseFacts DEF Revalidate
<1> QED
  BY <1>1, <1>2, <1>3, <1>4, <1>5, <1>6 DEF Others

-----------------------------------------------------------------------------
(* Types.                                                                  *)

\* A connection that begins or ends has been told nothing.
LEMMA ViewTypes ==
    ASSUME TypeOK, NEW x \in Peers
    PROVE  Blank(x) \in [Peers -> [who : Names \cup Providers \cup {None}, names : SUBSET Names]]
BY DEF TypeOK, Blank

\* A client's view follows the types of the messages it consumes.
LEMMA DeliverView ==
    ASSUME TypeOK, NEW x \in Peers, Deliver(x)
    PROVE  view' \in [Peers -> [who : Names \cup Providers \cup {None}, names : SUBSET Names]]
<1>1. /\ link[x].queue \in Seq(Message)
      /\ link[x].queue # << >>
  BY DEF TypeOK, Deliver
<1>2. Head(link[x].queue) \in Message /\ Tail(link[x].queue) \in Seq(Message)
  BY <1>1, HeadTailProperties
<1>3. view' \in [Peers -> [who : Names \cup Providers \cup {None}, names : SUBSET Names]]
  <2> DEFINE m == Head(link[x].queue)
  <2>1. CASE m.type \in {"selected", "attached", "detached"}
    <3>1. m.who \in Names \cup Providers \cup {None}
      BY <1>2, <2>1 DEF Message, Notice, Detached
    <3>2. view' = [view EXCEPT ![x].who = m.who]
      BY <2>1 DEF Deliver
    <3> QED
      BY <3>1, <3>2 DEF TypeOK
  <2>2. CASE m.type = "receivers"
    <3>1. m.names \in SUBSET Names
      BY <1>2, <2>2 DEF Message, Notice, Detached
    <3>2. view' = [view EXCEPT ![x].names = m.names]
      BY <2>2 DEF Deliver
    <3> QED
      BY <3>1, <3>2 DEF TypeOK
  <2>3. CASE m.type \notin {"selected", "attached", "detached", "receivers"}
    <3>1. view' = view
      BY <2>3 DEF Deliver
    <3> QED
      BY <3>1 DEF TypeOK
  <2> QED
    BY <2>1, <2>2, <2>3
<1> QED
  BY <1>3

\* Every step of the relay keeps the types of its variables.
LEMMA TypeStep ==
    ASSUME TypeOK, [Next]_vars
    PROVE  TypeOK'
<1> DEFINE Views == [Peers -> [who : Names \cup Providers \cup {None}, names : SUBSET Names]]
<1> USE HubAssumption
<1>1. ASSUME NEW r \in Receivers, ReceiverJoin(r)
      PROVE  TypeOK'
  <2>1. Name(r) \in Names
    BY DEF Name, Peers
  <2>2. link' \in Links /\ view' \in Views
    BY <1>1, ReceiverJoinLinks, ViewTypes DEF ReceiverJoin, Peers
  <2> QED
    BY <1>1, <2>1, <2>2 DEF ReceiverJoin, DetachReceivers, TypeOK, Links
<1>2. ASSUME NEW r \in Receivers, ReceiverLeave(r)
      PROVE  TypeOK'
  <2>1. link' \in Links /\ view' \in Views
    BY <1>2, ReceiverLeaveLinks, ViewTypes DEF ReceiverLeave, Peers
  <2>2. /\ target' \in [Providers -> Receivers \cup {None}]
        /\ provider' \in [Receivers -> Providers \cup {None}]
        /\ receivers' \in [Names -> Receivers \cup {None}]
    BY <1>2 DEF ReceiverLeave, DetachReceivers, TypeOK
  <2> QED
    BY <1>2, <2>1, <2>2 DEF ReceiverLeave, TypeOK, Links
<1>3. ASSUME NEW p \in Providers, ProviderJoin(p)
      PROVE  TypeOK'
  <2>1. link' \in Links /\ view' \in Views
    BY <1>3, ProviderJoinLinks, ViewTypes DEF ProviderJoin, Peers
  <2> QED
    BY <1>3, <2>1 DEF ProviderJoin, TypeOK, Links
<1>4. ASSUME NEW p \in Providers, ProviderLeave(p)
      PROVE  TypeOK'
  <2>1. link' \in Links /\ view' \in Views
    BY <1>4, ProviderLeaveLinks, ViewTypes DEF ProviderLeave, Peers
  <2> QED
    BY <1>4, <2>1 DEF ProviderLeave, Retarget, TypeOK, Links
<1>5. ASSUME Others
      PROVE  TypeOK'
  <2>1. link' \in Links
    BY <1>5, OthersLinks
  <2>2. /\ target' \in [Providers -> Receivers \cup {None}]
        /\ provider' \in [Receivers -> Providers \cup {None}]
    <3>1. ASSUME NEW p \in Providers, NEW n \in Names \cup {None}, Select(p, n)
          PROVE  /\ target' \in [Providers -> Receivers \cup {None}]
                 /\ provider' \in [Receivers -> Providers \cup {None}]
      BY <3>1 DEF Select, Retarget, TypeOK
    <3> QED
      BY <1>5, <3>1 DEF Others, Forward, Ping, WriterFails, Deliver, Revalidate, TypeOK
  <2>3. view' \in Views
    BY <1>5, DeliverView DEF Others, Select, Forward, Ping, WriterFails, Revalidate, TypeOK
  <2>4. auth' = auth /\ receivers' = receivers /\ revoked' \in {revoked, {}}
    BY <1>5 DEF Others, Select, Forward, Ping, WriterFails, Deliver, Revalidate
  <2> QED
    BY <2>1, <2>2, <2>3, <2>4 DEF TypeOK, Links
<1>6. ASSUME NEW k \in Keys, Approve(k) \/ Revoke(k)
      PROVE  TypeOK'
  BY <1>6 DEF Approve, Revoke, TypeOK
<1>7. CASE UNCHANGED vars
  BY <1>7 DEF vars, TypeOK
<1> QED
  BY <1>1, <1>2, <1>3, <1>4, <1>5, <1>6, <1>7 DEF Next, Others

\* Every variable keeps its type (Hub, all of server.py's state).
THEOREM TypeCorrect == Spec => []TypeOK
<1>1. Init => TypeOK
  BY EmptySeq DEF Init, TypeOK, NoLink
<1>2. TypeOK /\ [Next]_vars => TypeOK'
  BY TypeStep
<1> QED
  BY <1>1, <1>2, PTL DEF Spec

-----------------------------------------------------------------------------
(* Attachments.                                                            *)

\* detach_receiver keeps the two ends of attachments in agreement and removes
\* exactly the attachments to the receivers it is called for.
LEMMA DetachFacts ==
    ASSUME TypeOK, AttachmentSymmetric, NEW R \in SUBSET Receivers, DetachReceivers(R)
    PROVE  /\ AttachmentSymmetric'
           /\ \A p \in Providers, r \in Receivers :
                 target'[p] = r => target[p] = r /\ r \notin R
<1>1. ASSUME NEW p \in Providers, NEW r \in Receivers
      PROVE  target'[p] = r <=> target[p] = r /\ r \notin R
  BY HubAssumption, <1>1 DEF TypeOK, AttachmentSymmetric, DetachReceivers, Dropped, Peers
<1>2. ASSUME NEW p \in Providers, NEW r \in Receivers
      PROVE  provider'[r] = p <=> provider[r] = p /\ r \notin R
  BY HubAssumption, <1>2 DEF TypeOK, DetachReceivers, Peers
<1> QED
  BY <1>1, <1>2 DEF AttachmentSymmetric

\* select keeps the two ends in agreement: p ends up attached to new alone and
\* no other provider to new, all else is as before.
LEMMA RetargetFacts ==
    ASSUME TypeOK, AttachmentSymmetric,
           NEW p \in Providers, NEW new \in Receivers \cup {None}, Retarget(p, new)
    PROVE  /\ AttachmentSymmetric'
           /\ \A q \in Providers, r \in Receivers :
                 target'[q] = r <=> \/ q = p /\ r = new
                                    \/ q # p /\ r # new /\ target[q] = r
<1> USE HubAssumption DEF Peers
<1>1. ASSUME NEW q \in Providers, NEW r \in Receivers
      PROVE  target'[q] = r <=> \/ q = p /\ r = new
                                \/ q # p /\ r # new /\ target[q] = r
  BY <1>1 DEF TypeOK, AttachmentSymmetric, Retarget, Robbed, Gained
<1>2. ASSUME NEW q \in Providers, NEW r \in Receivers
      PROVE  provider'[r] = q <=> \/ q = p /\ r = new
                                  \/ q # p /\ r # new /\ provider[r] = q
  BY <1>2 DEF TypeOK, AttachmentSymmetric, Retarget, Left, Gained
<1> QED
  BY <1>1, <1>2 DEF AttachmentSymmetric

\* No step breaks Attachments.
LEMMA AttachmentsStep ==
    ASSUME TypeOK, Attachments, [Next]_vars
    PROVE  Attachments'
<1> USE HubAssumption DEF Peers, Connected
<1>1. ASSUME NEW r \in Receivers, ReceiverJoin(r)
      PROVE  Attachments'
  <2> DEFINE old == {receivers[Name(r)]} \ {None}
  <2>0. Name(r) \in Names /\ old \in SUBSET Receivers /\ receivers' = [receivers EXCEPT ![Name(r)] = r]
    BY <1>1 DEF Name, TypeOK, ReceiverJoin
  <2>1. /\ AttachmentSymmetric'
        /\ \A p \in Providers, x \in Receivers : target'[p] = x => target[p] = x /\ x \notin old
    BY <1>1, <2>0, DetachFacts DEF ReceiverJoin, Attachments
  <2>2. /\ CalmerBut({r}) /\ link'[r].state # "none"
        /\ link[r].state = "none"
        /\ \A x \in Receivers \ {r} : receivers[Name(r)] = x => link'[x].state # "open"
    BY <1>1, ReceiverJoinLinks DEF ReceiverJoin
  <2>3. AttachedIsRegistered'
    <3> SUFFICES ASSUME NEW p \in Providers, NEW x \in Receivers, target'[p] = x
                 PROVE  receivers'[Name(x)] = x /\ {p, x} \subseteq Connected(link)'
      BY DEF AttachedIsRegistered
    <3>1. target[p] = x /\ x \notin old /\ receivers[Name(x)] = x /\ {p, x} \subseteq Connected(link)
      BY <2>1 DEF Attachments, AttachedIsRegistered
    <3>2. x # r /\ Name(x) # Name(r)
      BY <3>1, <2>2
    <3> QED
      BY <2>0, <2>2, <3>1, <3>2 DEF TypeOK, CalmerBut
  <2>4. OfferedIsConnected'
    BY <2>0, <2>2 DEF Attachments, OfferedIsConnected, TypeOK, CalmerBut
  <2>5. OpenIsRegistered'
    <3> SUFFICES ASSUME NEW x \in Receivers \ {r}, link'[x].state = "open"
                 PROVE  receivers'[Name(x)] = x
      BY <2>0 DEF OpenIsRegistered, TypeOK
    <3>1. link[x].state = "open" /\ receivers[Name(x)] = x
      BY <2>2 DEF CalmerBut, Attachments, OpenIsRegistered
    <3>2. Name(x) # Name(r)
      BY <3>1, <2>2
    <3> QED
      BY <2>0, <3>1, <3>2 DEF TypeOK
  <2> QED
    BY <2>1, <2>3, <2>4, <2>5 DEF Attachments
<1>2. ASSUME NEW r \in Receivers, ReceiverLeave(r)
      PROVE  Attachments'
  <2>1. CalmerBut({r}) /\ link'[r].state = "none"
    BY <1>2, ReceiverLeaveLinks
  <2>2. receivers' = [n \in Names |-> IF n = Name(r) /\ receivers[n] = r THEN None ELSE receivers[n]]
    BY <1>2 DEF ReceiverLeave, Registered
  <2>3. /\ AttachmentSymmetric'
        /\ \A p \in Providers, x \in Receivers : target'[p] = x => target[p] = x /\ x # r
    <3>1. CASE DetachReceivers({r})
      BY <3>1, DetachFacts DEF Attachments
    <3>2. CASE receivers[Name(r)] # r /\ UNCHANGED <<target, provider>>
      BY <3>2 DEF Attachments, AttachmentSymmetric, AttachedIsRegistered
    <3> QED
      BY <1>2, <3>1, <3>2 DEF ReceiverLeave, Registered, Name
  <2>4. AttachedIsRegistered'
    BY <2>1, <2>2, <2>3 DEF Attachments, AttachedIsRegistered, CalmerBut, Name
  <2>5. OfferedIsConnected'
    BY <2>1, <2>2 DEF Attachments, OfferedIsConnected, CalmerBut, TypeOK
  <2>6. OpenIsRegistered'
    BY <2>1, <2>2 DEF Attachments, OpenIsRegistered, CalmerBut, Name
  <2> QED
    BY <2>3, <2>4, <2>5, <2>6 DEF Attachments
<1>3. ASSUME NEW p \in Providers, ProviderJoin(p)
      PROVE  Attachments'
  <2>1. CalmerBut({p}) /\ link'[p].state # "none"
    BY <1>3, ProviderJoinLinks
  <2>2. UNCHANGED <<receivers, target, provider>>
    BY <1>3 DEF ProviderJoin
  <2> QED
    BY <2>1, <2>2 DEF Attachments, AttachmentSymmetric, AttachedIsRegistered, OfferedIsConnected,
                      OpenIsRegistered, CalmerBut, TypeOK
<1>4. ASSUME NEW p \in Providers, ProviderLeave(p)
      PROVE  Attachments'
  <2>1. CalmerBut({p}) /\ receivers' = receivers
    BY <1>4, ProviderLeaveLinks DEF ProviderLeave
  <2>2. /\ AttachmentSymmetric'
        /\ \A q \in Providers, r \in Receivers : target'[q] = r => q # p /\ target[q] = r
    BY <1>4, RetargetFacts DEF ProviderLeave, Attachments
  <2> QED
    BY <2>1, <2>2 DEF Attachments, AttachedIsRegistered, OfferedIsConnected, OpenIsRegistered,
                      CalmerBut, TypeOK
<1>5. ASSUME NEW p \in Providers, NEW n \in Names \cup {None}, Select(p, n)
      PROVE  Attachments'
  <2> DEFINE new == IF n \in Names THEN receivers[n] ELSE None
  <2>1. Calmer(link', link) /\ receivers' = receivers
    BY <1>5, OthersLinks DEF Others, Select
  <2>2. new \in Receivers \cup {None}
    BY DEF TypeOK
  <2>3. /\ AttachmentSymmetric'
        /\ \A q \in Providers, r \in Receivers :
              target'[q] = r => (q = p /\ r = new) \/ target[q] = r
    BY <1>5, <2>2, RetargetFacts DEF Select, Attachments
  <2>4. new # None => receivers[Name(new)] = new /\ {p, new} \subseteq Connected(link)
    BY <1>5 DEF Select, Attachments, OfferedIsConnected
  <2>5. AttachedIsRegistered'
    BY <2>1, <2>2, <2>3, <2>4 DEF Attachments, AttachedIsRegistered, Calmer
  <2> QED
    BY <2>1, <2>3, <2>5 DEF Attachments, OfferedIsConnected, OpenIsRegistered, Calmer, TypeOK
<1>6. ASSUME \/ Revalidate
             \/ \E x \in Peers : \/ Ping(x) \/ WriterFails(x) \/ Deliver(x)
                                 \/ \E b \in Payloads : Forward(x, b)
      PROVE  Attachments'
  <2>1. Calmer(link', link)
    BY <1>6, OthersLinks DEF Others
  <2>2. UNCHANGED <<receivers, target, provider>>
    BY <1>6 DEF Revalidate, Ping, WriterFails, Deliver, Forward
  <2> QED
    BY <2>1, <2>2 DEF Attachments, AttachmentSymmetric, AttachedIsRegistered, OfferedIsConnected,
                      OpenIsRegistered, Calmer, TypeOK
<1>7. ASSUME \/ \E k \in Keys : Approve(k) \/ Revoke(k)
             \/ UNCHANGED vars
      PROVE  Attachments'
  BY <1>7 DEF Approve, Revoke, vars, Attachments, AttachmentSymmetric, AttachedIsRegistered,
              OfferedIsConnected, OpenIsRegistered
<1> QED
  BY <1>1, <1>2, <1>3, <1>4, <1>5, <1>6, <1>7 DEF Next

\* It holds before the first connection.
LEMMA AttachmentsInit == Init => Attachments
BY HubAssumption DEF Init, Attachments, AttachmentSymmetric, AttachedIsRegistered,
                     OfferedIsConnected, OpenIsRegistered, NoLink, Peers

\* The two ends of every attachment agree, an attachment is to the registered
\* and connected receiver of that name, a name on offer belongs to a
\* connection, and of the connections of a name only that one is open
\* (select, detach_receiver, run_receiver, run_provider).
THEOREM AttachmentsHold ==
    Spec => [](/\ AttachmentSymmetric
               /\ AttachedIsRegistered
               /\ OfferedIsConnected
               /\ OpenIsRegistered)
<1>1. TypeOK /\ Attachments /\ [Next]_vars => Attachments'
  BY AttachmentsStep
<1>2. Attachments => /\ AttachmentSymmetric
                     /\ AttachedIsRegistered
                     /\ OfferedIsConnected
                     /\ OpenIsRegistered
  BY DEF Attachments
<1> QED
  BY <1>1, <1>2, AttachmentsInit, TypeCorrect, PTL DEF Spec

\* SIGHUP (revalidate) leaves no session open whose key file is gone, and the
\* handshake opens none, since it reads the folder afresh.
THEOREM RevocationHolds == Spec => []NoRevokedSession
<1>1. Init => NoRevokedSession
  BY DEF Init, NoRevokedSession, NoLink
<1>2. TypeOK /\ Attachments /\ NoRevokedSession /\ [Next]_vars => NoRevokedSession'
  <2> SUFFICES ASSUME TypeOK, Attachments, NoRevokedSession, [Next]_vars
               PROVE  NoRevokedSession'
    OBVIOUS
  <2> USE HubAssumption DEF NoRevokedSession, Peers
  <2>1. ASSUME NEW r \in Receivers, ReceiverJoin(r) \/ ReceiverLeave(r)
        PROVE  NoRevokedSession'
    BY <2>1, ReceiverJoinLinks, ReceiverLeaveLinks DEF ReceiverJoin, ReceiverLeave, CalmerBut
  <2>2. ASSUME NEW p \in Providers, ProviderJoin(p) \/ ProviderLeave(p)
        PROVE  NoRevokedSession'
    BY <2>2, ProviderJoinLinks, ProviderLeaveLinks DEF ProviderJoin, ProviderLeave, CalmerBut
  <2>3. ASSUME \/ \E p \in Providers : \E n \in Names \cup {None} : Select(p, n)
               \/ \E x \in Peers : \/ Ping(x) \/ WriterFails(x) \/ Deliver(x)
                                   \/ \E b \in Payloads : Forward(x, b)
        PROVE  NoRevokedSession'
    <3>1. Calmer(link', link)
      BY <2>3, OthersLinks DEF Others
    <3>2. UNCHANGED <<auth, revoked>>
      BY <2>3 DEF Select, Ping, WriterFails, Deliver, Forward
    <3> QED
      BY <3>1, <3>2 DEF Calmer
  <2>4. ASSUME Revalidate
        PROVE  NoRevokedSession'
    <3> SUFFICES ASSUME NEW x \in Peers, link'[x].state = "open", KeyOf[x] \notin auth'
                 PROVE  FALSE
      OBVIOUS
    <3>1. link[x].state = "open" /\ KeyOf[x] \notin auth
      BY <2>4, OthersLinks DEF Others, Calmer, Revalidate
    <3>2. x \in Receivers => receivers[Name(x)] = x
      BY <3>1 DEF Attachments, OpenIsRegistered
    <3>3. x \in Unauthorized
      BY <3>1, <3>2 DEF Unauthorized, Connected
    <3> QED
      BY <2>4, <3>3, CloseFacts DEF Revalidate, TypeOK, Links
  <2>5. ASSUME NEW k \in Keys, Approve(k) \/ Revoke(k)
        PROVE  NoRevokedSession'
    BY <2>5 DEF Approve, Revoke
  <2>6. CASE UNCHANGED vars
    BY <2>6 DEF vars
  <2> QED
    BY <2>1, <2>2, <2>3, <2>4, <2>5, <2>6 DEF Next
<1>3. TypeOK /\ Attachments /\ [Next]_vars => Attachments'
  BY AttachmentsStep
<1> QED
  BY <1>1, <1>2, <1>3, AttachmentsInit, TypeCorrect, PTL DEF Spec

-----------------------------------------------------------------------------
(* The relay implements the abstract attachment.                           *)

\* How the abstract attachment reads off the concrete one.
LEMMA TypingIntoFacts ==
    ASSUME TypeOK, Attachments, NEW p \in Providers
    PROVE  /\ TypingInto[p] = IF target[p] = None THEN None ELSE Name(target[p])
           /\ target[p] # None => Name(target[p]) \in Names
           /\ \A r \in Receivers : r \in {receivers[Name(r)]} =>
                 (TypingInto[p] = Name(r) <=> target[p] = r)
<1> USE HubAssumption DEF Peers
<1>1. TypingInto[p] = IF target[p] = None THEN None ELSE Name(target[p])
  BY DEF TypingInto, PartnerName, Partner
<1>2. target[p] # None => Name(target[p]) \in Names
  BY DEF TypeOK, Name
<1>3. \A r \in Receivers : Name(r) \in Names
  BY DEF Name
<1> QED
  BY <1>1, <1>2, <1>3 DEF TypeOK, Attachments, AttachedIsRegistered

\* A step that leaves receivers and target alone is a stutter.
LEMMA AttachmentStutter ==
    ASSUME UNCHANGED <<receivers, target>>
    PROVE  UNCHANGED <<Offered, TypingInto>>
BY DEF Offered, TypingInto, PartnerName, Partner

\* Every step of the relay is one of the abstract attachment, or a stutter.
LEMMA AttachmentStep ==
    ASSUME TypeOK, TypeOK', Attachments, Attachments', [Next]_vars
    PROVE  [A!ANext]_(A!avars)
<1> USE HubAssumption DEF Peers
<1> DEFINE Detaches(n) ==
        \A p \in Providers : TypingInto'[p] = IF TypingInto[p] = n THEN None ELSE TypingInto[p]
<1>0. \A n : Detaches(n) => TypingInto' = A!Without(n)
  BY DEF A!Without, TypingInto
<1>1. ASSUME NEW r \in Receivers, ReceiverJoin(r)
      PROVE  A!Appear(Name(r)) /\ Name(r) \in Names
  <2> DEFINE old == {receivers[Name(r)]} \ {None}
  <2>1. Name(r) \in Names /\ old \in SUBSET Receivers
        /\ receivers' = [receivers EXCEPT ![Name(r)] = r]
    BY <1>1 DEF Name, TypeOK, ReceiverJoin
  <2>2. Offered' = Offered \cup {Name(r)}
    BY <2>1 DEF Offered, TypeOK
  <2>3. ASSUME NEW p \in Providers
        PROVE  TypingInto'[p] = IF TypingInto[p] = Name(r) THEN None ELSE TypingInto[p]
    <3>1. target'[p] = IF target[p] \in old THEN None ELSE target[p]
      BY <1>1, <2>1 DEF ReceiverJoin, DetachReceivers, Dropped, Attachments, AttachmentSymmetric, TypeOK
    <3>2. target[p] \in old <=> TypingInto[p] = Name(r)
      BY <2>1, TypingIntoFacts DEF TypeOK, Attachments, AttachedIsRegistered, OfferedIsConnected
    <3>3. TypingInto'[p] = IF target'[p] = None THEN None ELSE Name(target'[p])
      BY DEF TypingInto, PartnerName, Partner
    <3> QED
      BY <3>1, <3>2, <3>3, TypingIntoFacts
  <2> QED
    BY <1>0, <2>1, <2>2, <2>3 DEF A!Appear
<1>2. ASSUME NEW r \in Receivers, ReceiverLeave(r)
      PROVE  (A!Vanish(Name(r)) /\ Name(r) \in Names) \/ UNCHANGED <<Offered, TypingInto>>
  <2>0. Name(r) \in Names
    BY DEF Name
  <2>1. CASE receivers[Name(r)] = r
    <3>1. /\ receivers' = [n \in Names |-> IF n = Name(r) THEN None ELSE receivers[n]]
          /\ DetachReceivers({r})
      BY <1>2, <2>0, <2>1 DEF ReceiverLeave, Registered
    <3>2. Name(r) \in Offered /\ Offered' = Offered \ {Name(r)}
      BY <2>0, <2>1, <3>1 DEF Offered, TypeOK
    <3>3. ASSUME NEW p \in Providers
          PROVE  TypingInto'[p] = IF TypingInto[p] = Name(r) THEN None ELSE TypingInto[p]
      <4>1. target'[p] = IF target[p] = r THEN None ELSE target[p]
        BY <3>1 DEF DetachReceivers, Dropped, Attachments, AttachmentSymmetric, TypeOK
      <4>2. target[p] = r <=> TypingInto[p] = Name(r)
        BY <2>1, TypingIntoFacts
      <4>3. TypingInto'[p] = IF target'[p] = None THEN None ELSE Name(target'[p])
        BY DEF TypingInto, PartnerName, Partner
      <4> QED
        BY <4>1, <4>2, <4>3, TypingIntoFacts
    <3> QED
      BY <1>0, <2>0, <3>2, <3>3 DEF A!Vanish
  <2>2. CASE receivers[Name(r)] # r
    <3>1. receivers' = receivers /\ target' = target
      BY <1>2, <2>2 DEF ReceiverLeave, Registered, TypeOK
    <3> QED
      BY <3>1, AttachmentStutter
  <2> QED
    BY <2>1, <2>2
<1>3. ASSUME NEW p \in Providers, NEW new \in Receivers \cup {None}, Retarget(p, new),
             receivers' = receivers, new # None => receivers[Name(new)] = new
      PROVE  IF new = None THEN A!Detach(p) ELSE A!Attach(p, Name(new))
  <2>1. Offered' = Offered /\ new # None => Name(new) \in Offered
    BY <1>3 DEF Offered, Name
  <2>2. \A q \in Providers : TypingInto'[q] = IF target'[q] = None THEN None ELSE Name(target'[q])
    BY DEF TypingInto, PartnerName, Partner
  <2>3. target'[p] = new
    BY <1>3 DEF Retarget
  <2>4. ASSUME NEW q \in Providers \ {p}
        PROVE  target'[q] = IF target[q] = new THEN None ELSE target[q]
    <3>1. \A r \in Receivers : target'[q] = r <=> r # new /\ target[q] = r
      BY <1>3, RetargetFacts DEF Attachments
    <3> QED
      BY <3>1 DEF TypeOK
  <2>5. /\ TypingInto = [q \in Providers |-> TypingInto[q]]
        /\ TypingInto' = [q \in Providers |-> TypingInto'[q]]
    BY DEF TypingInto
  <2>6. CASE new = None
    <3> DEFINE t == [TypingInto EXCEPT ![p] = None]
    <3>1. \A q \in Providers : TypingInto'[q] = t[q]
      BY <2>2, <2>3, <2>4, <2>6, <2>5, TypingIntoFacts
    <3>2. TypingInto' = t
      BY <2>5, <3>1
    <3> QED
      BY <1>3, <2>6, <3>2 DEF A!Detach, Offered
  <2>7. CASE new # None
    <3>1. \A q \in Providers : target[q] = new <=> TypingInto[q] = Name(new)
      BY <1>3, <2>7, TypingIntoFacts
    <3> DEFINE t == [A!Without(Name(new)) EXCEPT ![p] = Name(new)]
    <3>2. \A q \in Providers : TypingInto'[q] = t[q]
      BY <2>2, <2>3, <2>4, <2>7, <3>1, TypingIntoFacts DEF A!Without
    <3>3. TypingInto' = t
      BY <2>5, <3>2 DEF A!Without
    <3> QED
      BY <1>3, <2>1, <2>7, <3>3 DEF A!Attach, Offered, Name
  <2> QED
    BY <2>6, <2>7
<1>4. ASSUME NEW p \in Providers, ProviderLeave(p)
      PROVE  A!Detach(p)
  BY <1>3, <1>4 DEF ProviderLeave
<1>5. ASSUME NEW p \in Providers, NEW n \in Names \cup {None}, Select(p, n)
      PROVE  A!ANext
  <2> DEFINE new == IF n \in Names THEN receivers[n] ELSE None
  <2>1. new \in Receivers \cup {None} /\ (new # None => n = Name(new) /\ receivers[Name(new)] = new)
    BY DEF TypeOK, Attachments, OfferedIsConnected
  <2>2. IF new = None THEN A!Detach(p) ELSE A!Attach(p, Name(new))
    BY <1>3, <1>5, <2>1 DEF Select
  <2>3. new # None => Name(new) \in Names
    BY <2>1 DEF Name
  <2> QED
    BY <2>2, <2>3 DEF A!ANext
<1>6. ASSUME \/ \E p \in Providers : ProviderJoin(p)
             \/ \E x \in Peers : \/ Ping(x) \/ WriterFails(x) \/ Deliver(x)
                                 \/ \E b \in Payloads : Forward(x, b)
             \/ \E k \in Keys : Approve(k) \/ Revoke(k)
             \/ Revalidate
             \/ UNCHANGED vars
      PROVE  UNCHANGED <<Offered, TypingInto>>
  BY <1>6, AttachmentStutter DEF ProviderJoin, Ping, WriterFails, Deliver, Forward, Approve, Revoke,
                                 Revalidate, vars
<1> QED
  BY <1>1, <1>2, <1>4, <1>5, <1>6 DEF Next, A!ANext, A!avars

\* The relay promises what Attachment says, in every behaviour: one provider
\* per receiver, the last one that asked, and only while the name is online.
THEOREM ImplementsAttachment == Spec => Attachment
<1>1. Init => A!AInit
  BY HubAssumption DEF Init, A!AInit, Offered, TypingInto, PartnerName, Partner, Peers
<1>2. TypeOK /\ TypeOK' /\ Attachments /\ Attachments' /\ [Next]_vars => [A!ANext]_(A!avars)
  BY AttachmentStep
<1>3. TypeOK /\ Attachments /\ [Next]_vars => Attachments'
  BY AttachmentsStep
<1> QED
  BY <1>1, <1>2, <1>3, AttachmentsInit, TypeCorrect, PTL DEF Spec, Attachment, A!ASpec
=============================================================================
