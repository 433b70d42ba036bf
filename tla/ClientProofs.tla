---------------------------- MODULE ClientProofs ----------------------------
(***************************************************************************)
(* What the two systems of clients have in common (modules KbRelay and     *)
(* GatewayRelay): the requests and messages under way, the relay's         *)
(* handlers and the receivers.                                             *)
(***************************************************************************)
EXTENDS ReceiverApp, NewsProofs

\* What x may ask of the relay: a part of a handshake names the client that makes it.
Made(x) == {m \in Request : m.type = "blob" /\ m.body.step \in {"hs1", "hs2"} => m.body.pub = x}

Requests == {u \in [Peers -> Seq(Request)] : \A x \in Peers : u[x] \in Seq(Made(x))}

\* So does what the relay makes of it.
Genuine(m) == m.type = "e2e" /\ m.body.step \in {"hs1", "hs2"} => m.body.pub = m.from

Carried == {m \in Message : Genuine(m)}

\* Only such messages are under way, and nothing is without a connection.
Carries(links) == \A x \in Peers : /\ links[x].queue \in Seq(Carried)
                                   /\ links[x].state = "none" => links[x].queue = << >>

\* The steps of the relay's handler of x, and of receiver r.
Serves(x) == ServerReads(x) \/ ServerDrops(x)

Receives(r) == RxConsumes(r) \/ RxConnects(r) \/ RxDisconnects(r)

-----------------------------------------------------------------------------
(* What the programs send.                                                 *)

\* Requests and blobs have the types they should have.
LEMMA RequestTypes ==
    /\ \A n \in Names \cup {None} : SelectReq(n) \in Request
    /\ \A b \in Blobs : Blob(b) \in Request
    /\ \A p \in Providers, e \in Ephemerals : Hs1(p, e) \in Blobs
    /\ \A r \in Receivers, p \in Providers, e \in Ephemerals : Hs2(r, p, e) \in Blobs
    /\ Err \in Blobs
    /\ \A p \in Providers, e \in Ephemerals, r \in Receivers, m \in Plain : Sealed(p, e, r, m) \in Blobs
    /\ ReleaseAll \in Plain
    /\ \A c \in KeyCodes, d \in BOOLEAN : KeyMsg(c, d) \in Plain
BY DEF SelectReq, Blob, Hs1, Hs2, Err, Sealed, ReleaseAll, KeyMsg, Request, Blobs, Plain

\* What is read of a message depends on its type.
LEMMA MessageParts ==
    ASSUME NEW m \in Message
    PROVE  /\ m.type = "receivers" => m.names \in SUBSET Names
           /\ m.type = "selected" => m.who \in Names \cup {None}
           /\ m.type = "e2e" => m.body \in Blobs
BY ClientsAssumption DEF Message, Notice, Detached

\* So does what is read of a blob.
LEMMA BlobParts ==
    ASSUME NEW b \in Blobs
    PROVE  /\ b.step = "hs1" => b.pub \in Providers /\ b.epk \in Ephemerals
           /\ b.step = "hs2" => b.pub \in Receivers
           /\ b.step = "ct" => b.plain \in Plain
BY DEF Blobs, Err

\* What each program may ask for.
LEMMA MadeTypes ==
    ASSUME NEW x \in Peers
    PROVE  /\ \A n \in Names \cup {None} : <<SelectReq(n)>> \in Seq(Made(x))
           /\ \A e \in Ephemerals : x \in Providers => <<Blob(Hs1(x, e))>> \in Seq(Made(x))
           /\ <<Blob(Err)>> \in Seq(Made(x))
           /\ \A p \in Providers, e \in Ephemerals, r \in Receivers, m \in Plain :
                 <<Blob(Sealed(p, e, r, m))>> \in Seq(Made(x))
           /\ \A p \in Providers, e \in Ephemerals : x \in Receivers => <<Blob(Hs2(x, p, e))>> \in Seq(Made(x))
<1>1. \A m \in Made(x) : <<m>> \in Seq(Made(x))
  OBVIOUS
<1>2. /\ \A n : SelectReq(n).type # "blob"
      /\ \A b : Blob(b).body = b
      /\ \A e : Hs1(x, e).pub = x
      /\ Err.step \notin {"hs1", "hs2"}
      /\ \A p, e, r, m : Sealed(p, e, r, m).step \notin {"hs1", "hs2"}
      /\ \A p, e : Hs2(x, p, e).pub = x
  BY DEF SelectReq, Blob, Hs1, Hs2, Err, Sealed
<1> QED
  BY <1>1, <1>2, RequestTypes DEF Made

\* Sending keeps the requests under way typed.
LEMMA SendTypes ==
    ASSUME up \in Requests, NEW x \in Peers, NEW requests \in Seq(Made(x)), Send(x, requests)
    PROVE  up' \in Requests
<1>1. Made(x) \subseteq Request /\ up[x] \in Seq(Made(x))
  BY DEF Made, Requests
<1>2. up[x] \o requests \in Seq(Made(x)) /\ up[x] \o requests \in Seq(Request)
  <2> DEFINE M == Made(x)
  <2> HIDE DEF M
  <2>1. up[x] \o requests \in Seq(M)
    BY <1>1, ConcatProperties DEF M
  <2>2. M \subseteq Request
    BY <1>1 DEF M
  <2> QED
    BY <2>1, <2>2 DEF M
<1>3. up' = up \/ up' = [up EXCEPT ![x] = up[x] \o requests]
  BY DEF Send
<1> QED
  BY <1>2, <1>3 DEF Requests

-----------------------------------------------------------------------------
(* The relay and the receivers.                                            *)

\* A receiver's session and keys are those it is told of.
LEMMA ReceivesTypes ==
    ASSUME TypeOK, up \in Requests, rx \in [Receivers -> Device], NEW r \in Receivers, Receives(r)
    PROVE  up' \in Requests /\ rx' \in [Receivers -> Device]
<1>1. Idle(TRUE) \in Device /\ Idle(FALSE) \in Device
  BY DEF Idle, Device
<1>2. ASSUME NEW b \in Blobs, b.step = "hs1", OnHs1(r, b)
      PROVE  up' \in Requests /\ rx' \in [Receivers -> Device]
  <2>1. b.pub \in Providers /\ b.epk \in Ephemerals
    BY <1>2, BlobParts
  <2>2. [Idle(TRUE) EXCEPT !.session = <<b.pub, b.epk>>] \in Device
    BY <2>1 DEF Idle, Device
  <2>3. rx' \in [Receivers -> Device]
    BY <1>1, <1>2, <2>2 DEF OnHs1
  <2>4. <<Blob(Hs2(r, b.pub, b.epk))>> \in Seq(Made(r)) /\ <<Blob(Err)>> \in Seq(Made(r))
    BY <2>1, MadeTypes DEF Peers
  <2> QED
    BY <1>2, <2>3, <2>4, SendTypes DEF OnHs1, Peers
<1>3. ASSUME NEW b \in Blobs, b.step = "ct", OnSealed(r, b)
      PROVE  up' \in Requests /\ rx' \in [Receivers -> Device]
  <2>1. b.plain \in Plain
    BY <1>3, BlobParts
  <2>2. Typed(rx[r].down, b.plain) \in SUBSET KeyCodes
    BY <2>1 DEF Typed, Plain, ReleaseAll, Device
  <2> QED
    BY <1>3, <2>2 DEF OnSealed, Device
<1>4. CASE RxConsumes(r)
  <2> DEFINE m == Head(link[r].queue)
  <2>1. m \in Message
    BY <1>4 DEF RxConsumes, Deliver, TypeOK, Peers
  <2>2. m.type = "e2e" => m.body \in Blobs
    BY <2>1, MessageParts
  <2> QED
    BY <1>1, <1>2, <1>3, <1>4, <2>2 DEF RxConsumes, OnAttachment
<1>5. CASE RxConnects(r)
  BY <1>1, <1>5 DEF RxConnects
<1>6. CASE RxDisconnects(r)
  BY <1>1, <1>6 DEF RxDisconnects
<1> QED
  BY <1>4, <1>5, <1>6 DEF Receives

\* A request that is read was typed.
LEMMA ServesTypes ==
    ASSUME up \in Requests, NEW x \in Peers, Serves(x)
    PROVE  up' \in Requests
<1>1. CASE ServerReads(x)
  <2>1. up[x] \in Seq(Made(x)) /\ up[x] \in Seq(Request) /\ up[x] # << >> /\ up' = [up EXCEPT ![x] = Tail(up[x])]
    BY <1>1 DEF ServerReads, Requests
  <2>2. Tail(up[x]) \in Seq(Made(x)) /\ Tail(up[x]) \in Seq(Request)
    BY <2>1, HeadTailProperties
  <2> QED
    BY <2>1, <2>2 DEF Requests
<1>2. CASE ServerDrops(x)
  BY <1>2, EmptySeq DEF ServerDrops, Requests
<1> QED
  BY <1>1, <1>2 DEF Serves

\* What the relay's handlers do is a step of Hub, ...
LEMMA ServesHub ==
    ASSUME up \in [Peers -> Seq(Request)], NEW x \in Peers, Serves(x)
    PROVE  [Next]_vars
<1>1. CASE ServerReads(x)
  <2> DEFINE m == Head(up[x])
  <2>1. m \in Request
    BY <1>1 DEF ServerReads
  <2>2. ASSUME m.type = "select", x \in Providers, Select(x, m.receiver)
        PROVE  Next
    <3>1. m.receiver \in Names \cup {None}
      BY <2>1, <2>2 DEF Request
    <3> QED
      BY <2>2, <3>1 DEF Next
  <2>3. ASSUME m.type = "blob", Forward(x, m.body)
        PROVE  Next
    <3>1. m.body \in Payloads
      BY <2>1, <2>3, ClientsAssumption DEF Request
    <3> QED
      BY <2>3, <3>1 DEF Next
  <2> QED
    BY <1>1, <2>2, <2>3 DEF ServerReads
<1>2. CASE ServerDrops(x)
  BY <1>2 DEF ServerDrops, Leave, Next, Peers
<1> QED
  BY <1>1, <1>2 DEF Serves

\* ... and so is what receivers do, or it is nothing to the relay.
LEMMA ReceivesHub ==
    ASSUME NEW r \in Receivers, Receives(r)
    PROVE  [Next]_vars
BY DEF Receives, RxConsumes, RxConnects, RxDisconnects, Next, Peers

-----------------------------------------------------------------------------
(* What the relay's steps do to the connections.                           *)

\* Only blobs may be replies.
LEMMA CarriedMessages ==
    ASSUME NEW m \in Message, m.type # "e2e"
    PROVE  m \in Carried
BY DEF Carried, Genuine

\* Connection.send adds a message, closes the connection or drops the message.
LEMMA TellCarries ==
    ASSUME NEW links \in Links, Carries(links), NEW S, NEW m \in Carried
    PROVE  Carries(Tell(links, S, m))
<1>1. ASSUME NEW x \in Peers
      PROVE  /\ Tell(links, S, m)[x].queue \in Seq(Carried)
             /\ Tell(links, S, m)[x].state = "none" => Tell(links, S, m)[x].queue = << >>
  <2>1. /\ links[x].queue \in Seq(Carried) /\ (links[x].state = "none" => links[x].queue = << >>)
        /\ links[x] \in Link
    BY DEF Carries, Links, Link
  <2>2. Append(links[x].queue, m) \in Seq(Carried)
    BY <2>1, AppendProperties
  <2>3. /\ Put(links[x], m).queue \in Seq(Carried)
        /\ Put(links[x], m).state = "none" => Put(links[x], m).queue = << >>
    BY <2>1, <2>2 DEF Put, Link
  <2> QED
    BY <2>1, <2>3, TellAt
<1> QED
  BY <1>1 DEF Carries

\* A connection that is being closed keeps its queue.
LEMMA CloseCarries ==
    ASSUME NEW links \in Links, Carries(links), NEW S
    PROVE  Carries(Close(links, S))
<1>1. ASSUME NEW x \in Peers
      PROVE  /\ Close(links, S)[x].queue = links[x].queue
             /\ Close(links, S)[x].state = "none" => links[x].state = "none"
  BY DEF Links, Close
<1> QED
  BY <1>1 DEF Carries

\* A connection that begins carries the welcome, one that ends nothing.
LEMMA NewCarries ==
    ASSUME NEW links \in Links, Carries(links), NEW x \in Peers, NEW l \in {Accepted, NoLink}
    PROVE  Carries([links EXCEPT ![x] = l]) /\ [links EXCEPT ![x] = l] \in Links
<1>1. Notice \in Carried /\ Notice \in Message
  BY MessageTypes, SaysNothing, CarriedMessages
<1>2. l.queue \in Seq(Carried) /\ (l.state = "none" => l.queue = << >>) /\ l \in Link
  <2>1. CASE l = Accepted
    <3>1. <<Notice>> \in Seq(Carried) /\ <<Notice>> \in Seq(Message)
      BY <1>1
    <3>2. l.queue = <<Notice>> /\ l.state = "open"
      BY <2>1 DEF Accepted
    <3> QED
      BY <2>1, <3>1, <3>2 DEF Accepted, Link
  <2>2. CASE l = NoLink
    <3>1. << >> \in Seq(Carried) /\ << >> \in Seq(Message)
      OBVIOUS
    <3> QED
      BY <2>2, <3>1 DEF NoLink, Link
  <2> QED
    BY <2>1, <2>2
<1> DEFINE a == [links EXCEPT ![x] = l]
<1>3. ASSUME NEW y \in Peers
      PROVE  a[y] = l \/ a[y] = links[y]
  BY DEF Links
<1>4. a \in Links
  BY <1>2 DEF Links, Link
<1> HIDE DEF a
<1>5. Carries(a)
  BY <1>2, <1>3 DEF Carries
<1> QED
  BY <1>4, <1>5 DEF a

\* A list of receivers is no reply.
LEMMA ListCarries ==
    ASSUME NEW links \in Links, Carries(links), NEW rs
    PROVE  Carries(Broadcast(links, rs))
<1>1. ReceiversMsg(rs) \in Carried
  BY MessageTypes, SaysNothing, CarriedMessages
<1> QED
  BY <1>1, TellCarries DEF Broadcast

\* Neither is an announcement.
LEMMA PartnerCarries ==
    ASSUME NEW links \in Links, Carries(links), NEW S, NEW m \in Message, Announces(m)
    PROVE  Carries(Tell(links, S, m)) /\ Tell(links, S, m) \in Links
<1>1. m \in Carried
  BY CarriedMessages DEF Announces
<1> QED
  BY <1>1, TellCarries, TellFacts

\* What select tells the receivers that lose and gain a provider.
LEMMA AnnounceCarries ==
    ASSUME link \in Links, Carries(link), NEW p \in Providers, NEW new
    PROVE  Carries(Announce(p, new)) /\ Announce(p, new) \in Links
<1> DEFINE a == Tell(link, Left(p, new), Detached)
           b == Tell(a, Robbed(p, new), Selected(None))
<1>0. /\ Detached \in Message /\ Selected(None) \in Message /\ Attached(p) \in Message
      /\ Announces(Detached) /\ Announces(Selected(None)) /\ Announces(Attached(p))
  BY MessageTypes, SaysWho
<1>1. Carries(a) /\ a \in Links
  BY <1>0, PartnerCarries
<1>2. Carries(b) /\ b \in Links
  BY <1>0, <1>1, PartnerCarries
<1> QED
  BY <1>0, <1>2, PartnerCarries DEF Announce

\* run_receiver starts.
LEMMA ReceiverJoinCarries ==
    ASSUME TypeOK, Carries(link), NEW r \in Receivers, ReceiverJoin(r)
    PROVE  Carries(link')
<1> DEFINE old == {receivers[Name(r)]} \ {None}
           a == [link EXCEPT ![r] = Accepted]
           b == Tell(a, Dropped(old), Selected(None))
           c == Close(b, old)
<1>1. Carries(a) /\ a \in Links
  BY NewCarries DEF TypeOK, Links, Peers
<1>2. Carries(b) /\ b \in Links
  BY <1>1, PartnerCarries, MessageTypes, SaysWho
<1>3. Carries(c) /\ c \in Links
  BY <1>2, CloseCarries, CloseFacts
<1>4. link' = Broadcast(c, receivers')
  BY DEF ReceiverJoin
<1> QED
  BY <1>3, <1>4, ListCarries

\* run_receiver ends.
LEMMA ReceiverLeaveCarries ==
    ASSUME TypeOK, Carries(link), NEW r \in Receivers, ReceiverLeave(r)
    PROVE  Carries(link')
<1> DEFINE gone == [link EXCEPT ![r] = NoLink]
           b == Tell(gone, Dropped({r}), Selected(None))
<1>1. Carries(gone) /\ gone \in Links
  BY NewCarries DEF TypeOK, Links, Peers
<1>2. Carries(b) /\ b \in Links
  BY <1>1, PartnerCarries, MessageTypes, SaysWho
<1>3. link' = gone \/ link' = Broadcast(b, receivers')
  BY DEF ReceiverLeave
<1> QED
  BY <1>1, <1>2, <1>3, ListCarries

\* run_provider starts.
LEMMA ProviderJoinCarries ==
    ASSUME TypeOK, Carries(link), NEW p \in Providers, ProviderJoin(p)
    PROVE  Carries(link')
<1> DEFINE a == [link EXCEPT ![p] = Accepted]
<1>1. Carries(a) /\ a \in Links
  BY NewCarries DEF TypeOK, Links, Peers
<1>2. ReceiversMsg(receivers) \in Carried
  BY MessageTypes, SaysNothing, CarriedMessages
<1>3. link' = Tell(a, {p}, ReceiversMsg(receivers))
  BY DEF ProviderJoin
<1> QED
  BY <1>1, <1>2, <1>3, TellCarries

\* run_provider ends.
LEMMA ProviderLeaveCarries ==
    ASSUME TypeOK, Carries(link), NEW p \in Providers, ProviderLeave(p)
    PROVE  Carries(link')
<1>1. Carries(Announce(p, None)) /\ Announce(p, None) \in Links
  BY AnnounceCarries DEF TypeOK, Links
<1> QED
  BY <1>1, NewCarries DEF ProviderLeave, Peers

\* The handler of a select.
LEMMA SelectCarries ==
    ASSUME TypeOK, Carries(link), NEW p \in Providers, NEW n \in Names \cup {None}, Select(p, n)
    PROVE  Carries(link')
<1> DEFINE new == IF n \in Names THEN receivers[n] ELSE None
           reply == Selected(IF new = None THEN None ELSE n)
<1>1. Carries(Announce(p, new)) /\ Announce(p, new) \in Links
  BY AnnounceCarries DEF TypeOK, Links
<1>2. reply \in Message /\ Announces(reply)
  BY MessageTypes, SaysWho
<1>3. link' = Tell(Announce(p, new), {p}, reply)
  BY DEF Select
<1> QED
  BY <1>1, <1>2, <1>3, PartnerCarries

\* The relay adds the sender to what it forwards.
LEMMA ForwardCarries ==
    ASSUME TypeOK, Carries(link), NEW x \in Peers, NEW b \in Blobs, Forward(x, b), b.step \in {"hs1", "hs2"} => b.pub = x
    PROVE  Carries(link')
<1>1. E2E(x, b) \in Carried
  BY MessageTypes, ClientsAssumption DEF Carried, Genuine, E2E
<1> QED
  BY <1>1, TellCarries DEF Forward, TypeOK, Links

\* A client takes the first message of its queue.
LEMMA DeliverCarries ==
    ASSUME Carries(link), TypeOK, NEW x \in Peers, Deliver(x)
    PROVE  Carries(link') /\ Head(link[x].queue) \in Carried /\ link[x].state # "none"
<1>1. link[x].queue \in Seq(Carried) /\ link[x].queue # << >>
  BY DEF Carries, Deliver
<1>2. Head(link[x].queue) \in Carried /\ Tail(link[x].queue) \in Seq(Carried)
  BY <1>1, HeadTailProperties
<1> QED
  BY <1>1, <1>2 DEF Deliver, Carries, TypeOK

\* The relay's handlers put only genuine replies on connections, ...
LEMMA ServesCarries ==
    ASSUME TypeOK, up \in Requests, Carries(link), NEW x \in Peers, Serves(x)
    PROVE  Carries(link')
<1>1. CASE ServerReads(x)
  <2> DEFINE m == Head(up[x])
  <2>1. m \in Made(x)
    BY <1>1 DEF ServerReads, Requests
  <2>2. CASE m.type = "select" /\ x \in Providers /\ Select(x, m.receiver)
    <3>1. m.receiver \in Names \cup {None}
      BY <2>1, <2>2 DEF Request, Made
    <3> QED
      BY <2>2, <3>1, SelectCarries
  <2>3. CASE m.type = "blob" /\ Forward(x, m.body)
    <3>1. m.body \in Blobs /\ (m.body.step \in {"hs1", "hs2"} => m.body.pub = x)
      BY <2>1, <2>3 DEF Request, Made
    <3> QED
      BY <2>3, <3>1, ForwardCarries
  <2>4. CASE UNCHANGED vars
    BY <2>4 DEF vars
  <2> QED
    BY <1>1, <2>2, <2>3, <2>4 DEF ServerReads
<1>2. CASE ServerDrops(x)
  BY <1>2, ProviderLeaveCarries, ReceiverLeaveCarries DEF ServerDrops, Leave, Peers
<1> QED
  BY <1>1, <1>2 DEF Serves

\* ... and receivers put nothing there.
LEMMA ReceivesCarries ==
    ASSUME TypeOK, Carries(link), NEW r \in Receivers, Receives(r)
    PROVE  Carries(link')
BY DeliverCarries, ReceiverJoinCarries DEF Receives, RxConsumes, RxConnects, RxDisconnects, vars, Peers

-----------------------------------------------------------------------------
(* What a client believes.                                                 *)

\* The connection of p goes on, or is none, and p has been told nothing.
Undisturbed(p) == link'[p].state # "none" => link[p].state # "none" /\ view'[p].who = view[p].who

\* A client believes what it consumes.
LEMMA Believes ==
    ASSUME TypeOK, NEW x \in Peers, Deliver(x)
    PROVE  view'[x].who = After(view[x].who, Head(link[x].queue))
<1> DEFINE m == Head(link[x].queue)
<1>1. CASE Announces(m)
  <2>1. view' = [view EXCEPT ![x].who = m.who]
    BY <1>1 DEF Deliver, Announces
  <2> QED
    BY <1>1, <2>1 DEF After, TypeOK
<1>2. CASE ~ Announces(m) /\ m.type = "receivers"
  <2>1. view' = [view EXCEPT ![x].names = m.names]
    BY <1>2 DEF Deliver, Announces
  <2> QED
    BY <1>2, <2>1 DEF After, TypeOK
<1>3. CASE ~ Announces(m) /\ m.type # "receivers"
  <2>1. view' = view
    BY <1>3 DEF Deliver, Announces
  <2> QED
    BY <1>3, <2>1 DEF After
<1> QED
  BY <1>1, <1>2, <1>3

\* A client that takes a message disturbs no other.
LEMMA DeliverAlone ==
    ASSUME TypeOK, NEW x \in Peers, NEW p \in Peers \ {x}, Deliver(x)
    PROVE  Undisturbed(p)
<1>1. Calmer(link', link)
  BY OthersLinks DEF Others
<1>2. view'[p] = view[p]
  BY DEF Deliver, TypeOK, Peers
<1> QED
  BY <1>1, <1>2 DEF Undisturbed, Calmer, Peers

\* What others do does not disturb p.
LEMMA OthersLeaveAlone ==
    ASSUME TypeOK, up \in [Peers -> Seq(Request)], NEW p \in Peers,
           \/ \E x \in Peers : Serves(x)
           \/ \E r \in Receivers \ {p} : Receives(r)
           \/ \E q \in Providers \ {p} : ProviderJoin(q)
    PROVE  Undisturbed(p)
<1>0. CASE UNCHANGED <<link, view>>
  BY <1>0 DEF Undisturbed
<1>1. ASSUME NEW x \in Peers, ServerReads(x)
      PROVE  Undisturbed(p)
  <2> DEFINE m == Head(up[x])
  <2>1. m \in Request
    BY <1>1 DEF ServerReads
  <2>2. CASE m.type = "select" /\ x \in Providers /\ Select(x, m.receiver)
    <3>1. m.receiver \in Names \cup {None}
      BY <2>1, <2>2 DEF Request
    <3>2. Calmer(link', link)
      BY <2>2, <3>1, OthersLinks DEF Others
    <3>3. view' = view
      BY <2>2 DEF Select
    <3> QED
      BY <3>2, <3>3 DEF Calmer, Undisturbed, Peers
  <2>3. CASE m.type = "blob" /\ Forward(x, m.body)
    <3>1. m.body \in Payloads
      BY <2>1, <2>3, ClientsAssumption DEF Request
    <3>2. Calmer(link', link)
      BY <2>3, <3>1, OthersLinks DEF Others
    <3>3. view' = view
      BY <2>3 DEF Forward
    <3> QED
      BY <3>2, <3>3 DEF Calmer, Undisturbed, Peers
  <2>4. CASE UNCHANGED vars
    BY <1>0, <2>4 DEF vars
  <2> QED
    BY <1>1, <2>2, <2>3, <2>4 DEF ServerReads
<1>2. ASSUME NEW x \in Peers, link' \in Links, CalmerBut({x}), view' = Blank(x),
             x = p => link'[x].state = "none"
      PROVE  Undisturbed(p)
  BY <1>2 DEF Undisturbed, CalmerBut, Blank, TypeOK, Peers
<1>3. ASSUME NEW x \in Peers, ServerDrops(x)
      PROVE  Undisturbed(p)
  <2>1. CASE x \in Providers /\ ProviderLeave(x)
    <3>1. view' = Blank(x)
      BY <2>1 DEF ProviderLeave
    <3> QED
      BY <1>2, <2>1, <3>1, ProviderLeaveLinks
  <2>2. CASE x \in Receivers /\ ReceiverLeave(x)
    <3>1. view' = Blank(x)
      BY <2>2 DEF ReceiverLeave
    <3> QED
      BY <1>2, <2>2, <3>1, ReceiverLeaveLinks
  <2> QED
    BY <1>3, <2>1, <2>2 DEF ServerDrops, Leave, Peers
<1>4. ASSUME NEW r \in Receivers \ {p}, Receives(r)
      PROVE  Undisturbed(p)
  <2>1. p \in Peers \ {r} /\ r \in Peers \ {p}
    BY DEF Peers
  <2>2. CASE ReceiverJoin(r)
    <3>1. view' = Blank(r)
      BY <2>2 DEF ReceiverJoin
    <3> QED
      BY <1>2, <2>1, <2>2, <3>1, ReceiverJoinLinks
  <2> QED
    BY <1>0, <1>4, <2>1, <2>2, DeliverAlone DEF Receives, RxConsumes, RxConnects, RxDisconnects, vars
<1>5. ASSUME NEW q \in Providers \ {p}, ProviderJoin(q)
      PROVE  Undisturbed(p)
  <2>1. view' = Blank(q)
    BY <1>5 DEF ProviderJoin
  <2> QED
    BY <1>2, <1>5, <2>1, ProviderJoinLinks DEF Peers
<1> QED
  BY <1>1, <1>3, <1>4, <1>5 DEF Serves

\* Who has sent the blob a client takes is who it has been told of last.
LEMMA HeadInContext ==
    ASSUME TypeOK, AllInformed, NEW x \in Peers, Deliver(x), Head(link[x].queue).type = "e2e"
    PROVE  view[x].who = Sender(Head(link[x].queue))
<1> DEFINE q == link[x].queue
<1>1. q \in Seq(Message) /\ q # << >>
  BY DEF Deliver, TypeOK
<1>2. 1 \in 1..Len(q) /\ Head(q) = q[1]
  BY <1>1
<1>3. Told(view[x].who, q, 1, Sender(q[1]))
  BY <1>2 DEF AllInformed, Informed, Context
<1>4. ~ Announces(q[1])
  BY <1>2 DEF Announces
<1> QED
  BY <1>2, <1>3, <1>4 DEF Told
=============================================================================
