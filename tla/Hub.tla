-------------------------------- MODULE Hub --------------------------------
(***************************************************************************)
(* The relay server (server.py, class Hub) with the outgoing half of its   *)
(* connections (kbrelay_common.py, class Connection).                      *)
(*                                                                         *)
(* The server is one asyncio thread: a handler runs without interruption   *)
(* from one await to the next, so an action is everything that happens     *)
(* between receiving a message (or accepting, or losing a connection) and  *)
(* waiting for the next one.  A peer is one connection: the same device    *)
(* (the same key) may hold several at once, an old half-open one and its   *)
(* replacement.  A peer's queue holds what the client has not consumed     *)
(* yet, in the server's asyncio.Queue or on the wire.                      *)
(***************************************************************************)
EXTENDS Naturals, Sequences

CONSTANTS Providers, Receivers, \* connections a client of either role may open
          Keys, KeyOf,          \* the ed25519 key behind each connection; a key that
                                \* serves in both roles counts as two, one per folder
          Names, FileName,      \* the name of the .pub file that authorizes a key
          Custom,               \* the --name a device asks for, or None
          Payloads, Oversize,   \* end-to-end blobs, and those above MAX_E2E_BLOB
          MaxQueue,             \* Connection.max_queue
          None                  \* Python's None

Peers == Providers \cup Receivers

ASSUME HubAssumption ==
    /\ Providers \cap Receivers = {}
    /\ None \notin Peers \cup Names
    /\ KeyOf \in [Peers -> Keys]
    /\ FileName \in [Keys -> Names]
    /\ Custom \in [Peers -> Names \cup {None}]
    /\ MaxQueue \in Nat \ {0}

VARIABLES auth,      \* keys that have a .pub file in the server's folders
          revoked,   \* history: keys whose file was removed since the last SIGHUP
          link,      \* each peer's connection: its state and undelivered messages
          receivers, \* Hub.receivers: the peer registered under each name, or None
          target,    \* Peer.target: the receiver a provider is attached to, or None
          provider,  \* Peer.provider: the provider attached to a receiver, or None
          view       \* what the client has been told so far: its last partner, its last list

vars == <<auth, revoked, link, receivers, target, provider, view>>

-----------------------------------------------------------------------------
(* Messages to clients.  "who" is the partner a message announces: a       *)
(* receiver's name for a provider, a provider for a receiver.  The sender  *)
(* of a blob is history: the message on the wire does not name it.         *)

Notice == [type |-> "notice"] \* welcome and pong: nothing depends on them
\* mutant: the list holds the connections instead of their names
ReceiversMsgOfPeers(rs) == [type |-> "receivers", names |-> {rs[n] : n \in Names} \ {None}]

ReceiversMsg(rs) == [type |-> "receivers", names |-> {n \in Names : rs[n] # None}]
Selected(n) == [type |-> "selected", who |-> n]
Attached(p) == [type |-> "attached", who |-> p]
Detached == [type |-> "detached", who |-> None]
E2E(x, b) == [type |-> "e2e", from |-> x, body |-> b]

Message == {Notice, Detached}
             \cup [type : {"receivers"}, names : SUBSET Names]
             \cup [type : {"selected"}, who : Names \cup {None}]
             \cup [type : {"attached"}, who : Providers]
             \cup [type : {"e2e"}, from : Peers, body : Payloads]

\* The display name: the one the client asked for, else the .pub file's.
Name(x) == IF Custom[x] = None THEN FileName[KeyOf[x]] ELSE Custom[x]

-----------------------------------------------------------------------------
(* Connections.  "none": no connection; "closed": Connection.close() ran,  *)
(* nothing more is queued and the client may still receive a prefix of     *)
(* what was; the handler has not noticed and goes on with the lines it has *)
(* already buffered.                                                       *)

NoLink == [state |-> "none", queue |-> << >>]
Accepted == [state |-> "open", queue |-> <<Notice>>]

\* mutant: a full queue loses messages
PutLosing(l, m) == IF l.state = "open" /\ Len(l.queue) < MaxQueue
                   THEN [l EXCEPT !.queue = Append(@, m)] ELSE l

Put(l, m) == IF l.state # "open" THEN l
             ELSE IF Len(l.queue) >= MaxQueue THEN [l EXCEPT !.state = "closed"]
             ELSE [l EXCEPT !.queue = Append(@, m)]

\* links after sending m to every peer of S
Tell(links, S, m) == [x \in Peers |-> IF x \in S THEN Put(links[x], m) ELSE links[x]]

Close(links, S) ==
    [x \in Peers |-> IF x \in S /\ links[x].state = "open"
                     THEN [links[x] EXCEPT !.state = "closed"] ELSE links[x]]

Connected(links) == {x \in Peers : links[x].state # "none"}

\* mutant: the broadcast is built before the registry is updated
BroadcastStale(links, rs) ==
    Tell(links, Connected(links) \cap Providers, ReceiversMsg(receivers))

Broadcast(links, rs) == Tell(links, Connected(links) \cap Providers, ReceiversMsg(rs))

Blank(x) == [view EXCEPT ![x] = [who |-> None, names |-> {}]]

-----------------------------------------------------------------------------
Init == /\ auth \in SUBSET Keys
        /\ revoked = {}
        /\ link = [x \in Peers |-> NoLink]
        /\ receivers = [n \in Names |-> None]
        /\ target = [p \in Providers |-> None]
        /\ provider = [r \in Receivers |-> None]
        /\ view = [x \in Peers |-> [who |-> None, names |-> {}]]

-----------------------------------------------------------------------------
(* Receivers.                                                              *)

\* mutant: a receiver goes without its provider being detached and told
DroppedNobody(R) == {}

\* detach_receiver for every receiver of R: the providers it drops, ...
Dropped(R) == {p \in Providers : \E r \in R : provider[r] = p /\ target[p] = r}

\* ... and the attachments it leaves.
DetachReceivers(R) ==
    /\ target' = [p \in Providers |-> IF p \in Dropped(R) THEN None ELSE target[p]]
    /\ provider' = [r \in Receivers |-> IF r \in R THEN None ELSE provider[r]]

\* An authorized receiver registers under its name.  A previous holder of the
\* name loses its provider and is closed; its handler is still running.
ReceiverJoin(r) ==
    LET old == {receivers[Name(r)]} \ {None}
    IN  /\ link[r].state = "none"
        /\ KeyOf[r] \in auth
        /\ receivers' = [receivers EXCEPT ![Name(r)] = r]
        /\ DetachReceivers(old)
        /\ link' = Broadcast(Close(Tell([link EXCEPT ![r] = Accepted],
                                        Dropped(old), Selected(None)),
                                   old),
                             receivers')
        /\ view' = Blank(r)
        /\ UNCHANGED <<auth, revoked>>

\* mutants: a leaving receiver never gives its name back, or gives it back
\* though a newer connection of the device has taken it
RegisteredNever(r) == {}
RegisteredAnyway(r) == {Name(r)}

\* The name r gives back when it leaves: none if it has been replaced.
Registered(r) == {n \in Names : n = Name(r) /\ receivers[n] = r}

\* The handler of r ends: end of file, read timeout, malformed message.
ReceiverLeave(r) ==
    LET gone == [link EXCEPT ![r] = NoLink]
    IN  /\ link[r].state # "none"
        /\ receivers' = [n \in Names |-> IF n \in Registered(r) THEN None ELSE receivers[n]]
        /\ \/ /\ Registered(r) # {}
              /\ DetachReceivers({r})
              /\ link' = Broadcast(Tell(gone, Dropped({r}), Selected(None)), receivers')
           \/ /\ Registered(r) = {}
              /\ link' = gone
              /\ UNCHANGED <<target, provider>>
        /\ view' = Blank(r)
        /\ UNCHANGED <<auth, revoked>>

-----------------------------------------------------------------------------
(* Providers.                                                              *)

ProviderJoin(p) ==
    /\ link[p].state = "none"
    /\ KeyOf[p] \in auth
    /\ link' = Tell([link EXCEPT ![p] = Accepted], {p}, ReceiversMsg(receivers))
    /\ view' = Blank(p)
    /\ UNCHANGED <<auth, revoked, receivers, target, provider>>

\* mutants: the receiver p leaves keeps p as its provider; the provider that
\* loses the receiver to p stays attached to it
LeftNothing(p, new) == {}
RobbedNobody(p, new) == {}

\* select: the receiver p leaves, the one it gains, the provider it robs of it.
Left(p, new) == {r \in Receivers : r = target[p] /\ r # new /\ provider[r] = p}
Gained(p, new) == {r \in Receivers : r = new /\ r # target[p]}
Robbed(p, new) == {q \in Providers \ {p} : \E r \in Gained(p, new) : provider[r] = q}

Retarget(p, new) ==
    /\ target' = [q \in Providers |-> IF q = p THEN new
                                      ELSE IF q \in Robbed(p, new) THEN None
                                      ELSE target[q]]
    /\ provider' = [r \in Receivers |-> IF r \in Gained(p, new) THEN p
                                        ELSE IF r \in Left(p, new) THEN None
                                        ELSE provider[r]]

\* mutants: the provider that loses its receiver is not told; a receiver is
\* told of its provider only if it had none
AnnounceNotToRobbed(p, new) ==
    Tell(Tell(link, Left(p, new), Detached), Gained(p, new), Attached(p))
AnnounceNotTakenOver(p, new) ==
    Tell(Tell(Tell(link, Left(p, new), Detached),
              Robbed(p, new), Selected(None)),
         {r \in Gained(p, new) : provider[r] = None}, Attached(p))

Announce(p, new) == Tell(Tell(Tell(link, Left(p, new), Detached),
                              Robbed(p, new), Selected(None)),
                         Gained(p, new), Attached(p))

\* p asks for n.  A name that is not registered, or None, detaches p.
Select(p, n) ==
    LET new == IF n \in Names THEN receivers[n] ELSE None
    IN  /\ link[p].state # "none"
        /\ Retarget(p, new)
        /\ link' = Tell(Announce(p, new), {p}, Selected(IF new = None THEN None ELSE n))
        /\ UNCHANGED <<auth, revoked, receivers, view>>

\* The handler of p ends: select(None) without the reply.
ProviderLeave(p) ==
    /\ link[p].state # "none"
    /\ Retarget(p, None)
    /\ link' = [Announce(p, None) EXCEPT ![p] = NoLink]
    /\ view' = Blank(p)
    /\ UNCHANGED <<auth, revoked, receivers>>

-----------------------------------------------------------------------------
(* Either role.                                                            *)

Partner(x) == IF x \in Providers THEN target[x] ELSE provider[x]

\* A blob goes to the partner, unread; without a partner, or too large, it is
\* dropped, which changes nothing.
Forward(x, b) ==
    /\ link[x].state # "none"
    /\ Partner(x) # None
    /\ b \notin Oversize
    /\ link' = Tell(link, {Partner(x)}, E2E(x, b))
    /\ UNCHANGED <<auth, revoked, receivers, target, provider, view>>

Ping(x) ==
    /\ link[x].state # "none"
    /\ link' = Tell(link, {x}, Notice)
    /\ UNCHANGED <<auth, revoked, receivers, target, provider, view>>

\* The writer task meets an error and closes the connection.
WriterFails(x) ==
    /\ link[x].state = "open"
    /\ link' = Close(link, {x})
    /\ UNCHANGED <<auth, revoked, receivers, target, provider, view>>

\* The client consumes its next message.
Deliver(x) ==
    /\ link[x].queue # << >>
    /\ link' = [link EXCEPT ![x].queue = Tail(@)]
    /\ LET m == Head(link[x].queue)
       IN  view' = CASE m.type \in {"selected", "attached", "detached"} ->
                            [view EXCEPT ![x].who = m.who]
                     [] m.type = "receivers" -> [view EXCEPT ![x].names = m.names]
                     [] OTHER -> view
    /\ UNCHANGED <<auth, revoked, receivers, target, provider>>

-----------------------------------------------------------------------------
(* The administrator.                                                      *)

Approve(k) == /\ auth' = auth \cup {k}
              /\ revoked' = revoked \ {k}
              /\ UNCHANGED <<link, receivers, target, provider, view>>

Revoke(k) == /\ k \in auth
             /\ auth' = auth \ {k}
             /\ revoked' = revoked \cup {k}
             /\ UNCHANGED <<link, receivers, target, provider, view>>

\* mutant: SIGHUP forgets the receivers
UnauthorizedProviders ==
    {x \in Connected(link) \cap Providers :
        ~ (KeyOf[x] \in auth /\ FileName[KeyOf[x]] = Name(x))}

\* The peers SIGHUP closes: load_authorized(...).get(key) is compared with the
\* peer's display name.
Unauthorized ==
    {x \in Connected(link) : /\ x \in Receivers => receivers[Name(x)] = x
                             /\ ~ (KeyOf[x] \in auth /\ FileName[KeyOf[x]] = Name(x))}

Revalidate == /\ link' = Close(link, Unauthorized)
              /\ revoked' = {}
              /\ UNCHANGED <<auth, receivers, target, provider, view>>

-----------------------------------------------------------------------------
Leave(x) == IF x \in Providers THEN ProviderLeave(x) ELSE ReceiverLeave(x)

Next == \/ \E r \in Receivers : ReceiverJoin(r) \/ ReceiverLeave(r)
        \/ \E p \in Providers : \/ ProviderJoin(p)
                                \/ ProviderLeave(p)
                                \/ \E n \in Names \cup {None} : Select(p, n)
        \/ \E x \in Peers : \/ \E b \in Payloads : Forward(x, b)
                            \/ Ping(x)
                            \/ WriterFails(x)
                            \/ Deliver(x)
        \/ \E k \in Keys : Approve(k) \/ Revoke(k)
        \/ Revalidate

\* The handler of a receiver's closed connection ends: its reader sees the end of the
\* stream, or its read timeout expires.
Fairness == \A x \in Receivers : WF_vars(link[x].state = "closed" /\ Leave(x))

Spec == Init /\ [][Next]_vars
FairSpec == Spec /\ Fairness

-----------------------------------------------------------------------------
TypeOK ==
    /\ auth \in SUBSET Keys
    /\ revoked \in SUBSET Keys
    /\ link \in [Peers -> [state : {"none", "open", "closed"}, queue : Seq(Message)]]
    /\ receivers \in [Names -> Receivers \cup {None}]
    /\ target \in [Providers -> Receivers \cup {None}]
    /\ provider \in [Receivers -> Providers \cup {None}]
    /\ view \in [Peers -> [who : Names \cup Providers \cup {None}, names : SUBSET Names]]

\* The two ends of an attachment agree: target and provider are kept by hand in
\* select, detach_receiver and the two finally blocks, never in one place.
AttachmentSymmetric ==
    \A p \in Providers, r \in Receivers : target[p] = r <=> provider[r] = p

\* An attached receiver is the one registered under its name, and both ends of
\* an attachment are connected: nobody types into a connection that was
\* replaced or has gone.
AttachedIsRegistered ==
    \A p \in Providers : \A r \in Receivers :
        target[p] = r => /\ receivers[Name(r)] = r
                         /\ {p, r} \subseteq Connected(link)

\* A name providers are offered belongs to a connection that exists and was
\* registered under it, whichever connection of that name left last.
OfferedIsConnected ==
    \A n \in Names : receivers[n] # None => /\ Name(receivers[n]) = n
                                            /\ receivers[n] \in Connected(link)

\* At most one connection per name is open, and it is the registered one: a
\* reconnecting receiver closes its predecessor (server.py run_receiver).
OpenIsRegistered ==
    \A r \in Receivers : link[r].state = "open" => receivers[Name(r)] = r

\* AttachedIsRegistered is inductive only together with AttachmentSymmetric and
\* OfferedIsConnected: a receiver that leaves frees its provider through its own
\* end of the attachment, and a provider is attached to what it finds under a
\* name.
Attachments == /\ AttachmentSymmetric
               /\ AttachedIsRegistered
               /\ OfferedIsConnected
               /\ OpenIsRegistered

\* A session whose key file was removed is open only until the next SIGHUP, and
\* no session is opened with such a key in between.
NoRevokedSession ==
    \A x \in Peers : link[x].state = "open" => KeyOf[x] \in auth \cup revoked

-----------------------------------------------------------------------------
(* What clients learn.  A client reads its messages in order, so what it   *)
(* will have been told by the i-th message of its queue is the last        *)
(* announcement among the first i, or its present view if there is none.   *)

Announces(m) == m.type \in {"selected", "attached", "detached"}

ToldBy(x, i, w) ==
    LET q == link[x].queue
    IN  \/ /\ view[x].who = w
           /\ \A j \in 1..i : ~ Announces(q[j])
        \/ \E j \in 1..i : /\ Announces(q[j]) /\ q[j].who = w
                           /\ \A k \in (j+1)..i : ~ Announces(q[k])

PartnerName(x) == LET y == Partner(x)
                  IN  IF x \in Providers /\ y # None THEN Name(y) ELSE y

\* Whatever takes an attachment away or gives one (a select of its own, another
\* provider's takeover, a receiver that leaves or is replaced), both ends are
\* told: once its queue is drained, an open client believes what is the case.
ToldPartner ==
    \A x \in Peers : link[x].state = "open" => ToldBy(x, Len(link[x].queue), PartnerName(x))

\* A client never meets a blob out of context: the provider a receiver believes
\* in when it consumes a blob is the one that sent it, and a provider consumes
\* only blobs of the receiver it was last told it selected.
BlobsInContext ==
    \A x \in Peers : \A i \in 1..Len(link[x].queue) :
        LET m == link[x].queue[i]
        IN  m.type = "e2e" =>
               ToldBy(x, i, IF m.from \in Receivers THEN Name(m.from) ELSE m.from)

\* The last list a provider has been sent is the list of registered names.
ToldList ==
    \A p \in Providers : link[p].state = "open" =>
        LET q == link[p].queue
            now == {n \in Names : receivers[n] # None}
        IN  \/ /\ view[p].names = now
               /\ \A i \in 1..Len(q) : q[i].type # "receivers"
            \/ \E i \in 1..Len(q) : /\ q[i].type = "receivers" /\ q[i].names = now
                                    /\ \A j \in (i+1)..Len(q) : q[j].type # "receivers"

-----------------------------------------------------------------------------
\* README: at most one provider types into a receiver, the last one that asked.
\* The relay implements the abstract attachment.
Offered == {n \in Names : receivers[n] # None}
TypingInto == [p \in Providers |-> PartnerName(p)]
A == INSTANCE Attachment WITH online <- Offered, typingInto <- TypingInto
Attachment == A!ASpec

\* A provider attached to a receiver whose connection was closed (it was
\* disconnected by SIGHUP, stopped reading or its writer failed) does not stay
\* attached to it.
DeadReceiverReleased ==
    \A p \in Providers, r \in Receivers :
        (target[p] = r /\ link[r].state = "closed") ~> target[p] # r

\* server.py:112-114 says that a display name changes only the label: SIGHUP
\* closes a session only if its key file is gone.
ReloadClosesOnlyRevoked ==
    [][Revalidate => \A x \in Peers : link'[x].state # link[x].state => KeyOf[x] \notin auth]_vars
=============================================================================
