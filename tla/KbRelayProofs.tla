---------------------------- MODULE KbRelayProofs ----------------------------
(***************************************************************************)
(* What is proved of the whole system of native providers, the relay and   *)
(* receivers (module KbRelay).  It keeps its types and runs the relay as   *)
(* module Hub says; the window shows the receiver that holds the keys of the *)
(* session the user types into; and when everything has arrived both ends  *)
(* are in one session, no key stays down that the user does not hold, and  *)
(* a window is attached to the receiver last picked if that is online.     *)
(*                                                                         *)
(* Messages reach the window in the order in which the relay sent them, by *)
(* way of the connection and of the events it has not taken; so what it    *)
(* believes when it gets to a handshake reply is what the relay believed   *)
(* when it passed the reply on, which is that its sender is attached.      *)
(***************************************************************************)
EXTENDS KbRelay, ExchangeProofs

NewSession(e) == [epk |-> e, with |-> None]

Sessions == {None} \cup [epk : Ephemerals, with : Receivers \cup {None}]

\* Somebody is asked only about a session whose reply has been verified.
AsksAboutSomebody ==
    \A p \in Providers : app[p].asking => app[p].session \in [epk : Ephemerals, with : Receivers]

SysInv == SysTypeOK /\ AsksAboutSomebody /\ up \in Requests

-----------------------------------------------------------------------------
(* What the programs send.                                                 *)

\* What a window sends keeps the requests typed.
LEMMA NetSendsTypes ==
    ASSUME up \in Requests, NEW p \in Providers, NEW requests \in Seq(Made(p)), NetSends(p, requests)
    PROVE  up' \in Requests
BY SendTypes DEF NetSends, Peers

\* What is sealed for a live session is a request, or nothing.
LEMMA SealTypes ==
    ASSUME app \in [Providers -> Window], NEW p \in Providers, NEW m \in Plain
    PROVE  SealIfLive(p, m) \in Seq(Made(p))
<1>1. CASE Live(app[p])
  <2>1. app[p].session \in [epk : Ephemerals, with : Receivers]
    BY <1>1 DEF Live, Window
  <2> QED
    BY <1>1, <2>1, MadeTypes DEF SealIfLive, Peers
<1>2. CASE ~ Live(app[p])
  BY <1>2 DEF SealIfLive
<1> QED
  BY <1>1, <1>2

-----------------------------------------------------------------------------
(* The provider.                                                           *)

AppOK == app \in [Providers -> Window] /\ AsksAboutSomebody

\* Giving up keeps the types.
LEMMA GiveUpTypes ==
    ASSUME AppOK, up \in Requests, NEW p \in Providers, GiveUp(p), ~ app[p].asking
    PROVE  AppOK' /\ up' \in Requests
<1>1. app' \in [Providers -> Window]
  BY ZenonT(40) DEF GiveUp, GivenUp, AppOK, Window
<1>2. AsksAboutSomebody'
  BY DEF GiveUp, GivenUp, AppOK, AsksAboutSomebody, Window
<1>3. up' \in Requests
  BY MadeTypes, NetSendsTypes DEF Peers, GiveUp, AskFor
<1> QED
  BY <1>1, <1>2, <1>3 DEF AppOK

\* So does confirming a session that has been answered.
LEMMA ConfirmTypes ==
    ASSUME AppOK, up \in Requests, NEW p \in Providers, NEW a \in Window, Confirm(p, a),
           a.session \in [epk : Ephemerals, with : Receivers]
    PROVE  AppOK' /\ up' \in Requests
<1>1. app' \in [Providers -> Window]
  BY DEF Confirm, AppOK
<1>2. AsksAboutSomebody'
  BY DEF Confirm, AppOK, AsksAboutSomebody
<1>4. <<Blob(Sealed(p, a.session.epk, a.session.with, ReleaseAll))>> \in Seq(Made(p))
  BY RequestTypes, MadeTypes DEF Peers
<1>5. up' \in Requests
  BY <1>4, NetSendsTypes DEF Confirm
<1> QED
  BY <1>1, <1>2, <1>5 DEF AppOK

\* A window that handles a message of the relay keeps the types.
LEMMA HandlesTypes ==
    ASSUME AppOK, up \in Requests, NEW p \in Providers, NEW m \in Message, NEW held,
           ~ app[p].asking, Handles(p, m, held)
    PROVE  AppOK' /\ up' \in Requests
<1> USE DEF AppOK
<1>1. CASE m.type = "receivers" /\ OnReceivers(p, m)
  <2> DEFINE a == [app[p] EXCEPT !.receivers = m.names]
             ask == a.desired \in m.names /\ a.current # a.desired /\ a.requested # a.desired
  <2>1. m.names \in SUBSET Names
    BY <1>1, MessageParts
  <2>2. a \in Window /\ [a EXCEPT !.requested = a.desired] \in Window /\ ~ a.asking
    BY <2>1 DEF Window
  <2>3. app' = [app EXCEPT ![p] = IF ask THEN [a EXCEPT !.requested = a.desired] ELSE a]
    BY <1>1 DEF OnReceivers
  <2>4. app' \in [Providers -> Window]
    BY <2>2, <2>3
  <2>5. AsksAboutSomebody'
    BY <2>2, <2>3 DEF AsksAboutSomebody
  <2>6. up' \in Requests
    BY <1>1, <2>2, MadeTypes, NetSendsTypes DEF Peers, OnReceivers, AskFor, Window
  <2> QED
    BY <2>4, <2>5, <2>6
<1>2. CASE m.type = "selected" /\ OnSelected(p, m, held)
  <2>1. m.who \in Names \cup {None}
    BY <1>2, MessageParts
  <2>2. CASE m.who = None
    <3> DEFINE a == [app[p] EXCEPT !.current = None, !.requested = None, !.session = None]
    <3>1. app' = [app EXCEPT ![p] = a] /\ up' = up
      BY <1>2, <2>2 DEF OnSelected
    <3>2. a \in Window /\ ~ a.asking
      BY DEF Window
    <3> QED
      BY <3>1, <3>2 DEF AsksAboutSomebody
  <2>3. CASE m.who # None
    <3>1. PICK e \in Ephemerals :
              /\ app' = [app EXCEPT ![p] = Starts([@ EXCEPT !.current = m.who, !.requested = None], e)]
              /\ NetSends(p, <<Blob(Hs1(p, e))>>)
      BY <1>2, <2>3 DEF OnSelected, Fresh
    <3>2. Starts([app[p] EXCEPT !.current = m.who, !.requested = None], e) \in Window
      BY <2>1 DEF Starts, Window
    <3>3. app' \in [Providers -> Window]
      BY <3>1, <3>2
    <3>4. AsksAboutSomebody'
      BY <3>1 DEF Starts, AsksAboutSomebody, Window
    <3>5. up' \in Requests
      BY <3>1, MadeTypes, NetSendsTypes DEF Peers
    <3> QED
      BY <3>3, <3>4, <3>5
  <2> QED
    BY <2>2, <2>3
<1>3. CASE m.type = "e2e" /\ OnE2E(p, m.body)
  <2> DEFINE b == m.body
             keyed == [app[p] EXCEPT !.session.with = b.pub]
  <2>1. b \in Blobs
    BY <1>3, MessageParts
  <2>2. CASE GiveUp(p)
    BY <2>2, GiveUpTypes
  <2>3. CASE UNCHANGED <<app, up>>
    BY <2>3 DEF AsksAboutSomebody
  <2>4. CASE b.step = "hs2" /\ app[p].session # None
    <3>1. b.pub \in Receivers
      BY <2>1, <2>4, BlobParts
    <3> DEFINE session == [app[p].session EXCEPT !.with = b.pub]
    <3>2. session \in [epk : Ephemerals, with : Receivers]
      <4>1. app[p].session \in [epk : Ephemerals, with : Receivers \cup {None}]
        BY <2>4 DEF Window
      <4> QED
        BY <3>1, <4>1
    <3>3. keyed = [app[p] EXCEPT !.session = session]
      OBVIOUS
    <3>4. /\ keyed \in Window /\ [keyed EXCEPT !.asking = TRUE] \in Window
          /\ keyed.session = session /\ [keyed EXCEPT !.asking = TRUE].session = session
      <4> HIDE DEF session, keyed
      <4> QED
        BY <3>2, <3>3 DEF Window
    <3> HIDE DEF session, keyed
    <3>6. CASE Confirm(p, keyed)
      BY <3>1, <3>2, <3>4, <3>6, ConfirmTypes
    <3>7. CASE /\ app' = [app EXCEPT ![p] = [keyed EXCEPT !.asking = TRUE]]
               /\ UNCHANGED up
      BY <3>1, <3>2, <3>4, <3>7 DEF AsksAboutSomebody
    <3> QED
      BY <1>3, <2>2, <2>3, <3>6, <3>7 DEF OnE2E, keyed
  <2> QED
    BY <1>3, <2>2, <2>3, <2>4 DEF OnE2E
<1>4. CASE m.type = "notice" /\ UNCHANGED <<app, up>>
  BY <1>4 DEF AsksAboutSomebody
<1> QED
  BY <1>1, <1>2, <1>3, <1>4 DEF Handles

\* So does one that takes its next event.
LEMMA PollTypes ==
    ASSUME TypeOK, AppOK, up \in Requests, net \in [Providers -> [up : BOOLEAN, events : Seq(Event)]],
           NEW p \in Providers, NEW held, Poll(p, held)
    PROVE  AppOK' /\ up' \in Requests /\ net' \in [Providers -> [up : BOOLEAN, events : Seq(Event)]]
<1>1. CASE net[p].events # << >>
  <2> DEFINE e == Head(net[p].events)
  <2>1. e \in Event /\ Tail(net[p].events) \in Seq(Event)
    BY <1>1
  <2>2. net' = [net EXCEPT ![p].events = Tail(@)]
    BY <1>1 DEF Poll
  <2>3. net' \in [Providers -> [up : BOOLEAN, events : Seq(Event)]]
    BY <2>1, <2>2
  <2>0. ~ app[p].asking
    BY DEF Poll
  <2>4. CASE app' = [app EXCEPT ![p].connected = TRUE] /\ UNCHANGED up
    <3> DEFINE a == [app[p] EXCEPT !.connected = TRUE]
    <3>1. a \in Window /\ ~ a.asking
      BY <2>0 DEF AppOK, Window
    <3>2. app' = [app EXCEPT ![p] = a]
      BY <2>4
    <3> HIDE DEF a
    <3> QED
      BY <2>3, <2>4, <3>1, <3>2 DEF AppOK, AsksAboutSomebody
  <2>5. CASE app' = [app EXCEPT ![p] = Lost(@)] /\ UNCHANGED up
    <3>1. Lost(app[p]) \in Window /\ ~ Lost(app[p]).asking
      BY DEF AppOK, Lost, Offline, Window
    <3> DEFINE a == Lost(app[p])
    <3>2. app' = [app EXCEPT ![p] = a]
      BY <2>5
    <3> HIDE DEF a
    <3>3. a \in Window /\ ~ a.asking
      BY <3>1 DEF a
    <3> QED
      BY <2>3, <2>5, <3>2, <3>3 DEF AppOK, AsksAboutSomebody
  <2>6. CASE e.kind = "msg" /\ Handles(p, e.msg, held)
    <3>1. e.msg \in Message
      BY <2>1, <2>6 DEF Event, ConnectedEvent, DisconnectedEvent
    <3> QED
      BY <2>0, <2>3, <2>6, <3>1, HandlesTypes
  <2> QED
    BY <1>1, <2>3, <2>4, <2>5, <2>6 DEF Poll
<1>2. CASE net[p].events = << >>
  <2>1. Deliver(p) /\ Handles(p, Head(link[p].queue), held) /\ UNCHANGED net
    BY <1>2 DEF Poll
  <2>2. Head(link[p].queue) \in Message
    BY <2>1 DEF Deliver, TypeOK, Peers
  <2> QED
    BY <2>1, <2>2, HandlesTypes DEF Poll
<1> QED
  BY <1>1, <1>2

\* So do the answer to the trust dialog and what the user does.
LEMMA AnswerTypes ==
    ASSUME AppOK, up \in Requests, pinned \in [Providers -> [Names -> Keys \cup {None}]],
           NEW p \in Providers, NEW yes \in BOOLEAN, Answer(p, yes)
    PROVE  AppOK' /\ up' \in Requests /\ pinned' \in [Providers -> [Names -> Keys \cup {None}]]
<1> DEFINE a == [app[p] EXCEPT !.asking = FALSE]
<1>1. a \in Window /\ ~ a.asking /\ a.session = app[p].session
  BY DEF AppOK, Window
<1>2. a.session \in [epk : Ephemerals, with : Receivers]
  BY <1>1 DEF Answer, AppOK, AsksAboutSomebody
<1>3. CASE yes
  <2> DEFINE key == KeyOf[a.session.with]
  <2>1. key \in Keys
    BY <1>2, HubAssumption DEF Peers
  <2>2. pinned' = [pinned EXCEPT ![p][app[p].current] = key] /\ Confirm(p, a)
    BY <1>3 DEF Answer
  <2>3. pinned' \in [Providers -> [Names -> Keys \cup {None}]]
    <3> HIDE DEF key
    <3> QED
      BY <2>1, <2>2
  <2> QED
    BY <1>1, <1>2, <2>2, <2>3, ConfirmTypes
<1>4. CASE ~ yes
  <2>1. /\ app' = [app EXCEPT ![p] = GivenUp(a)]
        /\ AskFor(p, None)
        /\ UNCHANGED pinned
    BY <1>4 DEF Answer
  <2>2. GivenUp(a) \in Window /\ ~ GivenUp(a).asking
    <3> HIDE DEF a
    <3> QED
      BY <1>1 DEF GivenUp, Window
  <2>3. AppOK'
    BY <2>1, <2>2 DEF AppOK, AsksAboutSomebody
  <2> QED
    BY <2>1, <2>3, MadeTypes, NetSendsTypes DEF Peers, AskFor
<1> QED
  BY <1>3, <1>4

\* What the user does keeps the types.
LEMMA UserTypes ==
    ASSUME AppOK, up \in Requests, NEW p \in Providers, UserStep(p)
    PROVE  AppOK' /\ up' \in Requests
<1>1. ASSUME NEW n \in Names, OnPick(p, n)
      PROVE  AppOK' /\ up' \in Requests
  <2> DEFINE ask == n # app[p].current
             a == [app[p] EXCEPT !.desired = n]
  <2>1. a \in Window /\ [a EXCEPT !.requested = n] \in Window /\ ~ a.asking
    BY <1>1 DEF OnPick, AppOK, Window
  <2>2. app' = [app EXCEPT ![p] = IF ask THEN [a EXCEPT !.requested = n] ELSE a]
    BY <1>1 DEF OnPick
  <2>3. AppOK'
    BY <2>1, <2>2 DEF AppOK, AsksAboutSomebody
  <2> QED
    BY <1>1, <2>3, MadeTypes, NetSendsTypes DEF Peers, OnPick, AskFor
<1>2. CASE OnStop(p)
  BY <1>2, GiveUpTypes DEF OnStop
<1>3. ASSUME NEW m \in Plain, NEW pressed \in SUBSET KeyCodes,
             app' = [app EXCEPT ![p].pressed = pressed], NetSends(p, SealIfLive(p, m))
      PROVE  AppOK' /\ up' \in Requests
  <2>1. AppOK'
    BY <1>3 DEF AppOK, AsksAboutSomebody, Window
  <2> QED
    BY <1>3, <2>1, SealTypes, NetSendsTypes DEF AppOK
<1>4. app[p].pressed \in SUBSET KeyCodes
  BY DEF AppOK, Window
<1>5. ASSUME NEW c \in KeyCodes, OnKeyDown(p, c)
      PROVE  AppOK' /\ up' \in Requests
  BY <1>3, <1>4, <1>5, RequestTypes DEF OnKeyDown
<1>6. ASSUME NEW c \in KeyCodes, OnKeyUp(p, c)
      PROVE  AppOK' /\ up' \in Requests
  BY <1>3, <1>4, <1>6, RequestTypes DEF OnKeyUp
<1>7. CASE OnFocusOut(p)
  <2>1. app' = [app EXCEPT ![p].pressed = {}] /\ NetSends(p, SealIfLive(p, ReleaseAll))
    BY <1>7 DEF OnFocusOut
  <2>2. {} \in SUBSET KeyCodes /\ ReleaseAll \in Plain
    BY RequestTypes
  <2> QED
    BY <1>3, <2>1, <2>2
<1> QED
  BY <1>1, <1>2, <1>5, <1>6, <1>7 DEF UserStep

-----------------------------------------------------------------------------
(* The connection thread and the receiver.                                 *)

\* Messages that have been received become events.
LEMMA NetTypes ==
    ASSUME TypeOK, NEW p \in Providers, NetStep(p), up \in Requests,
           net \in [Providers -> [up : BOOLEAN, events : Seq(Event)]]
    PROVE  net' \in [Providers -> [up : BOOLEAN, events : Seq(Event)]] /\ up' = up
<1>1. ASSUME NEW isUp \in BOOLEAN, NEW events \in Seq(Event), Reports(p, isUp, events)
      PROVE  net' \in [Providers -> [up : BOOLEAN, events : Seq(Event)]]
  <2>1. net[p].events \o events \in Seq(Event)
    BY ConcatProperties
  <2> QED
    BY <1>1, <2>1 DEF Reports
<1>2. <<ConnectedEvent>> \in Seq(Event) /\ <<DisconnectedEvent>> \in Seq(Event) /\ DisconnectedEvent \in Event
  BY DEF Event
<1>3. ASSUME NEW k \in 0..Len(link[p].queue)
      PROVE  Append([i \in 1..k |-> Received(link[p].queue[i])], DisconnectedEvent) \in Seq(Event)
  <2>1. link[p].queue \in Seq(Message)
    BY DEF TypeOK, Peers
  <2>2. \A i \in 1..k : Received(link[p].queue[i]) \in Event
    BY <2>1 DEF Received, Event
  <2>3. [i \in 1..k |-> Received(link[p].queue[i])] \in Seq(Event)
    BY <2>1, <2>2, IsASeq
  <2> QED
    BY <1>2, <2>3, AppendProperties
<1>4. CASE NetConnects(p)
  BY <1>1, <1>2, <1>4 DEF NetConnects
<1>5. CASE NetFails(p)
  BY <1>1, <1>2, <1>5 DEF NetFails
<1>6. CASE NetLoses(p)
  BY <1>1, <1>3, <1>6 DEF NetLoses
<1> QED
  BY <1>4, <1>5, <1>6 DEF NetStep

-----------------------------------------------------------------------------
(* The relay inside the system.                                            *)

\* Whatever a program of the system does is a step of the relay, or nothing to it.
LEMMA HubStep ==
    ASSUME TypeOK, up \in [Peers -> Seq(Request)], [SysNext]_sysvars
    PROVE  [Next]_vars
<1>1. ASSUME NEW x \in Peers, ServerStep(x)
      PROVE  [Next]_vars
  BY <1>1, ServesHub DEF ServerStep, Serves
<1>3. ASSUME NEW p \in Providers, ProviderStep(p)
      PROVE  [Next]_vars
  BY <1>3 DEF ProviderStep, Poll, Answer, Next, Peers
<1>4. ASSUME NEW p \in Providers, NetStep(p)
      PROVE  [Next]_vars
  BY <1>4 DEF NetStep, NetConnects, NetFails, NetLoses, Next
<1>5. ASSUME NEW p \in Providers, UserStep(p)
      PROVE  [Next]_vars
  BY <1>5 DEF UserStep, OnPick, OnStop, OnKeyDown, OnKeyUp, OnFocusOut
<1>6. ASSUME NEW r \in Receivers, ReceiverStep(r)
      PROVE  [Next]_vars
  BY <1>6, ReceivesHub DEF ReceiverStep, Receives
<1>7. CASE UNCHANGED sysvars
  BY <1>7 DEF sysvars, vars
<1> QED
  BY <1>1, <1>3, <1>4, <1>5, <1>6, <1>7 DEF SysNext

\* Every step of the system keeps its types.
LEMMA SysInvStep ==
    ASSUME SysInv, [SysNext]_sysvars
    PROVE  SysInv'
<1> USE DEF SysInv, SysTypeOK
<1>0. TypeOK'
  BY HubStep, TypeStep DEF Requests
<1>1. ASSUME NEW x \in Peers, ServerStep(x)
      PROVE  SysInv'
  BY <1>0, <1>1, ServesTypes DEF ServerStep, Serves, Requests, AsksAboutSomebody
<1>2. ASSUME NEW p \in Providers, ProviderStep(p)
      PROVE  SysInv'
  <2>1. CASE Poll(p, Held)
    BY <1>0, <1>2, <2>1, PollTypes DEF ProviderStep, Poll, Requests, AppOK
  <2>2. ASSUME NEW yes \in BOOLEAN, Answer(p, yes)
        PROVE  SysInv'
    BY <1>0, <1>2, <2>2, AnswerTypes DEF ProviderStep, Answer, Requests, AppOK
  <2> QED
    BY <1>2, <2>1, <2>2 DEF ProviderStep
<1>3. ASSUME NEW p \in Providers, NetStep(p)
      PROVE  SysInv'
  BY <1>0, <1>3, NetTypes DEF NetStep, Requests, AsksAboutSomebody
<1>4. ASSUME NEW p \in Providers, UserStep(p)
      PROVE  SysInv'
  <2>1. UNCHANGED <<net, pinned, rx>>
    BY <1>4 DEF UserStep, OnPick, OnStop, OnKeyDown, OnKeyUp, OnFocusOut
  <2> QED
    BY <1>0, <1>4, <2>1, UserTypes DEF Requests, AppOK
<1>5. ASSUME NEW r \in Receivers, ReceiverStep(r)
      PROVE  SysInv'
  BY <1>0, <1>5, ReceivesTypes DEF ReceiverStep, Receives, Requests, AsksAboutSomebody
<1>6. CASE UNCHANGED sysvars
  BY <1>0, <1>6 DEF sysvars, AsksAboutSomebody
<1> QED
  BY <1>1, <1>2, <1>3, <1>4, <1>5, <1>6 DEF SysNext

\* At first everything has its type.
LEMMA SysInvInit == SysInit => SysInv
<1> SUFFICES ASSUME SysInit
             PROVE  SysInv
  OBVIOUS
<1>1. TypeOK
  BY EmptySeq DEF SysInit, Init, TypeOK, NoLink
<1>2. /\ up \in [Peers -> Seq(Request)] /\ up \in Requests
      /\ net \in [Providers -> [up : BOOLEAN, events : Seq(Event)]]
  BY EmptySeq DEF SysInit, AppInit, NetInit, Requests
<1>3. /\ app \in [Providers -> Window] /\ AsksAboutSomebody
      /\ pinned \in [Providers -> [Names -> Keys \cup {None}]]
  BY SysAssumption DEF SysInit, AppInit, Offline, Window, AsksAboutSomebody
<1>4. rx \in [Receivers -> Device]
  BY DEF SysInit, RxInit, Idle, Device
<1> QED
  BY <1>1, <1>2, <1>3, <1>4 DEF SysInv, SysTypeOK

\* Everything in the system keeps its type (KbRelay, the state of all programs):
\* whatever arrives, at whatever time, is a message its handler knows, and a
\* dialog is open only about a receiver that has answered.
THEOREM SystemTypeCorrect == SysSpec => []SysTypeOK
<1>1. SysInv /\ [SysNext]_sysvars => SysInv'
  BY SysInvStep
<1>2. SysInv => SysTypeOK
  BY DEF SysInv
<1> QED
  BY <1>1, <1>2, SysInvInit, PTL DEF SysSpec

\* In the whole system the relay behaves as module Hub says.
THEOREM SystemRunsHub == SysSpec => Spec
<1>1. SysInit => Init
  BY DEF SysInit
<1>2. SysTypeOK /\ [SysNext]_sysvars => [Next]_vars
  BY HubStep DEF SysTypeOK
<1> QED
  BY <1>1, <1>2, SystemTypeCorrect, PTL DEF SysSpec, Spec

\* So in the whole system the two ends of attachments agree, whatever clients do
\* and connections lose, ...
THEOREM SystemAttachments ==
    SysSpec => [](AttachmentSymmetric /\ AttachedIsRegistered /\ OfferedIsConnected /\ OpenIsRegistered)
<1> QED
  BY SystemRunsHub, AttachmentsHold, PTL

\* ... and it implements the abstract attachment.
THEOREM SystemImplementsAttachment == SysSpec => Attachment
BY SystemRunsHub, ImplementsAttachment

\* What an event says of the attachment: losing the connection ends it.
Says(e) == CASE e.kind = "msg" -> e.msg
             [] e.kind = "disconnected" -> Detached
             [] OTHER -> Notice

Said(es) == [i \in 1..Len(es) |-> Says(es[i])]

\* The messages q, none of them out of context, take a client from believing in v
\* to believing in w.
Leads(v, q, w) == Told(v, q, Len(q), w) /\ Context(v, q)

-----------------------------------------------------------------------------
(* What is under way.                                                      *)

\* Whatever the programs do, connections carry replies of their senders only.
LEMMA CarriesStep ==
    ASSUME SysInv, Carries(link), [SysNext]_sysvars
    PROVE  Carries(link')
<1> USE DEF SysInv, SysTypeOK
<1>0. CASE UNCHANGED link
  BY <1>0
<1>1. ASSUME NEW x \in Peers, Deliver(x)
      PROVE  Carries(link')
  BY <1>1, DeliverCarries
<1>2. ASSUME NEW x \in Peers, ServerStep(x)
      PROVE  Carries(link')
  BY <1>2, ServesCarries DEF ServerStep, Serves
<1>4. ASSUME NEW p \in Providers, ProviderStep(p) \/ NetStep(p) \/ UserStep(p)
      PROVE  Carries(link')
  <2>1. CASE ProviderStep(p)
    BY <1>0, <1>1, <2>1 DEF ProviderStep, Poll, Answer, vars, Peers
  <2>2. CASE NetStep(p)
    BY <1>0, <2>2, ProviderJoinCarries DEF NetStep, NetConnects, NetFails, NetLoses, vars
  <2>3. CASE UserStep(p)
    BY <1>0, <2>3 DEF UserStep, OnPick, OnStop, OnKeyDown, OnKeyUp, OnFocusOut, vars
  <2> QED
    BY <1>4, <2>1, <2>2, <2>3
<1>5. ASSUME NEW r \in Receivers, ReceiverStep(r)
      PROVE  Carries(link')
  BY <1>5, ReceivesCarries DEF ReceiverStep, Receives
<1>6. CASE UNCHANGED sysvars
  BY <1>0, <1>6 DEF sysvars
<1> QED
  BY <1>2, <1>4, <1>5, <1>6 DEF SysNext

-----------------------------------------------------------------------------
(* The events the window has not taken.                                    *)

\* What events say is a sequence of messages, as long as that of the events.
LEMMA SaidFacts ==
    ASSUME NEW es \in Seq(Event)
    PROVE  /\ Said(es) \in Seq(Message) /\ Len(Said(es)) = Len(es)
           /\ \A i \in 1..Len(es) : Said(es)[i] = Says(es[i])
<1>1. \A i \in 1..Len(es) : Says(es[i]) \in Message
  <2> SUFFICES ASSUME NEW i \in 1..Len(es)
               PROVE  Says(es[i]) \in Message
    OBVIOUS
  <2>1. es[i] \in Event
    OBVIOUS
  <2> QED
    BY <2>1, MessageTypes DEF Event, Says, ConnectedEvent, DisconnectedEvent
<1>2. Len(es) \in Nat
  OBVIOUS
<1>3. Said(es) \in Seq(Message) /\ Len(Said(es)) = Len(es)
  BY <1>1, <1>2, IsASeq DEF Said
<1>4. \A i \in 1..Len(es) : Said(es)[i] = Says(es[i])
  BY DEF Said
<1> QED
  BY <1>3, <1>4

\* Taking the first event takes its message.
LEMMA SaidTail ==
    ASSUME NEW es \in Seq(Event), es # << >>
    PROVE  Said(es) # << >> /\ Said(Tail(es)) = Tail(Said(es)) /\ Head(Said(es)) = Says(Head(es))
<1> DEFINE q == Said(es)
           t == Said(Tail(es))
<1>1. /\ Tail(es) \in Seq(Event) /\ Len(Tail(es)) = Len(es) - 1
      /\ \A i \in 1..Len(Tail(es)) : Tail(es)[i] = es[i + 1] /\ i + 1 \in 1..Len(es)
      /\ 1 \in 1..Len(es) /\ Head(es) = es[1]
  OBVIOUS
<1>2. q \in Seq(Message) /\ Len(q) = Len(es) /\ \A i \in 1..Len(es) : q[i] = Says(es[i])
  BY SaidFacts
<1>3. t \in Seq(Message) /\ Len(t) = Len(es) - 1 /\ \A i \in 1..Len(t) : t[i] = Says(Tail(es)[i])
  BY <1>1, SaidFacts
<1> HIDE DEF q, t
<1>4. /\ q # << >> /\ Head(q) = q[1] /\ Tail(q) \in Seq(Message) /\ Len(Tail(q)) = Len(es) - 1
      /\ \A i \in 1..Len(Tail(q)) : Tail(q)[i] = q[i + 1]
  BY <1>1, <1>2
<1>5. \A i \in 1..Len(t) : t[i] = Tail(q)[i]
  BY <1>1, <1>2, <1>3, <1>4
<1>6. t = Tail(q)
  BY <1>3, <1>4, <1>5, SeqEqual
<1> QED
  BY <1>1, <1>2, <1>4, <1>6 DEF q, t

\* What more events say comes after what there was.
LEMMA SaidJoin ==
    ASSUME NEW es \in Seq(Event), NEW fs \in Seq(Event)
    PROVE  Said(es \o fs) = Said(es) \o Said(fs)
<1> DEFINE q == Said(es)
           s == Said(fs)
           t == Said(es \o fs)
<1>1. /\ es \o fs \in Seq(Event) /\ Len(es \o fs) = Len(es) + Len(fs)
      /\ \A i \in 1..(Len(es) + Len(fs)) : (es \o fs)[i] = IF i <= Len(es) THEN es[i] ELSE fs[i - Len(es)]
      /\ Len(es) \in Nat /\ Len(fs) \in Nat
  BY ConcatProperties
<1>2. q \in Seq(Message) /\ Len(q) = Len(es) /\ \A i \in 1..Len(es) : q[i] = Says(es[i])
  BY SaidFacts
<1>3. s \in Seq(Message) /\ Len(s) = Len(fs) /\ \A i \in 1..Len(fs) : s[i] = Says(fs[i])
  BY SaidFacts
<1>4. t \in Seq(Message) /\ Len(t) = Len(es) + Len(fs) /\ \A i \in 1..Len(t) : t[i] = Says((es \o fs)[i])
  BY <1>1, SaidFacts
<1> HIDE DEF q, s, t
<1>5. /\ q \o s \in Seq(Message) /\ Len(q \o s) = Len(q) + Len(s)
      /\ \A i \in 1..(Len(q) + Len(s)) : (q \o s)[i] = IF i <= Len(q) THEN q[i] ELSE s[i - Len(q)]
  <2>1. q \in Seq(Message) /\ s \in Seq(Message)
    BY <1>2, <1>3
  <2> QED
    BY <2>1, ConcatProperties
<1>6. ASSUME NEW i \in 1..Len(t)
      PROVE  t[i] = (q \o s)[i]
  <2>0. i \in 1..(Len(q) + Len(s)) /\ i \in 1..(Len(es) + Len(fs))
    BY <1>2, <1>3, <1>4
  <2>1. CASE i <= Len(es)
    <3>1. (q \o s)[i] = q[i] /\ i \in 1..Len(es)
      BY <1>1, <1>2, <1>5, <2>0, <2>1
    <3> QED
      BY <1>1, <1>2, <1>4, <2>0, <2>1, <3>1
  <2>2. CASE ~ (i <= Len(es))
    <3>1. i - Len(es) \in 1..Len(fs) /\ (q \o s)[i] = s[i - Len(es)]
      BY <1>1, <1>2, <1>5, <2>0, <2>2
    <3> QED
      BY <1>1, <1>3, <1>4, <2>0, <2>2, <3>1
  <2> QED
    BY <2>1, <2>2
<1>7. t = q \o s
  <2>1. Len(t) = Len(q \o s)
    BY <1>2, <1>3, <1>4, <1>5
  <2> QED
    BY <1>4, <1>5, <1>6, <2>1, SeqEqual
<1> QED
  BY <1>7 DEF q, s, t

-----------------------------------------------------------------------------
(* What messages lead to.                                                  *)

\* No message changes no belief.
LEMMA LeadsNowhere ==
    ASSUME NEW v, NEW w
    PROVE  Leads(v, << >>, w) <=> v = w
BY DEF Leads, Told, Context

\* One message that is no blob leads to what it announces.
LEMMA LeadsOne ==
    ASSUME NEW v, NEW m, m.type # "e2e"
    PROVE  Leads(v, <<m>>, After(v, m))
<1>1. Len(<<m>>) = 1 /\ <<m>>[1] = m /\ 1..1 = {1} /\ (1+1)..1 = {}
  OBVIOUS
<1>2. Told(v, <<m>>, 1, After(v, m))
  BY <1>1 DEF Told, After
<1> QED
  BY <1>1, <1>2 DEF Leads, Context

\* A message that announces something leads there from anywhere.
LEMMA LeadsLast ==
    ASSUME NEW v, NEW q \in Seq(Message), q # << >>, Announces(q[Len(q)])
    PROVE  Told(v, q, Len(q), q[Len(q)].who)
<1>1. Len(q) \in 1..Len(q) /\ (Len(q)+1)..Len(q) = {}
  OBVIOUS
<1> QED
  BY <1>1 DEF Told

\* What is told by a prefix is the start of what is told by the rest.
LEMMA ToldJoin ==
    ASSUME NEW v, NEW u, NEW w, NEW q \in Seq(Message), NEW s \in Seq(Message), NEW i \in 0..Len(s),
           Told(v, q, Len(q), u), Told(u, s, i, w)
    PROVE  Told(v, q \o s, Len(q) + i, w)
<1> DEFINE n == Len(q)
           t == q \o s
<1>1. /\ n \in Nat /\ \A j \in 1..n : t[j] = q[j]
      /\ \A j \in 1..Len(s) : t[n + j] = s[j]
  BY ConcatProperties
<1>2. \A j \in 1..(n + i) : j \in 1..n \/ (j - n \in 1..i /\ j - n \in 1..Len(s) /\ n + (j - n) = j)
  BY <1>1
<1> HIDE DEF n, t
<1>3. CASE u = w /\ \A j \in 1..i : ~ Announces(s[j])
  <2>1. \A j \in 1..(n + i) : j \in 1..n \/ ~ Announces(t[j])
    BY <1>1, <1>2, <1>3
  <2>2. CASE v = u /\ \A j \in 1..n : ~ Announces(q[j])
    BY <1>1, <1>3, <2>1, <2>2 DEF Told, n, t
  <2>3. ASSUME NEW j \in 1..n, Announces(q[j]), q[j].who = u, \A k \in (j+1)..n : ~ Announces(q[k])
        PROVE  Told(v, t, n + i, w)
    <3>1. j \in 1..(n + i) /\ \A k \in (j+1)..(n + i) : k \in 1..(n + i) /\ (k \in 1..n => k \in (j+1)..n)
      BY <1>1
    <3>2. Announces(t[j]) /\ t[j].who = w
      BY <1>1, <1>3, <2>3
    <3>3. \A k \in (j+1)..(n + i) : ~ Announces(t[k])
      BY <1>1, <2>1, <2>3, <3>1
    <3> QED
      BY <3>1, <3>2, <3>3 DEF Told
  <2> QED
    BY <2>2, <2>3 DEF Told, n, t
<1>4. ASSUME NEW j \in 1..i, Announces(s[j]), s[j].who = w, \A k \in (j+1)..i : ~ Announces(s[k])
      PROVE  Told(v, t, n + i, w)
  <2>1. n + j \in 1..(n + i) /\ j \in 1..Len(s)
    BY <1>1
  <2>2. \A k \in (n+j+1)..(n + i) : k - n \in (j+1)..i /\ k - n \in 1..Len(s) /\ n + (k - n) = k
    BY <1>1
  <2>3. \A k \in (n+j+1)..(n + i) : ~ Announces(t[k])
    BY <1>1, <1>4, <2>2
  <2> QED
    BY <1>1, <1>4, <2>1, <2>3 DEF Told
<1> QED
  BY <1>3, <1>4 DEF Told, n, t

\* What one queue after the other leads to.
LEMMA LeadsJoin ==
    ASSUME NEW v, NEW u, NEW w, NEW q \in Seq(Message), NEW s \in Seq(Message),
           Leads(v, q, u), Leads(u, s, w)
    PROVE  Leads(v, q \o s, w)
<1> DEFINE n == Len(q)
           t == q \o s
<1>1. /\ n \in Nat /\ Len(s) \in Nat /\ Len(t) = n + Len(s)
      /\ \A j \in 1..n : t[j] = q[j]
      /\ \A j \in 1..Len(s) : t[n + j] = s[j]
  BY ConcatProperties
<1>2. Told(v, t, Len(t), w)
  <2>1. Len(s) \in 0..Len(s)
    BY <1>1
  <2> QED
    BY <1>1, <2>1, ToldJoin DEF Leads
<1>3. ASSUME NEW i \in 1..Len(t), t[i].type = "e2e"
      PROVE  Told(v, t, i, Sender(t[i]))
  <2>1. CASE i \in 1..n
    <3>1. Told(v, q, i, Sender(q[i])) /\ i \in Nat /\ \A j \in 1..i : t[j] = q[j]
      BY <1>1, <1>3, <2>1 DEF Leads, Context
    <3> QED
      BY <1>1, <2>1, <3>1, ToldPrefix
  <2>2. CASE i \notin 1..n
    <3>1. i - n \in 1..Len(s) /\ n + (i - n) = i /\ i - n \in 0..Len(s)
      BY <1>1, <2>2
    <3>2. t[i] = s[i - n]
      BY <1>1, <3>1
    <3>3. Told(u, s, i - n, Sender(s[i - n]))
      BY <1>3, <3>1, <3>2 DEF Leads, Context
    <3>4. Told(v, t, n + (i - n), Sender(s[i - n]))
      BY <3>1, <3>3, ToldJoin DEF Leads
    <3> QED
      BY <3>1, <3>2, <3>4
  <2> QED
    BY <2>1, <2>2
<1> QED
  BY <1>2, <1>3 DEF Leads, Context

\* A client that takes the first of them is led from what it says, which is no
\* blob of somebody else.
LEMMA LeadsOn ==
    ASSUME NEW v, NEW w, NEW q \in Seq(Message), q # << >>, Leads(v, q, w)
    PROVE  /\ Leads(After(v, Head(q)), Tail(q), w)
           /\ Head(q).type = "e2e" => v = Sender(Head(q))
<1>1. /\ Len(Tail(q)) = Len(q) - 1 /\ Len(q) \in 1..Len(q) /\ 1 \in 1..Len(q) /\ Head(q) = q[1]
      /\ \A i \in 1..Len(Tail(q)) : i + 1 \in 1..Len(q) /\ Tail(q)[i] = q[i + 1] /\ (i + 1) - 1 = i
  OBVIOUS
<1>2. Told(After(v, Head(q)), Tail(q), Len(Tail(q)), w)
  BY <1>1, ToldTail DEF Leads
<1>3. ASSUME NEW i \in 1..Len(Tail(q)), Tail(q)[i].type = "e2e"
      PROVE  Told(After(v, Head(q)), Tail(q), i, Sender(Tail(q)[i]))
  <2>1. i + 1 \in 1..Len(q) /\ Tail(q)[i] = q[i + 1] /\ (i + 1) - 1 = i
    BY <1>1
  <2>2. Told(v, q, i + 1, Sender(q[i + 1]))
    BY <1>3, <2>1 DEF Leads, Context
  <2>3. Told(After(v, Head(q)), Tail(q), (i + 1) - 1, Sender(q[i + 1]))
    BY <2>1, <2>2, ToldTail
  <2> QED
    BY <2>1, <2>3
<1>4. ASSUME Head(q).type = "e2e"
      PROVE  v = Sender(Head(q))
  <2>1. Told(v, q, 1, Sender(q[1])) /\ ~ Announces(q[1])
    BY <1>1, <1>4 DEF Leads, Context, Announces
  <2> QED
    BY <1>1, <2>1 DEF Told
<1> QED
  BY <1>2, <1>3, <1>4 DEF Leads, Context

-----------------------------------------------------------------------------
(* What the window believes.                                               *)

\* The messages of the relay that wait for the window lead it to what it has been
\* told on the connection, and if there is none to believing in nobody.
Minded(p) ==
    \E u : /\ Leads(app[p].current, Said(net[p].events), u)
           /\ net[p].up /\ link[p].state # "none" => u = view[p].who
           /\ ~ net[p].up => u = None

\* A session whose reply has been verified is one with the receiver shown.
Shown(a) == a.session # None /\ a.session.with # None => Name(a.session.with) = a.current

\* The replies among the waiting messages name the receivers that made them.
EventsCarried == \A p \in Providers : Said(net[p].events) \in Seq(Carried)

Scene == /\ Carries(link)
         /\ EventsCarried
         /\ \A p \in Providers : Minded(p) /\ Shown(app[p])

\* What the handler of a message makes the window believe and show.
LEMMA HandlesShown ==
    ASSUME AppOK, NEW p \in Providers, NEW m \in Carried, NEW held, Handles(p, m, held),
           Shown(app[p]), m.type = "e2e" => app[p].current = Sender(m), ~ app[p].asking
    PROVE  /\ Shown(app'[p]) /\ app'[p].current = After(app[p].current, m)
           /\ \A q \in Providers \ {p} : app'[q] = app[q]
<1> USE DEF AppOK
<1>0. m \in Message /\ app[p] \in Window
  BY DEF Carried
<1>1. CASE m.type = "receivers" /\ OnReceivers(p, m)
  <2>1. ~ Announces(m)
    BY <1>1 DEF Announces
  <2> DEFINE a == [app[p] EXCEPT !.receivers = m.names]
             b == [a EXCEPT !.requested = a.desired]
  <2>2. /\ a.current = app[p].current /\ a.session = app[p].session
        /\ b.current = app[p].current /\ b.session = app[p].session
    BY <1>0 DEF Window
  <2>3. \E c \in {a, b} : app' = [app EXCEPT ![p] = c]
    BY <1>1 DEF OnReceivers
  <2> HIDE DEF a, b
  <2> QED
    BY <2>1, <2>2, <2>3 DEF Shown, After
<1>2. CASE m.type = "selected" /\ OnSelected(p, m, held)
  <2>1. After(app[p].current, m) = m.who
    BY <1>2 DEF After, Announces
  <2>2. CASE m.who = None
    <3> DEFINE a == [app[p] EXCEPT !.current = None, !.requested = None, !.session = None]
    <3>1. app' = [app EXCEPT ![p] = a]
      BY <1>2, <2>2 DEF OnSelected
    <3>2. a.current = None /\ a.session = None
      BY <1>0 DEF Window
    <3> HIDE DEF a
    <3>3. Shown(a)
      BY <3>2 DEF Shown, NewSession
    <3> QED
      BY <2>1, <2>2, <3>1, <3>2, <3>3
  <2>3. CASE m.who # None
    <3>1. PICK e \in Ephemerals : app' = [app EXCEPT ![p] = Starts([@ EXCEPT !.current = m.who, !.requested = None], e)]
      BY <1>2, <2>3 DEF OnSelected, Fresh
    <3> DEFINE a == Starts([app[p] EXCEPT !.current = m.who, !.requested = None], e)
    <3>2. a.current = m.who /\ a.session = NewSession(e)
      BY <1>0 DEF Window, Starts, NewSession
    <3>3. app' = [app EXCEPT ![p] = a]
      BY <3>1
    <3> HIDE DEF a
    <3>4. Shown(a)
      BY <3>2 DEF Shown, NewSession
    <3> QED
      BY <2>1, <3>2, <3>3, <3>4
  <2> QED
    BY <2>2, <2>3
<1>3. CASE m.type = "e2e" /\ OnE2E(p, m.body)
  <2> DEFINE b == m.body
             keyed == [app[p] EXCEPT !.session.with = b.pub]
             asked == [keyed EXCEPT !.asking = TRUE]
             given == GivenUp(app[p])
  <2>1. After(app[p].current, m) = app[p].current
    BY <1>3 DEF After, Announces
  <2>2. given.session = None /\ given.current = app[p].current
    BY <1>0 DEF GivenUp, Window
  <2>3. CASE GiveUp(p)
    <3>1. app' = [app EXCEPT ![p] = given]
      BY <2>3 DEF GiveUp
    <3> HIDE DEF given
    <3> QED
      BY <2>1, <2>2, <3>1 DEF Shown
  <2>4. CASE UNCHANGED <<app, up>>
    BY <2>1, <2>4
  <2>5. CASE b.step = "hs2" /\ app[p].session # None /\ (\E c \in {keyed, asked} : app' = [app EXCEPT ![p] = c])
    <3>1. b.pub = m.from /\ b \in Blobs
      BY <1>0, <1>3, <2>5, MessageParts DEF Carried, Genuine
    <3>2. b.pub \in Receivers
      BY <2>5, <3>1, BlobParts
    <3>3. Name(b.pub) = app[p].current
      BY <1>3, <3>1, <3>2 DEF Sender
    <3>4. app[p].session \in [epk : Ephemerals, with : Receivers \cup {None}]
      BY <1>0, <2>5 DEF Window
    <3>5. /\ keyed.session.with = b.pub /\ keyed.current = app[p].current
          /\ asked.session.with = b.pub /\ asked.current = app[p].current
      BY <1>0, <3>4 DEF Window
    <3> HIDE DEF b, keyed, asked
    <3> QED
      BY <2>1, <2>5, <3>3, <3>5 DEF Shown
  <2>6. \/ GiveUp(p) \/ UNCHANGED <<app, up>>
        \/ b.step = "hs2" /\ app[p].session # None /\ (\E c \in {keyed, asked} : app' = [app EXCEPT ![p] = c])
    BY <1>3 DEF OnE2E, Confirm
  <2> QED
    BY <2>3, <2>4, <2>5, <2>6
<1>4. CASE m.type = "notice" /\ UNCHANGED <<app, up>>
  BY <1>4 DEF After, Announces
<1> QED
  BY <1>1, <1>2, <1>3, <1>4 DEF Handles

-----------------------------------------------------------------------------
(* Every step of the system keeps the scene.                               *)

\* What other programs do does not disturb p.
LEMMA NetLeavesAlone ==
    ASSUME SysInv, NEW p \in Providers, NEW q \in Providers \ {p}, NetStep(q)
    PROVE  Undisturbed(p)
<1>1. CASE ProviderJoin(q)
  BY <1>1, OthersLeaveAlone DEF SysInv, SysTypeOK, Peers
<1>2. CASE UNCHANGED <<link, view>>
  BY <1>2 DEF Undisturbed
<1> QED
  BY <1>1, <1>2 DEF NetStep, NetConnects, NetFails, NetLoses, vars

\* A window that takes nothing in and is not disturbed goes on believing.
LEMMA MindedStays ==
    ASSUME NEW p \in Providers, Minded(p), Undisturbed(p), net'[p] = net[p],
           app'[p].current = app[p].current
    PROVE  Minded(p)'
<1>1. PICK u : /\ Leads(app[p].current, Said(net[p].events), u)
               /\ net[p].up /\ link[p].state # "none" => u = view[p].who
               /\ ~ net[p].up => u = None
  BY DEF Minded
<1>2. net'[p].up /\ link'[p].state # "none" => u = view'[p].who
  BY <1>1 DEF Undisturbed
<1>3. Leads(app'[p].current, Said(net'[p].events), u)
  BY <1>1
<1>4. ~ net'[p].up => u = None
  BY <1>1
<1> QED
  BY <1>2, <1>3, <1>4 DEF Minded

\* The window takes its next event.
LEMMA EventShown ==
    ASSUME SysInv, Scene, NEW p \in Providers, Poll(p, Held), net[p].events # << >>
    PROVE  Minded(p)' /\ Shown(app'[p]) /\ EventsCarried'
<1> USE DEF SysInv, SysTypeOK
<1> DEFINE es == net[p].events
           e == Head(es)
           q == Said(es)
           current == app[p].current
<1>1. es \in Seq(Event) /\ e \in Event /\ es # << >> /\ app[p] \in Window
  OBVIOUS
<1>2. q # << >> /\ q \in Seq(Message) /\ Said(Tail(es)) = Tail(q) /\ Head(q) = Says(e)
  BY <1>1, SaidTail, SaidFacts
<1>3. q \in Seq(Carried) /\ Tail(q) \in Seq(Carried) /\ Head(q) \in Carried
  <2>1. q \in Seq(Carried)
    BY DEF Scene, EventsCarried
  <2> QED
    BY <1>2, <2>1
<1>4. PICK u : /\ Leads(current, q, u)
               /\ net[p].up /\ link[p].state # "none" => u = view[p].who
               /\ ~ net[p].up => u = None
  BY DEF Scene, Minded
<1>5. Leads(After(current, Says(e)), Tail(q), u) /\ (Says(e).type = "e2e" => current = Sender(Says(e)))
  BY <1>2, <1>4, LeadsOn
<1>6. net' = [net EXCEPT ![p].events = Tail(es)] /\ UNCHANGED <<link, view>>
  BY DEF Poll, vars
<1>7. app'[p].current = After(current, Says(e)) /\ Shown(app'[p])
  <2>0. Shown(app[p]) /\ ~ app[p].asking
    BY DEF Scene, Poll
  <2>1. CASE e.kind = "connected" /\ app' = [app EXCEPT ![p].connected = TRUE]
    <3>1. Says(e) = Notice
      BY <2>1 DEF Says
    <3>2. app'[p].session = app[p].session /\ app'[p].current = current
      BY <1>1, <2>1 DEF Window
    <3> QED
      BY <2>0, <3>1, <3>2, SaysNothing DEF After, Shown
  <2>2. CASE e.kind = "disconnected" /\ app' = [app EXCEPT ![p] = Lost(@)]
    <3>1. Says(e) = Detached
      BY <2>2 DEF Says
    <3>2. app'[p].session = None /\ app'[p].current = None
      BY <1>1, <2>2 DEF Lost, Offline
    <3> QED
      BY <3>1, <3>2, SaysWho DEF After, Shown
  <2>3. CASE e.kind = "msg" /\ Handles(p, e.msg, Held)
    <3>1. Says(e) = e.msg
      BY <2>3 DEF Says
    <3> HIDE DEF e
    <3> QED
      BY <1>2, <1>3, <1>5, <2>0, <2>3, <3>1, HandlesShown DEF AppOK
  <2> QED
    BY <1>1, <2>1, <2>2, <2>3 DEF Poll
<1>8. net'[p].events = Tail(es) /\ net'[p].up = net[p].up /\ \A z \in Providers \ {p} : net'[z] = net[z]
  BY <1>6
<1>9. Minded(p)'
  BY <1>2, <1>4, <1>5, <1>6, <1>7, <1>8 DEF Minded
<1>10. EventsCarried'
  BY <1>2, <1>3, <1>8 DEF Scene, EventsCarried
<1> QED
  BY <1>7, <1>9, <1>10

\* The window takes the next message of its connection.
LEMMA MessageShown ==
    ASSUME SysInv, Scene, AllInformed, NEW p \in Providers, Poll(p, Held), net[p].events = << >>
    PROVE  Minded(p)' /\ Shown(app'[p]) /\ EventsCarried'
<1> USE DEF SysInv, SysTypeOK
<1> DEFINE q == link[p].queue
           m == Head(q)
           current == app[p].current
<1>1. /\ Deliver(p) /\ Handles(p, m, Held) /\ net' = net /\ net[p].up /\ p \in Peers
      /\ Said(net[p].events) = << >>
  BY DEF Poll, Peers, Said
<1>2. m \in Carried /\ link[p].state # "none"
  BY <1>1, DeliverCarries DEF Scene
<1>3. current = view[p].who
  BY <1>1, <1>2, LeadsNowhere DEF Scene, Minded
<1>4. q \in Seq(Message) /\ q # << >>
  BY <1>1 DEF Deliver, TypeOK
<1>5. m.type = "e2e" => current = Sender(m)
  BY <1>1, <1>3, HeadInContext
<1>6. Shown(app'[p]) /\ app'[p].current = After(current, m)
  <2>1. Shown(app[p]) /\ ~ app[p].asking
    BY DEF Scene, Poll
  <2> HIDE DEF m
  <2> QED
    BY <1>1, <1>2, <1>5, <2>1, HandlesShown DEF AppOK
<1>7. view'[p].who = After(view[p].who, m)
  BY <1>1, Believes DEF After
<1>8. Leads(app'[p].current, << >>, view'[p].who)
  BY <1>3, <1>6, <1>7, LeadsNowhere
<1>9. Minded(p)'
  BY <1>1, <1>8 DEF Minded
<1> QED
  BY <1>1, <1>6, <1>9 DEF Scene, EventsCarried

\* The connection thread reports what it has noticed.
LEMMA ReportsLead ==
    ASSUME SysInv, NEW p \in Providers, NEW u, NEW w, NEW isUp \in BOOLEAN, NEW more \in Seq(Event),
           Leads(app[p].current, Said(net[p].events), u), Leads(u, Said(more), w),
           Said(net[p].events) \in Seq(Carried), Said(more) \in Seq(Carried), Reports(p, isUp, more)
    PROVE  /\ Leads(app[p].current, Said(net'[p].events), w)
           /\ Said(net'[p].events) \in Seq(Carried)
           /\ net'[p].up = isUp
           /\ \A q \in Providers \ {p} : net'[q] = net[q]
<1> DEFINE es == net[p].events
<1>1. es \in Seq(Event)
  BY DEF SysInv, SysTypeOK
<1>2. /\ net'[p].events = es \o more /\ net'[p].up = isUp
      /\ \A q \in Providers \ {p} : net'[q] = net[q]
  BY DEF Reports, SysInv, SysTypeOK
<1>3. Said(es \o more) = Said(es) \o Said(more)
  BY <1>1, SaidJoin
<1>4. Said(es) \in Seq(Message) /\ Said(more) \in Seq(Message)
  BY <1>1, SaidFacts
<1>5. Leads(app[p].current, Said(es) \o Said(more), w)
  BY <1>4, LeadsJoin
<1>6. Said(es) \o Said(more) \in Seq(Carried)
  BY ConcatProperties
<1> QED
  BY <1>2, <1>3, <1>5, <1>6

\* One report.
LEMMA SaidOne ==
    ASSUME NEW e \in {ConnectedEvent, DisconnectedEvent}, NEW u
    PROVE  /\ <<e>> \in Seq(Event) /\ Said(<<e>>) = <<Says(e)>> /\ <<Says(e)>> \in Seq(Carried)
           /\ Leads(u, Said(<<e>>), IF e = ConnectedEvent THEN u ELSE None)
<1>1. <<e>> \in Seq(Event) /\ Len(<<e>>) = 1 /\ 1..1 = {1} /\ <<e>>[1] = e
  BY DEF Event
<1>2. Says(e) = IF e = ConnectedEvent THEN Notice ELSE Detached
  BY DEF Says, ConnectedEvent, DisconnectedEvent
<1>3. Said(<<e>>) = <<Says(e)>>
  <2>1. Said(<<e>>) \in Seq(Message) /\ Len(Said(<<e>>)) = 1 /\ Said(<<e>>)[1] = Says(e)
    BY <1>1, SaidFacts
  <2> QED
    BY <2>1
<1>4. /\ Says(e) \in Message /\ Says(e).type # "e2e"
      /\ After(u, Says(e)) = IF e = ConnectedEvent THEN u ELSE None
  BY <1>2, MessageTypes, SaysNothing, SaysWho DEF After
<1>5. Says(e) \in Carried
  BY <1>4, CarriedMessages
<1>6. <<Says(e)>> \in Seq(Carried)
  BY <1>5
<1>7. Leads(u, <<Says(e)>>, After(u, Says(e)))
  BY <1>4, LeadsOne
<1> QED
  BY <1>1, <1>3, <1>4, <1>6, <1>7

\* A sequence of carried messages.
LEMMA IsCarried ==
    ASSUME NEW s \in Seq(Message), \A i \in 1..Len(s) : s[i] \in Carried
    PROVE  s \in Seq(Carried)
OBVIOUS

\* What the connection thread had received when the connection was lost.
LEMMA SaidLost ==
    ASSUME NEW v, NEW q \in Seq(Message), Context(v, q), q \in Seq(Carried), NEW k \in 0..Len(q),
           NEW es, es = Append([i \in 1..k |-> Received(q[i])], DisconnectedEvent)
    PROVE  es \in Seq(Event) /\ Said(es) \in Seq(Carried) /\ Leads(v, Said(es), None)
<1>1. k \in Nat /\ Len(q) \in Nat /\ \A i \in 1..k : i \in 1..Len(q) /\ q[i] \in Message /\ q[i] \in Carried
  OBVIOUS
<1>2. \A i \in 1..k : Received(q[i]) \in Event /\ Says(Received(q[i])) = q[i]
  BY <1>1 DEF Received, Event, Says
<1> DEFINE fs == [i \in 1..k |-> Received(q[i])]
<1>3. fs \in Seq(Event) /\ Len(fs) = k /\ \A i \in 1..k : fs[i] = Received(q[i])
  BY <1>1, <1>2, IsASeq
<1>4. DisconnectedEvent \in Event /\ Says(DisconnectedEvent) = Detached
  BY DEF Event, Says, DisconnectedEvent
<1> HIDE DEF fs
<1>5. /\ es \in Seq(Event) /\ Len(es) = k + 1 /\ es[k + 1] = DisconnectedEvent
      /\ \A i \in 1..k : es[i] = Received(q[i])
  <2>1. es = Append(fs, DisconnectedEvent)
    BY DEF fs
  <2> QED
    BY <1>3, <1>4, <2>1, AppendProperties
<1> DEFINE s == Said(es)
<1>6. /\ s \in Seq(Message) /\ Len(s) = k + 1
      /\ \A i \in 1..Len(es) : s[i] = Says(es[i])
  BY <1>5, SaidFacts
<1> HIDE DEF s
<1>7. s[k + 1] = Detached /\ \A i \in 1..k : s[i] = q[i]
  <2>1. k + 1 \in 1..Len(es) /\ \A i \in 1..k : i \in 1..Len(es)
    BY <1>1, <1>5
  <2> QED
    BY <1>2, <1>4, <1>5, <1>6, <2>1
<1>8. \A i \in 1..(k + 1) : i \in 1..k \/ i = k + 1
  BY <1>1
<1>9. s \in Seq(Carried)
  <2>1. Detached \in Carried
    BY MessageTypes, SaysWho, CarriedMessages
  <2>2. \A i \in 1..Len(s) : s[i] \in Carried
    BY <1>1, <1>6, <1>7, <1>8, <2>1
  <2> QED
    BY <1>6, <2>2, IsCarried
<1>10. Told(v, s, Len(s), None)
  <2>1. s # << >> /\ Announces(s[Len(s)]) /\ s[Len(s)].who = None
    BY <1>1, <1>6, <1>7, SaysWho
  <2> QED
    BY <1>6, <2>1, LeadsLast
<1>11. ASSUME NEW i \in 1..Len(s), s[i].type = "e2e"
       PROVE  Told(v, s, i, Sender(s[i]))
  <2>1. i \in 1..k
    BY <1>6, <1>7, <1>8, <1>11, SaysWho
  <2>2. s[i] = q[i] /\ i \in 1..Len(q) /\ i \in Nat /\ \A j \in 1..i : s[j] = q[j]
    BY <1>1, <1>7, <2>1
  <2>3. Told(v, q, i, Sender(q[i]))
    BY <1>11, <2>2 DEF Context
  <2> QED
    BY <2>2, <2>3, ToldPrefix
<1> QED
  BY <1>5, <1>9, <1>10, <1>11 DEF s, Leads, Context

\* The connection thread connects, fails to, or loses the connection.
LEMMA NetMinded ==
    ASSUME SysInv, Scene, AllInformed, NEW p \in Providers, NetStep(p)
    PROVE  Minded(p)' /\ EventsCarried'
<1> USE DEF SysInv, SysTypeOK
<1>1. PICK u : /\ Leads(app[p].current, Said(net[p].events), u)
               /\ net[p].up /\ link[p].state # "none" => u = view[p].who
               /\ ~ net[p].up => u = None
  BY DEF Scene, Minded
<1>2. Said(net[p].events) \in Seq(Carried) /\ app'[p].current = app[p].current /\ p \in Peers
  BY DEF Scene, EventsCarried, NetStep, Peers
<1>3. ASSUME NEW more \in Seq(Event), NEW isUp \in BOOLEAN, Reports(p, isUp, more), NEW w,
             Said(more) \in Seq(Carried), Leads(u, Said(more), w),
             isUp /\ link'[p].state # "none" => w = view'[p].who, ~ isUp => w = None
      PROVE  Minded(p)' /\ EventsCarried'
  <2>1. /\ Leads(app[p].current, Said(net'[p].events), w)
        /\ Said(net'[p].events) \in Seq(Carried)
        /\ net'[p].up = isUp
        /\ \A q \in Providers \ {p} : net'[q] = net[q]
    BY <1>1, <1>2, <1>3, ReportsLead, ZenonT(40)
  <2>2. Minded(p)'
    BY <1>2, <1>3, <2>1 DEF Minded
  <2> QED
    BY <2>1, <2>2 DEF Scene, EventsCarried
<1>4. CASE NetConnects(p)
  <2>1. view'[p].who = None /\ u = None /\ Reports(p, TRUE, <<ConnectedEvent>>)
    BY <1>1, <1>2, <1>4 DEF NetConnects, ProviderJoin, Blank, TypeOK
  <2> QED
    BY <1>3, <2>1, SaidOne
<1>5. CASE NetFails(p)
  <2>1. ConnectedEvent # DisconnectedEvent
    BY DEF ConnectedEvent, DisconnectedEvent
  <2> QED
    BY <1>3, <1>5, <2>1, SaidOne DEF NetFails
<1>6. CASE NetLoses(p)
  <2> DEFINE q == link[p].queue
  <2>1. PICK k \in 0..Len(q) :
           Reports(p, FALSE, Append([i \in 1..k |-> Received(q[i])], DisconnectedEvent))
    BY <1>6 DEF NetLoses
  <2>2. q \in Seq(Message) /\ q \in Seq(Carried)
    BY <1>2 DEF Scene, Carries, TypeOK
  <2>3. Context(u, q)
    <3>1. CASE link[p].state = "none"
      <4>1. q = << >>
        BY <1>2, <3>1 DEF Scene, Carries
      <4> QED
        BY <4>1 DEF Context
    <3>2. CASE link[p].state # "none"
      <4>1. u = view[p].who
        BY <1>1, <1>6, <3>2 DEF NetLoses
      <4> QED
        BY <1>2, <4>1 DEF AllInformed, Informed
    <3> QED
      BY <3>1, <3>2
  <2> DEFINE more == Append([i \in 1..k |-> Received(q[i])], DisconnectedEvent)
  <2>4. more \in Seq(Event) /\ Said(more) \in Seq(Carried) /\ Leads(u, Said(more), None)
    <3> HIDE DEF q
    <3> QED
      BY <2>1, <2>2, <2>3, SaidLost
  <2> HIDE DEF more
  <2> QED
    BY <1>3, <2>1, <2>4 DEF more
<1> QED
  BY <1>4, <1>5, <1>6 DEF NetStep

\* Answering the dialog and what the user does change nothing that is shown of a
\* session that goes on.
LEMMA UserShown ==
    ASSUME SysInv, Scene, NEW p \in Providers, UserStep(p) \/ \E yes \in BOOLEAN : Answer(p, yes)
    PROVE  /\ Shown(app'[p]) /\ app'[p].current = app[p].current
           /\ \A q \in Providers \ {p} : app'[q] = app[q]
           /\ UNCHANGED <<link, view, net>>
<1> USE DEF SysInv, SysTypeOK
<1>0. app[p] \in Window /\ Shown(app[p])
  BY DEF Scene
<1>1. ASSUME NEW a, app' = [app EXCEPT ![p] = a], a.current = app[p].current,
             a.session = None \/ a.session = app[p].session
      PROVE  /\ Shown(app'[p]) /\ app'[p].current = app[p].current
             /\ \A q \in Providers \ {p} : app'[q] = app[q]
  BY <1>0, <1>1 DEF Shown
<1>2. UNCHANGED <<link, view, net>>
  BY DEF UserStep, OnPick, OnStop, OnKeyDown, OnKeyUp, OnFocusOut, Answer, vars
<1>3. ASSUME NEW n \in Names, OnPick(p, n)
      PROVE  Shown(app'[p]) /\ app'[p].current = app[p].current /\ \A q \in Providers \ {p} : app'[q] = app[q]
  <2> DEFINE a == [app[p] EXCEPT !.desired = n]
             b == [a EXCEPT !.requested = n]
  <2>1. /\ a.current = app[p].current /\ a.session = app[p].session
        /\ b.current = app[p].current /\ b.session = app[p].session
    BY <1>0 DEF Window
  <2>2. app' = [app EXCEPT ![p] = a] \/ app' = [app EXCEPT ![p] = b]
    BY <1>3 DEF OnPick
  <2> HIDE DEF a, b
  <2> QED
    BY <1>1, <2>1, <2>2
<1>4. CASE OnStop(p)
  <2> DEFINE a == GivenUp(app[p])
  <2>1. a.session = None /\ a.current = app[p].current
    BY <1>0 DEF GivenUp, Window
  <2>2. app' = [app EXCEPT ![p] = a]
    BY <1>4 DEF OnStop, GiveUp
  <2> HIDE DEF a
  <2> QED
    BY <1>1, <1>2, <2>1, <2>2
<1>5. ASSUME NEW pressed, app' = [app EXCEPT ![p].pressed = pressed]
      PROVE  Shown(app'[p]) /\ app'[p].current = app[p].current /\ \A q \in Providers \ {p} : app'[q] = app[q]
  <2> DEFINE a == [app[p] EXCEPT !.pressed = pressed]
  <2>1. a.session = app[p].session /\ a.current = app[p].current
    BY <1>0 DEF Window
  <2>2. app' = [app EXCEPT ![p] = a]
    BY <1>5
  <2> HIDE DEF a
  <2> QED
    BY <1>1, <2>1, <2>2
<1>6. CASE UserStep(p)
  <2>1. ASSUME NEW c \in KeyCodes, OnKeyDown(p, c)
        PROVE  app' = [app EXCEPT ![p].pressed = app[p].pressed \cup {c}]
    BY <2>1 DEF OnKeyDown
  <2>2. ASSUME NEW c \in KeyCodes, OnKeyUp(p, c)
        PROVE  app' = [app EXCEPT ![p].pressed = app[p].pressed \ {c}]
    BY <2>2 DEF OnKeyUp
  <2>3. OnFocusOut(p) => app' = [app EXCEPT ![p].pressed = {}]
    BY DEF OnFocusOut
  <2> QED
    BY <1>2, <1>3, <1>4, <1>5, <1>6, <2>1, <2>2, <2>3 DEF UserStep
<1>7. ASSUME NEW yes \in BOOLEAN, Answer(p, yes)
      PROVE  Shown(app'[p]) /\ app'[p].current = app[p].current /\ \A q \in Providers \ {p} : app'[q] = app[q]
  <2> DEFINE a == [app[p] EXCEPT !.asking = FALSE]
             b == GivenUp(a)
  <2>1. /\ a.session = app[p].session /\ a.current = app[p].current
        /\ b.session = None /\ b.current = app[p].current
    BY <1>0 DEF Window, GivenUp
  <2>2. app' = [app EXCEPT ![p] = a] \/ app' = [app EXCEPT ![p] = b]
    BY <1>7 DEF Answer, Confirm
  <2> HIDE DEF a, b
  <2> QED
    BY <1>1, <2>1, <2>2
<1> QED
  BY <1>2, <1>6, <1>7

\* A turn of one window's poll leaves the others alone.
LEMMA PollAlone ==
    ASSUME SysInv, NEW p \in Providers, Poll(p, Held)
    PROVE  \A q \in Providers \ {p} : net'[q] = net[q] /\ app'[q] = app[q] /\ Undisturbed(q)
<1>1. \A m \in Message : Handles(p, m, Held) => \A q \in Providers \ {p} : app'[q] = app[q]
  BY DEF Handles, OnReceivers, OnSelected, OnE2E, GiveUp, Confirm, SysInv, SysTypeOK
<1>2. \A q \in Providers \ {p} : net'[q] = net[q]
  BY DEF Poll, SysInv, SysTypeOK
<1>3. \A q \in Providers \ {p} : app'[q] = app[q]
  <2>1. net[p].events # << >> => Head(net[p].events) \in Event
    BY DEF SysInv, SysTypeOK
  <2>2. Deliver(p) => Head(link[p].queue) \in Message
    BY DEF Deliver, SysInv, SysTypeOK, TypeOK, Peers
  <2> QED
    BY <1>1, <2>1, <2>2 DEF Poll, Event, ConnectedEvent, DisconnectedEvent, SysInv, SysTypeOK
<1>4. \A q \in Providers \ {p} : Undisturbed(q)
  <2>1. CASE UNCHANGED <<link, view>>
    BY <2>1 DEF Undisturbed
  <2>2. CASE Deliver(p)
    BY <2>2, DeliverAlone DEF SysInv, SysTypeOK, Peers
  <2> QED
    BY <2>1, <2>2 DEF Poll, vars
<1> QED
  BY <1>2, <1>3, <1>4

\* All invariants together are inductive.
LEMMA SceneStep ==
    ASSUME SysInv, Scene, AllInformed, [SysNext]_sysvars
    PROVE  Scene'
<1>0. Carries(link)'
  BY CarriesStep DEF Scene
<1>1. ASSUME UNCHANGED <<app, net>>, \A p \in Providers : Undisturbed(p)
      PROVE  Scene'
  BY <1>0, <1>1, MindedStays DEF Scene, EventsCarried
<1>2. ASSUME NEW x \in Peers, ServerStep(x)
      PROVE  Scene'
  BY <1>1, <1>2, OthersLeaveAlone DEF Peers, ServerStep, Serves, SysInv, SysTypeOK
<1>3. ASSUME NEW r \in Receivers, ReceiverStep(r)
      PROVE  Scene'
  BY <1>1, <1>3, OthersLeaveAlone, HubAssumption DEF Peers, ReceiverStep, Receives, SysInv, SysTypeOK
<1>4. ASSUME NEW p \in Providers, Minded(p)', Shown(app'[p]), EventsCarried',
             \A q \in Providers \ {p} : Undisturbed(q) /\ net'[q] = net[q] /\ app'[q] = app[q]
      PROVE  Scene'
  <2>1. ASSUME NEW q \in Providers \ {p}
        PROVE  Minded(q)' /\ Shown(app'[q])
    BY <1>4, <2>1, MindedStays DEF Scene
  <2> QED
    BY <1>0, <1>4, <2>1 DEF Scene
<1>5. ASSUME NEW p \in Providers, Poll(p, Held)
      PROVE  Scene'
  <2>1. Minded(p)' /\ Shown(app'[p]) /\ EventsCarried'
    BY <1>5, EventShown, MessageShown
  <2>2. \A q \in Providers \ {p} : net'[q] = net[q] /\ app'[q] = app[q]
    BY <1>5, PollAlone
  <2>3. \A q \in Providers \ {p} : Undisturbed(q)
    BY <1>5, PollAlone
  <2> QED
    BY <1>4, <2>1, <2>2, <2>3
<1>6. ASSUME NEW p \in Providers, UserStep(p) \/ \E yes \in BOOLEAN : Answer(p, yes)
      PROVE  Scene'
  <2>1. /\ Shown(app'[p]) /\ app'[p].current = app[p].current
        /\ \A q \in Providers \ {p} : app'[q] = app[q]
        /\ UNCHANGED <<link, view, net>>
    BY <1>6, UserShown
  <2>2. \A q \in Providers : Undisturbed(q)
    BY <2>1 DEF Undisturbed
  <2>3. Minded(p)'
    BY <2>1, <2>2, MindedStays DEF Scene
  <2>4. EventsCarried'
    BY <2>1 DEF Scene, EventsCarried
  <2> QED
    BY <1>4, <2>1, <2>2, <2>3, <2>4
<1>7. ASSUME NEW p \in Providers, NetStep(p)
      PROVE  Scene'
  <2>1. Minded(p)' /\ EventsCarried'
    BY <1>7, NetMinded
  <2>2. app' = app /\ \A q \in Providers \ {p} : net'[q] = net[q]
    BY <1>7 DEF NetStep, NetConnects, NetFails, NetLoses, Reports, SysInv, SysTypeOK
  <2>3. \A q \in Providers \ {p} : Undisturbed(q)
    BY <1>7, NetLeavesAlone
  <2> QED
    BY <1>4, <2>1, <2>2, <2>3 DEF Scene
<1>8. CASE UNCHANGED sysvars
  BY <1>1, <1>8 DEF sysvars, Undisturbed
<1> QED
  BY <1>2, <1>3, <1>5, <1>6, <1>7, <1>8 DEF SysNext, ProviderStep

\* At first nobody is connected and nothing is shown.
LEMMA SceneInit == SysInit => Scene
<1> SUFFICES ASSUME SysInit
             PROVE  Scene
  OBVIOUS
<1>1. Carries(link)
  BY EmptySeq DEF SysInit, Init, NoLink, Carries
<1>2. ASSUME NEW p \in Providers
      PROVE  /\ Said(net[p].events) = << >> /\ ~ net[p].up /\ app[p].current = None
             /\ app[p].session = None
  BY DEF SysInit, AppInit, NetInit, Offline, Said
<1>3. EventsCarried
  BY <1>2, EmptySeq DEF EventsCarried
<1>4. ASSUME NEW p \in Providers
      PROVE  Minded(p) /\ Shown(app[p])
  BY <1>2, LeadsNowhere DEF Minded, Shown
<1> QED
  BY <1>1, <1>3, <1>4 DEF Scene

\* The receiver that holds the keys of the session the user types into is the one
\* the window names, whatever was lost, taken over or picked in between, and
\* however late the window got to know of it (ProviderApp.live, handle_e2e).
THEOREM TypingIsWhereShown == SysSpec => []TypingWhereShown
<1>1. Scene /\ SysInv => TypingWhereShown
  BY DEF Scene, Shown, TypingWhereShown, Live
<1>2. SysInv /\ [SysNext]_sysvars => SysInv'
  BY SysInvStep
<1>3. SysInv /\ Scene /\ AllInformed /\ [SysNext]_sysvars => Scene'
  BY SceneStep
<1>4. SysInv /\ Attachments /\ AllInformed /\ [SysNext]_sysvars => AllInformed' /\ Attachments'
  BY HubStep, InformedStep, AttachmentsStep DEF SysInv, SysTypeOK
<1>5. SysInit => AllInformed /\ Attachments
  BY AttachmentsInit, NewLinkInformed DEF SysInit, Init, AllInformed
<1> QED
  BY <1>1, <1>2, <1>3, <1>4, <1>5, SysInvInit, SceneInit, PTL DEF SysSpec

-----------------------------------------------------------------------------
(* What the handlers do to the session.                                    *)

\* The handler of a message goes on, or asks for something, or follows its
\* attachment, or accepts the reply of its receiver.
Handled(p, m, held, a, a2) ==
    /\ a2.connected = a.connected /\ a2.pressed = a.pressed /\ a2 \in Window
    /\ \/ ~ Announces(m) /\ a2.session = a.session /\ a2.current = a.current /\ UNCHANGED up
       \/ /\ ~ Announces(m) /\ a2.session \in {a.session, None} /\ a2.current = a.current
          /\ \E n \in Names \cup {None} : NetSends(p, <<SelectReq(n)>>)
       \/ Announces(m) /\ a2.session = None /\ a2.current = None /\ UNCHANGED up
       \/ /\ Announces(m) /\ a2.current # None
          /\ \E e \in Fresh(p, held \cup Own(p)) :
                a2.session = NewSession(e) /\ NetSends(p, <<Blob(Hs1(p, e))>>)
       \/ /\ ~ Announces(m) /\ a2.current = a.current
          /\ m.type = "e2e" /\ m.body.step = "hs2" /\ m.body.pub \in Receivers
          /\ a.session \in Session /\ a.session.with = None /\ m.body.answers = <<p, a.session.epk>>
          /\ a2.session = [a.session EXCEPT !.with = m.body.pub]
          /\ \/ UNCHANGED up
             \/ NetSends(p, <<Blob(Sealed(p, a2.session.epk, a2.session.with, ReleaseAll))>>)

\* So do all of them.
LEMMA HandlesParts ==
    ASSUME AppOK, NEW p \in Providers, NEW m \in Message, NEW held, Handles(p, m, held),
           NEW a, a = app[p], NEW a2, a2 = app'[p]
    PROVE  Handled(p, m, held, a, a2)
<1> USE DEF Handled
<1>0. a \in Window /\ a2 = app'[p] /\ app \in [Providers -> Window]
  BY DEF AppOK
<1>1. CASE m.type = "receivers" /\ OnReceivers(p, m)
  <2> DEFINE c == [a EXCEPT !.receivers = m.names]
             d == [c EXCEPT !.requested = c.desired]
  <2>1. ~ Announces(m) /\ m.names \in SUBSET Names
    BY <1>1, MessageParts DEF Announces
  <2>2. \A x \in {c, d} : /\ x.connected = a.connected /\ x.pressed = a.pressed /\ x \in Window
                          /\ x.session = a.session /\ x.current = a.current /\ x.desired \in Names \cup {None}
    BY <1>0, <2>1, ZenonT(40) DEF Window
  <2>3. \/ app' = [app EXCEPT ![p] = d] /\ NetSends(p, <<SelectReq(c.desired)>>)
        \/ app' = [app EXCEPT ![p] = c] /\ UNCHANGED up
    BY <1>1 DEF OnReceivers, AskFor
  <2> HIDE DEF c, d
  <2>4. \/ a2 = d /\ NetSends(p, <<SelectReq(c.desired)>>)
        \/ a2 = c /\ UNCHANGED up
    BY <1>0, <2>3
  <2> QED
    BY <2>1, <2>2, <2>4
<1>2. CASE m.type = "selected" /\ OnSelected(p, m, held)
  <2>1. Announces(m) /\ m.who \in Names \cup {None}
    BY <1>2, MessageParts DEF Announces
  <2>2. CASE m.who = None
    <3> DEFINE c == [a EXCEPT !.current = None, !.requested = None, !.session = None]
    <3>1. app' = [app EXCEPT ![p] = c] /\ UNCHANGED up
      BY <1>2, <2>2 DEF OnSelected
    <3>2. c \in Window /\ c.connected = a.connected /\ c.pressed = a.pressed /\ c.current = None /\ c.session = None
      BY <1>0 DEF Window
    <3> HIDE DEF c
    <3>3. a2 = c
      BY <1>0, <3>1
    <3> QED
      BY <2>1, <3>1, <3>2, <3>3
  <2>3. CASE m.who # None
    <3>1. PICK e \in Fresh(p, held \cup Own(p)) :
                 /\ app' = [app EXCEPT ![p] = Starts([@ EXCEPT !.current = m.who, !.requested = None], e)]
                 /\ NetSends(p, <<Blob(Hs1(p, e))>>)
      BY <1>2, <2>3 DEF OnSelected
    <3> DEFINE c == Starts([a EXCEPT !.current = m.who, !.requested = None], e)
    <3>2. app' = [app EXCEPT ![p] = c] /\ e \in Ephemerals
      BY <3>1 DEF Fresh
    <3>3. /\ c \in Window /\ c.connected = a.connected /\ c.pressed = a.pressed
          /\ c.current # None /\ c.session = NewSession(e)
      BY <1>0, <2>1, <2>3, <3>2 DEF Window, Starts, NewSession
    <3> HIDE DEF c
    <3>4. a2 = c
      BY <1>0, <3>2
    <3> QED
      BY <2>1, <3>1, <3>3, <3>4
  <2> QED
    BY <2>2, <2>3
<1>3. CASE m.type = "e2e" /\ OnE2E(p, m.body)
  <2> DEFINE b == m.body
             keyed == [a EXCEPT !.session.with = b.pub]
             asked == [keyed EXCEPT !.asking = TRUE]
             given == GivenUp(a)
  <2>1. ~ Announces(m) /\ b \in Blobs
    BY <1>3, MessageParts DEF Announces
  <2>2. CASE GiveUp(p)
    <3>1. app' = [app EXCEPT ![p] = given] /\ NetSends(p, <<SelectReq(None)>>)
      BY <2>2 DEF GiveUp, AskFor
    <3>2. /\ given \in Window /\ given.connected = a.connected /\ given.pressed = a.pressed
          /\ given.current = a.current /\ given.session = None
      BY <1>0 DEF Window, GivenUp
    <3> HIDE DEF given
    <3>3. a2 = given
      BY <1>0, <3>1
    <3> QED
      BY <2>1, <3>1, <3>2, <3>3
  <2>3. CASE UNCHANGED <<app, up>>
    BY <1>0, <2>1, <2>3
  <2>4. CASE /\ b.step = "hs2" /\ a.session # None /\ a.session.with = None /\ Answers(p, b)
             /\ Confirm(p, keyed) \/ (app' = [app EXCEPT ![p] = asked] /\ UNCHANGED up)
    <3>1. b.pub \in Receivers /\ a.session \in Session
      BY <1>0, <2>1, <2>4, BlobParts DEF Window, Session
    <3>2. \A x \in {keyed, asked} : /\ x.connected = a.connected /\ x.pressed = a.pressed /\ x \in Window
                                    /\ x.session = [a.session EXCEPT !.with = b.pub] /\ x.current = a.current
      <4>0. PICK s : s = [a.session EXCEPT !.with = b.pub]
        OBVIOUS
      <4>1. s \in Session
        BY <3>1, <4>0 DEF Session
      <4>2. keyed = [a EXCEPT !.session = s] /\ asked = [a EXCEPT !.session = s, !.asking = TRUE]
        BY <1>0, <4>0 DEF Window
      <4> HIDE DEF keyed, asked, b
      <4> QED
        BY <1>0, <4>0, <4>1, <4>2, ZenonT(40) DEF Window, Session
    <3>3. \/ /\ app' = [app EXCEPT ![p] = keyed]
             /\ NetSends(p, <<Blob(Sealed(p, keyed.session.epk, keyed.session.with, ReleaseAll))>>)
          \/ app' = [app EXCEPT ![p] = asked] /\ UNCHANGED up
      BY <2>4 DEF Confirm
    <3>4. b.answers = <<p, a.session.epk>>
      BY <2>4 DEF Answers
    <3> HIDE DEF b, keyed, asked
    <3>5. \/ a2 = keyed /\ NetSends(p, <<Blob(Sealed(p, a2.session.epk, a2.session.with, ReleaseAll))>>)
          \/ a2 = asked /\ UNCHANGED up
      BY <1>0, <3>3
    <3> QED
      BY <1>3, <2>1, <2>4, <3>1, <3>2, <3>4, <3>5 DEF b
  <2>5. \/ GiveUp(p) \/ UNCHANGED <<app, up>>
        \/ /\ b.step = "hs2" /\ a.session # None /\ a.session.with = None /\ Answers(p, b)
           /\ Confirm(p, keyed) \/ (app' = [app EXCEPT ![p] = asked] /\ UNCHANGED up)
    BY <1>3 DEF OnE2E
  <2> QED
    BY <2>2, <2>3, <2>4, <2>5
<1>4. CASE m.type = "notice" /\ UNCHANGED <<app, up>>
  BY <1>0, <1>4 DEF Announces
<1> QED
  BY <1>1, <1>2, <1>3, <1>4 DEF Handles

\* A session is one of the connection there is and of the attachment shown.
Grounded(a) == a.session # None => a.connected /\ a.current # None

\* The user asks for something, or types into a session if there is one to type into.
LEMMA UserParts ==
    ASSUME AppOK, NEW p \in Providers, UserStep(p) \/ \E yes \in BOOLEAN : Answer(p, yes),
           NEW a, a = app[p], NEW a2, a2 = app'[p], Grounded(a)
    PROVE  /\ a2.connected = a.connected /\ a2.current = a.current /\ a2 \in Window
           /\ UNCHANGED <<vars, net>> /\ \A q \in Providers \ {p} : app'[q] = app[q]
           /\ \/ a2.session = a.session /\ a2.pressed = a.pressed /\ UNCHANGED up
              \/ /\ a2.session \in {a.session, None}
                 /\ \E n \in Names \cup {None} : NetSends(p, <<SelectReq(n)>>)
              \/ /\ a2.session = a.session
                 /\ \E m \in Plain : NetSends(p, SealIfLive(p, m)) /\ Typed(a.pressed, m) \subseteq a2.pressed
<1>0. a \in Window /\ a2 = app'[p] /\ app \in [Providers -> Window]
  BY DEF AppOK
<1>00. UNCHANGED <<vars, net>>
  BY DEF UserStep, OnPick, OnStop, OnKeyDown, OnKeyUp, OnFocusOut, Answer
<1>1. ASSUME NEW n \in Names, OnPick(p, n)
      PROVE  /\ \/ a2.session = a.session /\ a2.pressed = a.pressed /\ UNCHANGED up
                \/ a2.session = a.session /\ NetSends(p, <<SelectReq(n)>>)
             /\ a2.connected = a.connected /\ a2.current = a.current /\ a2 \in Window
             /\ \A q \in Providers \ {p} : app'[q] = app[q]
  <2> DEFINE c == [a EXCEPT !.desired = n]
             d == [c EXCEPT !.requested = n]
  <2>1. \A x \in {c, d} : /\ x.connected = a.connected /\ x.pressed = a.pressed /\ x \in Window
                          /\ x.session = a.session /\ x.current = a.current
    BY <1>0 DEF Window
  <2>2. \/ app' = [app EXCEPT ![p] = d] /\ NetSends(p, <<SelectReq(n)>>)
        \/ app' = [app EXCEPT ![p] = c] /\ UNCHANGED up
    BY <1>1 DEF OnPick, AskFor
  <2> HIDE DEF c, d
  <2>3. \/ a2 = d /\ NetSends(p, <<SelectReq(n)>>)
        \/ a2 = c /\ UNCHANGED up
    BY <1>0, <2>2
  <2> QED
    BY <1>0, <2>1, <2>2, <2>3
<1>2. ASSUME NEW c \in Window, c.connected = a.connected, c.current = a.current,
             app' = [app EXCEPT ![p] = GivenUp(c)], AskFor(p, None)
      PROVE  /\ a2.session = None /\ NetSends(p, <<SelectReq(None)>>)
             /\ a2.connected = a.connected /\ a2.current = a.current /\ a2 \in Window
             /\ \A q \in Providers \ {p} : app'[q] = app[q]
  <2> DEFINE d == GivenUp(c)
  <2>1. d \in Window /\ d.connected = a.connected /\ d.current = a.current /\ d.session = None
    BY <1>2 DEF Window, GivenUp
  <2>2. app' = [app EXCEPT ![p] = d]
    BY <1>2
  <2> HIDE DEF d
  <2> QED
    BY <1>0, <1>2, <2>1, <2>2 DEF AskFor
<1>3. ASSUME NEW pressed \in SUBSET KeyCodes, app' = [app EXCEPT ![p].pressed = pressed]
      PROVE  /\ a2.session = a.session /\ a2.pressed = pressed
             /\ a2.connected = a.connected /\ a2.current = a.current /\ a2 \in Window
             /\ \A q \in Providers \ {p} : app'[q] = app[q]
  <2> DEFINE c == [a EXCEPT !.pressed = pressed]
  <2>1. c \in Window /\ c.connected = a.connected /\ c.current = a.current /\ c.session = a.session /\ c.pressed = pressed
    BY <1>0 DEF Window
  <2>2. app' = [app EXCEPT ![p] = c]
    BY <1>3
  <2> HIDE DEF c
  <2> QED
    BY <1>0, <2>1, <2>2
<1>4. CASE \E n \in Names : OnPick(p, n)
  BY <1>00, <1>1, <1>4
<1>5. CASE OnStop(p)
  <2>1. a2.session = None /\ NetSends(p, <<SelectReq(None)>>)
        /\ a2.connected = a.connected /\ a2.current = a.current /\ a2 \in Window
        /\ \A q \in Providers \ {p} : app'[q] = app[q]
    BY <1>0, <1>2, <1>5 DEF OnStop, GiveUp
  <2> QED
    BY <1>00, <2>1
<1>6. ASSUME NEW m \in Plain, NEW pressed \in SUBSET KeyCodes, Typed(a.pressed, m) \subseteq pressed,
             app' = [app EXCEPT ![p].pressed = pressed], NetSends(p, SealIfLive(p, m))
      PROVE  /\ a2.connected = a.connected /\ a2.current = a.current /\ a2 \in Window
             /\ \A q \in Providers \ {p} : app'[q] = app[q]
             /\ a2.session = a.session
             /\ \E x \in Plain : NetSends(p, SealIfLive(p, x)) /\ Typed(a.pressed, x) \subseteq a2.pressed
  BY <1>3, <1>6
<1>7. CASE \E c \in KeyCodes : OnKeyDown(p, c)
  <2>1. PICK c \in KeyCodes : OnKeyDown(p, c)
    BY <1>7
  <2>2. KeyMsg(c, TRUE) \in Plain /\ a.pressed \cup {c} \in SUBSET KeyCodes
    BY <1>0, RequestTypes DEF Window
  <2>3. Typed(a.pressed, KeyMsg(c, TRUE)) \subseteq a.pressed \cup {c}
    BY DEF Typed, KeyMsg
  <2>4. app' = [app EXCEPT ![p].pressed = a.pressed \cup {c}] /\ NetSends(p, SealIfLive(p, KeyMsg(c, TRUE)))
    BY <2>1 DEF OnKeyDown
  <2> QED
    BY <1>00, <1>6, <2>2, <2>3, <2>4
<1>8. CASE \E c \in KeyCodes : OnKeyUp(p, c)
  <2>1. PICK c \in KeyCodes : OnKeyUp(p, c)
    BY <1>8
  <2>2. KeyMsg(c, FALSE) \in Plain /\ a.pressed \ {c} \in SUBSET KeyCodes
    BY <1>0, RequestTypes DEF Window
  <2>3. Typed(a.pressed, KeyMsg(c, FALSE)) \subseteq a.pressed \ {c}
    BY DEF Typed, KeyMsg
  <2>4. app' = [app EXCEPT ![p].pressed = a.pressed \ {c}] /\ NetSends(p, SealIfLive(p, KeyMsg(c, FALSE)))
    BY <2>1 DEF OnKeyUp
  <2> QED
    BY <1>00, <1>6, <2>2, <2>3, <2>4
<1>9. CASE OnFocusOut(p)
  <2>1. ReleaseAll \in Plain /\ Typed(a.pressed, ReleaseAll) \subseteq {}
    BY RequestTypes DEF Typed, ReleaseAll
  <2>2. app' = [app EXCEPT ![p].pressed = {}] /\ NetSends(p, SealIfLive(p, ReleaseAll))
    BY <1>9 DEF OnFocusOut
  <2> QED
    BY <1>00, <1>6, <2>1, <2>2
<1>10. ASSUME NEW yes \in BOOLEAN, Answer(p, yes)
       PROVE  /\ a2.connected = a.connected /\ a2.current = a.current /\ a2 \in Window
              /\ \A q \in Providers \ {p} : app'[q] = app[q]
              /\ \/ /\ a2.session \in {a.session, None}
                    /\ \E n \in Names \cup {None} : NetSends(p, <<SelectReq(n)>>)
                 \/ /\ a2.session = a.session
                    /\ \E m \in Plain : NetSends(p, SealIfLive(p, m)) /\ Typed(a.pressed, m) \subseteq a2.pressed
  <2> DEFINE c == [a EXCEPT !.asking = FALSE]
  <2>1. /\ c \in Window /\ c.connected = a.connected /\ c.current = a.current
        /\ c.session = a.session /\ c.pressed = a.pressed
    BY <1>0 DEF Window
  <2>2. \/ app' = [app EXCEPT ![p] = c] /\ NetSends(p, <<Blob(Sealed(p, c.session.epk, c.session.with, ReleaseAll))>>)
        \/ app' = [app EXCEPT ![p] = GivenUp(c)] /\ AskFor(p, None)
    BY <1>10 DEF Answer, Confirm
  <2>3. Live(a)
    <3>1. a.session \in [epk : Ephemerals, with : Receivers]
      BY <1>10 DEF Answer, AppOK, AsksAboutSomebody
    <3>2. a.session # None /\ a.session.with # None
      BY <3>1, HubAssumption, ClientsAssumption DEF Session, Peers
    <3> QED
      BY <3>2 DEF Live, Grounded
  <2> HIDE DEF c
  <2>4. CASE app' = [app EXCEPT ![p] = c] /\ NetSends(p, <<Blob(Sealed(p, c.session.epk, c.session.with, ReleaseAll))>>)
    <3>1. a2 = c /\ NetSends(p, SealIfLive(p, ReleaseAll))
      BY <1>0, <2>1, <2>3, <2>4 DEF SealIfLive
    <3>2. ReleaseAll \in Plain /\ Typed(a.pressed, ReleaseAll) \subseteq a2.pressed
      BY RequestTypes DEF Typed, ReleaseAll
    <3> QED
      BY <1>0, <2>1, <2>4, <3>1, <3>2
  <2>5. CASE app' = [app EXCEPT ![p] = GivenUp(c)] /\ AskFor(p, None)
    BY <1>2, <2>1, <2>5
  <2> QED
    BY <2>2, <2>4, <2>5
<1> QED
  BY <1>00, <1>4, <1>5, <1>7, <1>8, <1>9, <1>10 DEF UserStep

-----------------------------------------------------------------------------
(* The order of events.                                                    *)

\* Event i is about a connection the window has been told of.
Before(connected, es, i) == IF i = 1 THEN connected ELSE es[i - 1].kind # "disconnected"

\* Messages come while there is a connection; so will those that come next if there
\* is one now.
Ordered(connected, es, isUp) ==
    /\ \A i \in 1..Len(es) : es[i].kind = "msg" => Before(connected, es, i)
    /\ isUp => Before(connected, es, Len(es) + 1)

\* A message that comes first comes on the connection there is.
LEMMA OrderedHead ==
    ASSUME NEW es \in Seq(Event), es # << >>, NEW c, NEW isUp, Ordered(c, es, isUp), Head(es).kind = "msg"
    PROVE  c
<1>1. 1 \in 1..Len(es) /\ Head(es) = es[1]
  OBVIOUS
<1> QED
  BY <1>1 DEF Ordered, Before

\* Taking the first event.
LEMMA OrderedTail ==
    ASSUME NEW es \in Seq(Event), es # << >>, NEW c, NEW isUp, Ordered(c, es, isUp), NEW c2,
           /\ Head(es).kind = "connected" => c2
           /\ Head(es).kind = "msg" => c2 = c
    PROVE  Ordered(c2, Tail(es), isUp)
<1> DEFINE t == Tail(es)
<1>1. /\ t \in Seq(Event) /\ Len(t) = Len(es) - 1 /\ Len(es) \in Nat /\ Len(t) \in Nat
      /\ \A i \in 1..Len(t) : t[i] = es[i + 1] /\ i + 1 \in 1..Len(es)
      /\ 1 \in 1..Len(es) /\ Head(es) = es[1]
  OBVIOUS
<1>2. es[1].kind \in {"connected", "disconnected", "msg"}
  BY <1>1 DEF Event, ConnectedEvent, DisconnectedEvent
<1> HIDE DEF t
<1>3. es[1].kind = "msg" => c
  BY <1>1 DEF Ordered, Before
<1>4. es[1].kind # "disconnected" => c2
  BY <1>1, <1>2, <1>3
<1>5. \A i \in 1..(Len(t) + 1) : Before(c, es, i + 1) => Before(c2, t, i)
  <2> SUFFICES ASSUME NEW i \in 1..(Len(t) + 1), Before(c, es, i + 1)
               PROVE  Before(c2, t, i)
    OBVIOUS
  <2>1. es[i].kind # "disconnected"
    <3>1. i + 1 # 1 /\ (i + 1) - 1 = i
      OBVIOUS
    <3> QED
      BY <3>1 DEF Before
  <2>2. CASE i = 1
    BY <1>4, <2>1, <2>2 DEF Before
  <2>3. CASE i # 1
    <3>1. i - 1 \in 1..Len(t) /\ (i - 1) + 1 = i
      BY <1>1, <2>3
    <3>2. t[i - 1] = es[i]
      BY <1>1, <3>1
    <3> QED
      BY <2>1, <2>3, <3>2 DEF Before
  <2> QED
    BY <2>2, <2>3
<1>6. \A i \in 1..Len(t) : t[i].kind = "msg" => Before(c2, t, i)
  BY <1>1, <1>5 DEF Ordered
<1>7. isUp => Before(c2, t, Len(t) + 1)
  <2>1. Len(t) + 1 \in 1..(Len(t) + 1) /\ (Len(t) + 1) + 1 = Len(es) + 1
    BY <1>1
  <2> QED
    BY <1>5, <2>1 DEF Ordered
<1> QED
  BY <1>6, <1>7 DEF Ordered, t

\* Reporting more events.
LEMMA OrderedMore ==
    ASSUME NEW es \in Seq(Event), NEW more \in Seq(Event), more # << >>, NEW c, NEW wasUp, Ordered(c, es, wasUp),
           \A i \in 1..Len(more) : more[i].kind = "msg" => Before(wasUp, more, i),
           NEW isUp, isUp => more[Len(more)].kind # "disconnected"
    PROVE  Ordered(c, es \o more, isUp)
<1> DEFINE n == Len(es)
           t == es \o more
<1>1. /\ n \in Nat /\ Len(more) \in Nat /\ Len(more) >= 1 /\ Len(t) = n + Len(more)
      /\ \A i \in 1..n : t[i] = es[i]
      /\ \A i \in 1..Len(more) : t[n + i] = more[i]
  BY ConcatProperties
<1> HIDE DEF n, t
<1>2. ASSUME NEW i \in 1..Len(t), t[i].kind = "msg"
      PROVE  Before(c, t, i)
  <2>1. CASE i <= n
    <3>1. i \in 1..Len(es) /\ t[i] = es[i] /\ (i # 1 => i - 1 \in 1..n)
      BY <1>1, <2>1 DEF n
    <3>2. Before(c, es, i)
      BY <1>2, <3>1 DEF Ordered
    <3> QED
      BY <1>1, <3>1, <3>2 DEF Before
  <2>2. CASE i = n + 1
    <3>1. 1 \in 1..Len(more) /\ t[i] = more[1]
      BY <1>1, <2>2, SMTT(20)
    <3>2. wasUp
      BY <1>2, <3>1 DEF Before
    <3>3. Before(c, es, i)
      BY <2>2, <3>2 DEF Ordered, n
    <3>4. i # 1 => i - 1 \in 1..n
      BY <1>1, <2>2
    <3> QED
      BY <1>1, <3>3, <3>4 DEF Before
  <2>3. CASE i > n + 1
    <3>1. /\ i - n \in 1..Len(more) /\ n + (i - n) = i /\ i - n # 1 /\ i # 1
          /\ (i - n) - 1 \in 1..Len(more) /\ n + ((i - n) - 1) = i - 1
      BY <1>1, <2>3
    <3>2. t[i] = more[i - n] /\ t[i - 1] = more[(i - n) - 1]
      BY <1>1, <3>1
    <3>3. more[(i - n) - 1].kind # "disconnected"
      BY <1>2, <3>1, <3>2 DEF Before
    <3> QED
      BY <3>1, <3>2, <3>3 DEF Before
  <2> QED
    BY <1>1, <2>1, <2>2, <2>3
<1>3. ASSUME isUp
      PROVE  Before(c, t, Len(t) + 1)
  <2>1. Len(t) + 1 # 1 /\ (Len(t) + 1) - 1 = n + Len(more) /\ Len(more) \in 1..Len(more)
    BY <1>1
  <2> QED
    BY <1>1, <1>3, <2>1 DEF Before
<1> QED
  BY <1>2, <1>3 DEF Ordered, t

\* A session needs a connection and an attachment, and messages are handled on a
\* connection the window knows of.
Upright(p) == Grounded(app[p]) /\ Ordered(app[p].connected, net[p].events, net[p].up)

-----------------------------------------------------------------------------
(* Sessions and keys.                                                      *)

\* The replies that wait for the window.
Early(p) == Hauled(Said(net[p].events))

\* If no news waits for the window, its session is as far as the exchange is.
Agreed(p) == net[p].up /\ NoNews(Said(net[p].events)) => Agrees(p, app[p].session, Early(p), app[p].pressed)

\* In terms of the values that a step sets.
LEMMA AgreedMeans ==
    ASSUME NEW p \in Providers, NEW s, NEW early, NEW pressed,
           app'[p].session = s, app'[p].pressed = pressed, Early(p)' = early,
           Agrees(p, s, early, pressed)'
    PROVE  Agreed(p)'
BY DEF Agreed, Agrees

\* What others do leaves it so.
LEMMA AgreedStays ==
    ASSUME NEW p \in Providers, app'[p] = app[p], net'[p] = net[p], Agreed(p), app[p] \in Window,
           \A s \in {None} \cup Session : \A early, pressed :
              Agrees(p, s, early, pressed) => Agrees(p, s, early, pressed)'
    PROVE  Agreed(p)'
<1>1. PICK s : s = app[p].session
  OBVIOUS
<1>2. PICK pressed : pressed = app[p].pressed
  OBVIOUS
<1>3. PICK early : early = Early(p)
  OBVIOUS
<1>4. s \in {None} \cup Session /\ Early(p)' = early
  BY <1>1, <1>3 DEF Window, Session, Early
<1>5. CASE net[p].up /\ NoNews(Said(net[p].events))
  <2>1. Agrees(p, s, early, pressed)
    BY <1>1, <1>2, <1>3, <1>5 DEF Agreed
  <2>2. Agrees(p, s, early, pressed)'
    BY <1>4, <2>1
  <2> QED
    BY <1>1, <1>2, <1>4, <2>2, AgreedMeans
<1>6. CASE ~ (net[p].up /\ NoNews(Said(net[p].events)))
  BY <1>6 DEF Agreed
<1> QED
  BY <1>5, <1>6

\* A window that no news waits for knows whether it is attached, if p is to notice
\* nothing.
LEMMA WindowKnows ==
    ASSUME TypeOK', AllInformed', NEW p \in Providers, Minded(p)', net'[p].up,
           NoNews(Said(net[p].events))', Still(p)'
    PROVE  app'[p].current = None <=> target'[p] = None
<1>1. link'[p].state = "open"
  BY DEF Still, Hears
<1>2. PICK u : Leads(app'[p].current, Said(net'[p].events), u) /\ u = view'[p].who
  BY <1>1 DEF Minded
<1>3. app'[p].current = u
  BY <1>2 DEF Leads, Told, NoNews
<1> QED
  BY <1>2, <1>3, StillKnows

\* The handler of a message keeps up with the exchange.
LEMMA HandledAgrees ==
    ASSUME TypeOK, up \in Requests, NEW p \in Providers, NEW m \in Message,
           NEW held, NEW a \in Window, NEW a2, Handled(p, m, held, a, a2),
           net[p].up, UNCHANGED rx, UNCHANGED <<link, target>> \/ Deliver(p),
           NEW early, NEW early2 \in SUBSET early,
           \A b \in early : b.step = "hs2" => b.answers \in InEvents(p),
           m.type = "e2e" => Cargo(m) \in Replied(p) \cup early,
           ~ Announces(m) => Unmoved(p) /\ Agrees(p, a.session, early, a.pressed),
           Still(p)' => (a2.current = None <=> target'[p] = None)
    PROVE  Agrees(p, a2.session, early2, a2.pressed)'
<1>0. /\ a \in Window /\ a.session \in {None} \cup Session /\ p \in Peers
      /\ a2.pressed = a.pressed
      /\ \A b \in Blobs : Blob(b) \in Request
      /\ \A n \in Names \cup {None} : SelectReq(n) \in Request
  <2>1. a2.pressed = a.pressed
    BY DEF Handled
  <2> QED
    BY <2>1, RequestTypes DEF Window, Session, Peers
<1>4. ASSUME NEW ms, NetSends(p, ms)
      PROVE  Acts(p, ms)
  BY <1>4 DEF NetSends, Acts
<1>5. CASE ~ Announces(m) /\ a2.session = a.session /\ UNCHANGED up
  <2>1. Acts(p, << >>)
    BY <1>0, <1>5, SendNothing DEF Acts
  <2>2. Agrees(p, a.session, early2, a.pressed)'
    BY <1>0, <1>5, <2>1, ActsSilent
  <2> QED
    BY <1>0, <1>5, <2>2
<1>6. CASE \E n \in Names \cup {None} : NetSends(p, <<SelectReq(n)>>)
  BY <1>4, <1>6, ActsAsks
<1>7. CASE a2.session = None /\ a2.current = None
  BY <1>7 DEF Agrees
<1>8. CASE /\ a2.current # None
           /\ \E e \in Fresh(p, held \cup Own(p)) :
                 a2.session = NewSession(e) /\ NetSends(p, <<Blob(Hs1(p, e))>>)
  <2>1. PICK e \in Fresh(p, held \cup Own(p)) : a2.session = NewSession(e) /\ NetSends(p, <<Blob(Hs1(p, e))>>)
    BY <1>8
  <2>2. PICK s2 : s2 = [epk |-> e, with |-> None]
    OBVIOUS
  <2>3. \A b \in early2 : b.step = "hs2" => b.answers # <<p, e>>
    BY <2>1 DEF Fresh, Own
  <2>4. Acts(p, <<Blob(Hs1(p, e))>>) /\ (Still(p)' => target'[p] # None)
    BY <1>4, <1>8, <2>1
  <2>5. PICK taken : taken = held \cup Own(p)
    OBVIOUS
  <2>6. e \in Fresh(p, taken)
    BY <2>1, <2>5
  <2>7. Agrees(p, s2, early2, a.pressed)'
    BY <2>2, <2>3, <2>4, <2>6, ActsBegins
  <2> QED
    BY <1>0, <2>1, <2>2, <2>7 DEF NewSession
<1>9. CASE /\ ~ Announces(m)
           /\ m.type = "e2e" /\ m.body.step = "hs2" /\ m.body.pub \in Receivers
           /\ a.session \in Session /\ a.session.with = None /\ m.body.answers = <<p, a.session.epk>>
           /\ a2.session = [a.session EXCEPT !.with = m.body.pub]
           /\ \/ UNCHANGED up
              \/ NetSends(p, <<Blob(Sealed(p, a2.session.epk, a2.session.with, ReleaseAll))>>)
  <2>1. PICK s : s = a.session
    OBVIOUS
  <2>2. PICK s2 : s2 = [s EXCEPT !.with = m.body.pub]
    OBVIOUS
  <2>3. PICK b : b = m.body
    OBVIOUS
  <2>4. s2 = a2.session /\ s2 \in Session /\ s2.with # None
    BY <1>9, <2>1, <2>2, HubAssumption DEF Session, Peers
  <2>5. Cargo(m) = b
    BY <1>9, <2>3 DEF Cargo
  <2>6. Agrees(p, s2, early, a.pressed)
    <3>1. s \in Session /\ s.with = None /\ b \in Replied(p) \cup early /\ b.step = "hs2"
      BY <1>9, <2>1, <2>3, <2>5
    <3>2. b.answers = <<p, s.epk>> /\ s2 = [s EXCEPT !.with = b.pub] /\ Agrees(p, s, early, a.pressed)
      BY <1>9, <2>1, <2>2, <2>3
    <3> QED
      BY <3>1, <3>2, AgreesAnswered
  <2>7. ReleaseAll \in Plain /\ Typed(a.pressed, ReleaseAll) \subseteq a.pressed
    BY RequestTypes DEF Typed, ReleaseAll
  <2>8. Agrees(p, s2, early2, a.pressed)'
    <3>1. CASE UNCHANGED up
      <4>1. Acts(p, << >>)
        BY <1>0, <3>1, SendNothing DEF Acts
      <4> QED
        BY <1>0, <1>9, <2>4, <2>6, <4>1, ActsSilent
    <3>2. CASE NetSends(p, <<Blob(Sealed(p, a2.session.epk, a2.session.with, ReleaseAll))>>)
      <4>1. Acts(p, <<Blob(Sealed(p, s2.epk, s2.with, ReleaseAll))>>) /\ Unmoved(p)
        BY <1>4, <1>9, <2>4, <3>2
      <4> QED
        BY <2>4, <2>6, <2>7, <4>1, ActsTypes
    <3> QED
      BY <1>9, <3>1, <3>2
  <2> QED
    BY <1>0, <2>4, <2>8
<1> QED
  BY <1>5, <1>6, <1>7, <1>8, <1>9 DEF Handled

\* The handler of a message keeps the window upright.
LEMMA HandledUpright ==
    ASSUME NEW p, NEW m, NEW held, NEW a, NEW a2, Handled(p, m, held, a, a2), a.connected, Grounded(a)
    PROVE  Grounded(a2) /\ a2.connected
BY ClientsAssumption DEF Handled, Grounded

\* The replies that wait are among the events.
LEMMA EarlyReplies ==
    ASSUME NEW p \in Providers, net[p].events \in Seq(Event), NEW b \in Early(p), b.step = "hs2"
    PROVE  b.answers \in InEvents(p)
<1> DEFINE es == net[p].events
<1>1. PICK i \in 1..Len(Said(es)) : b = Cargo(Said(es)[i])
  BY DEF Early, Hauled
<1>2. i \in 1..Len(es) /\ Said(es)[i] = Says(es[i]) /\ es[i] \in Event
  BY <1>1, SaidFacts
<1>3. es[i].kind = "msg"
  <2>1. Cargo(Detached) \in Dull /\ Cargo(Notice) \in Dull /\ \A c \in Dull : c.step # "hs2"
    BY CargoFacts
  <2> QED
    BY <1>1, <1>2, <2>1 DEF Says
<1>4. es[i].msg \in Message /\ Says(es[i]) = es[i].msg
  BY <1>2, <1>3 DEF Event, ConnectedEvent, DisconnectedEvent, Says
<1>5. es[i].msg.type = "e2e" /\ b = es[i].msg.body
  <2>1. CASE es[i].msg.type = "e2e"
    BY <1>1, <1>2, <1>4, <2>1 DEF Cargo
  <2>2. CASE es[i].msg.type # "e2e"
    <3>1. es[i].msg.type # "blob"
      BY <1>4 DEF Message, Notice, Detached
    <3>2. b \in {Err, Reset}
      BY <1>1, <1>2, <1>4, <2>2, <3>1 DEF Cargo
    <3> QED
      BY <3>2 DEF Err, Reset
  <2> QED
    BY <2>1, <2>2
<1> QED
  BY <1>2, <1>3, <1>5 DEF InEvents

\* The window takes its next event.
LEMMA EventAgrees ==
    ASSUME SysInv, TypeOK', AllInformed', NEW p \in Providers, Minded(p)', Poll(p, Held), UNCHANGED rx,
           net[p].events # << >>, Upright(p), Agreed(p)
    PROVE  Upright(p)' /\ Agreed(p)'
<1> DEFINE es == net[p].events
           e == Head(es)
           q == Said(es)
<1>0. /\ TypeOK /\ AppOK /\ up \in Requests /\ app[p] \in Window /\ es \in Seq(Event) /\ e \in Event /\ p \in Peers
      /\ UNCHANGED <<link, target, view>> /\ net' = [net EXCEPT ![p].events = Tail(es)]
  BY DEF SysInv, SysTypeOK, AppOK, Poll, vars, Peers
<1>1. net'[p].events = Tail(es) /\ net'[p].up = net[p].up
  BY <1>0 DEF SysInv, SysTypeOK
<1>2. q # << >> /\ q \in Seq(Message) /\ Said(Tail(es)) = Tail(q) /\ Head(q) = Says(e) /\ Tail(es) \in Seq(Event)
  BY <1>0, SaidTail, SaidFacts
<1>3. PICK early : early = Early(p)
  OBVIOUS
<1>4. PICK early2 : early2 = Early(p)'
  OBVIOUS
<1>5. early2 \in SUBSET early /\ Cargo(Says(e)) \in early
  BY <1>1, <1>2, <1>3, <1>4, HauledTail DEF Early
<1>6. \A b \in early : b.step = "hs2" => b.answers \in InEvents(p)
  BY <1>0, <1>3, EarlyReplies
<1>7. PICK a : a = app[p]
  OBVIOUS
<1>8. PICK a2 : a2 = app'[p]
  OBVIOUS
<1>9. /\ Grounded(a) /\ Ordered(a.connected, es, net[p].up) /\ a \in Window /\ a.session \in {None} \cup Session
      /\ a.desired \in Names \cup {None}
  BY <1>0, <1>7 DEF Upright, Window, Session
<1>10. ASSUME net[p].up, NoNews(Tail(q)), ~ Announces(Says(e))
       PROVE  Agrees(p, a.session, early, a.pressed)
  <2>1. NoNews(q)
    BY <1>2, <1>10, NoNewsBefore
  <2> QED
    BY <1>3, <1>7, <1>10, <2>1 DEF Agreed
<1>11. ASSUME net[p].up, NoNews(Tail(q)), Still(p)'
       PROVE  a2.current = None <=> target'[p] = None
  BY <1>1, <1>2, <1>8, <1>11, WindowKnows
<1>12. ASSUME net[p].up /\ NoNews(Tail(q)) => Agrees(p, a2.session, early2, a2.pressed)'
       PROVE  Agreed(p)'
  <2>1. CASE net[p].up /\ NoNews(Tail(q))
    BY <1>4, <1>8, <1>12, <2>1, AgreedMeans
  <2>2. CASE ~ (net[p].up /\ NoNews(Tail(q)))
    <3>1. ~ (net'[p].up /\ NoNews(Said(net'[p].events)))
      BY <1>1, <1>2, <2>2
    <3> QED
      BY <3>1 DEF Agreed
  <2> QED
    BY <2>1, <2>2
<1>13. Grounded(a2) /\ Ordered(a2.connected, Tail(es), net[p].up) => Upright(p)'
  BY <1>1, <1>8 DEF Upright
<1> HIDE DEF q, e
<1>14. CASE e.kind = "connected" /\ app' = [app EXCEPT ![p].connected = TRUE] /\ UNCHANGED up
  <2>1. a2.session = a.session /\ a2.pressed = a.pressed /\ a2.connected /\ a2.current = a.current
    BY <1>0, <1>7, <1>8, <1>14 DEF Window, AppOK
  <2>2. Grounded(a2) /\ Ordered(a2.connected, Tail(es), net[p].up)
    BY <1>0, <1>9, <1>14, <2>1, OrderedTail DEF Grounded, e
  <2>3. ASSUME net[p].up, NoNews(Tail(q))
        PROVE  Agrees(p, a2.session, early2, a2.pressed)'
    <3>1. ~ Announces(Says(e))
      <4>1. Says(e) = Notice
        BY <1>14 DEF Says
      <4> QED
        BY <4>1, SaysNothing
    <3>2. Acts(p, << >>) /\ Unmoved(p)
      BY <1>0, <1>14, SendNothing DEF Acts, Unmoved
    <3>3. Agrees(p, a.session, early, a.pressed)
      BY <1>10, <2>3, <3>1
    <3>4. Agrees(p, a.session, early2, a.pressed)'
      BY <1>0, <1>5, <1>9, <3>2, <3>3, ActsSilent
    <3> QED
      BY <2>1, <3>4
  <2> QED
    BY <1>12, <1>13, <2>2, <2>3
<1>15. CASE e.kind = "disconnected" /\ app' = [app EXCEPT ![p] = Lost(@)] /\ UNCHANGED up
  <2> DEFINE b == Lost(a)
  <2>0. b.session = None /\ b.current = None /\ ~ b.connected
    BY <1>9 DEF Lost, Offline
  <2>1. a2 = b
    BY <1>0, <1>7, <1>8, <1>15 DEF AppOK
  <2> HIDE DEF b
  <2>2. Grounded(a2) /\ Ordered(a2.connected, Tail(es), net[p].up)
    BY <1>0, <1>9, <1>15, <2>0, <2>1, OrderedTail DEF Grounded, e
  <2>3. ASSUME net[p].up, NoNews(Tail(q))
        PROVE  Agrees(p, a2.session, early2, a2.pressed)'
    BY <1>11, <2>0, <2>1, <2>3 DEF Agrees
  <2> QED
    BY <1>12, <1>13, <2>2, <2>3
<1>16. CASE e.kind = "msg" /\ Handles(p, e.msg, Held)
  <2>1. PICK m : m = e.msg
    OBVIOUS
  <2>2. m \in Message /\ Says(e) = m /\ Handles(p, m, Held)
    BY <1>0, <1>16, <2>1 DEF e, Event, ConnectedEvent, DisconnectedEvent, Says
  <2>3. PICK held : held = Held
    OBVIOUS
  <2>4. Handled(p, m, held, a, a2)
    <3>1. Handles(p, m, held)
      BY <2>2, <2>3
    <3> QED
      BY <1>0, <1>7, <1>8, <2>2, <3>1, HandlesParts
  <2>5. a.connected
    BY <1>0, <1>9, <1>16, OrderedHead DEF e
  <2>6. Grounded(a2) /\ a2.connected
    BY <1>9, <2>4, <2>5, HandledUpright
  <2>7. Ordered(a2.connected, Tail(es), net[p].up)
    BY <1>0, <1>9, <1>16, <2>5, <2>6, OrderedTail DEF e, Handled
  <2>8. ASSUME net[p].up, NoNews(Tail(q))
        PROVE  Agrees(p, a2.session, early2, a2.pressed)'
    <3>1. ~ Announces(m) => Unmoved(p) /\ Agrees(p, a.session, early, a.pressed)
      BY <1>0, <1>10, <2>2, <2>8 DEF Unmoved
    <3>2. Still(p)' => (a2.current = None <=> target'[p] = None)
      BY <1>11, <2>8
    <3>3. Cargo(m) \in Replied(p) \cup early
      BY <1>5, <2>2
    <3>4. UNCHANGED <<link, target>> \/ Deliver(p)
      BY <1>0
    <3> QED
      BY <1>0, <1>5, <1>6, <1>9, <2>2, <2>4, <2>8, <3>1, <3>2, <3>3, <3>4, HandledAgrees DEF Own
  <2> QED
    BY <1>12, <1>13, <2>6, <2>7, <2>8
<1> QED
  BY <1>14, <1>15, <1>16 DEF Poll, e

\* The window takes the next message of its connection.
LEMMA MessageAgrees ==
    ASSUME SysInv, TypeOK', AllInformed', NEW p \in Providers, Minded(p)', Poll(p, Held), UNCHANGED rx,
           net[p].events = << >>, Upright(p), Agreed(p)
    PROVE  Upright(p)' /\ Agreed(p)'
<1>0. /\ TypeOK /\ AppOK /\ up \in Requests /\ app[p] \in Window /\ p \in Peers
      /\ net' = net /\ net[p].up /\ Deliver(p) /\ Handles(p, Head(link[p].queue), Held)
  BY DEF SysInv, SysTypeOK, AppOK, Poll, Peers
<1>1. PICK m : m = Head(link[p].queue)
  OBVIOUS
<1>2. m \in Message /\ Handles(p, m, Held) /\ Cargo(m) \in Replied(p) \cup {}
  BY <1>0, <1>1, DeliverLinks DEF Replied
<1>3. PICK a : a = app[p]
  OBVIOUS
<1>4. PICK a2 : a2 = app'[p]
  OBVIOUS
<1>5. Early(p) = {} /\ Early(p)' = {} /\ NoNews(Said(net[p].events)) /\ NoNews(Said(net[p].events))'
  <2>1. Said(net[p].events) = << >> /\ Said(net'[p].events) = << >>
    BY <1>0 DEF Said
  <2>2. Hauled(<< >>) = {} /\ NoNews(<< >>)
    BY DEF Hauled, NoNews
  <2> QED
    BY <2>1, <2>2 DEF Early
<1>6. PICK held : held = Held
  OBVIOUS
<1>7. Handled(p, m, held, a, a2)
  <2>1. Handles(p, m, held)
    BY <1>2, <1>6
  <2> QED
    BY <1>0, <1>2, <1>3, <1>4, <2>1, HandlesParts
<1>8. Grounded(a) /\ a.connected
  BY <1>0, <1>3 DEF Upright, Ordered, Before
<1>9. Grounded(a2) /\ a2.connected
  BY <1>7, <1>8, HandledUpright
<1>10. Upright(p)'
  BY <1>0, <1>4, <1>9 DEF Upright, Ordered, Before
<1>11. Agrees(p, a2.session, {}, a2.pressed)'
  <2>1. ~ Announces(m) => Unmoved(p) /\ Agrees(p, a.session, {}, a.pressed)
    BY <1>0, <1>1, <1>3, <1>5 DEF Unmoved, Agreed
  <2>2. Still(p)' => (a2.current = None <=> target'[p] = None)
    BY <1>0, <1>4, <1>5, WindowKnows
  <2> QED
    <3>1. PICK early : early = {}
      OBVIOUS
    <3>2. /\ early \in SUBSET early /\ \A b \in early : b.step = "hs2" => b.answers \in InEvents(p)
          /\ Cargo(m) \in Replied(p) \cup early /\ a \in Window
          /\ ~ Announces(m) => Unmoved(p) /\ Agrees(p, a.session, early, a.pressed)
      BY <1>0, <1>2, <1>3, <2>1, <3>1
    <3>3. Agrees(p, a2.session, early, a2.pressed)'
      BY <1>0, <1>2, <1>7, <2>2, <3>2, HandledAgrees
    <3> QED
      BY <3>1, <3>3
<1>12. Agreed(p)'
  BY <1>4, <1>5, <1>11, AgreedMeans
<1> QED
  BY <1>10, <1>12

\* Answering the dialog and what the user does keep up with the exchange.
LEMMA UserAgrees ==
    ASSUME SysInv, NEW p \in Providers, UserStep(p) \/ \E yes \in BOOLEAN : Answer(p, yes), UNCHANGED rx,
           Upright(p), Agreed(p)
    PROVE  Upright(p)' /\ Agreed(p)'
<1>1. PICK a : a = app[p]
  OBVIOUS
<1>2. PICK a2 : a2 = app'[p]
  OBVIOUS
<1>0. /\ TypeOK /\ AppOK /\ up \in Requests /\ a \in Window /\ p \in Peers
      /\ Grounded(a) /\ a.session \in {None} \cup Session
  BY <1>1 DEF SysInv, SysTypeOK, AppOK, Peers, Upright, Window, Session
<1>3. /\ a2.connected = a.connected /\ a2.current = a.current /\ a2 \in Window
      /\ UNCHANGED <<vars, net>>
      /\ \/ a2.session = a.session /\ a2.pressed = a.pressed /\ UNCHANGED up
         \/ /\ a2.session \in {a.session, None}
            /\ \E n \in Names \cup {None} : NetSends(p, <<SelectReq(n)>>)
         \/ /\ a2.session = a.session
            /\ \E m \in Plain : NetSends(p, SealIfLive(p, m)) /\ Typed(a.pressed, m) \subseteq a2.pressed
  BY <1>0, <1>1, <1>2, UserParts
<1>4. UNCHANGED <<link, target, net>> /\ Unmoved(p)
  BY <1>3 DEF vars, Unmoved
<1>5. Upright(p)'
  <2>1. Grounded(a2)
    BY <1>0, <1>3 DEF Grounded
  <2> QED
    BY <1>1, <1>2, <1>3, <1>4, <2>1 DEF Upright
<1>6. PICK early : early = Early(p)
  OBVIOUS
<1>7. Early(p)' = early
  BY <1>4, <1>6 DEF Early
<1>8. ASSUME net[p].up, NoNews(Said(net[p].events))
      PROVE  Agrees(p, a2.session, early, a2.pressed)'
  <2>1. Agrees(p, a.session, early, a.pressed)
    BY <1>1, <1>6, <1>8 DEF Agreed
  <2>2. ASSUME NEW ms, NetSends(p, ms)
        PROVE  Acts(p, ms)
    BY <1>4, <1>8, <2>2 DEF NetSends, Acts
  <2>3. CASE a2.session = a.session /\ a2.pressed = a.pressed /\ UNCHANGED up
    <3>1. Acts(p, << >>)
      BY <1>0, <1>4, <2>3, SendNothing DEF Acts
    <3>2. Agrees(p, a.session, early, a.pressed)'
      BY <1>0, <1>4, <2>1, <3>1, ActsSilent
    <3> QED
      BY <2>3, <3>2
  <2>4. CASE \E n \in Names \cup {None} : NetSends(p, <<SelectReq(n)>>)
    BY <1>0, <2>2, <2>4, ActsAsks
  <2>5. ASSUME a2.session = a.session, NEW m \in Plain, NetSends(p, SealIfLive(p, m)), Typed(a.pressed, m) \subseteq a2.pressed
        PROVE  Agrees(p, a2.session, early, a2.pressed)'
    <3>1. PICK s : s = a.session
      OBVIOUS
    <3>2. CASE Live(a)
      <4>1. s \in Session /\ s.with # None
        BY <1>0, <3>1, <3>2 DEF Live
      <4>2. Acts(p, <<Blob(Sealed(p, s.epk, s.with, m))>>)
        <5>1. NetSends(p, <<Blob(Sealed(p, s.epk, s.with, m))>>)
          BY <1>1, <2>5, <3>1, <3>2 DEF SealIfLive
        <5> QED
          BY <2>2, <5>1
      <4>3. Agrees(p, s, early, a.pressed)
        BY <2>1, <3>1
      <4>4. Agrees(p, s, early, a2.pressed)'
        BY <1>0, <1>4, <2>5, <4>1, <4>2, <4>3, ActsTypes
      <4> QED
        BY <2>5, <3>1, <4>4
    <3>3. CASE ~ Live(a)
      <4>1. s # None => s.with = None
        BY <1>0, <3>1, <3>3 DEF Live, Grounded
      <4>2. Acts(p, << >>)
        <5>1. NetSends(p, << >>)
          BY <1>1, <2>5, <3>3 DEF SealIfLive
        <5> QED
          BY <2>2, <5>1
      <4>3. Agrees(p, s, early, a.pressed) /\ s \in {None} \cup Session
        BY <1>0, <2>1, <3>1
      <4>4. Agrees(p, s, early, a2.pressed)'
        BY <1>0, <1>4, <4>1, <4>2, <4>3, ActsSilent
      <4> QED
        BY <2>5, <3>1, <4>4
    <3> QED
      BY <3>2, <3>3
  <2> QED
    BY <1>3, <2>3, <2>4, <2>5
<1>9. Agreed(p)'
  <2>1. CASE net[p].up /\ NoNews(Said(net[p].events))
    BY <1>2, <1>7, <1>8, <2>1, AgreedMeans
  <2>2. CASE ~ (net[p].up /\ NoNews(Said(net[p].events)))
    BY <1>4, <2>2 DEF Agreed
  <2> QED
    BY <2>1, <2>2
<1> QED
  BY <1>5, <1>9

\* So does the connection thread: without a connection there is no session, and a new
\* one begins without.
LEMMA NetAgrees ==
    ASSUME SysInv, TypeOK', AllInformed', NEW p \in Providers, NetStep(p), UNCHANGED rx, Minded(p)', Upright(p)
    PROVE  Upright(p)' /\ Agreed(p)'
<1> DEFINE es == net[p].events
<1>0. /\ es \in Seq(Event) /\ app' = app /\ p \in Peers /\ net[p].up \in BOOLEAN /\ Ordered(app[p].connected, es, net[p].up)
      /\ Grounded(app[p])
  BY DEF SysInv, SysTypeOK, NetStep, Peers, Upright
<1>1. ASSUME NEW isUp \in BOOLEAN, NEW more \in Seq(Event), Reports(p, isUp, more)
      PROVE  net'[p].up = isUp /\ net'[p].events = es \o more
  BY <1>1 DEF SysInv, SysTypeOK, Reports
<1>2. ASSUME NEW isUp \in BOOLEAN, NEW more \in Seq(Event), Reports(p, isUp, more), more # << >>,
             \A i \in 1..Len(more) : more[i].kind = "msg" => Before(net[p].up, more, i),
             isUp => more[Len(more)].kind # "disconnected"
      PROVE  Upright(p)' /\ net'[p].up = isUp
  <2>1. net'[p].up = isUp /\ net'[p].events = es \o more
    BY <1>1, <1>2
  <2>2. PICK wasUp : wasUp = net[p].up
    OBVIOUS
  <2>3. PICK c : c = app[p].connected
    OBVIOUS
  <2>4. Ordered(c, es \o more, isUp)
    <3>1. \A i \in 1..Len(more) : more[i].kind = "msg" => Before(wasUp, more, i)
      BY <1>2, <2>2
    <3>2. Ordered(c, es, wasUp)
      BY <1>0, <2>2, <2>3
    <3> HIDE DEF es
    <3> QED
      BY <1>0, <1>2, <3>1, <3>2, OrderedMore
  <2> QED
    BY <1>0, <2>1, <2>3, <2>4 DEF Upright
<1>3. ASSUME NEW e \in {ConnectedEvent, DisconnectedEvent}
      PROVE  /\ <<e>> \in Seq(Event) /\ <<e>> # << >> /\ Len(<<e>>) = 1 /\ <<e>>[1] = e
             /\ \A i \in 1..Len(<<e>>) : <<e>>[i].kind # "msg"
  <2>1. e \in Event /\ e.kind # "msg"
    BY DEF Event, ConnectedEvent, DisconnectedEvent
  <2> QED
    BY <2>1
<1>4. CASE NetConnects(p)
  <2>1. Reports(p, TRUE, <<ConnectedEvent>>) /\ view'[p].who = None
    BY <1>0, <1>4 DEF NetConnects, ProviderJoin, Blank, SysInv, SysTypeOK, TypeOK
  <2>2. Upright(p)' /\ net'[p].up
    <3>1. ConnectedEvent.kind # "disconnected"
      BY DEF ConnectedEvent
    <3> QED
      BY <1>2, <1>3, <2>1, <3>1
  <2>3. ASSUME NoNews(Said(net[p].events))', Still(p)'
        PROVE  target'[p] = None /\ app[p].session = None
    <3>1. link'[p].state = "open"
      BY <2>3 DEF Still, Hears
    <3>2. PICK u : Leads(app'[p].current, Said(net'[p].events), u) /\ u = view'[p].who
      BY <2>2, <3>1 DEF Minded
    <3>3. app'[p].current = u
      BY <2>3, <3>2 DEF Leads, Told, NoNews
    <3>4. app[p].current = None
      BY <1>0, <2>1, <3>2, <3>3
    <3> QED
      BY <1>0, <2>2, <2>3, <3>3, <3>4, WindowKnows DEF Grounded
  <2>4. Agreed(p)'
    BY <1>0, <2>3 DEF Agreed, Agrees
  <2> QED
    BY <2>2, <2>4
<1>5. ASSUME ~ net'[p].up
      PROVE  Agreed(p)'
  BY <1>5 DEF Agreed
<1>6. CASE NetFails(p)
  <2>1. Upright(p)' /\ net'[p].up = FALSE
    BY <1>2, <1>3, <1>6 DEF NetFails
  <2> QED
    BY <1>5, <2>1
<1>7. CASE NetLoses(p)
  <2> DEFINE q == link[p].queue
  <2>1. q \in Seq(Message) /\ net[p].up
    BY <1>0, <1>7 DEF NetLoses, SysInv, SysTypeOK, TypeOK
  <2>2. PICK k \in 0..Len(q) :
           Reports(p, FALSE, Append([i \in 1..k |-> Received(q[i])], DisconnectedEvent))
    BY <1>7 DEF NetLoses
  <2> DEFINE some == [i \in 1..k |-> Received(q[i])]
             more == Append(some, DisconnectedEvent)
  <2>3. some \in Seq(Event) /\ Len(some) = k /\ k \in Nat /\ \A i \in 1..k : some[i].kind = "msg"
    <3>1. k \in Nat /\ k <= Len(q)
      BY <2>1, <2>2
    <3>2. \A i \in 1..k : Received(q[i]) \in Event
      BY <2>1, <3>1 DEF Received, Event
    <3>3. some \in Seq(Event) /\ Len(some) = k
      BY <3>1, <3>2, IsASeq
    <3> QED
      BY <3>1, <3>3 DEF Received
  <2> HIDE DEF some
  <2>4. /\ more \in Seq(Event) /\ Len(more) = k + 1 /\ more # << >>
        /\ \A i \in 1..k : more[i] = some[i]
    <3>1. DisconnectedEvent \in Event
      BY DEF Event
    <3> QED
      BY <2>3, <3>1, AppendProperties
  <2>5. ASSUME NEW i \in 1..Len(more), more[i].kind = "msg"
        PROVE  Before(net[p].up, more, i)
    <3>1. CASE i = 1
      BY <2>1, <3>1 DEF Before
    <3>2. CASE i # 1
      <4>1. i - 1 \in 1..k
        BY <2>3, <2>4, <3>2
      <4>2. more[i - 1].kind = "msg"
        BY <2>3, <2>4, <4>1
      <4> QED
        BY <3>2, <4>2 DEF Before
    <3> QED
      BY <3>1, <3>2
  <2>6. Reports(p, FALSE, more)
    BY <2>2 DEF some
  <2> HIDE DEF more
  <2>7. Upright(p)' /\ net'[p].up = FALSE
    BY <1>2, <2>4, <2>5, <2>6
  <2> QED
    BY <1>5, <2>7
<1> QED
  BY <1>4, <1>6, <1>7 DEF NetStep

-----------------------------------------------------------------------------
(* What a provider does is nothing to the sessions of others.              *)

\* What a window sends is no reply.
LEMMA WindowNoReply ==
    /\ \A n \in Names \cup {None} : NoReply(<<SelectReq(n)>>)
    /\ \A p \in Providers, e \in Ephemerals : NoReply(<<Blob(Hs1(p, e))>>)
    /\ \A p \in Providers, s \in Session, m \in Plain :
          s.with # None => NoReply(<<Blob(Sealed(p, s.epk, s.with, m))>>)
<1>1. ASSUME NEW m \in Request, Cargo(m).step # "hs2"
      PROVE  NoReply(<<m>>)
  BY <1>1 DEF NoReply
<1>2. \A n \in Names \cup {None} : NoReply(<<SelectReq(n)>>)
  <2>1. ASSUME NEW n \in Names \cup {None}
        PROVE  SelectReq(n) \in Request /\ Cargo(SelectReq(n)).step # "hs2"
    BY RequestTypes, CargoFacts
  <2> QED
    BY <1>1, <2>1
<1>3. ASSUME NEW b \in Blobs, b.step # "hs2"
      PROVE  NoReply(<<Blob(b)>>)
  <2>1. Blob(b) \in Request /\ Cargo(Blob(b)) = b
    BY RequestTypes, CargoFacts
  <2> QED
    BY <1>1, <1>3, <2>1
<1>4. \A p \in Providers, e \in Ephemerals : NoReply(<<Blob(Hs1(p, e))>>)
  <2>1. ASSUME NEW p \in Providers, NEW e \in Ephemerals
        PROVE  Hs1(p, e) \in Blobs /\ Hs1(p, e).step # "hs2"
    BY RequestTypes DEF Hs1
  <2> QED
    BY <1>3, <2>1
<1>5. ASSUME NEW p \in Providers, NEW s \in Session, NEW m \in Plain, s.with # None
      PROVE  NoReply(<<Blob(Sealed(p, s.epk, s.with, m))>>)
  <2>1. s.epk \in Ephemerals /\ s.with \in Receivers
    BY <1>5 DEF Session
  <2>2. Sealed(p, s.epk, s.with, m) \in Blobs /\ Sealed(p, s.epk, s.with, m).step # "hs2"
    BY <2>1, RequestTypes DEF Sealed
  <2> QED
    BY <1>3, <2>2
<1> QED
  BY <1>2, <1>4, <1>5

\* Whatever a provider does, it does for itself.
LEMMA ProviderApart ==
    ASSUME SysInv, NEW q \in Providers, ProviderStep(q) \/ NetStep(q) \/ UserStep(q), Upright(q)
    PROVE  /\ \E ms : Apart(q, ms) /\ NoReply(ms)
           /\ \A p \in Providers \ {q} : app'[p] = app[p] /\ net'[p] = net[p]
           /\ UNCHANGED rx
           /\ UNCHANGED <<link, view>> \/ ProviderJoin(q) \/ Deliver(q)
<1>0. /\ TypeOK /\ AppOK /\ up \in Requests /\ app[q] \in Window /\ q \in Peers /\ NoReply(<< >>) /\ UNCHANGED rx
      /\ \A e \in Ephemerals : NewSession(e) \in Session
  BY DEF SysInv, SysTypeOK, AppOK, Peers, NoReply, ProviderStep, NetStep, UserStep, NewSession, Session
<1>1. ASSUME UNCHANGED <<link, target>> \/ Deliver(q) \/ ProviderJoin(q), NEW ms, NetSends(q, ms), NoReply(ms)
      PROVE  \E x : Apart(q, x) /\ NoReply(x)
  <2>1. CASE net[q].up
    BY <1>0, <1>1, <2>1 DEF NetSends, Apart
  <2>2. CASE ~ net[q].up
    <3>1. Send(q, << >>)
      BY <1>0, <1>1, <2>2, SendNothing DEF NetSends
    <3> QED
      BY <1>0, <1>1, <3>1 DEF Apart
  <2> QED
    BY <2>1, <2>2
<1>2. ASSUME UNCHANGED <<link, target>> \/ Deliver(q) \/ ProviderJoin(q), UNCHANGED up
      PROVE  \E x : Apart(q, x) /\ NoReply(x)
  <2>1. Send(q, << >>)
    BY <1>0, <1>2, SendNothing
  <2> QED
    BY <1>0, <1>2, <2>1 DEF Apart
<1>3. ASSUME UNCHANGED <<link, target>> \/ Deliver(q) \/ ProviderJoin(q), NEW m \in Message, Handles(q, m, Held)
      PROVE  \E x : Apart(q, x) /\ NoReply(x)
  <2>1. PICK held : held = Held
    OBVIOUS
  <2>2. PICK a : a = app[q]
    OBVIOUS
  <2>3. PICK a2 : a2 = app'[q]
    OBVIOUS
  <2>4. Handled(q, m, held, a, a2)
    <3>1. Handles(q, m, held)
      BY <1>3, <2>1
    <3> QED
      BY <1>0, <2>2, <2>3, <3>1, HandlesParts
  <2>5. CASE UNCHANGED up
    BY <1>2, <1>3, <2>5
  <2>6. CASE \E n \in Names \cup {None} : NetSends(q, <<SelectReq(n)>>)
    BY <1>1, <1>3, <2>6, WindowNoReply
  <2>7. CASE \E e \in Fresh(q, held \cup Own(q)) : NetSends(q, <<Blob(Hs1(q, e))>>)
    <3>1. PICK e \in Ephemerals : NetSends(q, <<Blob(Hs1(q, e))>>)
      BY <2>7 DEF Fresh
    <3>2. NoReply(<<Blob(Hs1(q, e))>>)
      BY WindowNoReply
    <3> QED
      BY <1>1, <1>3, <3>1, <3>2
  <2>8. CASE /\ m.body.pub \in Receivers /\ a.session \in Session /\ a2.session = [a.session EXCEPT !.with = m.body.pub]
             /\ NetSends(q, <<Blob(Sealed(q, a2.session.epk, a2.session.with, ReleaseAll))>>)
    <3>1. a2.session \in Session /\ a2.session.with # None /\ ReleaseAll \in Plain
      BY <2>8, RequestTypes, HubAssumption DEF Session, Peers
    <3>2. NoReply(<<Blob(Sealed(q, a2.session.epk, a2.session.with, ReleaseAll))>>)
      BY <3>1, WindowNoReply
    <3> QED
      BY <1>1, <1>3, <2>8, <3>2
  <2> QED
    BY <2>4, <2>5, <2>6, <2>7, <2>8 DEF Handled
<1>4. CASE ProviderStep(q) /\ Poll(q, Held)
  <2>1. UNCHANGED <<link, target>> \/ Deliver(q)
    BY <1>4 DEF Poll, vars
  <2>2. UNCHANGED up \/ \E m \in Message : Handles(q, m, Held)
    <3>1. CASE net[q].events # << >>
      <4>1. PICK e : e = Head(net[q].events)
        OBVIOUS
      <4>2. e \in Event
        BY <3>1, <4>1 DEF SysInv, SysTypeOK
      <4>3. UNCHANGED up \/ (e.kind = "msg" /\ Handles(q, e.msg, Held))
        BY <1>4, <3>1, <4>1 DEF Poll
      <4> QED
        BY <4>2, <4>3 DEF Event, ConnectedEvent, DisconnectedEvent
    <3>2. CASE net[q].events = << >>
      <4>1. Deliver(q) /\ Handles(q, Head(link[q].queue), Held)
        BY <1>4, <3>2 DEF Poll
      <4> QED
        BY <1>0, <4>1, DeliverLinks
    <3> QED
      BY <3>1, <3>2
  <2>3. \E ms : Apart(q, ms) /\ NoReply(ms)
    BY <1>2, <1>3, <2>1, <2>2
  <2>4. UNCHANGED <<link, view>> \/ Deliver(q)
    BY <1>4 DEF Poll, vars
  <2>5. \A p \in Providers \ {q} : app'[p] = app[p] /\ net'[p] = net[p]
    BY <1>4, PollAlone
  <2> QED
    BY <1>0, <2>3, <2>4, <2>5
<1>5. CASE UserStep(q) \/ \E yes \in BOOLEAN : Answer(q, yes)
  <2>1. PICK a : a = app[q]
    OBVIOUS
  <2>2. PICK a2 : a2 = app'[q]
    OBVIOUS
  <2>3. /\ UNCHANGED <<vars, net>> /\ \A p \in Providers \ {q} : app'[p] = app[p]
        /\ \/ UNCHANGED up
           \/ \E n \in Names \cup {None} : NetSends(q, <<SelectReq(n)>>)
           \/ \E m \in Plain : NetSends(q, SealIfLive(q, m))
    BY <1>0, <1>5, <2>1, <2>2, UserParts DEF Upright
  <2>4. UNCHANGED <<link, target>> /\ UNCHANGED <<link, view>>
    BY <2>3 DEF vars
  <2>5. \A m \in Plain : NoReply(SealIfLive(q, m))
    <3> SUFFICES ASSUME NEW m \in Plain
                 PROVE  NoReply(SealIfLive(q, m))
      OBVIOUS
    <3>1. CASE Live(app[q])
      <4>1. app[q].session \in Session /\ app[q].session.with # None
        BY <1>0, <3>1 DEF Live, Window, Session
      <4>2. NoReply(<<Blob(Sealed(q, app[q].session.epk, app[q].session.with, m))>>)
        BY <4>1, WindowNoReply
      <4> QED
        BY <3>1, <4>2 DEF SealIfLive
    <3>2. CASE ~ Live(app[q])
      BY <1>0, <3>2 DEF SealIfLive
    <3> QED
      BY <3>1, <3>2
  <2>6. \E ms : Apart(q, ms) /\ NoReply(ms)
    BY <1>1, <1>2, <2>3, <2>4, <2>5, WindowNoReply
  <2> QED
    BY <1>0, <2>3, <2>4, <2>6
<1>6. CASE NetStep(q)
  <2>1. UNCHANGED up /\ (UNCHANGED <<link, view, target>> \/ ProviderJoin(q)) /\ app' = app
    BY <1>6 DEF NetStep, NetConnects, NetFails, NetLoses, vars
  <2>2. \A p \in Providers \ {q} : net'[p] = net[p]
    BY <1>6 DEF NetStep, NetConnects, NetFails, NetLoses, Reports, SysInv, SysTypeOK
  <2>3. \E ms : Apart(q, ms) /\ NoReply(ms)
    BY <1>2, <2>1
  <2> QED
    BY <1>0, <2>1, <2>2, <2>3
<1> QED
  BY <1>4, <1>5, <1>6 DEF ProviderStep

-----------------------------------------------------------------------------
(* All of it.                                                              *)

\* Windows are upright, sessions are as far as the exchange is, on both sides.
Meeting == /\ \A p \in Providers : Upright(p) /\ Agreed(p)
           /\ \A r \in Receivers : Sane(r)

\* Every step of the system keeps it.
LEMMA MeetingStep ==
    ASSUME SysInv, Scene, AllInformed, Attachments, Meeting, [SysNext]_sysvars
    PROVE  Meeting'
<1>0. /\ TypeOK /\ up \in Requests /\ rx \in [Receivers -> Device] /\ Carries(link)
      /\ \A p \in Providers : app[p] \in Window
  BY DEF SysInv, SysTypeOK, Scene
<1>1. TypeOK' /\ AllInformed' /\ Scene'
  <2>1. SysInv' /\ Scene'
    BY SysInvStep, SceneStep
  <2>2. AllInformed'
    BY HubStep, InformedStep DEF SysInv, SysTypeOK
  <2> QED
    BY <2>1, <2>2 DEF SysInv, SysTypeOK
<1>2. ASSUME NEW p \in Providers, app'[p] = app[p], net'[p] = net[p],
             \A s \in {None} \cup Session : \A early, pressed :
                Agrees(p, s, early, pressed) => Agrees(p, s, early, pressed)'
      PROVE  Upright(p)' /\ Agreed(p)'
  <2>1. Agreed(p)'
    BY <1>0, <1>2, AgreedStays DEF Meeting
  <2>2. Upright(p)'
    BY <1>2 DEF Meeting, Upright
  <2> QED
    BY <2>1, <2>2
<1>3. ASSUME NEW x \in Peers, ServerStep(x)
      PROVE  Meeting'
  <2>1. Serves(x) /\ UNCHANGED <<app, net, rx>>
    BY <1>3 DEF ServerStep, Serves
  <2>2. \A p \in Providers : \A s \in {None} \cup Session : \A early, pressed :
           Agrees(p, s, early, pressed) => Agrees(p, s, early, pressed)'
    BY <1>0, <2>1, ServesAgrees
  <2>3. \A r \in Receivers : Sane(r)'
    BY <1>0, <2>1, SaneOthers DEF Meeting
  <2> QED
    BY <1>2, <2>1, <2>2, <2>3 DEF Meeting
<1>4. ASSUME NEW r \in Receivers, ReceiverStep(r)
      PROVE  Meeting'
  <2>1. Receives(r) /\ UNCHANGED <<app, net>>
    BY <1>4 DEF ReceiverStep, Receives
  <2>2. \A p \in Providers : \A s \in {None} \cup Session : \A early, pressed :
           Agrees(p, s, early, pressed) => Agrees(p, s, early, pressed)'
    BY <1>0, <2>1, ReceivesAgrees
  <2>3. \A x \in Receivers : Sane(x)'
    BY <1>0, <2>1, SaneReceives DEF Meeting
  <2> QED
    BY <1>2, <2>1, <2>2, <2>3 DEF Meeting
<1>5. ASSUME NEW q \in Providers, ProviderStep(q) \/ NetStep(q) \/ UserStep(q)
      PROVE  Meeting'
  <2>1. Upright(q) /\ Agreed(q) /\ Minded(q) /\ Minded(q)'
    BY <1>1 DEF Meeting, Scene
  <2>2. /\ \A p \in Providers \ {q} : app'[p] = app[p] /\ net'[p] = net[p]
        /\ UNCHANGED rx
        /\ UNCHANGED <<link, view>> \/ ProviderJoin(q) \/ Deliver(q)
    BY <1>5, <2>1, ProviderApart
  <2>3. PICK ms : Apart(q, ms) /\ NoReply(ms)
    BY <1>5, <2>1, ProviderApart
  <2>4. Upright(q)' /\ Agreed(q)'
    BY <1>1, <1>5, <2>1, <2>2, EventAgrees, MessageAgrees, UserAgrees, NetAgrees DEF ProviderStep
  <2>5. ASSUME NEW p \in Providers \ {q}
        PROVE  Upright(p)' /\ Agreed(p)'
    <3>1. \A s \in {None} \cup Session : \A early, pressed :
             Agrees(p, s, early, pressed) => Agrees(p, s, early, pressed)'
      <4>1. p \in Providers /\ q \in Providers \ {p}
        OBVIOUS
      <4> QED
        BY <1>0, <2>3, <4>1, ApartAgrees
    <3> QED
      BY <1>2, <2>2, <2>5, <3>1
  <2>6. \A r \in Receivers : Sane(r)'
    BY <1>0, <2>2, SaneOthers DEF Meeting
  <2> QED
    BY <2>4, <2>5, <2>6 DEF Meeting
<1>6. CASE UNCHANGED sysvars
  <2>1. UNCHANGED <<link, view, rx, app, net, target, up>>
    BY <1>6 DEF sysvars
  <2>2. \A p \in Providers : Upright(p)' /\ Agreed(p)'
    <3>1. ASSUME NEW p \in Providers, NEW s, NEW early, NEW pressed, Agrees(p, s, early, pressed)
          PROVE  Agrees(p, s, early, pressed)'
      BY <2>1, <3>1 DEF Agrees, Still, Hears, Replied, Astray, Way
    <3> QED
      BY <1>2, <2>1, <3>1
  <2>3. \A r \in Receivers : Sane(r)'
    BY <1>0, <2>1, SaneOthers DEF Meeting
  <2> QED
    BY <2>2, <2>3 DEF Meeting
<1> QED
  BY <1>3, <1>4, <1>5, <1>6 DEF SysNext

\* At first there are no connections and no sessions.
LEMMA MeetingBegins == SysInit => Meeting
BY DEF SysInit, AppInit, NetInit, RxInit, Offline, Idle, Meeting, Upright, Agreed, Grounded, Ordered, Sane

-----------------------------------------------------------------------------
(* When everything has arrived.                                            *)

\* A live session is one the receiver is in, and so is the one a key is held for.
LEMMA SettledSession ==
    ASSUME SysInv, Attachments, Meeting, Settled, NEW p \in Providers, net[p].up, NEW s, s = app[p].session
    PROVE  /\ s = None <=> target[p] = None
           /\ s # None /\ s.with # None => s.with = target[p] /\ rx[s.with].session = <<p, s.epk>>
           /\ target[p] # None /\ rx[target[p]].session # None /\ rx[target[p]].down # {} =>
                 /\ s.with = target[p] /\ rx[s.with].session = <<p, s.epk>>
                 /\ rx[target[p]].down \subseteq app[p].pressed
<1>0. /\ TypeOK /\ rx \in [Receivers -> Device] /\ Quiet(Online) /\ s \in {None} \cup Session
      /\ \A r \in Receivers : r \in Online => rx[r].connected
      /\ p \in Online
  <2>1. \A r \in Receivers : r \in Online => rx[r].connected
    BY HubAssumption DEF Online
  <2>2. app[p] \in Window
    BY DEF SysInv, SysTypeOK
  <2> QED
    BY <2>1, <2>2 DEF SysInv, SysTypeOK, Online, Settled, Window, Session
<1>1. PICK pressed : pressed = app[p].pressed
  OBVIOUS
<1>2. PICK early : early = Early(p)
  OBVIOUS
<1>3. Still(p) /\ (target[p] # None => Way(p) = << >>)
  BY <1>0, QuietStill
<1>4. Agrees(p, s, early, pressed)
  <2>1. NoNews(Said(net[p].events))
    <3>1. Said(net[p].events) = << >>
      BY DEF Settled, Said
    <3>2. NoNews(<< >>)
      BY DEF NoNews
    <3> QED
      BY <3>1, <3>2
  <2> QED
    BY <1>1, <1>2, <2>1 DEF Meeting, Agreed
<1>5. s = None => target[p] = None
  BY <1>3, <1>4 DEF Agrees
<1>6. ASSUME s # None
      PROVE  /\ target[p] \in Receivers
             /\ Exchange(p, target[p], s, << >>, rx[target[p]], Replied(p) \cup early, pressed)
  BY <1>0, <1>3, <1>4, <1>6 DEF Agrees, TypeOK
<1>7. ASSUME s # None
      PROVE  /\ s.with # None => s.with = target[p] /\ rx[target[p]].session = <<p, s.epk>>
             /\ rx[target[p]].session # None /\ rx[target[p]].down # {} =>
                   s.with = target[p] /\ rx[target[p]].session = <<p, s.epk>> /\ rx[target[p]].down \subseteq pressed
  <2>1. s \in Session /\ target[p] \in Receivers /\ rx[target[p]] \in Device
    BY <1>0, <1>6, <1>7
  <2> QED
    BY <1>6, <1>7, <2>1, ExchangeArrived
<1>8. target[p] # None <=> s # None
  BY <1>5, <1>3, <1>4 DEF Agrees
<1> QED
  BY <1>1, <1>7, <1>8

\* Both ends agree on the session.
LEMMA SettledAgree ==
    ASSUME SysInv, Attachments, Scene, Meeting
    PROVE  SessionsAgree
<1> SUFFICES ASSUME Settled, NEW p \in Providers, Live(app[p])
             PROVE  rx[app[p].session.with].session = <<p, app[p].session.epk>>
  BY DEF SessionsAgree
<1>1. PICK s : s = app[p].session
  OBVIOUS
<1>2. s # None /\ s.with # None
  BY <1>1 DEF Live
<1>3. net[p].up
  <2>1. Said(net[p].events) = << >>
    BY DEF Settled, Said
  <2>2. ~ net[p].up => app[p].current = None
    BY <2>1, LeadsNowhere DEF Scene, Minded
  <2> QED
    BY <2>2 DEF SysInv, SysTypeOK, Live
<1> QED
  BY <1>1, <1>2, <1>3, SettledSession

\* No receiver holds a key for nothing.
LEMMA SettledHeld ==
    ASSUME SysInv, Attachments, AllInformed, Meeting
    PROVE  NoStuckKeys
<1> SUFFICES ASSUME Settled, NEW r \in Receivers, NEW c \in rx[r].down
             PROVE  \E p \in Providers : /\ Live(app[p]) /\ app[p].session.with = r
                                         /\ rx[r].session = <<p, app[p].session.epk>>
                                         /\ c \in app[p].pressed
  BY DEF NoStuckKeys
<1>0. /\ TypeOK /\ rx \in [Receivers -> Device] /\ Quiet(Online) /\ r # None
      /\ \A x \in Receivers : rx[x].connected => x \in Online
  BY HubAssumption DEF SysInv, SysTypeOK, Online, Settled, Peers
<1>1. Sane(r) /\ rx[r].session # None /\ rx[r].down # {}
  BY DEF Meeting, Sane
<1>2. PICK p \in Providers : target[p] = r /\ link[p].state # "none"
  BY <1>0, <1>1, QuietSane
<1>3. net[p].up
  <2>1. p \in Online /\ p \notin Receivers
    BY <1>0, <1>2, HubAssumption DEF Quiet, Peers
  <2> QED
    BY <2>1 DEF Online
<1>4. PICK s : s = app[p].session
  OBVIOUS
<1>5. s # None /\ s.with = r /\ rx[r].session = <<p, s.epk>> /\ c \in app[p].pressed
  BY <1>0, <1>1, <1>2, <1>3, <1>4, SettledSession
<1>6. Live(app[p])
  BY <1>0, <1>4, <1>5 DEF Meeting, Upright, Grounded, Live
<1> QED
  BY <1>4, <1>5, <1>6

\* What the invariants together say of all behaviours.
LEMMA MeetingAlways == SysSpec => [](SysInv /\ Attachments /\ AllInformed /\ Scene /\ Meeting)
<1>1. SysInv /\ [SysNext]_sysvars => SysInv'
  BY SysInvStep
<1>2. SysInv /\ Scene /\ AllInformed /\ [SysNext]_sysvars => Scene'
  BY SceneStep
<1>3. SysInv /\ Attachments /\ AllInformed /\ [SysNext]_sysvars => AllInformed' /\ Attachments'
  BY HubStep, InformedStep, AttachmentsStep DEF SysInv, SysTypeOK
<1>4. SysInit => AllInformed /\ Attachments
  BY AttachmentsInit, NewLinkInformed DEF SysInit, Init, AllInformed
<1>5. SysInv /\ Scene /\ AllInformed /\ Attachments /\ Meeting /\ [SysNext]_sysvars => Meeting'
  BY MeetingStep
<1> QED
  BY <1>1, <1>2, <1>3, <1>4, <1>5, SysInvInit, SceneInit, MeetingBegins, PTL DEF SysSpec

\* When everything has arrived, the receiver of a window's live session is in that
\* session too, whatever was lost, taken over or asked for in between (handle_e2e on
\* both sides, and all that ends a session).
THEOREM SessionsDoAgree == SysSpec => []SessionsAgree
<1>1. SysInv /\ Attachments /\ Scene /\ Meeting => SessionsAgree
  BY SettledAgree
<1> QED
  BY <1>1, MeetingAlways, PTL

\* When everything has arrived, a key a receiver holds is one the user holds, in a
\* window that is in session with that receiver (provider.py, what types and what
\* releases; receiver.py, what ends a session there).
THEOREM NoKeyIsStuck == SysSpec => []NoStuckKeys
<1>1. SysInv /\ Attachments /\ AllInformed /\ Meeting => NoStuckKeys
  BY SettledHeld
<1> QED
  BY <1>1, MeetingAlways, PTL

-----------------------------------------------------------------------------
(* Attaching again.  A window that has not got the receiver last picked    *)
(* acts as if it had what it has asked for, until it is told; and then the *)
(* next list with that receiver makes it ask.                              *)

\* What p acts as if it had.  While events wait, a request made is one on a
\* connection that is gone, and will be forgotten.
Supposed(p) == IF net[p].events = << >> /\ app[p].requested = app[p].desired
               THEN app[p].desired ELSE view[p].who

\* It gets what it wants, or will ask for it.
Wanting(p) == net[p].up /\ app[p].desired # None =>
    Bound(p, app[p].desired) /\ Awaits(p, Supposed(p), app[p].desired)

\* Its list is the last it was told; while events wait, one is on its way.
Listening(p) == net[p].up =>
    \A names : (net[p].events = << >> => names = app[p].receivers) => Learns(p, names)

\* Without a connection a window knows of no receivers and has asked for none.
Bare(a) == ~ a.connected => a.receivers = {} /\ a.requested = None

\* The window gets to know in the end whether there is a connection; if there is, and
\* events wait, the last of them says so, and the one before that there was none.
Renewed(connected, es, isUp) ==
    /\ ~ isUp => ~ Before(connected, es, Len(es) + 1)
    /\ isUp /\ es # << >> => es[Len(es)].kind = "connected" /\ ~ Before(connected, es, Len(es))

\* As long as events wait, nothing has been taken from a new connection.
Newly(p) == /\ Bare(app[p]) /\ Renewed(app[p].connected, net[p].events, net[p].up)
            /\ net[p].up /\ net[p].events # << >> /\ link[p].state = "open" => view[p].who = None

Attentive == \A p \in Providers : Wanting(p) /\ Listening(p) /\ Newly(p)

\* Nobody goes back to the receiver shown before another pick has been answered.
Patient == \A p \in Providers : OnPick(p, app[p].current) /\ app[p].desired # app[p].current =>
               NoAsk(up[p]) /\ NoNews(link[p].queue)

\* p asks for nothing.
Silent(p) == UNCHANGED up \/ \E m \in Request : m.type # "select" /\ NetSends(p, <<m>>)

\* p asks for what it wants.
Asks(p, a2) == /\ a2.desired \in Names \cup {None} /\ a2.requested = a2.desired
               /\ NetSends(p, <<SelectReq(a2.desired)>>)

\* A window forgets a request when it is told of its attachment, and it asks if a list
\* has what it wants, unless it has that or has asked for it.
Heeds(p, m, a, a2) ==
    /\ a2.receivers = IF m.type = "receivers" THEN m.names ELSE a.receivers
    /\ \/ /\ Silent(p)
          /\ a2.desired = a.desired
          /\ a2.requested = IF Announces(m) THEN None ELSE a.requested
          /\ m.type = "receivers" /\ a.desired \in m.names => a.desired \in {a.current, a.requested}
       \/ Asks(p, a2)

\* A blob that is sent asks for nothing.
LEMMA BlobSilent ==
    ASSUME NEW p \in Providers, NEW b \in Blobs, NetSends(p, <<Blob(b)>>)
    PROVE  Silent(p)
<1>1. Blob(b) \in Request /\ Blob(b).type # "select"
  BY RequestTypes DEF Blob
<1> QED
  BY <1>1 DEF Silent

\* Handling any message.
LEMMA HandlesAsks ==
    ASSUME AppOK, NEW p \in Providers, NEW m \in Message, NEW held, Handles(p, m, held),
           NEW a, a = app[p], NEW a2, a2 = app'[p]
    PROVE  Heeds(p, m, a, a2)
<1>0. a \in Window /\ a2 = app'[p] /\ app \in [Providers -> Window] /\ a.desired \in Names \cup {None}
  BY DEF AppOK, Window
<1>1. CASE m.type = "receivers" /\ OnReceivers(p, m)
  <2> DEFINE c == [a EXCEPT !.receivers = m.names]
             d == [c EXCEPT !.requested = c.desired]
             ask == a.desired \in m.names /\ a.current # a.desired /\ a.requested # a.desired
  <2>1. ~ Announces(m) /\ m.names \in SUBSET Names
    BY <1>1, MessageParts DEF Announces
  <2>2. /\ c.receivers = m.names /\ c.desired = a.desired /\ c.requested = a.requested /\ c.current = a.current
        /\ d.receivers = m.names /\ d.desired = a.desired /\ d.requested = a.desired
    BY <1>0, <2>1 DEF Window
  <2>3. IF ask THEN app' = [app EXCEPT ![p] = d] /\ NetSends(p, <<SelectReq(a.desired)>>)
               ELSE app' = [app EXCEPT ![p] = c] /\ UNCHANGED up
    BY <1>0, <1>1, <2>2 DEF OnReceivers, AskFor
  <2> HIDE DEF c, d
  <2>4. CASE ask
    <3>1. a2 = d /\ NetSends(p, <<SelectReq(a.desired)>>)
      BY <1>0, <2>3, <2>4
    <3> QED
      BY <1>0, <1>1, <2>2, <3>1 DEF Heeds, Asks
  <2>5. CASE ~ ask
    <3>1. a2 = c /\ Silent(p)
      BY <1>0, <2>3, <2>5 DEF Silent
    <3> QED
      BY <1>0, <1>1, <2>1, <2>2, <2>5, <3>1 DEF Heeds
  <2> QED
    BY <2>4, <2>5
<1>2. ASSUME m.type # "receivers", Silent(p), a2.receivers = a.receivers, a2.desired = a.desired,
             a2.requested = IF Announces(m) THEN None ELSE a.requested
      PROVE  Heeds(p, m, a, a2)
  BY <1>2 DEF Heeds
<1>3. CASE m.type = "selected" /\ OnSelected(p, m, held)
  <2>1. Announces(m) /\ m.who \in Names \cup {None} /\ m.type # "receivers"
    BY <1>3, MessageParts DEF Announces
  <2>2. CASE m.who = None
    <3> DEFINE c == [a EXCEPT !.current = None, !.requested = None, !.session = None]
    <3>1. app' = [app EXCEPT ![p] = c] /\ UNCHANGED up
      BY <1>0, <1>3, <2>2 DEF OnSelected
    <3>2. c.receivers = a.receivers /\ c.desired = a.desired /\ c.requested = None
      BY <1>0 DEF Window
    <3> HIDE DEF c
    <3>3. a2 = c
      BY <1>0, <3>1
    <3> QED
      BY <1>2, <2>1, <3>1, <3>2, <3>3 DEF Silent
  <2>3. CASE m.who # None
    <3>1. PICK e \in Fresh(p, held \cup Own(p)) :
                 /\ app' = [app EXCEPT ![p] = Starts([@ EXCEPT !.current = m.who, !.requested = None], e)]
                 /\ NetSends(p, <<Blob(Hs1(p, e))>>)
      BY <1>3, <2>3 DEF OnSelected
    <3> DEFINE c == Starts([a EXCEPT !.current = m.who, !.requested = None], e)
    <3>2. app' = [app EXCEPT ![p] = c] /\ e \in Ephemerals
      BY <1>0, <3>1 DEF Fresh
    <3>3. c.receivers = a.receivers /\ c.desired = a.desired /\ c.requested = None
      BY <1>0, <2>1, <3>2 DEF Window, Starts
    <3> HIDE DEF c
    <3>4. a2 = c
      BY <1>0, <3>2
    <3>5. Silent(p)
      <4>1. Hs1(p, e) \in Blobs
        BY <3>2, RequestTypes
      <4> QED
        BY <3>1, <4>1, BlobSilent
    <3> QED
      BY <1>2, <2>1, <3>3, <3>4, <3>5
  <2> QED
    BY <2>2, <2>3
<1>4. CASE m.type = "e2e" /\ OnE2E(p, m.body)
  <2> DEFINE b == m.body
             keyed == [a EXCEPT !.session.with = b.pub]
             asked == [keyed EXCEPT !.asking = TRUE]
             given == GivenUp(a)
  <2>1. ~ Announces(m) /\ b \in Blobs /\ m.type # "receivers"
    BY <1>4, MessageParts DEF Announces
  <2>2. CASE GiveUp(p)
    <3>1. app' = [app EXCEPT ![p] = given] /\ NetSends(p, <<SelectReq(None)>>)
      BY <1>0, <2>2 DEF GiveUp, AskFor
    <3>2. given.receivers = a.receivers /\ given.desired = None /\ given.requested = None
      BY <1>0 DEF Window, GivenUp
    <3> HIDE DEF given
    <3>3. a2 = given
      BY <1>0, <3>1
    <3> QED
      BY <2>1, <3>1, <3>2, <3>3 DEF Heeds, Asks
  <2>3. CASE UNCHANGED <<app, up>>
    BY <1>0, <1>2, <2>1, <2>3 DEF Silent
  <2>4. CASE /\ b.step = "hs2" /\ a.session # None /\ a.session.with = None
             /\ Confirm(p, keyed) \/ (app' = [app EXCEPT ![p] = asked] /\ UNCHANGED up)
    <3>1. b.pub \in Receivers /\ a.session \in Session /\ ReleaseAll \in Plain
      BY <1>0, <2>1, <2>4, BlobParts, RequestTypes DEF Window, Session
    <3>2. \A x \in {keyed, asked} : x.receivers = a.receivers /\ x.desired = a.desired /\ x.requested = a.requested
      BY <1>0 DEF Window
    <3>3. keyed.session.epk \in Ephemerals /\ keyed.session.with = b.pub
      BY <1>0, <3>1 DEF Window, Session
    <3>4. \/ /\ app' = [app EXCEPT ![p] = keyed]
             /\ NetSends(p, <<Blob(Sealed(p, keyed.session.epk, keyed.session.with, ReleaseAll))>>)
          \/ app' = [app EXCEPT ![p] = asked] /\ UNCHANGED up
      BY <2>4 DEF Confirm
    <3>5. Sealed(p, keyed.session.epk, keyed.session.with, ReleaseAll) \in Blobs
      BY <3>1, <3>3, RequestTypes
    <3> HIDE DEF b, keyed, asked
    <3>6. Silent(p) /\ (a2 = keyed \/ a2 = asked)
      BY <1>0, <3>4, <3>5, BlobSilent DEF Silent
    <3> QED
      BY <1>2, <2>1, <3>2, <3>6
  <2>5. \/ GiveUp(p) \/ UNCHANGED <<app, up>>
        \/ /\ b.step = "hs2" /\ a.session # None /\ a.session.with = None
           /\ Confirm(p, keyed) \/ (app' = [app EXCEPT ![p] = asked] /\ UNCHANGED up)
    BY <1>0, <1>4 DEF OnE2E
  <2> QED
    BY <2>2, <2>3, <2>4, <2>5
<1>5. CASE m.type = "notice" /\ UNCHANGED <<app, up>>
  BY <1>0, <1>2, <1>5 DEF Announces, Silent
<1> QED
  BY <1>1, <1>3, <1>4, <1>5 DEF Handles

\* What the user does asks for nothing, or for what is wanted then; but a pick of the
\* receiver that is shown asks for nothing either.
Minds(p, a, a2) ==
    /\ a2.connected = a.connected /\ a2.receivers = a.receivers
    /\ \/ Silent(p) /\ a2.desired = a.desired /\ a2.requested = a.requested
       \/ a2.desired \in a.receivers \cup {None} /\ Asks(p, a2)
       \/ /\ OnPick(p, a.current) /\ a.current \in Names /\ UNCHANGED up
          /\ a2.desired = a.current /\ a2.requested = a.requested

LEMMA UserAsks ==
    ASSUME AppOK, up \in Requests, NEW p \in Providers, UserStep(p) \/ \E yes \in BOOLEAN : Answer(p, yes),
           NEW a, a = app[p], NEW a2, a2 = app'[p]
    PROVE  Minds(p, a, a2)
<1>0. a \in Window /\ a2 = app'[p] /\ app \in [Providers -> Window] /\ p \in Peers
  BY DEF AppOK, Peers
<1>1. ASSUME NEW n \in Names, OnPick(p, n)
      PROVE  Minds(p, a, a2)
  <2> DEFINE c == [a EXCEPT !.desired = n]
             d == [c EXCEPT !.requested = n]
  <2>1. /\ \A x \in {c, d} : x.connected = a.connected /\ x.receivers = a.receivers /\ x.desired = n
        /\ c.requested = a.requested /\ d.requested = n
    BY <1>0 DEF Window
  <2>2. IF n # a.current THEN app' = [app EXCEPT ![p] = d] /\ NetSends(p, <<SelectReq(n)>>)
                         ELSE app' = [app EXCEPT ![p] = c] /\ UNCHANGED up
    BY <1>0, <1>1 DEF OnPick, AskFor
  <2>3. n \in a.receivers
    BY <1>1 DEF OnPick
  <2> HIDE DEF c, d
  <2>4. CASE n # a.current
    <3>1. a2 = d /\ NetSends(p, <<SelectReq(n)>>)
      BY <1>0, <2>2, <2>4
    <3> QED
      BY <2>1, <2>3, <3>1 DEF Minds, Asks
  <2>5. CASE n = a.current
    <3>1. a2 = c /\ UNCHANGED up
      BY <1>0, <2>2, <2>5
    <3> QED
      BY <1>1, <2>1, <2>5, <3>1 DEF Minds
  <2> QED
    BY <2>4, <2>5
<1>2. ASSUME NEW c \in Window, c.connected = a.connected, c.receivers = a.receivers,
             app' = [app EXCEPT ![p] = GivenUp(c)], AskFor(p, None)
      PROVE  Minds(p, a, a2)
  <2> DEFINE d == GivenUp(c)
  <2>1. d.connected = a.connected /\ d.receivers = a.receivers /\ d.desired = None /\ d.requested = None
    BY <1>2 DEF Window, GivenUp
  <2>2. app' = [app EXCEPT ![p] = d] /\ NetSends(p, <<SelectReq(None)>>)
    BY <1>2 DEF AskFor
  <2> HIDE DEF d
  <2>3. a2 = d
    BY <1>0, <2>2
  <2> QED
    BY <2>1, <2>2, <2>3 DEF Minds, Asks
<1>3. ASSUME NEW c, app' = [app EXCEPT ![p] = c], c.connected = a.connected, c.receivers = a.receivers,
             c.desired = a.desired, c.requested = a.requested, Silent(p)
      PROVE  Minds(p, a, a2)
  <2>1. a2 = c
    BY <1>0, <1>3
  <2> QED
    BY <1>3, <2>1 DEF Minds
<1>4. ASSUME NEW m \in Plain, NetSends(p, SealIfLive(p, m)), ~ Live(a) \/ a.session \in Session
      PROVE  Silent(p)
  <2>1. CASE Live(a)
    <3>1. a.session.epk \in Ephemerals /\ a.session.with \in Receivers
      BY <1>4, <2>1 DEF Live, Session
    <3>2. Sealed(p, a.session.epk, a.session.with, m) \in Blobs
      BY <3>1, RequestTypes
    <3> QED
      BY <1>0, <1>4, <2>1, <3>2, BlobSilent DEF SealIfLive
  <2>2. CASE ~ Live(a)
    <3>1. NetSends(p, << >>)
      BY <1>4, <2>2 DEF SealIfLive
    <3>2. Send(p, << >>) => UNCHANGED up
      BY <1>0 DEF Send, Requests
    <3> QED
      BY <3>1, <3>2 DEF NetSends, Silent
  <2> QED
    BY <2>1, <2>2
<1>5. ASSUME NEW m \in Plain, NetSends(p, SealIfLive(p, m)), NEW pressed \in SUBSET KeyCodes,
             app' = [app EXCEPT ![p].pressed = pressed]
      PROVE  Minds(p, a, a2)
  <2> DEFINE c == [a EXCEPT !.pressed = pressed]
  <2>1. /\ c.connected = a.connected /\ c.receivers = a.receivers
        /\ c.desired = a.desired /\ c.requested = a.requested
    BY <1>0 DEF Window
  <2>2. app' = [app EXCEPT ![p] = c]
    BY <1>0, <1>5
  <2>3. ~ Live(a) \/ a.session \in Session
    BY <1>0 DEF Window, Live, Session
  <2>4. Silent(p)
    BY <1>4, <1>5, <2>3
  <2> HIDE DEF c
  <2> QED
    BY <1>3, <2>1, <2>2, <2>4
<1>6. CASE \E n \in Names : OnPick(p, n)
  BY <1>1, <1>6
<1>7. CASE OnStop(p)
  BY <1>0, <1>2, <1>7 DEF OnStop, GiveUp
<1>8. CASE \E c \in KeyCodes : OnKeyDown(p, c)
  <2>1. PICK c \in KeyCodes : OnKeyDown(p, c)
    BY <1>8
  <2>2. KeyMsg(c, TRUE) \in Plain /\ a.pressed \cup {c} \in SUBSET KeyCodes
    BY <1>0, RequestTypes DEF Window
  <2>3. app' = [app EXCEPT ![p].pressed = a.pressed \cup {c}] /\ NetSends(p, SealIfLive(p, KeyMsg(c, TRUE)))
    BY <1>0, <2>1 DEF OnKeyDown
  <2> QED
    BY <1>5, <2>2, <2>3
<1>9. CASE \E c \in KeyCodes : OnKeyUp(p, c)
  <2>1. PICK c \in KeyCodes : OnKeyUp(p, c)
    BY <1>9
  <2>2. KeyMsg(c, FALSE) \in Plain /\ a.pressed \ {c} \in SUBSET KeyCodes
    BY <1>0, RequestTypes DEF Window
  <2>3. app' = [app EXCEPT ![p].pressed = a.pressed \ {c}] /\ NetSends(p, SealIfLive(p, KeyMsg(c, FALSE)))
    BY <1>0, <2>1 DEF OnKeyUp
  <2> QED
    BY <1>5, <2>2, <2>3
<1>10. CASE OnFocusOut(p)
  <2>1. app' = [app EXCEPT ![p].pressed = {}] /\ NetSends(p, SealIfLive(p, ReleaseAll)) /\ ReleaseAll \in Plain
        /\ {} \in SUBSET KeyCodes
    BY <1>10, RequestTypes DEF OnFocusOut
  <2> QED
    BY <1>5, <2>1
<1>11. ASSUME NEW yes \in BOOLEAN, Answer(p, yes)
       PROVE  Minds(p, a, a2)
  <2> DEFINE c == [a EXCEPT !.asking = FALSE]
  <2>1. /\ c \in Window /\ c.connected = a.connected /\ c.receivers = a.receivers
        /\ c.desired = a.desired /\ c.requested = a.requested /\ c.session = a.session
    BY <1>0 DEF Window
  <2>2. \/ app' = [app EXCEPT ![p] = c] /\ NetSends(p, <<Blob(Sealed(p, c.session.epk, c.session.with, ReleaseAll))>>)
        \/ app' = [app EXCEPT ![p] = GivenUp(c)] /\ AskFor(p, None)
    BY <1>0, <1>11 DEF Answer, Confirm
  <2>3. Sealed(p, a.session.epk, a.session.with, ReleaseAll) \in Blobs
    <3>1. a.session \in [epk : Ephemerals, with : Receivers]
      BY <1>11 DEF Answer, AppOK, AsksAboutSomebody
    <3> QED
      BY <3>1, RequestTypes
  <2> HIDE DEF c
  <2> QED
    BY <1>2, <1>3, <2>1, <2>2, <2>3, BlobSilent
<1> QED
  BY <1>6, <1>7, <1>8, <1>9, <1>10, <1>11 DEF UserStep

\* What waits after the first event has been taken.
LEMMA RenewedTail ==
    ASSUME NEW es \in Seq(Event), es # << >>, NEW c, NEW isUp, Renewed(c, es, isUp), NEW c2,
           Head(es).kind = "disconnected" => ~ c2
    PROVE  Renewed(c2, Tail(es), isUp)
<1> DEFINE t == Tail(es)
<1>1. /\ Len(t) \in Nat /\ Len(es) = Len(t) + 1 /\ Head(es) = es[1]
      /\ \A i \in 1..Len(t) : t[i] = es[i + 1]
      /\ t # << >> <=> Len(t) # 0
  <2>1. t \in Seq(Event) /\ Len(t) = Len(es) - 1 /\ Len(es) \in Nat /\ Head(es) = es[1]
    OBVIOUS
  <2>2. \A u \in Seq(Event) : Len(u) \in Nat /\ (u # << >> <=> Len(u) # 0)
    OBVIOUS
  <2> QED
    BY <2>1, <2>2, SMTT(20)
<1> HIDE DEF t
<1>2. CASE Len(t) = 0
  <2>1. Len(es) = 1 /\ Len(es) + 1 # 1 /\ (Len(es) + 1) - 1 = 1 /\ t = << >>
    BY <1>1, <1>2
  <2>2. ~ isUp => ~ c2
    BY <1>1, <2>1 DEF Renewed, Before
  <2> QED
    BY <1>2, <2>1, <2>2 DEF Renewed, Before, t
<1>3. CASE Len(t) # 0
  <2>1. /\ Len(t) \in 1..Len(t) /\ t[Len(t)] = es[Len(es)] /\ t # << >> /\ Len(t) + 1 # 1 /\ (Len(t) + 1) - 1 = Len(t)
        /\ Len(es) # 1 /\ Len(es) - 1 = Len(t) /\ Len(es) + 1 # 1 /\ (Len(es) + 1) - 1 = Len(es)
    BY <1>1, <1>3
  <2>2. ~ isUp => ~ Before(c2, t, Len(t) + 1)
    BY <2>1 DEF Renewed, Before
  <2>3. isUp => t[Len(t)].kind = "connected" /\ es[Len(t)].kind = "disconnected"
    BY <2>1 DEF Renewed, Before
  <2>4. isUp => ~ Before(c2, t, Len(t))
    <3>1. CASE Len(t) = 1
      BY <1>1, <2>3, <3>1 DEF Before
    <3>2. CASE Len(t) # 1
      <4>0. PICK k \in Nat : k = Len(t)
        BY <1>1
      <4>1. Len(t) - 1 \in 1..Len(t) /\ (Len(t) - 1) + 1 = Len(t)
        BY <1>3, <3>2, <4>0
      <4>2. t[Len(t) - 1] = es[Len(t)]
        BY <1>1, <4>1
      <4> QED
        BY <2>3, <3>2, <4>2 DEF Before
    <3> QED
      BY <3>1, <3>2
  <2> QED
    BY <2>2, <2>3, <2>4 DEF Renewed, t
<1> QED
  BY <1>2, <1>3

\* A connection is reported where there was none, or that there is none.
LEMMA RenewedMore ==
    ASSUME NEW es \in Seq(Event), NEW more \in Seq(Event), more # << >>, NEW c, NEW wasUp \in BOOLEAN, NEW isUp \in BOOLEAN,
           Renewed(c, es, wasUp), IF isUp THEN ~ wasUp /\ more = <<ConnectedEvent>>
                                          ELSE more[Len(more)].kind = "disconnected"
    PROVE  Renewed(c, es \o more, isUp)
<1> DEFINE n == Len(es)
           t == es \o more
<1>1. /\ n \in Nat /\ Len(more) \in Nat /\ Len(more) >= 1 /\ Len(t) = n + Len(more)
      /\ \A i \in 1..n : t[i] = es[i]
      /\ \A i \in 1..Len(more) : t[n + i] = more[i]
  BY ConcatProperties
<1>2. t[Len(t)] = more[Len(more)] /\ Len(t) + 1 # 1 /\ (Len(t) + 1) - 1 = Len(t) /\ t # << >>
  <2>1. Len(more) \in 1..Len(more)
    BY <1>1
  <2> QED
    BY <1>1, <2>1
<1> HIDE DEF n, t
<1>3. CASE isUp
  <2>1. Len(t) = n + 1 /\ t[Len(t)].kind = "connected" /\ ~ Before(c, es, n + 1)
    <3>1. Len(more) = 1 /\ more[1] = ConnectedEvent /\ ConnectedEvent.kind = "connected"
      BY <1>3 DEF ConnectedEvent
    <3> QED
      BY <1>1, <1>2, <1>3, <3>1 DEF Renewed, n
  <2>2. n + 1 # 1 => (n + 1) - 1 \in 1..n
    BY <1>1
  <2>3. ~ Before(c, t, n + 1)
    BY <1>1, <2>1, <2>2 DEF Before
  <2> QED
    BY <1>3, <2>1, <2>3 DEF Renewed, t
<1>4. CASE ~ isUp
  BY <1>2, <1>4 DEF Renewed, Before, t
<1> QED
  BY <1>3, <1>4

\* In terms of the values that a step sets.
LEMMA WantingChanged ==
    ASSUME NEW p \in Providers, NEW n, NEW v, Bound(p, n)', Awaits(p, v, n)',
           net'[p].up /\ app'[p].desired # None /\ link'[p].state = "open" => app'[p].desired = n /\ Supposed(p)' = v
    PROVE  Wanting(p)'
<1> SUFFICES ASSUME net'[p].up, app'[p].desired # None
             PROVE  Bound(p, app[p].desired)' /\ Awaits(p, Supposed(p), app[p].desired)'
  BY DEF Wanting
<1>1. CASE link'[p].state # "open"
  BY <1>1 DEF Bound, Awaits, Reminded
<1>2. CASE link'[p].state = "open"
  <2>1. app'[p].desired = n /\ Supposed(p)' = v
    BY <1>2
  <2> QED
    BY <2>1 DEF Bound, Awaits, Reminded
<1> QED
  BY <1>1, <1>2

\* A window that asks for nothing goes on waiting.
LEMMA OwnWants ==
    ASSUME TypeOK, TypeOK', Attachments, up \in Requests, NEW p \in Providers, net[p].up, Silent(p), UNCHANGED rx,
           NEW v, NEW v2, NEW n, Bound(p, n), Awaits(p, v, n),
           \/ UNCHANGED <<link, view, receivers, target>> /\ v2 = v
           \/ /\ Deliver(p)
              /\ LET m == Head(link[p].queue)
                 IN  v2 = After(v, m) /\ (m.type = "receivers" /\ n \in m.names => v = n)
    PROVE  Bound(p, n)' /\ Awaits(p, v2, n)'
<1>0. UNCHANGED <<link, target>> \/ Deliver(p)
  OBVIOUS
<1>1. CASE UNCHANGED up
  <2>1. Send(p, << >>)
    BY <1>1, SendNothing DEF Peers
  <2>2. Acts(p, << >>)
    BY <1>0, <2>1 DEF Acts
  <2>3. Bound(p, n)'
    BY <2>2, SilentBound
  <2>4. Awaits(p, v2, n)'
    BY <2>1, SilentAwaits
  <2> QED
    BY <2>3, <2>4
<1>2. ASSUME NEW m \in Request, m.type # "select", NetSends(p, <<m>>)
      PROVE  Bound(p, n)' /\ Awaits(p, v2, n)'
  <2>1. Send(p, <<m>>)
    BY <1>2 DEF NetSends
  <2>2. Acts(p, <<m>>)
    BY <1>0, <2>1 DEF Acts
  <2>3. Bound(p, n)'
    BY <1>2, <2>2, BlobBound
  <2>4. PICK ms : ms = <<m>>
    OBVIOUS
  <2>5. Send(p, ms) /\ (ms = << >> \/ \E x \in Request : ms = <<x>> /\ x.type # "select")
    BY <1>2, <2>1, <2>4
  <2>6. Awaits(p, v2, n)'
    BY <2>5, SilentAwaits
  <2> QED
    BY <2>3, <2>6
<1> QED
  BY <1>1, <1>2 DEF Silent

\* One that asks has asked, whatever it believes.
LEMMA AsksWants ==
    ASSUME TypeOK, Attachments, up \in Requests, NEW p \in Providers, net[p].up, UNCHANGED rx,
           UNCHANGED <<link, target>> \/ Deliver(p), NEW k \in Names \cup {None}, NetSends(p, <<SelectReq(k)>>), NEW v
    PROVE  Bound(p, k)' /\ Awaits(p, v, k)'
<1>1. Send(p, <<SelectReq(k)>>)
  BY DEF NetSends
<1>2. Acts(p, <<SelectReq(k)>>)
  BY <1>1 DEF Acts
<1>3. link'[p].state = "open" => link[p].state = "open"
  BY DeliverLinks DEF Peers
<1> QED
  BY <1>1, <1>2, <1>3, AsksBound, AsksAwaits

\* If nothing is asked for and no news is under way, p has got the receiver that the
\* window shows, or is reminded by the list that waits.
LEMMA PickReminded ==
    ASSUME SysInv, AllInformed, AllListed, NEW p \in Providers, Minded(p), Newly(p), Listening(p), net[p].up,
           NoAsk(up[p]), NoNews(link[p].queue), NEW n \in Names, app[p].current = n,
           NEW v, v = IF net[p].events = << >> THEN n ELSE view[p].who
    PROVE  Bound(p, n) /\ Awaits(p, v, n)
<1> SUFFICES ASSUME link[p].state = "open"
             PROVE  Bound(p, n) /\ Awaits(p, v, n)
  BY DEF Bound, Awaits, Reminded
<1>0. p \in Peers /\ p \in Providers /\ n # None /\ target[p] \in Receivers \cup {None} /\ None \notin Receivers
  BY HubAssumption DEF Peers, SysInv, SysTypeOK, TypeOK
<1>1. PartnerName(p) = view[p].who
  BY <1>0 DEF AllInformed, Informed, Told, NoNews
<1>2. target[p] = None <=> view[p].who = None
  <2>1. target[p] # None => Name(target[p]) # None
    BY <1>0, HubAssumption DEF Name, Peers
  <2> QED
    BY <1>0, <1>1, <2>1, PartnerNames
<1>3. CASE net[p].events = << >>
  <2>1. Said(net[p].events) = << >>
    BY <1>3 DEF Said
  <2>2. view[p].who = n
    BY <2>1, LeadsNowhere DEF Minded
  <2>3. target[p] # None /\ Name(target[p]) = n
    BY <1>0, <1>1, <1>2, <2>2, PartnerNames
  <2> QED
    BY <1>3, <2>2, <2>3 DEF Bound, Awaits, Reminded
<1>4. CASE net[p].events # << >>
  <2>1. view[p].who = None /\ target[p] = None /\ v = None
    BY <1>2, <1>4 DEF Newly
  <2>2. PICK names : names # view[p].names
    <3>1. {} # view[p].names \/ {None} # view[p].names
      OBVIOUS
    <3> QED
      BY <3>1
  <2>3. Learns(p, names)
    BY <1>4 DEF Listening
  <2>4. \E i \in 1..Len(link[p].queue) : link[p].queue[i].type = "receivers"
    BY <2>2, <2>3 DEF Learns
  <2>5. PICK i \in 1..Len(link[p].queue) : link[p].queue[i].type = "receivers" /\ link[p].queue[i].names = Now
    BY <2>4 DEF AllListed, Listed, Heard
  <2>6. ~ Told(v, link[p].queue, i, n)
    <3>1. Len(link[p].queue) \in Nat
      BY <1>0 DEF SysInv, SysTypeOK, TypeOK
    <3>2. \A j \in 1..i : j \in 1..Len(link[p].queue)
      BY <2>5, <3>1
    <3> QED
      BY <1>0, <2>1, <3>2 DEF Told, NoNews
  <2>7. n \in Now => Prompts(v, link[p].queue, n)
    BY <2>5, <2>6 DEF Prompts
  <2> QED
    BY <2>1, <2>7 DEF Bound, Awaits, Reminded
<1> QED
  BY <1>3, <1>4

-----------------------------------------------------------------------------
(* What each step does to it.                                              *)

\* The window takes its next event.
LEMMA EventAttentive ==
    ASSUME SysInv, TypeOK', Attachments, NEW p \in Providers, Poll(p, Held), UNCHANGED rx,
           net[p].events # << >>, Upright(p), Wanting(p), Listening(p), Newly(p)
    PROVE  Wanting(p)' /\ Listening(p)' /\ Newly(p)'
<1> DEFINE es == net[p].events
           e == Head(es)
<1>0. /\ TypeOK /\ AppOK /\ up \in Requests /\ app[p] \in Window /\ es \in Seq(Event) /\ e \in Event /\ p \in Peers
      /\ UNCHANGED <<link, view, receivers, target>> /\ net' = [net EXCEPT ![p].events = Tail(es)]
      /\ net[p].up \in BOOLEAN
  BY DEF SysInv, SysTypeOK, AppOK, Poll, vars, Peers
<1>1. net'[p].events = Tail(es) /\ net'[p].up = net[p].up
  BY <1>0 DEF SysInv, SysTypeOK
<1>2. PICK a : a = app[p]
  OBVIOUS
<1>3. PICK a2 : a2 = app'[p]
  OBVIOUS
<1>4. PICK n : n = a.desired
  OBVIOUS
<1>5. PICK v : v = view[p].who
  OBVIOUS
<1>6. /\ Ordered(a.connected, es, net[p].up) /\ a \in Window /\ Bare(a) /\ Renewed(a.connected, es, net[p].up)
      /\ a.requested \in Names \cup {None}
  BY <1>0, <1>2 DEF Upright, Newly, Window
<1>7. net[p].up /\ n # None => Bound(p, n) /\ Awaits(p, v, n)
  BY <1>2, <1>4, <1>5 DEF Wanting, Supposed
<1>8. Listening(p)'
  BY <1>0, <1>1 DEF Listening, Learns
<1>9. net[p].up /\ Tail(es) = << >> => e.kind = "connected" /\ ~ a.connected
  <2>1. ASSUME net[p].up, Tail(es) = << >>
        PROVE  Len(es) = 1 /\ e = es[1]
    <3>1. Len(Tail(es)) = Len(es) - 1 /\ Len(es) \in Nat /\ e = es[1]
      BY <1>0
    <3>2. PICK t : t = Tail(es)
      OBVIOUS
    <3>3. t = << >> => Len(t) = 0
      OBVIOUS
    <3> HIDE DEF es, e
    <3> QED
      BY <2>1, <3>1, <3>2, <3>3
  <2> QED
    BY <1>6, <2>1 DEF Renewed, Before
<1> HIDE DEF e
<1>10. ASSUME Bare(a2), e.kind = "disconnected" => ~ a2.connected
       PROVE  Newly(p)'
  <2>1. Renewed(a2.connected, Tail(es), net[p].up)
    BY <1>0, <1>6, <1>10, RenewedTail DEF e
  <2>2. net[p].up /\ link[p].state = "open" => v = None
    BY <1>5 DEF Newly
  <2> QED
    BY <1>0, <1>1, <1>3, <1>5, <1>10, <2>1, <2>2 DEF Newly
<1>11. ASSUME Silent(p), a2.desired = n, net[p].up /\ Tail(es) = << >> /\ n # None => a2.requested # n
       PROVE  Wanting(p)'
  <2>1. CASE net[p].up /\ n # None
    <3>1. Bound(p, n)' /\ Awaits(p, v, n)'
      BY <1>0, <1>7, <1>11, <2>1, OwnWants
    <3>2. Supposed(p)' = v
      BY <1>0, <1>1, <1>3, <1>5, <1>11, <2>1 DEF Supposed
    <3> QED
      BY <1>3, <1>11, <3>1, <3>2, WantingChanged
  <2>2. CASE ~ (net[p].up /\ n # None)
    BY <1>1, <1>3, <1>11, <2>2 DEF Wanting
  <2> QED
    BY <2>1, <2>2
<1>12. CASE e.kind = "connected" /\ app' = [app EXCEPT ![p].connected = TRUE] /\ UNCHANGED up
  <2>1. /\ a2.desired = a.desired /\ a2.requested = a.requested /\ a2.connected
    BY <1>0, <1>2, <1>3, <1>12 DEF Window, AppOK
  <2>2. Newly(p)'
    BY <1>10, <1>12, <2>1 DEF Bare
  <2>3. Wanting(p)'
    BY <1>4, <1>6, <1>9, <1>11, <1>12, <2>1 DEF Bare, Silent
  <2> QED
    BY <1>8, <2>2, <2>3
<1>13. CASE e.kind = "disconnected" /\ app' = [app EXCEPT ![p] = Lost(@)] /\ UNCHANGED up
  <2> DEFINE b == Lost(a)
  <2>1. b.desired = a.desired /\ b.requested = None /\ ~ b.connected /\ b.receivers = {}
    BY <1>6 DEF Lost, Offline
  <2>2. a2 = b
    BY <1>0, <1>2, <1>3, <1>13 DEF AppOK
  <2> HIDE DEF b
  <2>3. Newly(p)'
    BY <1>10, <2>1, <2>2 DEF Bare
  <2>4. Wanting(p)'
    BY <1>4, <1>11, <1>13, <2>1, <2>2 DEF Silent
  <2> QED
    BY <1>8, <2>3, <2>4
<1>14. CASE e.kind = "msg" /\ Handles(p, e.msg, Held)
  <2>1. PICK m : m = e.msg
    OBVIOUS
  <2>2. m \in Message /\ Handles(p, m, Held)
    BY <1>0, <1>14, <2>1 DEF e, Event, ConnectedEvent, DisconnectedEvent
  <2>3. PICK held : held = Held
    OBVIOUS
  <2>4. Handles(p, m, held)
    BY <2>2, <2>3
  <2>5. Handled(p, m, held, a, a2)
    BY <1>0, <1>2, <1>3, <2>2, <2>4, HandlesParts
  <2>6. Heeds(p, m, a, a2)
    BY <1>0, <1>2, <1>3, <2>2, <2>4, HandlesAsks
  <2>7. a.connected
    BY <1>0, <1>6, <1>14, OrderedHead DEF e
  <2>8. Newly(p)'
    BY <1>10, <1>14, <2>5, <2>7 DEF Handled, Bare
  <2>9. ~ (net[p].up /\ Tail(es) = << >>)
    BY <1>9, <1>14
  <2>10. CASE Silent(p) /\ a2.desired = a.desired
    BY <1>4, <1>8, <1>11, <2>8, <2>9, <2>10
  <2>11. CASE Asks(p, a2)
    <3>1. PICK k \in Names \cup {None} : k = a2.desired
      BY <2>11 DEF Asks
    <3>2. PICK w : w = Supposed(p)'
      OBVIOUS
    <3>3. CASE net[p].up
      <4>1. Bound(p, k)' /\ Awaits(p, w, k)'
        <5>1. NetSends(p, <<SelectReq(k)>>)
          BY <2>11, <3>1 DEF Asks
        <5> QED
          BY <1>0, <3>3, <5>1, AsksWants
      <4>2. Wanting(p)'
        BY <1>3, <3>1, <3>2, <4>1, WantingChanged
      <4> QED
        BY <1>8, <2>8, <4>2
    <3>4. CASE ~ net[p].up
      BY <1>1, <1>8, <2>8, <3>4 DEF Wanting
    <3> QED
      BY <3>3, <3>4
  <2> QED
    BY <2>6, <2>10, <2>11 DEF Heeds
<1> QED
  BY <1>12, <1>13, <1>14 DEF Poll, e

\* The window takes the next message of its connection: a list with the receiver it
\* wants, and that it neither has nor waits for, makes it ask.
LEMMA MessageAttentive ==
    ASSUME SysInv, TypeOK', Scene, Attachments, NEW p \in Providers, Poll(p, Held), UNCHANGED rx,
           net[p].events = << >>, Upright(p), Wanting(p), Listening(p)
    PROVE  Wanting(p)' /\ Listening(p)' /\ Newly(p)'
<1>0. /\ TypeOK /\ AppOK /\ up \in Requests /\ app[p] \in Window /\ p \in Peers
      /\ net' = net /\ net[p].up /\ Deliver(p) /\ Handles(p, Head(link[p].queue), Held)
  BY DEF SysInv, SysTypeOK, AppOK, Poll, Peers
<1>1. PICK m : m = Head(link[p].queue)
  OBVIOUS
<1>2. m \in Message /\ Handles(p, m, Held)
  BY <1>0, <1>1, DeliverLinks
<1>3. PICK a : a = app[p]
  OBVIOUS
<1>4. PICK a2 : a2 = app'[p]
  OBVIOUS
<1>5. PICK held : held = Held
  OBVIOUS
<1>6. Handled(p, m, held, a, a2) /\ Heeds(p, m, a, a2)
  <2>1. Handles(p, m, held)
    BY <1>2, <1>5
  <2> QED
    BY <1>0, <1>2, <1>3, <1>4, <2>1, HandlesParts, HandlesAsks
<1>7. a.connected /\ a2.connected
  BY <1>0, <1>3, <1>6 DEF Upright, Ordered, Before, Handled
<1>8. Newly(p)'
  BY <1>0, <1>4, <1>7 DEF Newly, Bare, Renewed
<1>9. Listening(p)'
  <2>1. PICK names : names = a.receivers
    OBVIOUS
  <2>2. PICK names2 : names2 = a2.receivers
    OBVIOUS
  <2>3. names2 = IF m.type = "receivers" THEN m.names ELSE names
    BY <1>6, <2>1, <2>2 DEF Heeds
  <2>4. Learns(p, names)
    BY <1>0, <1>3, <2>1 DEF Listening
  <2>5. Learns(p, names2)'
    BY <1>0, <1>1, <2>3, <2>4, TakenLearns
  <2> QED
    BY <1>0, <1>4, <2>2, <2>5 DEF Listening
<1>10. PICK n : n = a.desired
  OBVIOUS
<1>11. PICK v : v = Supposed(p)
  OBVIOUS
<1>12. PICK v2 : v2 = After(v, m)
  OBVIOUS
<1>13. n # None => Bound(p, n) /\ Awaits(p, v, n)
  BY <1>0, <1>3, <1>10, <1>11 DEF Wanting
<1>14. a.current = view[p].who /\ view'[p].who = After(view[p].who, m)
  <2>1. link[p].state # "none"
    BY <1>0, DeliverCarries DEF Scene
  <2>2. Said(net[p].events) = << >>
    BY DEF Said
  <2> QED
    BY <1>0, <1>1, <1>3, <2>1, <2>2, LeadsNowhere, Believes DEF Scene, Minded
<1>15. v = IF a.requested = n THEN n ELSE a.current
  BY <1>3, <1>10, <1>11, <1>14 DEF Supposed
<1>16. Supposed(p)' = IF a2.requested = a2.desired THEN a2.desired ELSE After(a.current, m)
  BY <1>0, <1>4, <1>14 DEF Supposed
<1>17. CASE /\ Silent(p) /\ a2.desired = a.desired
            /\ a2.requested = IF Announces(m) THEN None ELSE a.requested
            /\ m.type = "receivers" /\ a.desired \in m.names => a.desired \in {a.current, a.requested}
  <2>1. CASE n # None
    <3>1. m.type = "receivers" /\ n \in m.names => v = n
      BY <1>10, <1>15, <1>17
    <3>2. Bound(p, n)' /\ Awaits(p, v2, n)'
      BY <1>0, <1>1, <1>12, <1>13, <1>17, <2>1, <3>1, OwnWants
    <3>3. Supposed(p)' = v2
      BY <1>10, <1>12, <1>15, <1>16, <1>17, <2>1 DEF After
    <3> QED
      BY <1>4, <1>8, <1>9, <1>10, <1>17, <3>2, <3>3, WantingChanged
  <2>2. CASE n = None
    BY <1>4, <1>8, <1>9, <1>10, <1>17, <2>2 DEF Wanting
  <2> QED
    BY <2>1, <2>2
<1>18. CASE Asks(p, a2)
  <2>1. PICK k \in Names \cup {None} : k = a2.desired
    BY <1>18 DEF Asks
  <2>2. PICK w : w = Supposed(p)'
    OBVIOUS
  <2>3. Bound(p, k)' /\ Awaits(p, w, k)'
    <3>1. NetSends(p, <<SelectReq(k)>>)
      BY <1>18, <2>1 DEF Asks
    <3> QED
      BY <1>0, <3>1, AsksWants
  <2>4. Wanting(p)'
    BY <1>4, <2>1, <2>2, <2>3, WantingChanged
  <2> QED
    BY <1>8, <1>9, <2>4
<1> QED
  BY <1>6, <1>17, <1>18 DEF Heeds

\* The user, who does not go back too soon.
LEMMA UserAttentive ==
    ASSUME SysInv, TypeOK', AllInformed, AllListed, Attachments, NEW p \in Providers, Minded(p),
           UserStep(p) \/ \E yes \in BOOLEAN : Answer(p, yes), UNCHANGED rx,
           Patient, Upright(p), Wanting(p), Listening(p), Newly(p)
    PROVE  Wanting(p)' /\ Listening(p)' /\ Newly(p)'
<1>0. /\ TypeOK /\ AppOK /\ up \in Requests /\ app[p] \in Window /\ p \in Peers /\ Grounded(app[p])
      /\ None \notin Names
  BY HubAssumption DEF SysInv, SysTypeOK, AppOK, Peers, Upright
<1>1. PICK a : a = app[p]
  OBVIOUS
<1>2. PICK a2 : a2 = app'[p]
  OBVIOUS
<1>3. Minds(p, a, a2)
  BY <1>0, <1>1, <1>2, UserAsks
<1>4. UNCHANGED <<link, view, receivers, target, net>>
  BY <1>0, <1>1, <1>2, UserParts DEF vars
<1>5. Listening(p)'
  BY <1>1, <1>2, <1>3, <1>4 DEF Minds, Listening, Learns
<1>6. Newly(p)'
  <2>1. Bare(a2)
    <3>1. Bare(a)
      BY <1>1 DEF Newly
    <3> QED
      BY <1>3, <3>1 DEF Bare, Minds, Asks
  <2> QED
    BY <1>1, <1>2, <1>3, <1>4, <2>1 DEF Newly, Minds
<1>7. PICK n : n = a.desired
  OBVIOUS
<1>8. PICK v : v = Supposed(p)
  OBVIOUS
<1>9. net[p].up /\ n # None => Bound(p, n) /\ Awaits(p, v, n)
  BY <1>1, <1>7, <1>8 DEF Wanting
<1>10. CASE ~ net[p].up
  BY <1>4, <1>5, <1>6, <1>10 DEF Wanting
<1>11. ASSUME net[p].up, Silent(p), a2.desired = a.desired, a2.requested = a.requested
       PROVE  Wanting(p)'
  <2>1. Supposed(p)' = v
    BY <1>1, <1>2, <1>4, <1>8, <1>11 DEF Supposed
  <2>2. CASE n # None
    <3>1. Bound(p, n)' /\ Awaits(p, v, n)'
      BY <1>0, <1>4, <1>9, <1>11, <2>2, OwnWants
    <3> QED
      BY <1>2, <1>7, <1>11, <2>1, <3>1, WantingChanged
  <2>3. CASE n = None
    BY <1>2, <1>7, <1>11, <2>3 DEF Wanting
  <2> QED
    BY <2>2, <2>3
<1>12. ASSUME net[p].up, Asks(p, a2)
       PROVE  Wanting(p)'
  <2>1. PICK k \in Names \cup {None} : k = a2.desired
    BY <1>12 DEF Asks
  <2>2. PICK w : w = Supposed(p)'
    OBVIOUS
  <2>3. Bound(p, k)' /\ Awaits(p, w, k)'
    <3>1. NetSends(p, <<SelectReq(k)>>)
      BY <1>12, <2>1 DEF Asks
    <3> QED
      BY <1>0, <1>4, <1>12, <3>1, AsksWants
  <2> QED
    BY <1>2, <2>1, <2>2, <2>3, WantingChanged
<1>13. ASSUME net[p].up, OnPick(p, a.current), a.current \in Names, UNCHANGED up,
              a2.desired = a.current, a2.requested = a.requested
       PROVE  Wanting(p)'
  <2>1. CASE a.desired = a.current
    BY <1>11, <1>13, <2>1 DEF Silent
  <2>2. CASE a.desired # a.current
    <3>1. NoAsk(up[p]) /\ NoNews(link[p].queue)
      BY <1>1, <1>13, <2>2 DEF Patient
    <3>2. PICK k \in Names : k = a.current
      BY <1>13
    <3>3. PICK w : w = IF net[p].events = << >> THEN k ELSE view[p].who
      OBVIOUS
    <3>4. Bound(p, k) /\ Awaits(p, w, k)
      BY <1>1, <1>13, <3>1, <3>2, <3>3, PickReminded
    <3>5. Bound(p, k)' /\ Awaits(p, w, k)'
      <4>1. Silent(p)
        BY <1>13 DEF Silent
      <4> QED
        BY <1>0, <1>4, <1>13, <3>4, <4>1, OwnWants
    <3>6. link[p].state = "open" /\ net[p].events = << >> => view[p].who = k
      <4>1. net[p].events = << >> => Said(net[p].events) = << >>
        BY DEF Said
      <4> QED
        BY <1>1, <1>13, <3>2, <4>1, LeadsNowhere DEF Minded
    <3>7. link'[p].state = "open" => Supposed(p)' = w
      BY <1>2, <1>4, <1>13, <3>2, <3>3, <3>6 DEF Supposed
    <3> QED
      BY <1>2, <1>13, <3>2, <3>5, <3>7, WantingChanged
  <2> QED
    BY <2>1, <2>2
<1> QED
  BY <1>3, <1>5, <1>6, <1>10, <1>11, <1>12, <1>13 DEF Minds

\* The connection thread: a new connection has a list on it.
LEMMA NetAttentive ==
    ASSUME SysInv, TypeOK', AllInformed', Attachments, Unheard, NEW p \in Providers, NetStep(p), Newly(p)
    PROVE  Wanting(p)' /\ Listening(p)' /\ Newly(p)'
<1> DEFINE es == net[p].events
<1>0. /\ es \in Seq(Event) /\ app' = app /\ p \in Peers /\ net[p].up \in BOOLEAN /\ TypeOK
      /\ app[p] \in Window
  BY DEF SysInv, SysTypeOK, NetStep, Peers
<1>1. PICK c : c = app[p].connected
  OBVIOUS
<1>2. PICK wasUp : wasUp = net[p].up
  OBVIOUS
<1>3. Bare(app[p]) /\ Renewed(c, es, wasUp)
  BY <1>1, <1>2 DEF Newly
<1>4. ASSUME NEW isUp \in BOOLEAN, NEW more \in Seq(Event), Reports(p, isUp, more), more # << >>,
             IF isUp THEN ~ net[p].up /\ more = <<ConnectedEvent>> /\ view'[p].who = None
                     ELSE more[Len(more)].kind = "disconnected"
      PROVE  Newly(p)' /\ net'[p].up = isUp /\ net'[p].events # << >>
  <2>1. net'[p].up = isUp /\ net'[p].events = es \o more
    BY <1>4 DEF SysInv, SysTypeOK, Reports
  <2>2. Renewed(c, es \o more, isUp)
    <3>1. wasUp \in BOOLEAN /\ (IF isUp THEN ~ wasUp /\ more = <<ConnectedEvent>>
                                        ELSE more[Len(more)].kind = "disconnected")
      BY <1>0, <1>2, <1>4
    <3> HIDE DEF es
    <3> QED
      BY <1>0, <1>3, <1>4, <3>1, RenewedMore
  <2>3. es \o more # << >>
    <3> HIDE DEF es
    <3> QED
      BY <1>0, <1>4
  <2> QED
    BY <1>0, <1>1, <1>3, <1>4, <2>1, <2>2, <2>3 DEF Newly
<1>5. ASSUME ~ net'[p].up
      PROVE  Wanting(p)' /\ Listening(p)'
  BY <1>5 DEF Wanting, Listening
<1>6. CASE NetConnects(p)
  <2>1. ProviderJoin(p) /\ UNCHANGED up /\ view'[p].who = None /\ up[p] = << >>
    BY <1>0, <1>6 DEF NetConnects, ProviderJoin, Blank, TypeOK, Unheard
  <2>2. Newly(p)' /\ net'[p].up /\ net'[p].events # << >>
    <3>1. <<ConnectedEvent>> \in Seq(Event) /\ <<ConnectedEvent>> # << >>
      BY DEF Event
    <3>2. Reports(p, TRUE, <<ConnectedEvent>>) /\ ~ net[p].up
      BY <1>6 DEF NetConnects
    <3> QED
      BY <1>4, <2>1, <3>1, <3>2
  <2>3. Listening(p)'
    BY <1>0, <2>1, JoinLearns DEF Listening
  <2>4. Wanting(p)'
    <3>1. PICK n \in Names \cup {None} : n = app[p].desired
      BY <1>0 DEF Window
    <3>2. PICK v : v = None
      OBVIOUS
    <3>3. Bound(p, n)'
      BY <1>0, <2>1, JoinBound
    <3>4. Reminded(p, v, n)'
      BY <1>0, <2>1, <3>2, OwnReminded
    <3>5. Awaits(p, v, n)' /\ Supposed(p)' = v
      BY <2>1, <2>2, <3>2, <3>4 DEF Awaits, Supposed
    <3> QED
      BY <1>0, <3>1, <3>3, <3>5, WantingChanged
  <2> QED
    BY <2>2, <2>3, <2>4
<1>7. CASE NetFails(p)
  <2>1. <<DisconnectedEvent>> \in Seq(Event) /\ <<DisconnectedEvent>> # << >> /\ Len(<<DisconnectedEvent>>) = 1
        /\ <<DisconnectedEvent>>[1].kind = "disconnected"
    BY DEF Event, DisconnectedEvent
  <2>2. Reports(p, FALSE, <<DisconnectedEvent>>)
    BY <1>7 DEF NetFails
  <2> QED
    BY <1>4, <1>5, <2>1, <2>2
<1>8. CASE NetLoses(p)
  <2> DEFINE q == link[p].queue
  <2>1. q \in Seq(Message)
    BY <1>0 DEF TypeOK
  <2>2. PICK k \in 0..Len(q) :
           Reports(p, FALSE, Append([i \in 1..k |-> Received(q[i])], DisconnectedEvent))
    BY <1>8 DEF NetLoses
  <2> DEFINE some == [i \in 1..k |-> Received(q[i])]
             more == Append(some, DisconnectedEvent)
  <2>3. some \in Seq(Event)
    <3>1. k \in Nat /\ k <= Len(q)
      BY <2>1, <2>2
    <3>2. \A i \in 1..k : Received(q[i]) \in Event
      BY <2>1, <3>1 DEF Received, Event
    <3> QED
      BY <3>1, <3>2, IsASeq
  <2>4. Reports(p, FALSE, more)
    BY <2>2
  <2> HIDE DEF some
  <2>5. more \in Seq(Event) /\ more # << >> /\ more[Len(more)].kind = "disconnected"
    <3>1. DisconnectedEvent \in Event /\ DisconnectedEvent.kind = "disconnected"
      BY DEF Event, DisconnectedEvent
    <3> QED
      BY <2>3, <3>1, AppendProperties
  <2> HIDE DEF more
  <2> QED
    BY <1>4, <1>5, <2>4, <2>5
<1> QED
  BY <1>6, <1>7, <1>8 DEF NetStep

\* What others do leaves a window that takes nothing in as it is.
LEMMA AttentiveStays ==
    ASSUME NEW p \in Providers, app[p] \in Window, app'[p] = app[p], net'[p] = net[p], Retained(p),
           \A n \in Names \cup {None} : \A v :
              Bound(p, n) /\ Awaits(p, v, n) => Bound(p, n)' /\ Awaits(p, v, n)',
           Wanting(p), Listening(p), Newly(p)
    PROVE  Wanting(p)' /\ Listening(p)' /\ Newly(p)'
<1>1. Newly(p)'
  BY DEF Newly, Retained, Longer
<1>2. Listening(p)'
  <2> SUFFICES ASSUME net'[p].up, NEW names, net'[p].events = << >> => names = app'[p].receivers
               PROVE  Learns(p, names)'
    BY DEF Listening
  <2>1. Learns(p, names)
    BY DEF Listening
  <2> QED
    BY <2>1, RetainedLearns
<1>3. Wanting(p)'
  <2>1. PICK n \in Names \cup {None} : n = app[p].desired
    BY DEF Window
  <2>2. PICK v : v = Supposed(p)
    OBVIOUS
  <2>3. CASE net[p].up /\ n # None
    <3>1. Bound(p, n) /\ Awaits(p, v, n)
      BY <2>1, <2>2, <2>3 DEF Wanting
    <3>2. Bound(p, n)' /\ Awaits(p, v, n)'
      BY <3>1
    <3>3. link'[p].state = "open" => Supposed(p)' = v
      BY <2>2 DEF Supposed, Retained
    <3> QED
      BY <2>1, <3>2, <3>3, WantingChanged
  <2>4. CASE ~ (net[p].up /\ n # None)
    BY <2>1, <2>4 DEF Wanting
  <2> QED
    BY <2>3, <2>4
<1> QED
  BY <1>1, <1>2, <1>3

\* A provider moves nothing in the relay but when it connects or takes a message.
LEMMA ProviderMoves ==
    ASSUME NEW q \in Providers, ProviderStep(q) \/ NetStep(q) \/ UserStep(q)
    PROVE  Deliver(q) \/ ProviderJoin(q) \/ UNCHANGED <<link, view, receivers, target>>
<1>1. CASE ProviderStep(q)
  BY <1>1 DEF ProviderStep, Poll, Answer, vars
<1>2. CASE NetStep(q)
  BY <1>2 DEF NetStep, NetConnects, NetFails, NetLoses, vars
<1>3. CASE UserStep(q)
  BY <1>3 DEF UserStep, OnPick, OnStop, OnKeyDown, OnKeyUp, OnFocusOut, vars
<1> QED
  BY <1>1, <1>2, <1>3

\* Every step of the system keeps all windows attentive, if no provider takes another's
\* receiver and nobody goes back too soon.
LEMMA AttentiveStep ==
    ASSUME SysInv, TypeOK', Scene, Scene', Attachments, AllInformed, AllInformed', AllListed, Meeting,
           Unheard, Attentive, Unrobbed, Patient, [SysNext]_sysvars
    PROVE  Unheard' /\ Attentive'
<1>0. /\ TypeOK /\ up \in Requests
      /\ \A p \in Providers : /\ p \in Peers /\ app[p] \in Window /\ Upright(p) /\ Minded(p)
                              /\ Wanting(p) /\ Listening(p) /\ Newly(p)
  BY DEF SysInv, SysTypeOK, Scene, Meeting, Attentive, Peers
<1>1. ASSUME NEW x \in Peers, Serves(x) \/ (x \in Receivers /\ Receives(x)), UNCHANGED <<app, net>>
      PROVE  Unheard' /\ Attentive'
  <2>1. Unheard'
    BY <1>0, <1>1, ServesUnheard, ReceivesUnheard
  <2>2. ASSUME NEW p \in Providers
        PROVE  Wanting(p)' /\ Listening(p)' /\ Newly(p)'
    <3>1. Retained(p)
      BY <1>0, <1>1, ServesKeep
    <3>2. ASSUME NEW n \in Names \cup {None}, NEW v, Bound(p, n), Awaits(p, v, n)
          PROVE  Bound(p, n)' /\ Awaits(p, v, n)'
      <4>1. CASE Serves(x)
        BY <1>0, <3>2, <4>1, ServesBound, ServesAwaits
      <4>2. CASE x \in Receivers /\ Receives(x)
        BY <1>0, <3>2, <4>2, ReceivesBound, ReceivesAwaits
      <4> QED
        BY <1>1, <4>1, <4>2
    <3> QED
      BY <1>0, <1>1, <3>1, <3>2, AttentiveStays
  <2> QED
    BY <2>1, <2>2 DEF Attentive
<1>2. ASSUME NEW x \in Peers, ServerStep(x)
      PROVE  Unheard' /\ Attentive'
  BY <1>1, <1>2 DEF ServerStep, Serves
<1>3. ASSUME NEW r \in Receivers, ReceiverStep(r)
      PROVE  Unheard' /\ Attentive'
  BY <1>1, <1>3 DEF ReceiverStep, Receives, Peers
<1>4. ASSUME NEW q \in Providers, ProviderStep(q) \/ NetStep(q) \/ UserStep(q)
      PROVE  Unheard' /\ Attentive'
  <2>1. PICK ms : Apart(q, ms)
    BY <1>0, <1>4, ProviderApart
  <2>2. UNCHANGED rx /\ \A p \in Providers \ {q} : app'[p] = app[p] /\ net'[p] = net[p]
    BY <1>0, <1>4, ProviderApart
  <2>3. Deliver(q) \/ ProviderJoin(q) \/ UNCHANGED <<link, view, receivers, target>>
    BY <1>4, ProviderMoves
  <2>4. Unheard'
    BY <1>0, <2>1, ApartUnheard
  <2>5. Wanting(q)' /\ Listening(q)' /\ Newly(q)'
    BY <1>0, <1>4, <2>2, EventAttentive, MessageAttentive, UserAttentive, NetAttentive DEF ProviderStep
  <2>6. ASSUME NEW p \in Providers \ {q}
        PROVE  Wanting(p)' /\ Listening(p)' /\ Newly(p)'
    <3>1. p \in Providers /\ q \in Providers \ {p} /\ q \in Peers \ {p} /\ p \in Peers /\ q \in Peers
      BY <1>0
    <3>2. Retained(p)
      BY <1>0, <2>3, <3>1, OthersKeep
    <3>3. up'[p] = up[p]
      BY <1>0, <2>1, <3>1 DEF Apart, Send, Requests
    <3>4. ASSUME NEW n \in Names \cup {None}, NEW v, Bound(p, n), Awaits(p, v, n)
          PROVE  Bound(p, n)' /\ Awaits(p, v, n)'
      <4>1. Bound(p, n)'
        BY <1>0, <2>1, <3>1, <3>4, ApartBound
      <4>2. Awaits(p, v, n)'
        BY <1>0, <2>3, <3>1, <3>3, <3>4, ElsewhereAwaits
      <4> QED
        BY <4>1, <4>2
    <3> QED
      BY <1>0, <2>2, <3>1, <3>2, <3>4, AttentiveStays
  <2> QED
    BY <2>4, <2>5, <2>6 DEF Attentive
<1>5. CASE UNCHANGED sysvars
  <2>1. UNCHANGED <<link, view, receivers, target, up, app, net>>
    BY <1>5 DEF sysvars
  <2> QED
    BY <2>1 DEF Unheard, Attentive, Wanting, Supposed, Listening, Newly, Bound, Awaits, Reminded, Learns, Now
<1> QED
  BY <1>2, <1>3, <1>4, <1>5 DEF SysNext

\* At first there are no connections.
LEMMA AttentiveBegins == SysInit => Unheard /\ AllListed /\ Attentive
<1> SUFFICES ASSUME SysInit
             PROVE  Unheard /\ AllListed /\ Attentive
  OBVIOUS
<1>1. Unheard
  BY DEF SysInit, Unheard
<1>2. AllListed
  BY DEF SysInit, Init, AllListed, Listed, NoLink, Peers
<1>3. ASSUME NEW p \in Providers
      PROVE  ~ net[p].up /\ net[p].events = << >> /\ ~ app[p].connected /\ app[p].receivers = {} /\ app[p].requested = None
  BY DEF SysInit, AppInit, NetInit, Offline
<1>4. ASSUME NEW p \in Providers
      PROVE  Wanting(p) /\ Listening(p) /\ Newly(p)
  <2>1. Renewed(FALSE, << >>, FALSE)
    <3>1. Len(<< >>) + 1 = 1
      OBVIOUS
    <3> QED
      BY <3>1 DEF Renewed, Before
  <2>2. app[p].connected = FALSE /\ net[p].up = FALSE
    BY DEF SysInit, AppInit, NetInit, Offline
  <2>3. Newly(p)
    BY <1>3, <2>1, <2>2 DEF Newly, Bare
  <2> QED
    BY <1>3, <2>3 DEF Wanting, Listening
<1> QED
  BY <1>1, <1>2, <1>4 DEF Attentive

\* When everything has arrived, nothing is waited for.
LEMMA SettledReattached ==
    ASSUME SysInv, AllInformed, AllListed, Scene, Attentive
    PROVE  Reattached
<1> SUFFICES ASSUME Settled, NEW p \in Providers, app[p].connected, app[p].desired \in app[p].receivers
             PROVE  PartnerName(p) = app[p].desired
  BY DEF Reattached
<1>0. /\ TypeOK /\ app[p] \in Window /\ p \in Peers /\ Quiet(Online) /\ net[p].events = << >> /\ None \notin Names
      /\ p \notin Receivers /\ Newly(p) /\ Wanting(p) /\ Listening(p)
  BY HubAssumption DEF SysInv, SysTypeOK, Settled, Peers, Attentive
<1>1. PICK n : n = app[p].desired
  OBVIOUS
<1>2. PICK names : names = app[p].receivers
  OBVIOUS
<1>3. n \in names /\ names \in SUBSET Names /\ n # None
  BY <1>0, <1>1, <1>2 DEF Window
<1>4. net[p].up
  <2>1. Len(net[p].events) + 1 = 1
    BY <1>0
  <2> QED
    BY <1>0, <2>1 DEF Newly, Renewed, Before
<1>5. up[p] = << >> /\ link[p].queue = << >> /\ link[p].state = "open"
  <2>1. p \in Online
    BY <1>4 DEF Online
  <2>2. link[p].state \in {"none", "open", "closed"}
    BY <1>0 DEF TypeOK
  <2> QED
    BY <1>0, <2>1, <2>2 DEF Quiet
<1>6. PICK v : v = Supposed(p)
  OBVIOUS
<1>7. Bound(p, n) /\ Awaits(p, v, n) /\ Learns(p, names)
  BY <1>0, <1>1, <1>2, <1>3, <1>4, <1>6 DEF Wanting, Listening
<1>8. n \in Now
  BY <1>3, <1>5, <1>7, QuietLearns
<1>9. NoAsk(up[p]) /\ ~ LastAsk(up[p], n)
  BY <1>5 DEF NoAsk, LastAsk
<1>10. target[p] # None
  BY <1>5, <1>7, <1>8, <1>9, QuietReminded DEF Awaits
<1>11. Name(target[p]) = n
  BY <1>5, <1>7, <1>9, <1>10 DEF Bound
<1> QED
  BY <1>1, <1>10, <1>11, PartnerNames

\* Whatever broke in between, once everything has arrived the relay has a window that
\* sees the receiver last picked attached to it (provider.py, handle_msg, which asks
\* again with every list, but not while it waits for a reply), unless another provider
\* has taken the receiver, or the user has gone back to the receiver shown before an
\* earlier pick was answered (on_pick, which asks for nothing then).
THEOREM WindowReattaches == SysSpec /\ [][Unrobbed /\ Patient]_sysvars => []Reattached
<1>1. SysInv /\ [SysNext]_sysvars => SysInv'
  BY SysInvStep
<1>2. SysInv /\ Scene /\ AllInformed /\ [SysNext]_sysvars => Scene'
  BY SceneStep
<1>3. SysInv /\ Attachments /\ AllInformed /\ [SysNext]_sysvars => AllInformed' /\ Attachments'
  BY HubStep, InformedStep, AttachmentsStep DEF SysInv, SysTypeOK
<1>4. SysInv /\ AllListed /\ [SysNext]_sysvars => AllListed'
  BY HubStep, ListedStep DEF SysInv, SysTypeOK
<1>5. /\ SysInv /\ SysInv' /\ Scene /\ Scene' /\ Attachments /\ AllInformed /\ AllInformed' /\ AllListed /\ Meeting
      /\ Unheard /\ Attentive /\ [SysNext]_sysvars /\ [Unrobbed /\ Patient]_sysvars
      => Unheard' /\ Attentive'
  <2>1. CASE Unrobbed /\ Patient
    BY <2>1, AttentiveStep DEF SysInv, SysTypeOK
  <2>2. CASE UNCHANGED sysvars
    <3>1. UNCHANGED <<link, view, receivers, target, up, app, net>>
      BY <2>2 DEF sysvars
    <3> QED
      BY <3>1 DEF Unheard, Attentive, Wanting, Supposed, Listening, Newly, Bound, Awaits, Reminded, Learns, Now
  <2> QED
    BY <2>1, <2>2
<1>6. SysInv /\ AllInformed /\ AllListed /\ Scene /\ Attentive => Reattached
  BY SettledReattached
<1> QED
  BY <1>1, <1>2, <1>3, <1>4, <1>5, <1>6, MeetingAlways, AttentiveBegins, PTL DEF SysSpec

\* With a single window, it is only the user who can hinder it.
THEOREM SingleWindowReattaches ==
    ASSUME \A p, q \in Providers : p = q
    PROVE  SysSpec /\ [][Patient]_sysvars => []Reattached
<1>1. SysInv /\ SysInv' /\ Attachments' /\ [SysNext]_sysvars /\ [Patient]_sysvars => [Unrobbed /\ Patient]_sysvars
  BY AloneUnrobbed DEF SysInv, SysTypeOK
<1>2. SysInv /\ [SysNext]_sysvars => SysInv'
  BY SysInvStep
<1>3. SysInv /\ Attachments /\ [SysNext]_sysvars => Attachments'
  BY HubStep, AttachmentsStep DEF SysInv, SysTypeOK
<1> QED
  BY <1>1, <1>2, <1>3, MeetingAlways, WindowReattaches, PTL DEF SysSpec
=============================================================================
