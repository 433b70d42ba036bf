# kbrelay in TLA+

kbrelay lets a *provider* (somebody's keyboard) type into a *receiver* (a machine
with a virtual keyboard) through a *relay* that knows who is attached to whom but
cannot read what is typed. This directory specifies the protocol logic of the
programs in `src/`, checks it with TLC on small instances, and proves what matters
most for instances of any size with TLAPS.

## The system

| part | source | state it keeps | operations |
|---|---|---|---|
| relay | `server.py`: `Hub`, `Peer` | registered receivers by name; connected providers; `target` and `provider`, the two ends of each attachment | a client joins, leaves, is replaced; `select`; forwarding; SIGHUP |
| connection | `kbrelay_common.py`: `Connection`, `ping_loop` | a queue of outgoing messages, `closed` | `send`, the writer task, `close`, `recv` with a timeout |
| end-to-end session | `kbrelay_common.py`: `Session` | ephemeral key, derived keys, two counters | `hello`, `accept`, `finish`, `encrypt`, `decrypt` |
| native provider | `provider.py`: `ProviderApp`, `NetClient` | receivers, `current`, `desired`, `requested`, session, keys held; pinned keys on disk | relay messages, the trust dialog, picking, stopping, key and focus events, reconnecting |
| keyboard capture | `provider.py`: `on_key_down` to `on_focus_out` | `pressed`, `pending_release` | key events, timers of delayed releases, focus |
| receiver | `receiver.py`: `Receiver` | session | relay messages, handshakes, sealed messages, reconnecting |
| virtual keyboard | `receiver.py`: `Keyboard` | keys held down | `key`, `release_all`, `type_text` |
| web gateway | `gateway.py`: `RelayProvider`, `websocket`, the page | as the native provider, without `requested`; open pages | as the native provider, driven by several browser pages |
| login | `gateway.py`: `login_submit`, tokens | failures, a time until which logins are refused | login |

Each client has one TLS connection to the relay; messages on it are ordered. What a
provider and a receiver say to each other is relayed as blobs. The relay and the
gateway are single asyncio threads, the receiver too; the native provider has a
network thread that feeds the Tk thread through a queue, and its modal trust dialog
runs a nested event loop in which timers and focus events still fire.

What is hard here: an attachment is written by hand in three places at both ends;
a replaced or dead connection stays registered until its handler ends; every client
learns of changes only through messages, while its user goes on acting on what it
believed; handshakes answer requests that may be superseded; connections break with
anything under way, and either end may notice first; and a key press has to be
followed by its release whatever happens in between. `PROJECT.json` lists each of
these hazards at its line, with the properties that would catch it.

## Modules

| module | models | composed of |
|---|---|---|
| `Attachment` | the promise of the relay: who types into which online name | |
| `Hub` | the relay and its connections | refines `Attachment` |
| `Clients` | what the client programs share: requests, blobs, breaking connections | extends `Hub` |
| `NetClient` | the native provider's connection thread and its queue of events | extends `Clients` |
| `ProviderApp` | the native provider's window: session logic | extends `NetClient` |
| `ReceiverApp` | the receiver | extends `Clients` |
| `KbRelay` | providers, relay and receivers together | `ProviderApp`, `ReceiverApp` |
| `Gateway` | the gateway's provider and its pages | extends `Clients` |
| `GatewayRelay` | gateways, relay and receivers together | `Gateway`, `ReceiverApp` |
| `E2ESession` | end-to-end sessions over a network that loses, repeats and reorders | |
| `Keyboard` | the virtual keyboard and the messages that wait for it | |
| `Capture` | the native provider's window: key events and timers | extends `Keyboard` |
| `Pad` | the gateway's page and its websockets: what becomes of keys, buttons, text | extends `Keyboard` |
| `Typing` | from the user's fingers to the device, with either front end | `Capture`, `Pad` |
| `HubProofs`, `NewsProofs` | theorems about `Hub`: its state; what clients are told | |
| `E2EProofs` | theorems about `E2ESession` | |
| `ClientProofs` | lemmas about what `KbRelay` and `GatewayRelay` share | |
| `ExchangeProofs` | lemmas about what is on its way between a provider and its receiver, for the same two | |
| `KbRelayProofs` | theorems about `KbRelay`: types, the relay in it; what windows show; sessions and keys once all has arrived | |
| `GatewayProofs` | theorems about `GatewayRelay`: the same for gateways and pages | |
| `TypingProofs` | theorems about `Typing`: types, strikes, the order of text, the device that follows `Keyboard` | |
| `MCHub`, `MCKbRelay`, `MCGateway`, `MCE2ESession`, `MCTyping` | instances for TLC | |

**Hub.** A *peer* is one connection, so one device may be two peers: a half-open
connection and its replacement. An action is what a handler does between two awaits:
`ReceiverJoin` is the end of `handshake` and the start of `run_receiver`, `Select` and
`ProviderLeave` are `select`, `Revalidate` is SIGHUP. `link[x]` is the relay's
`Connection` to `x`: `"closed"` means that `close()` has run while the handler has not
ended, which is why the handler of a closed connection still acts (`Select` and
`Forward` need `"open"` or `"closed"`). Its queue is what the client has not consumed
yet. `Put` is `Connection.send`: it drops on a closed connection and closes one whose
queue is full. `view` is history, what each client has been told. The TLS and
challenge exchange before a peer exists, and rejected clients, leave no state and are
left out; reading a key folder is looking at `auth`.

**Clients, NetClient, ProviderApp, ReceiverApp, KbRelay.** `up[x]` is what client `x` has
sent and the relay has not read. `net[p]` is the connection thread of provider `p`: whether
it has a connection, and the events the window has not taken. The thread connects and
reconnects while the window is busy, above all with the trust dialog, and what the window
sends then for a session of the old connection goes out on the new one (`NetSends`).
Received messages stay in `link[p].queue`, from which `Poll` takes them directly; only when
the connection is lost are those the thread had passed on moved into `events`, which is
what the code's queue holds at that point. The fields of `app[p]` and `rx[r]` have the names
of the fields of `ProviderApp` and `Receiver`; `session.with` is the receiver whose reply
verified (`recv_aead is not None`), `asking` is `in_dialog`. `Poll` is one turn of `poll`,
and it does nothing while the dialog is open. Cryptography is symbolic: a session is named
by the provider's ephemeral key and the receiver that answered, a signature is the claim it
makes.

**Gateway.** `gw[p].now` has the fields of `RelayProvider` and `gw[p].shown` the state
last pushed to its pages; `secure` is `session.with # None`, since the two always
change together in the code. `page[b].held` are the keys a page has sent down and not
up. A page and its handler are an ordered stream, so sending and handling are one
step.

**Keyboard, Capture, Pad, Typing.** Here a session is there or not (`live`), `wire` is what
the receiver has not handled, and one provider types: the window on X11, on Windows, or the
gateway's pages (`front`). `device` is what the input device believes to be down, apart from
`kb.down`, which is `Keyboard.down`; `TypeNext` is one round of the loop of `type_text`, with
the pauses between them in which nothing else is received. `_type_external` looks for its
helper at every call, so each call either types what waits (`Helped`) or drops it with a
warning (`Unhelped`; a helper that fails does the same); `lost` records what was dropped. `cap` has `pressed` and
`pending_release`; the latter's pairs carry the time of the release, since X11 repeats a key
by a release and a press of the same time. `xevents` queues what the window has not handled,
so a timer fires before or after any of it. `page[b]` is a page and `handlers[b]` counts the
websocket handlers at the gateway that have not ended: the handler of a broken socket may end
after the page has opened the next one. A sticky button sends the name `LEFTSHIFT`, which the
gateway's table of browser key names does not have.

**E2ESession.** `net` keeps every blob ever sent and any of them may arrive at any
time, any number of times; nothing arrives that nobody sent, and signatures and sealed
messages are not forged. Session keys are named by what `_derive` mixes into them.

## What the runs show

Runs that must pass (`tlc -config X.cfg M`):

| run | instance | properties |
|---|---|---|
| `hub_attach` (`MCHub_attach.cfg`) | 2 providers; 2 connections of one receiver device, 1 of another whose name the first may ask for; revoking, approving, SIGHUP | the four parts of `Attachments`, `NoRevokedSession`, `TypeOK`; `Attachment` (refinement); `DeadReceiverReleased` (liveness) |
| `relay_switch` (`MCKbRelay_switch.cfg`) | 1 provider, 2 receiver devices of which one refuses the provider and loses its connection | `SysTypeOK`, `TypingWhereShown`, `NoStuckKeys`, `SessionsAgree` |
| `relay_takeover` (`MCKbRelay_takeover.cfg`) | 2 providers, 1 receiver; one provider has to ask its user about the key, the other reads so slowly that its queue of 3 overflows | `NoStuckKeys`, `SessionsAgree`; `ToldPartner`, `BlobsInContext`, `ToldList` |
| `relay_reconnect` (`MCKbRelay_reconnect.cfg`) | 1 provider that has pinned no key, 1 receiver device with an old and a new connection; both clients lose connections, also while the trust dialog is open | `NoStuckKeys`, `SessionsAgree`, `Reattached` |
| `gateway_relay` (`MCGateway_relay.cfg`) | 1 gateway with a page, 2 receiver devices of which one is not trusted; the gateway's connection and one receiver's break | `WebTypeOK`, `TypedWhereShown`, `NoKeyLeftByPages`, `SecureAsPicked`, `PagesShowTruth`, `GatewayReattached` |
| `e2e_session` (`MCE2ESession.cfg`) | 2 providers, 2 receivers, 5 ephemeral keys, 2 messages per session | `E2ETypeOK`, `TypedInOrder`, `NextIsOpened`, `TypedIsAuthorized` |
| `typing` (`MCTyping.cfg`) | the window on X11 and on Windows with 2 shifts, a key and PrintScreen; the gateway with 2 pages; a session that comes and goes | `TypingTypeOK`, `DeviceFollows`, `TextInOrder`, `TypedAsStruck`, `EveryStrikeIsTyped`; `LiftedIsLifted`, `PagesGone` (liveness) |

Properties "once everything has arrived" are about `Settled` (or `Quiet`) states: nothing is
queued, no window has events to take, and every client knows whether it is connected. In
between, disagreement is normal.

Each property of these runs has a mutant, an operator such as `LeftNothing` or
`LostKeepingRequest` that stands before the definition it would replace: with it, TLC
finds the property violated.

Runs that must find a violation, where the code does something else than the
repository says (`findings` in `PROJECT.json`):

| run | what happens |
|---|---|
| `label_closes_session` | SIGHUP compares a key's file name with the display name, and closes the sessions of clients that asked for a name of their own though their key file is there |
| `click_loses` | click A (attached), B, and A again before the relay has answered: the last click asks for nothing, since A is still `current`, and typing goes to B |
| `late_reply_forgets` | a receiver is left and picked again while its handshake reply is under way: the reply fails under the new session, and the provider forgets the pick |
| `sticky_does_nothing` | the sticky modifiers of the gateway's page send names that the gateway does not translate, so they never reach the receiver |
| `used_before_trust` | while the trust dialog is open the session already counts as live, and the focus-out sends a sealed message in it |

The gateway differs from the native provider in both directions. It sends every pick
to the relay, so what `click_loses` shows cannot happen (`SecureAsPicked`, whose
mutant `PickAsksIfNew` is the native provider's test). It does not remember what it
has asked for (`requested`), so a list that arrives before the reply makes it ask
twice; the reply to the first handshake then fails and the pick is given up. That
leaves a consistent state, which the pages show (`PagesShowTruth`).

What these properties do not say:

* Of a gateway that has given its pick up, `SecureAsPicked` and `GatewayReattached` claim
  nothing, so they do not show that a pick is never lost in the way just described.
* `TypingWhereShown` and `TypedWhereShown` compare what is shown with the name the receiver
  has registered. A key that is pinned under one name is accepted under every other
  (`provider.py:379`), and no property is about that.
* `PagesGone` is about pages that have gone. The handler of a broken socket also releases
  keys that are held over the page's next socket; nothing in the repository says otherwise.
* Where no helper is installed, `TextInOrder` says of a text only that what has a key comes
  out, in order.

## Bounds, and why they are enough

* `MaxQueue` is 5000 in the code and 3 or less here. Queues overflow in `relay_takeover`
  (and in `hub_attach`, where their contents are not told apart, see below); in the other
  passing runs of the whole system at most at the edge of `MaxBacklog`.
* `SlowProvider` and `BoundedButFull` (only `relay_takeover`): one provider's queue may
  overflow in the middle of an exchange, no other client's. A full queue then counts as
  2 messages and that of a closed connection as 1 against `MaxBacklog`, so that the request
  that makes it overflow, and what comes of it, are within the bound. The provider reads
  nothing more from the closed connection and, with a receiver picked, does not come back
  (clients that do are what `relay_reconnect` is about). The mutant of `ToldPartner`, a full
  queue that loses messages and stays open, is found in this run.
* `MaxBacklog` bounds the requests and messages under way in the whole system. An
  exchange that confuses somebody has two or three: a superseded request or reply, the
  one that supersedes it, and a blob between them.
* `MaxUp` bounds the unread requests to which a user may add another one.
* Three ephemeral keys per run: one in use at a provider, one still held by a
  receiver, one under way. They are reused once nothing mentions them, which loses no
  behaviour since code never compares old ones; they are interchangeable.
* `Unreliable` names the clients whose network may fail; a connection that the other
  end has ended breaks in any case.
* `MaxEvents` bounds what a busy window leaves untaken: 1 to 3 events, the third being
  "connected" after a message and a loss. In `relay_reconnect` it is 3.
* `StaysFocused`: focus is lost only while a key is held, since it changes nothing
  otherwise, and an attempt to connect fails only when the window has taken all events,
  since a second "disconnected" in a row changes nothing. `PatientUser` (only `relay_reconnect`): the user does not pick again while
  a request is unanswered. Without it, `Reattached` fails for the reason that
  `click_loses` shows.
* `PromptRefusal` (only `relay_switch`): the receiver that refuses everybody reads what it
  is told, or loses its connection, before anything else happens; reading changes nothing in
  it. The other receiver reads when it will.
* `hub_attach` has `VIEW Core`: the contents of queues and `view` decide nothing about
  the rest, except that a full queue closes a connection, which a failing writer may do
  at any time. One state then stands for all contents of the queues. The runs of the
  whole system leave out only `view`, which no step reads.
* `gateway_relay`: `PagesReopen` (in `MCGateway`) lets a page that has closed open again
  before anything else happens, which stands for another page that was open all the time;
  a page closes or releases all keys only while one is held, and keys do not repeat. The
  receiver that is not trusted is online from the start and reads at once (`R3Online`).
* `typing`: `MaxMoves` bounds what the user, the pages and the network do (5 for a window, 6
  for pages; the programs' own steps are not counted) and `MaxBehind` how far ahead of the
  programs they are. Two strikes, a repetition, a lift and a loss of focus make every race of
  a timer; opening a page twice, pressing, breaking and reopening make those of handlers.
  `MaxHandlers` is 2: the old one and the new one. `UsualHands`: on Windows a user holds one
  variant of a modifier at a time, and on X11 PrintScreen is left out. Holding both shifts
  on Windows, `TypedAsStruck` and `LiftedIsLifted` fail: a release that is reported for the
  other variant lifts that one, the repetition of the one still held presses it again, and
  only one release is left for two pressed keys, so that one stays down until the focus is
  lost. The code's comment (`provider.py:35`) is about one variant held at a time.
* `e2e_session`: 5 ephemeral keys make two complete handshakes and an odd half.

No run checks for deadlock: users may stop acting, and bounded counters run out.

**Fairness.** `DeadReceiverReleased` assumes that the handler of a receiver's closed
connection ends some time: `close()` closes the transport, so `readline` returns at once or,
at the latest, `READ_TIMEOUT` expires. `LiftedIsLifted` and `PagesGone` assume that the three
event loops go on: Tk handles an event that waits and fires a timer that is due, and the
receiver's loop reads on and types on (its pauses are timed sleeps). All of it is weak
fairness of single actions of single programs. Nothing else is assumed to happen, neither
users, nor pages, nor the network; safety properties need no fairness at all.

## What is proved

For any number of connections, keys, names and messages, from the assumptions
`HubAssumption`, `ClientsAssumption`, `SysAssumption`, `GatewayAssumption`,
`KeyboardAssumption`, `CaptureAssumption`, `PadAssumption`, `TypingAssumption` and
`E2EAssumption` about the constants, which TLC evaluates in every run of their modules:

* `HubProofs`: `TypeCorrect` (`TypeOK`). `AttachmentsHold`: the invariant is the
  conjunction `Attachments` of `AttachmentSymmetric`, `AttachedIsRegistered`,
  `OfferedIsConnected` and `OpenIsRegistered`. Three of them hold up by themselves;
  `AttachedIsRegistered` does not: a leaving or replaced receiver is detached through
  its own `provider` field, which clears the right provider's `target` only because the
  two ends agree, and a provider is attached to what it finds under a name, which is the
  receiver of that name and connected only by `OfferedIsConnected`.
  The lemmas say what `Retarget`, `DetachReceivers` and the operators on links do, once
  each. `RevocationHolds` (`NoRevokedSession`): a new session needs a key in the
  folder, and SIGHUP closes all others, which needs `OpenIsRegistered`, since SIGHUP
  visits registered receivers only. `ImplementsAttachment`: every step of `Hub` is a
  step of `Attachment` or none, with the registered names as `online` and the name of
  each provider's target as `typingInto`.
* `E2EProofs`: `E2ETypeCorrect` and `SessionsHold` (`TypedInOrder`, `NextIsOpened`,
  `TypedIsAuthorized`). A receiver's new key is later than the handshake it answers
  (`Handshakes`), so the keys under which a receiver opens messages of one provider are
  intervals between the provider's and the receiver's ephemeral key; `Intervals` and
  `Disjoint` say that these do not overlap, so that an old session never comes back once
  a later one has been used, whatever handshake is replayed. `Behind` relates what was
  opened to the present key and counter.

* `NewsProofs`: `NewsIsTrue` (`ToldPartner`, `BlobsInContext`) and `ListsAreTrue`
  (`ToldList`). The invariant of the first, `AllInformed`, says of every connection what
  its queue leads to: read in order, from what the client has been told so far, it ends
  with the partner the client has at the relay, and no forwarded blob stands in it before
  the announcement of its sender or after that of its end. Every step that touches an
  attachment puts the announcement behind what is queued; a blob is forwarded only
  between partners, which agree by `Attachments`; and a full queue closes the
  connection, of which nothing is claimed.
* `KbRelayProofs`: `SystemTypeCorrect` (`SysTypeOK`), with the strengthening that a
  trust dialog is about a reply that has been verified and that only its maker sends a
  reply. `SystemRunsHub`: a step of the whole system is one of `Hub` or leaves it alone,
  whence `SystemAttachments` and `SystemImplementsAttachment`.
  `TypingIsWhereShown` (`TypingWhereShown`). A window acts on what it
  believed some messages ago, so the invariant `Scene` joins `AllInformed` with the events
  that wait in the window: what the window believes, the messages in its events and those
  in its connection, in this order, lead to the partner the relay has for it (`Minded`),
  also when the connection thread has lost or renewed the connection while the dialog was
  open. `Carries` says that replies name their sender, so that when the window verifies
  a reply its maker is the receiver that the window shows as `current` (`Shown`).
  `SessionsDoAgree` (`SessionsAgree`) and `NoKeyIsStuck` (`NoStuckKeys`) speak of states in
  which everything has arrived, and follow from the invariant `Meeting` about everything
  that has not (below). Here the way of a provider goes on into the events of its window:
  replies may wait there behind a dialog (`Early`), and `Agreed` claims something only of a
  window with a connection and no news of another attachment among its events. `Upright`
  says what makes that enough: a window has a session only while it believes itself
  connected to a receiver, and its events alternate between lost and new connections.
  `WindowReattaches` and `SingleWindowReattaches` (`Reattached`), by the invariant `Attentive`.
  A window does not ask a second time while a request is unanswered, so it acts as if it
  had what it has asked for (`Supposed`); this must not outlive the connection of the
  request, and does not, since a lost connection clears `requested` and nothing is taken from
  the next one before the event of the loss (`Newly`). The theorems assume `Patient`, that
  nobody picks the receiver shown while a request for another one or its answer is under way,
  for then the window asks for nothing and is attached to what it asked for before, as
  `click_loses` shows. That is less than `PatientUser` asks in the run.
* `ExchangeProofs`, shared by the systems of windows and of gateways: the exchange of a
  provider with the receiver it is attached to. Requests the relay has not read and messages
  the receiver has not consumed make up one way, `Way`, on which a blob is a handshake, a
  sealed message, or something that ends the receiver's session. `Agrees` claims
  something of a provider only while the relay will tell it nothing it does not know, it has
  asked for no attachment, and the receiver has its connection (`Still`): then it has a
  session exactly if it is attached, and `Exchange` says that the session is in one
  of three stages. Its handshake is on the way, once, with nothing behind it that ends the
  session it starts, and no reply to it exists; or the handshake was refused, and so was
  everything since; or it was accepted, the receiver is in the session, only that receiver
  has replied, and the keys that will be down when the way has been travelled (`LeftDown`)
  are held by the user. Every step of providers, relay and receivers is shown to keep the
  stage or to lead to the next one. A state in which everything has arrived is one with an
  empty way, where the stages come down to the properties; but they cannot be proved about
  such states alone, since the step that empties the way may undo anything that is said
  about an empty one. `Sane` is the receiver's side: no key is down without a session, and a
  session is one of the provider it has been told of last.
  The rest of the module is about attaching again. After whatever takes its receiver from a
  provider, the next list that has the receiver makes the provider ask for it, unless
  it believes it has it (or, in a window, has asked for it). So the invariant is about all
  lists that are still to be read: `Reminded` says that if the provider is attached to nothing
  at the relay, and the receiver is online, there is a list in its queue that has the receiver
  and that is read when the provider believes otherwise (`Prompts`). `Awaits` claims it once the
  relay has read what the provider has asked for, and `Bound`, that on its connection a provider
  gets the receiver picked last or none, by an attachment it has already or by the last request
  the relay has not read. A receiver that joins or leaves puts a list on every queue, behind the
  news of what it ends; a new connection begins with one; but a provider that loses its receiver
  to another one is told, and sent no list. It then stays as it is although the receiver
  is online, until the next list. So the theorems assume `Unrobbed`, that no step takes a
  receiver from one provider for another; with a single provider that follows
  (`AloneUnrobbed`). `Learns` says that the list it goes by is the last it was sent, or another
  is on its way.

* `GatewayProofs`: `PagesTypeWhereShown` (`WebTypeOK`, `TypedWhereShown`) along the same
  argument, with what the pages were shown last in the place of the window: they are not
  told of a pick, so what they show may be the receiver before, but only while there is no
  session to type into. `WebRunsHub` as above. What the two systems share, `Carries` and
  what the relay's handlers and the receivers do to it, is in `ClientProofs`.
  `PagesLeaveNoKey` (`NoKeyLeftByPages`) and `PagesSettle` (`SecureAsPicked`,
  `PagesShowTruth`) along the argument of `ExchangeProofs`, with the keys held on all open
  pages of the gateway in the place of the user's (`HeldBy`). A gateway has no dialog and no
  events, but a pick changes its `desired` before the relay has read the request, which is
  what `Bound` is for; `Picked` joins it with what the pages were shown, which is the
  gateway's state unless an answer is on its way.
  `GatewayReattaches` and `SingleGatewayReattaches` (`GatewayReattached`), by the invariant
  `Awaiting`: a gateway asks with every list in which it sees the receiver picked while it
  believes itself attached to something else.
* `TypingProofs`: `DeviceFollowsMarks` (`DeviceFollows`), which is inductive by itself
  because no character has the key of a shift (`KeyboardAssumption`). `TypingTypeCorrect`
  (`TypingTypeOK`), from the stronger `Types`: every event that waits and every message on
  the wire is of a kind its reader knows and about keys there are, with times no later than
  now; sets of keys are sent in some order, which takes that they are finite.
  `TextStaysInOrder` (`TextInOrder`): the helper is called before the next character that
  has a key, so each round of `type_text` only moves the border between what is out, what
  waits for the helper and the rest (`Passed`); and what waits for the helper has no keys
  (`TextKept`), so nothing else is lost where there is none. `StrikesAreTyped` (`TypedAsStruck`,
  `EveryStrikeIsTyped`), of users who on Windows hold one variant of a modifier at a time
  (`OneVariant`). The window handles a strike long after it was made, so the invariant
  `Hands` speaks of every event that waits: `MayBeDown` are the keys that may be down when
  the window comes to it, because they are now or an event before presses them and none
  lifts them since. Before a strike these are keys that were held when it was made, not its
  own; behind the last event they are keys the user holds (`InHand`), which the next strike
  inherits; on Windows they never contain both variants of a modifier (`Apart`), which is why
  a release that is reported for the wrong variant lifts the right one; and times grow, so no
  strike has the time of a release that is held back (`Timed`).

Only model-checked: what the runs with an expected violation show; and liveness, which is
out of the prover's reach.

## What is not modelled

* An exception inside `poll` (a malformed list, an unreadable pinned key), after which the
  window is never polled again: what can raise there depends on data that a well-behaved
  relay and file system do not produce.
* A failing uinput device: `emit` raises `OSError`, which ends the receiver's session with
  keys marked down; the kernel interface gives no reason for it to fail once opened.
* In the whole system (`KbRelay`, `GatewayRelay`) keys are pressed and released, no more;
  what X11 and Windows make of it, text and its typing are in `Typing`, where in turn
  sessions only come and go. What the two have in common is that a session ends with a
  `release_all` of the receiver itself and begins with one of the provider.
* The tables of key names and characters, except for whether they have an entry (`JsToCode`,
  `CharMap`). The drawing of pages and windows.
* The login of the gateway (`login_submit`): the gate is three assignments around one await,
  and what the README promises is a rate, which is real time. Tokens are cryptography.
* Pings and read timeouts as such: a connection may break at any time instead. Providers
  that are half open at the relay occur in `Hub` (two peers), not in `KbRelay`.
* Changing keys in the whole system: `auth` changes in the runs of `Hub` only, receivers'
  folders (`Allows`) are fixed. SIGHUP and failing writers are in the runs of `Hub` only.
* TLS, certificates, proxies, the challenge, passwords and tokens, configuration,
  command lines, launch scripts and packaging.

