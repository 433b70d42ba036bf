---------------------------- MODULE ProviderApp ----------------------------
(***************************************************************************)
(* The native provider (provider.py): class ProviderApp on top of          *)
(* NetClient.  All of it runs in the Tk thread, one callback at a time,    *)
(* except that the modal dialog of trusted() runs a nested event loop:     *)
(* events stay queued, timers and focus events do not.                     *)
(***************************************************************************)
EXTENDS NetClient

CONSTANT FirstPins \* what the providers have pinned when they start

VARIABLES
    app,    \* the fields of ProviderApp
    pinned  \* the key pinned for each receiver name (peers_dir/<name>.pub), or None

\* session: None, or its ephemeral key and the receiver whose reply was
\* verified (None before); asking: the trust dialog is open.
Offline == [connected |-> FALSE, receivers |-> {}, current |-> None, desired |-> None,
            requested |-> None, session |-> None, asking |-> FALSE, pressed |-> {}]

Window == [connected : BOOLEAN, receivers : SUBSET Names, current : Names \cup {None},
           desired : Names \cup {None}, requested : Names \cup {None},
           session : {None} \cup [epk : Ephemerals, with : Receivers \cup {None}],
           asking : BOOLEAN, pressed : SUBSET KeyCodes]

AppInit == /\ NetInit
           /\ app = [p \in Providers |-> Offline]
           /\ pinned = FirstPins

\* ProviderApp.live
Live(a) == a.connected /\ a.current # None /\ a.session # None /\ a.session.with # None

\* session.encrypt of a message, sent if there is a live session.
SealIfLive(p, plain) ==
    IF Live(app[p]) THEN <<Blob(Sealed(p, app[p].session.epk, app[p].session.with, plain))>>
    ELSE << >>

GivenUp(a) == [a EXCEPT !.session = None, !.desired = None, !.requested = None]

\* request_select
AskFor(p, n) == NetSends(p, <<SelectReq(n)>>)

\* The ephemeral keys p may still be asked about: with those that receivers hold
\* they are taken.
Own(p) == InEvents(p) \cup IF app[p].session = None THEN {} ELSE {<<p, app[p].session.epk>>}

-----------------------------------------------------------------------------
(* Messages from the relay (handle_msg, handle_e2e).  Each operator takes  *)
(* the message at the head of the queue.                                   *)

\* The list: if the receiver the user wants is online, and neither attached
\* nor asked for, ask for it.
OnReceivers(p, m) ==
    LET a == [app[p] EXCEPT !.receivers = m.names]
        ask == a.desired \in m.names /\ a.current # a.desired /\ a.requested # a.desired
    IN  /\ app' = [app EXCEPT ![p] = IF ask THEN [a EXCEPT !.requested = a.desired] ELSE a]
        /\ IF ask THEN AskFor(p, a.desired) ELSE UNCHANGED up

\* mutant: a session that is there goes on after a new attachment
Continues(a, e) == IF a.session = None THEN [a EXCEPT !.session = [epk |-> e, with |-> None]] ELSE a

Starts(a, e) == [a EXCEPT !.session = [epk |-> e, with |-> None]]

\* A new attachment starts a new session; the old one is forgotten.
OnSelected(p, m, held) ==
    \/ /\ m.who = None
       /\ app' = [app EXCEPT ![p] = [@ EXCEPT !.current = None, !.requested = None, !.session = None]]
       /\ UNCHANGED up
    \/ /\ m.who # None
       /\ \E e \in Fresh(p, held \cup Own(p)) :
             /\ app' = [app EXCEPT ![p] = Starts([@ EXCEPT !.current = m.who, !.requested = None], e)]
             /\ NetSends(p, <<Blob(Hs1(p, e))>>)

GiveUp(p) == /\ app' = [app EXCEPT ![p] = GivenUp(@)]
             /\ AskFor(p, None)

Confirm(p, a) == /\ app' = [app EXCEPT ![p] = a]
                 /\ NetSends(p, <<Blob(Sealed(p, a.session.epk, a.session.with, ReleaseAll))>>)

\* trusted(): a key pinned under any name passes; an unknown one opens a dialog.
KnownKey(p, r) == \E n \in Names : pinned[p][n] = KeyOf[r]

\* The signature check of Session.finish.
Answers(p, b) == b.answers = <<p, app[p].session.epk>>

OnE2E(p, b) ==
    LET a == app[p]
        waiting == a.session # None /\ a.current # None /\ a.session.with = None
        keyed == [a EXCEPT !.session.with = b.pub]
    IN  \/ b.step = "err" /\ GiveUp(p)
        \/ b.step # "err" /\ ~ (b.step = "hs2" /\ waiting) /\ UNCHANGED <<app, up>>
        \/ b.step = "hs2" /\ waiting /\ ~ Answers(p, b) /\ GiveUp(p)
        \/ /\ b.step = "hs2" /\ waiting /\ Answers(p, b) /\ KnownKey(p, b.pub)
           /\ Confirm(p, keyed)
        \/ /\ b.step = "hs2" /\ waiting /\ Answers(p, b) /\ ~ KnownKey(p, b.pub)
           /\ app' = [app EXCEPT ![p] = [keyed EXCEPT !.asking = TRUE]]
           /\ UNCHANGED up

\* mutant: the unanswered request survives the connection it was made on
LostKeepingRequest(a) == [Offline EXCEPT !.desired = a.desired, !.requested = a.requested]

\* A lost connection: the window forgets all but what the user picked.
Lost(a) == [Offline EXCEPT !.desired = a.desired]

Handles(p, m, held) ==
    \/ m.type = "receivers" /\ OnReceivers(p, m)
    \/ m.type = "selected" /\ OnSelected(p, m, held)
    \/ m.type = "e2e" /\ OnE2E(p, m.body)
    \/ m.type = "notice" /\ UNCHANGED <<app, up>>

\* poll takes the next event, unless the dialog is open: one that waits, or else
\* the next message of the connection.
Poll(p, held) ==
    /\ ~ app[p].asking
    /\ \/ /\ net[p].events # << >>
          /\ net' = [net EXCEPT ![p].events = Tail(@)]
          /\ LET e == Head(net[p].events)
             IN  \/ /\ e.kind = "connected"
                    /\ app' = [app EXCEPT ![p].connected = TRUE]
                    /\ UNCHANGED up
                 \/ /\ e.kind = "disconnected"
                    /\ app' = [app EXCEPT ![p] = Lost(@)]
                    /\ UNCHANGED up
                 \/ e.kind = "msg" /\ Handles(p, e.msg, held)
          /\ UNCHANGED vars
       \/ /\ net[p].events = << >> /\ net[p].up
          /\ Deliver(p)
          /\ Handles(p, Head(link[p].queue), held)
          /\ UNCHANGED net
    /\ UNCHANGED pinned

\* The dialog closes.  A key that differs from the one pinned for the name is
\* only shown as an error; a new one may be accepted, and is pinned then.
Answer(p, yes) ==
    LET n == app[p].current
        a == [app[p] EXCEPT !.asking = FALSE]
        key == KeyOf[a.session.with]
    IN  /\ app[p].asking
        /\ yes => pinned[p][n] = None
        /\ \/ /\ yes
              /\ pinned' = [pinned EXCEPT ![p][n] = key]
              /\ Confirm(p, a)
           \/ /\ ~ yes
              /\ app' = [app EXCEPT ![p] = GivenUp(a)]
              /\ AskFor(p, None)
              /\ UNCHANGED pinned
        /\ UNCHANGED <<vars, net>>

-----------------------------------------------------------------------------
(* The user.                                                               *)

\* A click in the list; nothing is asked for if that receiver is attached.
OnPick(p, n) ==
    LET ask == n # app[p].current
        a == [app[p] EXCEPT !.desired = n]
    IN  /\ ~ app[p].asking
        /\ n \in app[p].receivers
        /\ app' = [app EXCEPT ![p] = IF ask THEN [a EXCEPT !.requested = n] ELSE a]
        /\ IF ask THEN AskFor(p, n) ELSE UNCHANGED up
        /\ UNCHANGED <<vars, net, pinned>>

OnStop(p) == /\ ~ app[p].asking
             /\ GiveUp(p)
             /\ UNCHANGED <<vars, net, pinned>>

OnKeyDown(p, c) == /\ ~ app[p].asking
                   /\ c \notin app[p].pressed
                   /\ app' = [app EXCEPT ![p].pressed = @ \cup {c}]
                   /\ NetSends(p, SealIfLive(p, KeyMsg(c, TRUE)))
                   /\ UNCHANGED <<vars, net, pinned>>

\* On X11 a timer commits the release, also while the dialog is open.
OnKeyUp(p, c) == /\ c \in app[p].pressed
                 /\ app' = [app EXCEPT ![p].pressed = @ \ {c}]
                 /\ NetSends(p, SealIfLive(p, KeyMsg(c, FALSE)))
                 /\ UNCHANGED <<vars, net, pinned>>

OnFocusOut(p) == /\ app' = [app EXCEPT ![p].pressed = {}]
                 /\ NetSends(p, SealIfLive(p, ReleaseAll))
                 /\ UNCHANGED <<vars, net, pinned>>
=============================================================================
