---------------------------- MODULE ReceiverApp ----------------------------
(***************************************************************************)
(* The receiver (receiver.py): class Receiver and the keys its Keyboard    *)
(* holds down.  It handles one message of the relay after the other.       *)
(***************************************************************************)
EXTENDS Clients

CONSTANT Allows \* the providers whose key is in each receiver's folder

VARIABLES rx \* the fields of Receiver: its connection, its session, the keys held down

Idle(connected) == [connected |-> connected, session |-> None, down |-> {}]

Device == [connected : BOOLEAN, session : {None} \cup (Providers \X Ephemerals),
           down : SUBSET KeyCodes]

RxInit == rx = [r \in Receivers |-> Idle(FALSE)]

Held == {rx[r].session : r \in Receivers}

\* mutant: the session ends, but the keys it pressed stay down
OnAttachmentHolding(r) == /\ rx' = [rx EXCEPT ![r].session = None]
                          /\ UNCHANGED up

\* attached and detached end the session and release every key.
OnAttachment(r) == /\ rx' = [rx EXCEPT ![r] = Idle(TRUE)]
                   /\ UNCHANGED up

\* A handshake ends the session whether it is accepted or not.
OnHs1(r, b) ==
    \/ /\ b.pub \in Allows[r]
       /\ rx' = [rx EXCEPT ![r] = [Idle(TRUE) EXCEPT !.session = <<b.pub, b.epk>>]]
       /\ Send(r, <<Blob(Hs2(r, b.pub, b.epk))>>)
    \/ /\ b.pub \notin Allows[r]
       /\ rx' = [rx EXCEPT ![r] = Idle(TRUE)]
       /\ Send(r, <<Blob(Err)>>)

\* mutant: release_all is not understood
TypedKeysOnly(down, m) == IF m.type = "key" /\ m.down THEN down \cup {m.code}
                          ELSE IF m.type = "key" THEN down \ {m.code} ELSE down

\* What the message does to the keys held down (Keyboard.key, release_all).
Typed(down, m) == CASE m.type = "release_all" -> {}
                    [] m.type = "key" /\ m.down -> down \cup {m.code}
                    [] OTHER -> down \ {m.code}

\* A message that does not decrypt under the session's keys is dropped.
OnSealed(r, b) ==
    /\ rx' = IF rx[r].session # None /\ b.keys = Append(rx[r].session, r)
             THEN [rx EXCEPT ![r].down = Typed(@, b.plain)]
             ELSE rx
    /\ UNCHANGED up

RxConsumes(r) ==
    /\ rx[r].connected
    /\ Deliver(r)
    /\ LET m == Head(link[r].queue)
       IN  \/ m.type \in {"attached", "detached"} /\ OnAttachment(r)
           \/ m.type = "e2e" /\ m.body.step = "hs1" /\ OnHs1(r, m.body)
           \/ m.type = "e2e" /\ m.body.step = "ct" /\ OnSealed(r, m.body)
           \/ m.type = "notice" /\ UNCHANGED <<rx, up>>

\* One program holds one connection at a time; it may leave an old one behind
\* that the relay still believes in.
RxConnects(r) == /\ \A s \in Receivers : KeyOf[s] = KeyOf[r] => ~ rx[s].connected
                 /\ ReceiverJoin(r)
                 /\ rx' = [rx EXCEPT ![r] = Idle(TRUE)]
                 /\ UNCHANGED up

\* mutant: the keys stay down when the connection is lost
RxDisconnectsHolding(r) == /\ rx[r].connected
                           /\ rx' = [rx EXCEPT ![r] = [Idle(FALSE) EXCEPT !.down = rx[r].down]]
                           /\ UNCHANGED <<vars, up>>

RxDisconnects(r) == /\ rx[r].connected
                    /\ rx' = [rx EXCEPT ![r] = Idle(FALSE)]
                    /\ UNCHANGED <<vars, up>>
=============================================================================
