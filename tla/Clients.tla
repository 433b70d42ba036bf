------------------------------ MODULE Clients ------------------------------
(***************************************************************************)
(* What the two client programs share: the incoming half of a relay        *)
(* connection, the requests a client makes, and the end-to-end blobs they  *)
(* exchange through the relay.                                             *)
(*                                                                         *)
(* Cryptography is symbolic.  A session is named by the ephemeral key of   *)
(* the provider that started it and the receiver that answered: only these *)
(* two hold its keys.  A signature is the claim it makes, so a reply to    *)
(* another ephemeral than one's own is a bad signature.  Counters are left *)
(* to module E2ESession: on this path messages stay in order.              *)
(***************************************************************************)
EXTENDS Hub

CONSTANTS Ephemerals, \* names for the ephemeral keys of providers
          KeyCodes,   \* keys on a keyboard
          Unreliable  \* the clients whose network may fail

VARIABLES up \* each client's requests that the relay has not read yet

SelectReq(n) == [type |-> "select", receiver |-> n]
Blob(b) == [type |-> "blob", body |-> b]

Hs1(p, e) == [step |-> "hs1", pub |-> p, epk |-> e]

\* mutant: the receiver signs its own identity in the place of the provider's
Hs2Misbound(r, p, e) == [step |-> "hs2", pub |-> r, answers |-> <<r, e>>]

Hs2(r, p, e) == [step |-> "hs2", pub |-> r, answers |-> <<p, e>>]
Err == [step |-> "err"]
Sealed(p, e, r, plain) == [step |-> "ct", keys |-> <<p, e, r>>, plain |-> plain]

ReleaseAll == [type |-> "release_all"]
KeyMsg(c, d) == [type |-> "key", code |-> c, down |-> d]

Plain == {ReleaseAll} \cup [type : {"key"}, code : KeyCodes, down : BOOLEAN]
Blobs == {Err} \cup [step : {"hs1"}, pub : Providers, epk : Ephemerals]
               \cup [step : {"hs2"}, pub : Receivers, answers : Providers \X Ephemerals]
               \cup [step : {"ct"}, keys : Providers \X Ephemerals \X Receivers, plain : Plain]
Request == [type : {"select"}, receiver : Names \cup {None}] \cup [type : {"blob"}, body : Blobs]

\* The sessions a provider may be in: an ephemeral key, and the receiver whose reply
\* was verified (None before).
Session == [epk : Ephemerals, with : Receivers \cup {None}]

\* The blobs the relay forwards are those the clients send, none of them near the
\* limit; None is not a session.
ASSUME ClientsAssumption == /\ Payloads = Blobs /\ Oversize \cap Blobs = {}
                            /\ None \notin Session \cup (Providers \X Ephemerals)

\* Connection.send on the client.  Once the relay has dropped the connection
\* what a client sends is lost, whether the client knows of it or not.
Send(x, requests) ==
    up' = IF link[x].state = "none" THEN up ELSE [up EXCEPT ![x] = @ \o requests]

\* An ephemeral key of p nobody has seen: no message under way mentions it, and
\* none of the sessions in taken uses it.
Mentions(b, p, e) == CASE b.step = "hs1" -> b.pub = p /\ b.epk = e
                       [] b.step = "hs2" -> b.answers = <<p, e>>
                       [] b.step = "ct" -> b.keys[1] = p /\ b.keys[2] = e
                       [] OTHER -> FALSE

Fresh(p, taken) ==
    {e \in Ephemerals :
        /\ <<p, e>> \notin taken
        /\ \A x \in Peers :
              /\ \A i \in 1..Len(up[x]) :
                    up[x][i].type = "blob" => ~ Mentions(up[x][i].body, p, e)
              /\ \A i \in 1..Len(link[x].queue) :
                    link[x].queue[i].type = "e2e" => ~ Mentions(link[x].queue[i].body, p, e)}

\* The relay's handler of x reads one request and acts on it.
ServerReads(x) ==
    /\ link[x].state # "none"
    /\ up[x] # << >>
    /\ up' = [up EXCEPT ![x] = Tail(@)]
    /\ LET m == Head(up[x])
       IN  \/ m.type = "select" /\ x \in Providers /\ Select(x, m.receiver)
           \/ m.type = "blob" /\ Forward(x, m.body)
           \/ m.type = "blob" /\ Partner(x) = None /\ UNCHANGED vars

\* The relay's handler of x ends; what it had not read is lost.
ServerDrops(x) == Leave(x) /\ up' = [up EXCEPT ![x] = << >>]

\* A connection breaks where the network may fail, or because the other end has
\* ended it already; "clients" are the clients that believe they are connected.
ServerSeesBreak(x, clients) == x \in Unreliable \/ link[x].state = "closed" \/ x \notin clients
ClientSeesBreak(x) == x \in Unreliable \/ link[x].state # "open"

\* Nothing is under way and every client knows whether it is connected.
Quiet(clients) == \A x \in Peers : /\ link[x].queue = << >> /\ up[x] = << >>
                                   /\ link[x].state # "closed"
                                   /\ x \in clients <=> link[x].state # "none"
=============================================================================
