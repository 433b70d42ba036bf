----------------------------- MODULE Attachment -----------------------------
(***************************************************************************)
(* What the relay promises about "who types into what", with connections,  *)
(* queues and messages left out: receivers come and go under a name, each  *)
(* provider types into at most one online name, and each name is typed     *)
(* into by at most one provider, the last one that asked for it.           *)
(***************************************************************************)
CONSTANTS Providers, \* provider connections
          Names,     \* display names of receivers
          None       \* no receiver

VARIABLES online,    \* the names providers are offered
          typingInto \* the name each provider types into, or None

avars == <<online, typingInto>>

AInit == /\ online = {}
         /\ typingInto = [p \in Providers |-> None]

Without(n) == [p \in Providers |-> IF typingInto[p] = n THEN None ELSE typingInto[p]]

\* A receiver comes online under n; if n is taken, the newcomer replaces the
\* previous connection and nobody types into it yet.
Appear(n) == /\ online' = online \cup {n}
             /\ typingInto' = Without(n)

Vanish(n) == /\ n \in online
             /\ online' = online \ {n}
             /\ typingInto' = Without(n)

\* p types into n, taking it over from whoever typed into it.
Attach(p, n) == /\ n \in online
                /\ typingInto' = [Without(n) EXCEPT ![p] = n]
                /\ UNCHANGED online

Detach(p) == /\ typingInto' = [typingInto EXCEPT ![p] = None]
             /\ UNCHANGED online

ANext == \/ \E n \in Names : Appear(n) \/ Vanish(n)
         \/ \E p \in Providers : Detach(p) \/ \E n \in Names : Attach(p, n)

ASpec == AInit /\ [][ANext]_avars

=============================================================================
