---------------------------- MODULE MCE2ESession ----------------------------
(***************************************************************************)
(* Two providers and two receivers; r1 authorizes only p1.                 *)
(***************************************************************************)
EXTENDS E2ESession

CONSTANTS p1, p2, r1, r2

MCAuthorized == [r \in Receivers |-> IF r = r1 THEN {p1} ELSE {p1, p2}]
=============================================================================
