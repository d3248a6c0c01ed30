------------------------------ MODULE MCLifecycle ------------------------------
(***************************************************************************)
(* An instance of ServerLifecycle in which the pool is short of            *)
(* connections: more requests than it has, of more than one statement.     *)
(***************************************************************************)
EXTENDS ServerLifecycle

CONSTANTS r1, r2, r3, c1, c2
==============================================================================
