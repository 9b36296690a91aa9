------------------------------ MODULE MCAnswered ------------------------------
(* An instance of TokenGrants for liveness and for refinement: which       *)
(* request calls what is fixed, so that requests that wait on each other   *)
(* fit in a small graph.                                                   *)
EXTENDS MCTokenGrants

CONSTANTS r1, r2, r3

\* A code is exchanged, its token rotated, and two calls take both back.
AnsweredOperations ==
  [r \in Requests |-> CASE r = r1 -> {"exchange"}
                        [] r = r2 -> {"exchange", "rotate"}
                        [] r = r3 -> {"rotate", "revoke"}
                        [] OTHER -> {"rotate", "logout"}]
=============================================================================
