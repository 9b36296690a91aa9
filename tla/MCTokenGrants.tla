---------------------------- MODULE MCTokenGrants ----------------------------
(* Small instances of TokenGrants for TLC.                                 *)
EXTENDS GrantRefinement, TLC

MCRows == Codes \cup Requests \cup Sessions \cup (Persons \X Clients)

\* One person holds every session.  One code is issued, to a client the person
\* allowed everything.
MCPersonOf == [s \in Sessions |-> CHOOSE p \in Persons : TRUE]
MCGrant == [client |-> CHOOSE k \in Clients : TRUE, session |-> CHOOSE s \in Sessions : TRUE,
            scopes |-> Scopes]
MCIssued == [c \in Codes |-> IF c = CHOOSE d \in Codes : TRUE THEN MCGrant ELSE None]
MCConsented == [x \in Persons \X Clients |-> Scopes]

\* Every request may call any endpoint, within what follows.
MCOperations == [r \in Requests |-> Kinds]

Taking == {"exchange", "rotate", "revoke", "logout"}
Resting == {"authorize", "allow", "exchange", "rotate", "withdraw"}
Aging == {"exchange", "rotate"}

Begun == {r \in Requests : pc[r] # "idle"}
CallsOnly(kinds) == \A r \in Begun : asked[r].op \in kinds

\* What is explored: the calls that take a grant back, or those that rest on
\* the consent of a person, at one instant; and the calls of the token
\* endpoint, one less of them, while time passes and rows are purged.
Within ==
  \/ now = 0 /\ CallsOnly(Taking)
  \/ now = 0 /\ CallsOnly(Resting)
  \/ CallsOnly(Aging) /\ Cardinality(Begun) < Cardinality(Requests)

RequestSymmetry == Permutations(Requests)
=============================================================================
