--------------------------- MODULE GrantRefinement ---------------------------
(***************************************************************************)
(* The endpoints of TokenGrants, statement by statement, implement the     *)
(* lifecycle of a grant: the current token of a family is the one a        *)
(* rotation would accept, and a family with none is closed.                *)
(***************************************************************************)
EXTENDS TokenGrants

IsOpened(f) == IsGranted(f, "exchange")

CurrentTokens(f) == {t \in Family(f) : Spendable(t)}

stageBar == [f \in Requests |->
  IF ~IsOpened(f) THEN "none" ELSE IF CurrentTokens(f) = {} THEN "closed" ELSE "open"]

currentBar == [f \in Requests |->
  IF CurrentTokens(f) = {} THEN None ELSE CHOOSE t \in CurrentTokens(f) : TRUE]

mintedBar == {t \in Requests : pc[t] = "granted" /\ family[t] # None}

Lifecycle == INSTANCE GrantLifecycle
  WITH Grants <- Requests, Tokens <- Requests,
       stage <- stageBar, current <- currentBar, minted <- mintedBar

\* Every step of every handler is a step of the lifecycle of some grants, or
\* changes none: what the token endpoint promises holds of the statements as
\* they are written.
ImplementsLifecycle == Lifecycle!Spec
=============================================================================
