--------------------------- MODULE GrantLifecycle ---------------------------
(***************************************************************************)
(* What the token endpoint promises of a grant, whatever runs at once: a   *)
(* grant is carried by one token at a time, each token carries it once,    *)
(* and a grant that closed never opens again.                              *)
(***************************************************************************)
CONSTANTS Grants, Tokens, None

VARIABLES stage,    \* what each grant came to
          current,  \* the one token that carries on each open grant
          minted    \* the tokens ever given out

vars == <<stage, current, minted>>

Init ==
  /\ stage = [g \in Grants |-> "none"]
  /\ current = [g \in Grants |-> None]
  /\ minted = {}

\* A code is exchanged: its grant opens with its first token.
Open(g, t) ==
  /\ stage[g] = "none"
  /\ t \notin minted
  /\ stage' = [stage EXCEPT ![g] = "open"]
  /\ current' = [current EXCEPT ![g] = t]
  /\ minted' = minted \cup {t}

\* A token is rotated: the next one takes its place at once.
CarryOn(g, t) ==
  /\ stage[g] = "open"
  /\ t \notin minted
  /\ current' = [current EXCEPT ![g] = t]
  /\ minted' = minted \cup {t}
  /\ stage' = stage

\* Grants are taken back, or what they rest on ends.
Close(G) ==
  /\ \A g \in G : stage[g] = "open"
  /\ stage' = [g \in Grants |-> IF g \in G THEN "closed" ELSE stage[g]]
  /\ current' = [g \in Grants |-> IF g \in G THEN None ELSE current[g]]
  /\ minted' = minted

\* A token given out too late: its grant closed while it was being written.
MintLate(g, t) ==
  /\ stage[g] \in {"none", "closed"}
  /\ t \notin minted
  /\ stage' = [stage EXCEPT ![g] = "closed"]
  /\ minted' = minted \cup {t}
  /\ current' = current

Next ==
  \/ \E g \in Grants, t \in Tokens : Open(g, t) \/ CarryOn(g, t) \/ MintLate(g, t)
  \/ \E G \in SUBSET Grants : Close(G)

Spec == Init /\ [][Next]_vars
=============================================================================
