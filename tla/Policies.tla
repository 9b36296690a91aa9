------------------------------ MODULE Policies ------------------------------
(***************************************************************************)
(* How the policies of a question are weighed (saffui-core/src/authz/      *)
(* policy.rs and decide.rs): the conditions of each are read from facts of *)
(* which some may be missing, and a policy that cannot tell never permits. *)
(*                                                                         *)
(* A text stands for the set of its parts, a list for the set of its       *)
(* items, and two numbers that are worth the same are one.  How a text     *)
(* begins or ends is asked as what it contains; a boolean is compared as a *)
(* number is, by equality alone; a span of time has both its ends.         *)
(***************************************************************************)
EXTENDS Integers, Sequences, FiniteSets, SequencesExt

CONSTANTS Attributes,  \* what may be known of the subject or of the resource
          Values,      \* what an attribute may be worth
          Held,        \* the roles and the groups
          Moments,     \* the instants a question may be asked at
          Candidates,  \* the conditions that may be written
          MaxConditions, MaxPolicies

PoliciesAssumption ==
  /\ MaxConditions \in Nat /\ MaxPolicies \in Nat /\ Moments \subseteq Nat
  /\ \A v \in Values : v.kind \in {"number", "text", "list", "missing"}

Missing == [kind |-> "missing"]
Scalars == {"number", "text"}

VARIABLES policies, \* those that apply to the question, in the order of their names
          facts,    \* what is known
          at,       \* how many are weighed
          permitted, undecided, \* the first that permits, the first that cannot tell
          verdict

vars == <<policies, facts, at, permitted, undecided, verdict>>

-----------------------------------------------------------------------------
(* A condition.                                                            *)

Facts == [held : SUBSET Held, worth : [Attributes -> Values \union {Missing}], now : Moments]

Truth(holds) == IF holds THEN "holds" ELSE "fails"

\* An operand is a value as written, or the attribute it names.
ReadOperand(operand, f) == IF operand.kind = "attribute" THEN f.worth[operand.of] ELSE operand

\* Whether an operator takes two values of these kinds.
Takes(operator, left, right) ==
  CASE operator = "equals" -> TRUE
    [] operator = "contains" -> left.kind = "text" /\ right.kind = "text"
    [] operator = "in" -> left.kind \in Scalars /\ right.kind = "list"
    [] OTHER -> left.kind = "number" /\ right.kind = "number"

IsSameValue(left, right) == left.kind = right.kind /\ left.of = right.of

Answers(operator, left, right) ==
  CASE operator = "equals" -> IsSameValue(left, right)
    [] operator = "contains" -> right.of \subseteq left.of
    [] operator = "in" -> \E item \in right.of : IsSameValue(item, left)
    [] operator = "gt" -> left.of > right.of
    [] operator = "gte" -> left.of >= right.of
    [] operator = "lt" -> left.of < right.of
    [] operator = "lte" -> left.of <= right.of

\* Mutant: what is missing is taken for a no.
CompareMissing(operator, left, right) ==
  IF operator = "present" THEN Truth(left # Missing)
  ELSE IF Missing \in {left, right} THEN "fails"
  ELSE IF ~Takes(operator, left, right) THEN "unknown"
  ELSE Truth(Answers(operator, left, right))

Compare(operator, left, right) ==
  IF operator = "present" THEN Truth(left # Missing)
  ELSE IF Missing \in {left, right} \/ ~Takes(operator, left, right) THEN "unknown"
  ELSE Truth(Answers(operator, left, right))

EvaluateCondition(c, f) ==
  CASE c.kind = "held" -> Truth(c.of \in f.held)
    [] c.kind = "attribute" -> Compare(c.operator, ReadOperand(c.left, f), ReadOperand(c.right, f))
    [] c.kind = "time" -> IF c.readable THEN Truth(c.from <= f.now /\ f.now < c.until) ELSE "unknown"

\* What check_conditions admits of a condition: one operand for present and two
\* for the others, bounds that are read and in order.  A value of any kind.
Admits(c) ==
  CASE c.kind = "held" -> c.of \in Held
    [] c.kind = "attribute" -> (c.operator = "present") <=> (c.right = Missing)
    [] c.kind = "time" -> c.readable /\ c.from < c.until

-----------------------------------------------------------------------------
(* A policy.                                                               *)

Admitted == {c \in Candidates : Admits(c)}
AdmittedPolicies ==
  [effect : {"permit", "deny"}, combine : {"all", "any"}, readable : {TRUE},
   conditions : {s \in SUBSET Admitted : Cardinality(s) \in 1..MaxConditions}]

\* One that another version wrote and this one does not read.
Unread == [effect : {"permit", "deny"}, combine : {"all", "any"}, readable : {FALSE}, conditions : {{}}]

Decisive(p) == IF p.combine = "all" THEN "fails" ELSE "holds"
Truths(p, f) == {EvaluateCondition(c, f) : c \in p.conditions}

\* One decisive condition settles a policy, whatever the others are; without
\* one, a policy that cannot read a condition cannot tell.
EvaluatePolicy(p, f) ==
  IF ~p.readable \/ p.conditions = {} THEN "undecided"
  ELSE IF Decisive(p) \in Truths(p, f) THEN IF p.combine = "any" THEN p.effect ELSE "silent"
  ELSE IF "unknown" \in Truths(p, f) THEN "undecided"
  ELSE IF p.combine = "any" THEN "silent" ELSE p.effect

-----------------------------------------------------------------------------
(* The question.                                                           *)

Nobody == 0

Init ==
  /\ policies \in SeqOf(AdmittedPolicies \union Unread, MaxPolicies)
  /\ facts \in Facts
  /\ at = 0 /\ permitted = Nobody /\ undecided = Nobody
  /\ verdict = [is |-> "none yet", by |-> Nobody]

FirstOf(was, outcome, wanted) == IF was = Nobody /\ outcome = wanted THEN at + 1 ELSE was

\* weigh_policies, one policy: a denial ends it.
WeighOne ==
  /\ verdict.is = "none yet" /\ at < Len(policies)
  /\ at' = at + 1
  /\ LET outcome == EvaluatePolicy(policies[at + 1], facts)
     IN /\ permitted' = FirstOf(permitted, outcome, "permit")
        /\ undecided' = FirstOf(undecided, outcome, "undecided")
        /\ verdict' = IF outcome = "deny" THEN [is |-> "deny", by |-> at + 1] ELSE verdict
  /\ UNCHANGED <<policies, facts>>

\* A policy that cannot tell is heard before one that permits.
Conclude ==
  /\ verdict.is = "none yet" /\ at = Len(policies)
  /\ verdict' = CASE undecided # Nobody -> [is |-> "undecided", by |-> undecided]
                  [] undecided = Nobody /\ permitted # Nobody -> [is |-> "permit", by |-> permitted]
                  [] OTHER -> [is |-> "no policy", by |-> Nobody]
  /\ UNCHANGED <<policies, facts, at, permitted, undecided>>

Next == WeighOne \/ Conclude
Spec == Init /\ [][Next]_vars

-----------------------------------------------------------------------------
(* Properties.                                                             *)

All == {policies[i] : i \in DOMAIN policies}

\* The facts as they may turn out to be, once what is missing is known.
Completions(f) ==
  {g \in [Attributes -> Values] : \A x \in Attributes : f.worth[x] \in {Missing, g[x]}}
Known(f, g) == [f EXCEPT !.worth = g]

\* Whether a policy asks if something is there at all.
AsksPresence(p) == \E c \in p.conditions : c.kind = "attribute" /\ c.operator = "present"

Outcomes(f) == {EvaluatePolicy(p, f) : p \in All}

\* What was permitted, denied or left to nobody stays so, whatever the missing
\* facts turn out to be and in whichever order the policies are read, where
\* none asks whether a fact is missing.
VerdictIsSure ==
  verdict.is \in {"permit", "deny", "no policy"} /\ (\A p \in All : ~AsksPresence(p)) =>
    \A g \in Completions(facts) :
      LET said == Outcomes(Known(facts, g))
      IN CASE verdict.is = "deny" -> "deny" \in said
           [] verdict.is = "permit" -> "permit" \in said /\ said \subseteq {"permit", "silent"}
           [] verdict.is = "no policy" -> said \subseteq {"silent"}
=============================================================================
