----------------------------- MODULE MCDecided ------------------------------
(***************************************************************************)
(* Small instances of what is decided from what is kept, known or          *)
(* presented: the disclosures of a token, the walk of relations, the       *)
(* policies weighed, and the question that reads them while they change.   *)
(* A behaviour is one of these; the variables of the others stay still.    *)
(***************************************************************************)
EXTENDS MCDisclosures, MCRelationWalk, MCPolicies

CONSTANTS NoOne, Deadlines, Changes, MaxChanges

VARIABLES part,
          walking, walked,
          policies, facts, at, permitted, undecided, weighed,
          world, step, who, says, read, answer, seen, changes

walk == <<walking, walked>>
weighing == <<policies, facts, at, permitted, undecided, weighed>>
question == <<world, step, who, says, read, answer, seen, changes>>

-----------------------------------------------------------------------------
(* Tokens of this issuer whose holder binds what is presented, and tokens  *)
(* of others; those nobody binds are what the constants are given for.     *)

Bound == INSTANCE Disclosures
  WITH Issues <- FewIssues, Elsewhere <- {}, Policies <- BoundPolicies,
       MaxPresented <- 2, MaxBound <- 2, MaxClock <- 2

Foreign == INSTANCE Disclosures
  WITH Issues <- {}, Elsewhere <- MCElsewhere

-----------------------------------------------------------------------------
(* Walks that reach no bound, while the relations change; and walks of     *)
(* relations that stand still, under bounds low enough to be reached.      *)

Changing == INSTANCE RelationWalk
  WITH None <- NoMember, Objects <- MCObjects, Members <- MCMembers, Schemas <- BothSchemas,
       Tuples <- FewTuples, Questions <- SeesFirst, Deadlines <- {99},
       MaxDepth <- 9, MaxReads <- 9, MaxFanout <- 9, MaxSteps <- 99, asked <- walking

Reaching == INSTANCE RelationWalk
  WITH None <- NoMember, Objects <- MCObjects, Members <- MCMembers, Schemas <- BothSchemas,
       Tuples <- MoreTuples, Questions <- SeesFirst, Changes <- {0},
       MaxDepth <- 4, MaxReads <- 4, MaxFanout <- 1, MaxSteps <- 5, asked <- walking

-----------------------------------------------------------------------------
(* Two policies of up to two conditions.                                   *)

Weighing == INSTANCE Policies
  WITH Attributes <- {"x", "y"}, Values <- MCValues, Held <- {"role"}, Moments <- {0, 1},
       Candidates <- MCCandidates, MaxConditions <- 2, MaxPolicies <- 2, verdict <- weighed

-----------------------------------------------------------------------------
(* A question about a realm that changes twice: a permission for a role,   *)
(* one for a scope of the token, and a denial for a group.  A person       *)
(* disabled before the question was asked has policies that would permit.  *)

Permission == [effect |-> "permit", needs |-> {"approver"}]
Denial == [effect |-> "deny", needs |-> {"staff"}]
Scoped == [effect |-> "permit", needs |-> {"scope"}]
Stands ==
  {w \in [asker : {TRUE}, session : {TRUE}, person : BOOLEAN, service : {TRUE},
          schema : [form : {"none", "own", "other", "closed"}, defines : BOOLEAN],
          guard : BOOLEAN, related : {FALSE}, policies : SUBSET {Permission, Denial} \union {{Scoped}},
          roles : SUBSET {"approver", "foreign"}, groups : SUBSET {"staff"}] :
     w.person \/ w.schema.form = "none"}

Asking == INSTANCE Questions
  WITH Roles <- {"approver"}, Others <- {"foreign"}, Groups <- {"staff"}, Claims <- {"scope"},
       Policies <- {Permission, Scoped, Denial}, FirstWorlds <- Stands, MaxHeld <- 1

ASSUME DecidedAssumption ==
  /\ Changing!WalkAssumption
  /\ Reaching!WalkAssumption
  /\ Weighing!PoliciesAssumption
  /\ Asking!QuestionsAssumption

-----------------------------------------------------------------------------
NoWalk == walking = NoOne /\ walked = NoMember
NoWeighing ==
  /\ policies = <<>> /\ facts = NoOne /\ at = 0 /\ permitted = NoOne /\ undecided = NoOne
  /\ weighed = [is |-> "none yet", by |-> NoOne]
NoQuestion ==
  /\ world = NoOne /\ step = "ask" /\ who = NoOne /\ says = NoOne /\ read = NoOne
  /\ answer = "none" /\ seen = NoOne /\ changes = 0

MCInit ==
  /\ Init
  /\ \/ part \in {"opened", "bound", "foreign"} /\ NoWalk /\ NoWeighing /\ NoQuestion
     \/ part = "changing" /\ Changing!Init /\ NoWeighing /\ NoQuestion
     \/ part = "reaching" /\ Reaching!Init /\ NoWeighing /\ NoQuestion
     \/ part = "weighing" /\ Weighing!Init /\ NoWalk /\ NoQuestion
     \/ part = "asking" /\ Asking!Init /\ NoWalk /\ NoWeighing

MCNext ==
  /\ UNCHANGED part
  /\ \/ part = "opened" /\ Next /\ UNCHANGED <<walk, weighing, question>>
     \/ part = "bound" /\ Bound!Next /\ UNCHANGED <<walk, weighing, question>>
     \/ part = "foreign" /\ Foreign!Next /\ UNCHANGED <<walk, weighing, question>>
     \/ part = "changing" /\ Changing!Next /\ UNCHANGED <<vars, weighing, question>>
     \/ part = "reaching" /\ Reaching!Next /\ UNCHANGED <<vars, weighing, question>>
     \/ part = "weighing" /\ Weighing!Next /\ UNCHANGED <<vars, walk, question>>
     \/ part = "asking" /\ Asking!Next /\ UNCHANGED <<vars, walk, weighing>>

MCSpec == MCInit /\ [][MCNext]_<<vars, walk, weighing, question, part>>

-----------------------------------------------------------------------------
(* Properties, beside those of Disclosures.                                *)

\* Policies!VerdictIsSure: a verdict holds whatever the missing facts turn out
\* to be, and in whichever order the policies are read.
VerdictIsSure == part = "weighing" => Weighing!VerdictIsSure

\* Questions!DecidedOnWhatWas: an answer is the one of a realm each of whose
\* facts held at some moment of the question, and of what the token says.
DecidedOnWhatWas == part = "asking" => Asking!DecidedOnWhatWas

\* RelationWalk!WalkIsTrue, WorkGrowsWithMembers: a permit rests on relations
\* kept at some moment of the walk, a bound or a loop is never taken for a no,
\* and no member is walked twice.
WalkIsTrue ==
  /\ part = "changing" => Changing!WalkIsTrue /\ Changing!WorkGrowsWithMembers
  /\ part = "reaching" => Reaching!WalkIsTrue
=============================================================================
