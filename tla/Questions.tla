----------------------------- MODULE Questions ------------------------------
(***************************************************************************)
(* The point of decision (saffui-core/src/authz/decide.rs): a client asks  *)
(* whether the subject of a token may take an action on a resource, and is *)
(* answered from the relations kept or from its own policies.  Each fact   *)
(* is read by a statement of its own, which sees what was committed before *)
(* it: people, roles, policies and schemas change between any two.  The    *)
(* scopes and the client of the subject are the exception: they are what   *)
(* the token says, signed when it was minted.                              *)
(*                                                                         *)
(* One client, one type and one action.  What weighs the policies is       *)
(* module Policies, what walks the relations RelationWalk, and who may     *)
(* write which definition Definitions: here a policy applies when its      *)
(* subject holds what it needs, and a walk finds the relation or not.      *)
(***************************************************************************)
EXTENDS Naturals, FiniteSets

CONSTANTS Roles,       \* the roles a policy of the client may name
          Others,      \* roles another client defines
          Groups,
          Claims,      \* the scopes and clients a policy may ask of a token
          Policies,    \* [effect, needs]: what its subject holds, or its token says
          FirstWorlds, \* how the realm may stand when the question is asked
          MaxHeld,     \* the roles, and the groups, that are read at most
          MaxChanges   \* bound: changes of the realm during the question

QuestionsAssumption ==
  /\ Policies \subseteq [effect : {"permit", "deny"}, needs : SUBSET (Roles \union Groups \union Claims)]
  /\ {MaxHeld, MaxChanges} \subseteq Nat

\* A schema is "none", opens as this version wrote it ("own"), was written by
\* another version and opens from its source ("other"), or does not open
\* ("closed").
IsOpen(schema) == schema.form \in {"own", "other"}

\* What the locks of the definitions keep: no policy of a type the schema defines.
IsConsistent(w) == /\ IsOpen(w.schema) /\ w.schema.defines => w.policies = {}
                   /\ ~IsOpen(w.schema) => ~w.schema.defines

VARIABLES world,   \* the realm, as it is committed
          step,    \* the next step of the question
          who,     \* whose token it carries: "person" or "service"
          says,    \* the scopes and the client that token was minted with
          read,    \* what it has read
          answer,
          seen,    \* each fact as it has been since the question was asked
          changes

vars == <<world, step, who, says, read, answer, seen, changes>>

Unread == [guard |-> FALSE, policies |-> {}, roles |-> {}]

Init ==
  /\ world \in FirstWorlds /\ IsConsistent(world)
  /\ who \in {"person", "service"} /\ says \in SUBSET Claims
  /\ step = "ask" /\ read = Unread /\ answer = "none" /\ changes = 0
  /\ seen = [x \in DOMAIN world |-> {world[x]}]

Go(to) == step' = to /\ UNCHANGED <<world, who, says, read, answer, seen, changes>>
Note(to, x, v) == step' = to /\ read' = [read EXCEPT ![x] = v] /\ UNCHANGED <<world, who, says, answer, seen, changes>>
Say(a) == step' = "done" /\ answer' = a /\ read' = Unread /\ UNCHANGED <<world, who, says, seen, changes>>

-----------------------------------------------------------------------------
(* The question.                                                           *)

\* authenticate_client, the question itself, and a share of the questions, which
\* may be refused.
Authenticate ==
  /\ step = "ask"
  /\ \/ IF world.asker THEN Go("subject") ELSE Say("unauthenticated")
     \/ world.asker /\ \E a \in {"invalid", "busy"} : Say(a)

\* read_subject: the token verifies or not, then whom it is for is read.
VerifySubject ==
  /\ step = "subject"
  /\ Go(IF who = "person" THEN "session" ELSE "service") \/ Say("subject_unknown")

ReadService == step = "service" /\ IF world.service THEN Go("schema") ELSE Say("subject_unknown")

\* read_live_subject, in two statements.
ReadSession == step = "session" /\ IF world.session THEN Go("person") ELSE Say("subject_unknown")

\* Mutant: the session answers for its person, who is read no more.
TrustSession == step = "person" /\ Go("schema")

ReadPerson == step = "person" /\ IF world.person THEN Go("schema") ELSE Say("subject_unknown")

\* read_schema_for: the compiled form and whether the client guards the type, in
\* one statement.  A form of another version sends to the source.
ReadSchema ==
  /\ step = "schema"
  /\ CASE world.schema.form = "none" -> Go("policies")
       [] world.schema.form = "own" ->
            Go(IF world.schema.defines /\ world.guard THEN "walk" ELSE "policies")
       [] OTHER -> Note("source", "guard", world.guard)

\* The source as it is now, with the guard as it was.
ReadSource ==
  /\ step = "source"
  /\ IF ~IsOpen(world.schema)
     THEN Say("schema_unreadable")
     ELSE Go(IF world.schema.defines /\ read.guard THEN "walk" ELSE "policies")

\* decide_by_relations: the question names no object or no relation of the type,
\* or the walk ends, or reaches one of its limits.
WalkRelations ==
  /\ step = "walk"
  /\ \/ Say(IF world.related THEN "relation" ELSE "no_relation")
     \/ \E a \in {"undecided", "relation_unknown", "invalid"} : Say(a)

\* decide_by_policies: the policies, the roles, then the groups.
ListApplicablePolicies ==
  /\ step = "policies"
  /\ IF world.policies = {}
     THEN Say("no_policy")
     ELSE Note(IF who = "person" THEN "roles" ELSE "weigh", "policies", world.policies)

\* read_held_roles, those of the realm and of this client kept.
ReadRoles ==
  /\ step = "roles"
  /\ IF Cardinality(world.roles) > MaxHeld
     THEN Say("held_too_many")
     ELSE Note("groups", "roles", world.roles \ Others)

\* weigh_policies: a denial wins, and nothing that applies is a denial.
Weigh(policies, held) ==
  LET applies == {p.effect : p \in {q \in policies : q.needs \subseteq held}}
  IN  CASE "deny" \in applies -> "denied" [] applies = {"permit"} -> "policy" [] OTHER -> "no_policy"

ReadGroupsAndWeigh ==
  /\ step = "groups"
  /\ IF Cardinality(world.groups) > MaxHeld
     THEN Say("held_too_many")
     ELSE Say(Weigh(read.policies, read.roles \union world.groups \union says))

WeighForService == step = "weigh" /\ Say(Weigh(read.policies, says))

\* The storage fails, or the caller goes.
Fail == step # "done" /\ Say("failed")

Question ==
  \/ Authenticate \/ VerifySubject \/ ReadService \/ ReadSession \/ ReadPerson \/ ReadSchema \/ ReadSource
  \/ WalkRelations \/ ListApplicablePolicies \/ ReadRoles \/ ReadGroupsAndWeigh \/ WeighForService \/ Fail

-----------------------------------------------------------------------------
(* The realm changes: each change is one commit of another call.           *)

Becomes(x, v) ==
  /\ v # world[x] /\ IsConsistent([world EXCEPT ![x] = v])
  /\ step # "done" /\ changes < MaxChanges
  /\ world' = [world EXCEPT ![x] = v]
  /\ seen' = [seen EXCEPT ![x] = @ \union {v}]
  /\ changes' = changes + 1
  /\ UNCHANGED <<step, who, says, read, answer>>

Change ==
  \/ Becomes("asker", FALSE) \/ Becomes("session", FALSE)
  \/ Becomes("person", FALSE) \/ Becomes("service", FALSE)
  \* write_relation_schema: this version writes its own form.
  \/ \E d \in BOOLEAN : Becomes("schema", [form |-> "own", defines |-> d])
  \/ \E b \in BOOLEAN : Becomes("guard", b) \/ Becomes("related", b)
  \/ \E p \in Policies : Becomes("policies", world.policies \union {p}) \/ Becomes("policies", world.policies \ {p})
  \/ \E r \in Roles \union Others : Becomes("roles", world.roles \union {r}) \/ Becomes("roles", world.roles \ {r})
  \/ \E g \in Groups : Becomes("groups", world.groups \union {g}) \/ Becomes("groups", world.groups \ {g})

Next == Question \/ Change

Spec == Init /\ [][Next]_vars

-----------------------------------------------------------------------------
(* Properties.                                                             *)

\* What a realm that stands still answers: the reference.
Verdict(w) ==
  LET live == IF who = "person" THEN w.session /\ w.person ELSE w.service
      held == says \union IF who = "person" THEN (w.roles \ Others) \union w.groups ELSE {}
  IN  CASE ~w.asker -> "unauthenticated"
        [] ~live -> "subject_unknown"
        [] w.schema.form = "closed" -> "schema_unreadable"
        [] IsOpen(w.schema) /\ w.schema.defines /\ w.guard -> IF w.related THEN "relation" ELSE "no_relation"
        [] OTHER -> Weigh(w.policies, held)

\* The realms whose every fact held at some moment of the question.
Moments == [asker : seen.asker, session : seen.session, person : seen.person, service : seen.service,
            schema : seen.schema, guard : seen.guard, related : seen.related,
            policies : seen.policies, roles : seen.roles, groups : seen.groups]

\* An answer that decides is the one of a realm each of whose facts held at
\* some moment of the question, and of what the token says: no session, person,
\* service, role, membership, policy or relation that ended before it was asked
\* permits or denies (decide.rs, decide).  Scopes and the client of the token do,
\* as they were when it was minted.
DecidedOnWhatWas ==
  answer \in {"relation", "no_relation", "policy", "denied", "no_policy", "schema_unreadable"} =>
    \E w \in Moments : Verdict(w) = answer
=============================================================================
