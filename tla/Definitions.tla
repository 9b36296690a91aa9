---------------------------- MODULE Definitions -----------------------------
(***************************************************************************)
(* The definitions of the authorization of one realm: the schema of        *)
(* relations and the relations it admits (authz/relations/mod.rs), the     *)
(* policies of the clients that guard resources (authz/policy.rs), the     *)
(* roles and groups a policy names (authz/roles.rs).  Who checks one of    *)
(* them against another does it under the lock of a row made for it, but   *)
(* for the writers that only remove, and a writer of relations that is     *)
(* answered before it needs the lock.                                      *)
(*                                                                         *)
(* Each request is one call, served once; its statements are its steps.  A *)
(* relation has a kind; a schema is the types it defines and the kinds of  *)
(* relations it admits; a policy what it is for and the role it names.  A  *)
(* group is a role of the realm here: both are removed alike.              *)
(***************************************************************************)
EXTENDS UnitOfWork, Integers, FiniteSets

CONSTANTS Requests,
          Schemas,        \* the schemas that are written: [types, kinds, readable]
          FirstSchemas,   \* those the realm may have at the start, or None
          Relations,      \* the relations there may be
          Kind,           \* the kind of each
          Policies,       \* the policies: [client, name, type, action, role], a
                          \* name being that of one client
          Roles,          \* the roles of the start
          Realm,          \* the owner of a role of the realm
          Operations,     \* what each request may call
          MaxPolicies, MaxApplicable

Clients == {p.client : p \in Policies}
Names == {p.name : p \in Policies}

\* A role a request creates is named by the request.
ASSUME DefinitionsAssumption ==
  /\ {MaxPolicies, MaxApplicable} \subseteq Nat \ {0}
  /\ Works = Requests
  /\ Rows = {"definitions", "schema"} \cup Relations \cup Names \cup Roles \cup Requests

\* The keys of the tables are apart.
ASSUME PartsAssumption ==
  /\ {"definitions", "schema"} \cap (Relations \cup Names \cup Roles \cup Requests) = {}
  /\ Relations \cap (Names \cup Roles \cup Requests) = {}
  /\ Names \cap (Roles \cup Requests) = {} /\ Roles \cap Requests = {}

\* What is written was read first: a schema opens, a policy names a role.  None
\* is none of them.
ASSUME WrittenAssumption ==
  /\ \A s \in Schemas : s.readable
  /\ \A p \in Policies : p.role \in Roles \cup Requests
  /\ None \notin Schemas /\ None \notin Policies /\ None \notin Clients \cup {Realm}
  /\ None \notin {"product", "slipped", "unsure", "row"}

VARIABLES pc,     \* the next step of each request
          mine,   \* what each request asked and read
          chain   \* how often the chain told a relation written, less how often removed

vars == <<storage, pc, mine, chain>>

NoAsk == [op |-> "none", ask |-> None, before |-> None]

\* What is found at the start: relations the schema admits, and some it does
\* not, kept behind the product's back.  Of those kept under a schema that does
\* not open nobody can tell whether it admitted them.
Init ==
  \E schema \in FirstSchemas, kept \in SUBSET Relations :
    LET Found(t) == IF schema = None THEN "slipped"
                    ELSE IF Kind[t] \in schema.kinds THEN "product"
                    ELSE IF schema.readable THEN "slipped" ELSE "unsure"
    IN
      /\ StorageInit([x \in Rows |->
           CASE x = "definitions" -> "row"
             [] x = "schema" -> schema
             [] x \in Roles -> Realm
             [] x \in kept -> Found(x)
             [] OTHER -> None])
      /\ chain = [t \in Relations |-> IF t \in kept THEN 1 ELSE 0]
      /\ pc = [r \in Requests |-> "idle"]
      /\ mine = [r \in Requests |-> NoAsk]

-----------------------------------------------------------------------------
(* What a statement reads.                                                 *)

\* The relation_kinds of the schema, written beside it.
IsAdmitted(r, t) == Sees(r, "schema") # None /\ Kind[t] \in Sees(r, "schema").kinds

ListPolicies(r) == {Sees(r, n) : n \in {m \in Names : Sees(r, m) # None}}

\* has_policy_for_types
HasPolicyForTypes(r, types) == \E p \in ListPolicies(r) : p.type \in types

\* is_named_by_policy
IsNamedByPolicy(r, role) == \E p \in ListPolicies(r) : p.role = role

\* read_roles of check_conditions: a role of the realm, or of the client that
\* writes the policy.
NamesARole(r, p) == Sees(r, p.role) \in {Realm, p.client}

\* Whether the schema, as it opens, decides a type by its relations.
DecidedByRelations(r, type) ==
  Sees(r, "schema") # None /\ Sees(r, "schema").readable /\ type \in Sees(r, "schema").types

\* list_changed_relations: what one of two schemas admits and the other does not.
ChangedKinds(before, after) == (before.kinds \ after.kinds) \cup (after.kinds \ before.kinds)

\* Mutant: only what the schema does not admit goes, whatever stood before it.
RemovedAsUnadmitted(before, after) == {t \in Relations : Kind[t] \notin after.kinds}

\* The relations a schema written over another removes, if they are kept.
RemovedBy(before, after) ==
  CASE before = None -> Relations
    [] before # None /\ ~before.readable -> {t \in Relations : Kind[t] \notin after.kinds}
    [] OTHER -> {t \in Relations : Kind[t] \in ChangedKinds(before, after)}

-----------------------------------------------------------------------------
(* Steps shared by the calls.                                              *)

Goto(r, to) == pc' = [pc EXCEPT ![r] = to]

Begin(r, op, ask, to) ==
  /\ pc[r] = "idle" /\ op \in Operations[r]
  /\ Goto(r, to)
  /\ mine' = [mine EXCEPT ![r] = [NoAsk EXCEPT !.op = op, !.ask = ask]]
  /\ UNCHANGED <<storage, chain>>

\* A statement that reads, and refuses the call unless `holds`.
Checks(r, from, to, holds) ==
  /\ pc[r] = from
  /\ IF holds THEN Goto(r, to) /\ UNCHANGED storage ELSE Goto(r, "refused") /\ Rollback(r)
  /\ mine' = [mine EXCEPT ![r].ask = IF holds THEN @ ELSE None]
  /\ UNCHANGED chain

\* A statement that writes row x and goes on.
Writes(r, from, to, x, v) ==
  /\ pc[r] = from
  /\ WriteRow(r, x, v)
  /\ Goto(r, to)
  /\ UNCHANGED <<mine, chain>>

\* The call ends without a commit: there is nothing to keep.
Drops(r) ==
  /\ Rollback(r)
  /\ Goto(r, "done")
  /\ mine' = [mine EXCEPT ![r] = NoAsk]
  /\ UNCHANGED chain

\* A DELETE of one row: it waits for who removes it, and finds nothing of what
\* is not committed.
Deletes(r, from, x) ==
  /\ pc[r] = from
  /\ \/ com[x] # None /\ Writes(r, from, "commit", x, None)
     \/ com[x] = None /\ Checks(r, from, "commit", FALSE)

\* lock_definitions: the row FOR UPDATE, held until the work ends.
LockDefinitions(r, from, to) == Writes(r, from, to, "definitions", "row")

-----------------------------------------------------------------------------
(* write_relation_schema                                                   *)

BeginSchema(r, s) == Begin(r, "schema", s, "s_lock")
LockForSchema(r) == LockDefinitions(r, "s_lock", "s_types")

CheckTypes(r) == Checks(r, "s_types", "s_read", ~HasPolicyForTypes(r, mine[r].ask.types))

ReadBefore(r) ==
  /\ pc[r] = "s_read"
  /\ Goto(r, "s_write")
  /\ mine' = [mine EXCEPT ![r].before = Sees(r, "schema")]
  /\ UNCHANGED <<storage, chain>>

WriteSchema(r) == Writes(r, "s_write", "s_remove", "schema", mine[r].ask)

RemoveRelations(r) ==
  LET gone == {t \in RemovedBy(mine[r].before, mine[r].ask) : com[t] # None} IN
    /\ pc[r] = "s_remove"
    /\ WriteRows(r, [t \in gone |-> None])
    /\ Goto(r, "commit")
    /\ UNCHANGED <<mine, chain>>

-----------------------------------------------------------------------------
(* write_relation, delete_relation                                         *)

BeginRelation(r, t) == Begin(r, "relate", t, "r_read")

\* saffui_admit_relation, before the lock: refused, kept already, or to lock.
ReadAdmission(r) ==
  /\ pc[r] = "r_read"
  /\ IF IsAdmitted(r, mine[r].ask) /\ Sees(r, mine[r].ask) # None
     THEN Drops(r)
     ELSE Checks(r, "r_read", "r_lock", IsAdmitted(r, mine[r].ask))

LockForRelation(r) == LockDefinitions(r, "r_lock", "r_again")

\* A writer of relations waits a second for the row, and gives up.
GiveUp(r) == pc[r] = "r_lock" /\ ~MayWrite(r, "definitions") /\ Checks(r, "r_lock", "r_again", FALSE)

AdmitAgain(r) == Checks(r, "r_again", "r_insert", IsAdmitted(r, mine[r].ask))

\* insert_relation: ON CONFLICT DO NOTHING, and no commit then.
InsertRelation(r) ==
  /\ pc[r] = "r_insert"
  /\ MayWrite(r, mine[r].ask)
  /\ IF com[mine[r].ask] = None
     THEN Writes(r, "r_insert", "commit", mine[r].ask, "product")
     ELSE Drops(r)

BeginDeletion(r, t) == Begin(r, "unrelate", t, "u_delete")
DeleteRelation(r) == Deletes(r, "u_delete", mine[r].ask)

-----------------------------------------------------------------------------
(* create_policy, delete_policy                                            *)

BeginPolicy(r, p) == Begin(r, "policy", p, "p_lock")
LockForPolicy(r) == LockDefinitions(r, "p_lock", "p_roles")

CheckConditions(r) == Checks(r, "p_roles", "p_type", NamesARole(r, mine[r].ask))

CheckType(r) == Checks(r, "p_type", "p_count", ~DecidedByRelations(r, mine[r].ask.type))

CountPolicies(r) ==
  Checks(r, "p_count", "p_applicable",
         Cardinality({p \in ListPolicies(r) : p.client = mine[r].ask.client}) < MaxPolicies)

ListApplicable(r) ==
  Checks(r, "p_applicable", "p_insert",
         Cardinality({p \in ListPolicies(r) : /\ p.client = mine[r].ask.client
                                              /\ p.type = mine[r].ask.type
                                              /\ p.action = mine[r].ask.action}) < MaxApplicable)

\* insert_policy: a name the client holds already writes nothing.
InsertPolicy(r) ==
  /\ pc[r] = "p_insert"
  /\ MayWrite(r, mine[r].ask.name)
  /\ IF com[mine[r].ask.name] = None
     THEN Writes(r, "p_insert", "commit", mine[r].ask.name, mine[r].ask)
     ELSE Checks(r, "p_insert", "commit", FALSE)

BeginPolicyDeletion(r, n) == Begin(r, "unpolicy", n, "d_delete")
DeletePolicy(r) == Deletes(r, "d_delete", mine[r].ask)

-----------------------------------------------------------------------------
(* create_role, delete_role, and the same of groups                        *)

CreateRole(r, owner) ==
  /\ pc[r] = "idle" /\ "role" \in Operations[r]
  /\ InsertAndCommit(r, r, owner)
  /\ Goto(r, "done")
  /\ UNCHANGED <<mine, chain>>

BeginRoleDeletion(r, role) == Begin(r, "unrole", role, "n_lock")
LockForRole(r) == LockDefinitions(r, "n_lock", "n_named")
CheckUnnamed(r) == Checks(r, "n_named", "n_delete", ~IsNamedByPolicy(r, mine[r].ask))
DeleteRole(r) == Deletes(r, "n_delete", mine[r].ask)

-----------------------------------------------------------------------------
(* The end of a call.                                                      *)

\* What the events of r tell: a relation written, one deleted, those removed.
Tells(r) ==
  [t \in Relations |->
     IF mine[r].op = "relate" /\ mine[r].ask = t THEN chain[t] + 1
     ELSE IF writer[t] = r /\ com[t] # None THEN chain[t] - 1
     ELSE chain[t]]

\* record_event, then commit: both or neither.
CommitCall(r, answer) ==
  /\ pc[r] = "commit"
  /\ Commit(r)
  /\ Goto(r, answer)
  /\ chain' = Tells(r)
  /\ mine' = [mine EXCEPT ![r] = NoAsk]

\* A statement fails, or the call is cancelled: nothing of it stays.
Fail(r) ==
  /\ pc[r] \notin {"idle", "done", "refused", "failed"}
  /\ Rollback(r)
  /\ Goto(r, "failed")
  /\ mine' = [mine EXCEPT ![r] = NoAsk]
  /\ UNCHANGED chain

\* The commit takes effect and its answer is lost: the caller is told of a
\* failure, and asks again.
Unheard(r) == CommitCall(r, "failed")

Write(r) ==
  \/ LockForSchema(r) \/ CheckTypes(r) \/ ReadBefore(r) \/ WriteSchema(r) \/ RemoveRelations(r)
  \/ ReadAdmission(r) \/ LockForRelation(r) \/ AdmitAgain(r) \/ InsertRelation(r) \/ DeleteRelation(r)
  \/ LockForPolicy(r) \/ CheckConditions(r) \/ CheckType(r) \/ CountPolicies(r) \/ ListApplicable(r)
  \/ InsertPolicy(r) \/ DeletePolicy(r)
  \/ LockForRole(r) \/ CheckUnnamed(r) \/ DeleteRole(r)
  \/ CommitCall(r, "done")

Next ==
  \E r \in Requests :
    \/ Write(r) \/ GiveUp(r) \/ Fail(r) \/ Unheard(r)
    \/ \E s \in Schemas : BeginSchema(r, s)
    \/ \E t \in Relations : BeginRelation(r, t) \/ BeginDeletion(r, t)
    \/ \E p \in Policies : BeginPolicy(r, p)
    \/ \E n \in Names : BeginPolicyDeletion(r, n)
    \/ \E owner \in Clients \cup {Realm} : CreateRole(r, owner)
    \/ \E role \in Roles \cup Requests : BeginRoleDeletion(r, role)

Spec == Init /\ [][Next]_vars

-----------------------------------------------------------------------------
(* Properties.                                                             *)

\* Every relation the product keeps is of a kind the schema kept admits: one
\* written while the schema is replaced is refused, or goes with the schema
\* that admitted it.
KeptIsAdmitted ==
  \A t \in Relations : com[t] = "product" => com["schema"] # None /\ Kind[t] \in com["schema"].kinds

\* A relation kept behind the product's back, where there was no schema or one
\* that opens and does not admit it, never counts: a schema that admits its kind
\* finds it gone.
NoneIsWoken ==
  \A t \in Relations : com[t] = "slipped" => com["schema"] = None \/ Kind[t] \notin com["schema"].kinds

\* One kept behind its back under a schema that does not open is settled by the
\* first that does: it stays, and counts, if its kind is admitted, and goes
\* otherwise.  None is left for a later schema to wake.
UnsureIsSettled ==
  \A t \in Relations :
    com[t] = "unsure" /\ com["schema"] # None /\ com["schema"].readable => Kind[t] \in com["schema"].kinds

\* No type has two deciders: none that a schema defines is one a policy is for,
\* whichever of two writers came first.
OneDecider ==
  \A n \in Names : com[n] # None /\ com["schema"] # None /\ com["schema"].readable
                     => com[n].type \notin com["schema"].types

\* A policy names a role that is there, of the realm or of its own client: no
\* condition stops holding because its role went.
PoliciesNameWhatIs == \A n \in Names : com[n] # None => com[com[n].role] \in {Realm, com[n].client}

\* What a question reads is bounded: two writers do not both find the last room.
PoliciesAreBounded ==
  \A c \in Clients :
    LET kept == {com[n] : n \in {m \in Names : com[m] # None /\ com[m].client = c}} IN
      /\ Cardinality(kept) <= MaxPolicies
      /\ \A p \in kept : Cardinality({q \in kept : q.type = p.type /\ q.action = p.action}) <= MaxApplicable

\* The chain tells each relation as often as it was kept, whoever wrote it at
\* once and whoever asked again after a commit whose answer was lost.
ChainTellsKept == \A t \in Relations : chain[t] = IF com[t] = None THEN 0 ELSE 1

\* What is written at once agrees: relations with the schema, policies with the
\* schema, with the roles they name and with their bounds, the chain with what
\* is kept.
DefinitionsAgree ==
  /\ KeptIsAdmitted /\ NoneIsWoken /\ UnsureIsSettled
  /\ OneDecider /\ PoliciesNameWhatIs /\ PoliciesAreBounded
  /\ ChainTellsKept
=============================================================================
