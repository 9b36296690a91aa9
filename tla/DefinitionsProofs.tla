-------------------------- MODULE DefinitionsProofs --------------------------
(***************************************************************************)
(* For any requests, schemas, relations, policies and roles, whatever is   *)
(* written together or fails: relations are of kinds the schema admits,    *)
(* no type has two deciders, a policy names a role that is there, bounds   *)
(* on policies hold, and the chain tells what is kept.                     *)
(***************************************************************************)
EXTENDS Definitions, FiniteSetTheorems, TLAPS

-----------------------------------------------------------------------------
(* Who holds which row at which step.                                      *)

IsAsk(q) == q = [op |-> q.op, ask |-> q.ask, before |-> q.before]

\* The steps of each call, and what it was asked.
AskFits(q) ==
  \/ q.op = "schema" /\ q.ask \in Schemas
  \/ q.op \in {"relate", "unrelate"} /\ q.ask \in Relations
  \/ q.op = "policy" /\ q.ask \in Policies
  \/ q.op = "unpolicy" /\ q.ask \in Names
  \/ q.op = "unrole" /\ q.ask \in Roles \cup Requests

SchemaSteps == {"s_lock", "s_types", "s_read", "s_write", "s_remove"}
RelationSteps == {"r_read", "r_lock", "r_again", "r_insert"}
PolicySteps == {"p_lock", "p_roles", "p_type", "p_count", "p_applicable", "p_insert"}
RoleSteps == {"n_lock", "n_named", "n_delete"}
Over == {"done", "refused", "failed"}

OpFits(r) ==
  /\ pc[r] \in {"idle", "u_delete", "d_delete", "commit"} \cup SchemaSteps \cup RelationSteps
               \cup PolicySteps \cup RoleSteps \cup Over
  /\ pc[r] = "idle" => mine[r] = NoAsk /\ com[r] = None
  /\ pc[r] \notin Over \cup {"idle"} => AskFits(mine[r])
  /\ pc[r] \in SchemaSteps => mine[r].op = "schema"
  /\ pc[r] \in RelationSteps => mine[r].op = "relate"
  /\ pc[r] = "u_delete" => mine[r].op = "unrelate"
  /\ pc[r] \in PolicySteps => mine[r].op = "policy"
  /\ pc[r] = "d_delete" => mine[r].op = "unpolicy"
  /\ pc[r] \in RoleSteps => mine[r].op = "unrole"

\* A call that is about to commit.
Commits(r, op) == pc[r] = "commit" /\ mine[r].op = op

\* The steps under the lock of the definitions.
Locked(r) ==
  \/ pc[r] \in {"s_types", "s_read", "s_write", "s_remove", "r_again", "r_insert",
                "p_roles", "p_type", "p_count", "p_applicable", "p_insert", "n_named", "n_delete"}
  \/ \E op \in {"schema", "relate", "policy", "unrole"} : Commits(r, op)

\* What a request that has row x wrote in it.
Holds(r, x) ==
  /\ x = "definitions" => Locked(r)
  /\ x = "schema" => (pc[r] = "s_remove" \/ Commits(r, "schema")) /\ cur[x] = mine[r].ask
  /\ x \in Relations =>
       \/ Commits(r, "schema") /\ x \in RemovedBy(mine[r].before, mine[r].ask) /\ cur[x] = None /\ com[x] # None
       \/ Commits(r, "relate") /\ x = mine[r].ask /\ cur[x] = "product" /\ com[x] = None
       \/ Commits(r, "unrelate") /\ x = mine[r].ask /\ cur[x] = None /\ com[x] # None
  /\ x \in Names =>
       \/ Commits(r, "policy") /\ x = mine[r].ask.name /\ cur[x] = mine[r].ask /\ com[x] = None
       \/ Commits(r, "unpolicy") /\ x = mine[r].ask /\ cur[x] = None /\ com[x] # None
  /\ x \in Roles \cup Requests =>
       Commits(r, "unrole") /\ x = mine[r].ask /\ cur[x] = None /\ com[x] # None

RowHeld(x) == /\ writer[x] = None => cur[x] = com[x]
              /\ writer[x] # None => writer[x] \in Requests /\ Holds(writer[x], x)

Shaped == /\ DOMAIN com = Rows /\ DOMAIN cur = Rows /\ DOMAIN writer = Rows
          /\ DOMAIN pc = Requests /\ DOMAIN mine = Requests /\ DOMAIN chain = Relations

LockInv == /\ Shaped
           /\ \A r \in Requests : IsAsk(mine[r]) /\ OpFits(r)
           /\ \A x \in Rows : RowHeld(x)

-----------------------------------------------------------------------------
(* What was read under the lock still is.                                  *)

\* The policies kept, those of a client, and those of it for what p is for.
KeptPolicies == {com[n] : n \in {m \in Names : com[m] # None}}
Of(c) == {p \in KeptPolicies : p.client = c}
Beside(p) == {q \in KeptPolicies : q.client = p.client /\ q.type = p.type /\ q.action = p.action}

Admits(schema, t) == schema # None /\ Kind[t] \in schema.kinds
Decides(schema, type) == schema # None /\ schema.readable /\ type \in schema.types

SchemaFits(r) ==
  /\ pc[r] \in {"s_read", "s_write", "s_remove"} \/ Commits(r, "schema") =>
       \A p \in KeptPolicies : p.type \notin mine[r].ask.types
  /\ pc[r] \in {"s_write", "s_remove"} \/ Commits(r, "schema") => mine[r].before = com["schema"]
  /\ pc[r] = "s_remove" \/ Commits(r, "schema") => writer["schema"] = r
  /\ Commits(r, "schema") =>
       \A t \in RemovedBy(mine[r].before, mine[r].ask) : com[t] # None => writer[t] = r

RelationFits(r) ==
  /\ pc[r] = "r_insert" \/ Commits(r, "relate") => Admits(com["schema"], mine[r].ask)
  /\ Commits(r, "relate") => writer[mine[r].ask] = r

PolicyFits(r) ==
  LET p == mine[r].ask IN
  /\ pc[r] \in {"p_type", "p_count", "p_applicable", "p_insert"} \/ Commits(r, "policy") =>
       com[p.role] \in {Realm, p.client}
  /\ pc[r] \in {"p_count", "p_applicable", "p_insert"} \/ Commits(r, "policy") =>
       ~Decides(com["schema"], p.type)
  /\ pc[r] \in {"p_applicable", "p_insert"} \/ Commits(r, "policy") => Cardinality(Of(p.client)) < MaxPolicies
  /\ pc[r] = "p_insert" \/ Commits(r, "policy") => Cardinality(Beside(p)) < MaxApplicable
  /\ Commits(r, "policy") => writer[p.name] = r

RoleFits(r) ==
  pc[r] = "n_delete" \/ Commits(r, "unrole") => \A p \in KeptPolicies : p.role # mine[r].ask

ReadInv == \A r \in Requests : /\ Locked(r) => writer["definitions"] = r
                               /\ SchemaFits(r) /\ RelationFits(r) /\ PolicyFits(r) /\ RoleFits(r)

-----------------------------------------------------------------------------
(* What is kept.                                                           *)

RelationsFit ==
  \A t \in Relations :
    /\ com[t] \in {None, "product", "slipped", "unsure"}
    /\ com[t] = "product" => Admits(com["schema"], t)
    /\ com[t] = "slipped" => \/ com["schema"] = None
                             \/ com["schema"].readable /\ Kind[t] \notin com["schema"].kinds
    /\ com[t] = "unsure" => /\ com["schema"] # None
                            /\ ~com["schema"].readable \/ Admits(com["schema"], t)
    /\ chain[t] = IF com[t] = None THEN 0 ELSE 1

PoliciesFit ==
  /\ IsFiniteSet(KeptPolicies)
  /\ \A n \in Names : com[n] # None => com[n] \in Policies /\ com[n].name = n
  /\ \A p \in KeptPolicies : /\ ~Decides(com["schema"], p.type)
                             /\ com[p.role] \in {Realm, p.client}
                             /\ Cardinality(Of(p.client)) <= MaxPolicies
                             /\ Cardinality(Beside(p)) <= MaxApplicable

KeptInv == RelationsFit /\ PoliciesFit

DefInv == LockInv /\ ReadInv /\ KeptInv

-----------------------------------------------------------------------------
(* What a step of one request does.                                        *)

Alone(r) == \A q \in Requests : q # r => pc'[q] = pc[q] /\ mine'[q] = mine[q]
Kept(x) == com'[x] = com[x] /\ cur'[x] = cur[x] /\ writer'[x] = writer[x]
Wrote(r, x, v) == writer[x] \in {r, None} /\ com'[x] = com[x] /\ cur'[x] = v /\ writer'[x] = r
Ended(x) == com'[x] = cur[x] /\ cur'[x] = cur[x] /\ writer'[x] = None
Undone(x) == com'[x] = com[x] /\ cur'[x] = com[x] /\ writer'[x] = None

\* It reads, it writes v in the rows X, it commits, or it is dropped.
ReadStep(r) == Shaped' /\ Alone(r) /\ chain' = chain /\ \A x \in Rows : Kept(x)
WriteStep(r, X, v) == /\ Shaped' /\ Alone(r) /\ chain' = chain /\ mine'[r] = mine[r]
                      /\ \A x \in Rows : (x \in X => Wrote(r, x, v)) /\ (x \notin X => Kept(x))
CommitStep(r) == /\ Shaped' /\ Alone(r)
                 /\ \A x \in Rows : (writer[x] = r => Ended(x)) /\ (writer[x] # r => Kept(x))
UndoStep(r) == /\ Shaped' /\ Alone(r) /\ chain' = chain /\ pc'[r] \in Over /\ IsAsk(mine'[r])
               /\ \A x \in Rows : (writer[x] = r => Undone(x)) /\ (writer[x] # r => Kept(x))

\* The rows there are.
LEMMA RowsAre ==
  /\ "definitions" \in Rows /\ "schema" \in Rows /\ Relations \subseteq Rows /\ Names \subseteq Rows
  /\ Roles \cup Requests \subseteq Rows
  /\ "definitions" \notin Relations \cup Names \cup Roles \cup Requests
  /\ "schema" \notin Relations \cup Names \cup Roles \cup Requests
  /\ Relations \cap (Names \cup Roles \cup Requests) = {} /\ Names \cap (Roles \cup Requests) = {}
  /\ None \notin Requests
BY DefinitionsAssumption, PartsAssumption, NoneAssumption

\* A request that begins has a call and nothing else.
LEMMA BeginDoes ==
  ASSUME LockInv, NEW r \in Requests, NEW op, NEW ask, NEW to, Begin(r, op, ask, to)
  PROVE  /\ ReadStep(r) /\ pc[r] = "idle" /\ pc'[r] = to
         /\ IsAsk(mine'[r]) /\ mine'[r].op = op /\ mine'[r].ask = ask
<1>1. /\ pc' = [pc EXCEPT ![r] = to] /\ pc[r] = "idle"
      /\ mine' = [mine EXCEPT ![r] = [NoAsk EXCEPT !.op = op, !.ask = ask]]
      /\ com' = com /\ cur' = cur /\ writer' = writer /\ chain' = chain
  BY DEF Begin, Goto, storage
<1>2. Shaped
  BY DEF LockInv
<1>3. Shaped' /\ Alone(r) /\ pc'[r] = to /\ mine'[r] = [NoAsk EXCEPT !.op = op, !.ask = ask]
  BY <1>1, <1>2 DEF Shaped, Alone
<1>4. IsAsk(mine'[r]) /\ mine'[r].op = op /\ mine'[r].ask = ask
  BY <1>3 DEF IsAsk, NoAsk
<1> QED
  BY <1>1, <1>3, <1>4 DEF ReadStep, Kept

\* A statement that reads goes on, or drops the call.
LEMMA ChecksDoes ==
  ASSUME LockInv, NEW r \in Requests, NEW from, NEW to, NEW holds, Checks(r, from, to, holds)
  PROVE  /\ pc[r] = from
         /\ holds => ReadStep(r) /\ pc'[r] = to /\ mine'[r] = mine[r]
         /\ ~holds => UndoStep(r)
<1>1. Shaped /\ IsAsk(mine[r])
  BY DEF LockInv
<1>2. ASSUME holds PROVE ReadStep(r) /\ pc'[r] = to /\ mine'[r] = mine[r]
  <2>1. /\ pc' = [pc EXCEPT ![r] = to] /\ mine' = [mine EXCEPT ![r].ask = @]
        /\ com' = com /\ cur' = cur /\ writer' = writer /\ chain' = chain
    BY <1>2 DEF Checks, Goto, storage
  <2>2. mine'[r] = [mine[r] EXCEPT !.ask = mine[r].ask]
    BY <2>1, <1>1 DEF Shaped
  <2>3. mine'[r] = mine[r]
    BY <2>2, <1>1 DEF IsAsk
  <2>4. Shaped' /\ Alone(r) /\ pc'[r] = to
    BY <2>1, <1>1 DEF Shaped, Alone
  <2> QED
    BY <2>1, <2>3, <2>4 DEF ReadStep, Kept
<1>3. ASSUME ~holds PROVE UndoStep(r)
  <2>1. /\ pc' = [pc EXCEPT ![r] = "refused"] /\ mine' = [mine EXCEPT ![r].ask = None]
        /\ cur' = [x \in Rows |-> IF writer[x] = r THEN com[x] ELSE cur[x]] /\ com' = com /\ chain' = chain
        /\ writer' = [x \in Rows |-> IF writer[x] = r THEN None ELSE writer[x]]
    BY <1>3 DEF Checks, Goto, Rollback, Released
  <2>2. mine'[r] = [mine[r] EXCEPT !.ask = None]
    BY <2>1, <1>1 DEF Shaped
  <2>3. IsAsk(mine'[r])
    BY <2>2, <1>1 DEF IsAsk
  <2>4. Shaped' /\ Alone(r) /\ pc'[r] = "refused"
    BY <2>1, <1>1 DEF Shaped, Alone
  <2> QED
    BY <2>1, <2>3, <2>4 DEF UndoStep, Undone, Kept, Over
<1> QED
  BY <1>2, <1>3 DEF Checks

\* A call that ends with nothing to keep.
LEMMA DropDoes ==
  ASSUME LockInv, NEW r \in Requests, Rollback(r), NEW to \in Over, Goto(r, to),
         mine' = [mine EXCEPT ![r] = NoAsk], UNCHANGED chain
  PROVE  UndoStep(r)
<1>1. /\ pc' = [pc EXCEPT ![r] = to] /\ chain' = chain /\ com' = com
      /\ cur' = [x \in Rows |-> IF writer[x] = r THEN com[x] ELSE cur[x]]
      /\ writer' = [x \in Rows |-> IF writer[x] = r THEN None ELSE writer[x]]
  BY DEF Goto, Rollback, Released
<1>2. Shaped
  BY DEF LockInv
<1>3. Shaped' /\ Alone(r) /\ pc'[r] = to /\ mine'[r] = NoAsk
  BY <1>1, <1>2 DEF Shaped, Alone
<1>4. IsAsk(mine'[r])
  BY <1>3 DEF IsAsk, NoAsk
<1> QED
  BY <1>1, <1>3, <1>4 DEF UndoStep, Undone, Kept

\* A statement that writes changes the row it names, which was its own or free.
LEMMA WritesDoes ==
  ASSUME LockInv, NEW r \in Requests, NEW from, NEW to, NEW x \in Rows, NEW v, Writes(r, from, to, x, v)
  PROVE  WriteStep(r, {x}, v) /\ pc[r] = from /\ pc'[r] = to
<1>1. /\ pc' = [pc EXCEPT ![r] = to] /\ pc[r] = from /\ mine' = mine /\ chain' = chain /\ com' = com
      /\ writer[x] \in {r, None} /\ cur' = [cur EXCEPT ![x] = v] /\ writer' = [writer EXCEPT ![x] = r]
  BY DEF Writes, WriteRow, MayWrite, Goto
<1>2. Shaped
  BY DEF LockInv
<1>3. Shaped' /\ Alone(r) /\ pc'[r] = to
  BY <1>1, <1>2 DEF Shaped, Alone
<1>4. \A y \in Rows : (y \in {x} => Wrote(r, y, v)) /\ (y \notin {x} => Kept(y))
  BY <1>1, <1>2 DEF Wrote, Kept, Shaped
<1> QED
  BY <1>1, <1>3, <1>4 DEF WriteStep

\* The relations a new schema removes are written, the others are not.
LEMMA RemoveDoes ==
  ASSUME LockInv, NEW r \in Requests, RemoveRelations(r)
  PROVE  /\ pc[r] = "s_remove" /\ pc'[r] = "commit"
         /\ WriteStep(r, {t \in RemovedBy(mine[r].before, mine[r].ask) : com[t] # None}, None)
<1> DEFINE X == {t \in RemovedBy(mine[r].before, mine[r].ask) : com[t] # None}
           f == [t \in X |-> None]
<1>1. /\ pc' = [pc EXCEPT ![r] = "commit"] /\ pc[r] = "s_remove" /\ mine' = mine /\ chain' = chain
      /\ WriteRows(r, f)
  BY DEF RemoveRelations, Goto
<1>2. DOMAIN f = X /\ \A x \in X : f[x] = None
  OBVIOUS
<1> HIDE DEF X, f
<1>3. /\ com' = com /\ \A x \in X : writer[x] \in {r, None}
      /\ cur' = [x \in Rows |-> IF x \in X THEN f[x] ELSE cur[x]]
      /\ writer' = [x \in Rows |-> IF x \in X THEN r ELSE writer[x]]
  BY <1>1, <1>2 DEF WriteRows, MayWrite
<1>4. Shaped
  BY DEF LockInv
<1>5. Shaped' /\ Alone(r) /\ pc'[r] = "commit"
  BY <1>1, <1>3, <1>4 DEF Shaped, Alone
<1>6. \A x \in Rows : (x \in X => Wrote(r, x, None)) /\ (x \notin X => Kept(x))
  BY <1>2, <1>3 DEF Wrote, Kept
<1>7. WriteStep(r, X, None)
  BY <1>1, <1>3, <1>5, <1>6 DEF WriteStep
<1> QED
  BY <1>1, <1>5, <1>7 DEF X

\* A commit shows what the request wrote, and gives its rows back.
LEMMA CommitDoes ==
  ASSUME LockInv, NEW r \in Requests, NEW to, CommitCall(r, to)
  PROVE  CommitStep(r) /\ pc[r] = "commit" /\ pc'[r] = to /\ mine'[r] = NoAsk /\ chain' = Tells(r)
<1>1. /\ pc' = [pc EXCEPT ![r] = to] /\ pc[r] = "commit" /\ mine' = [mine EXCEPT ![r] = NoAsk]
      /\ com' = [x \in Rows |-> IF writer[x] = r THEN cur[x] ELSE com[x]] /\ cur' = cur
      /\ writer' = [x \in Rows |-> IF writer[x] = r THEN None ELSE writer[x]]
      /\ chain' = Tells(r) /\ DOMAIN chain' = Relations
  BY DEF CommitCall, Commit, Released, Goto, Tells
<1>2. Shaped
  BY DEF LockInv
<1>3. Shaped' /\ Alone(r) /\ pc'[r] = to /\ mine'[r] = NoAsk
  BY <1>1, <1>2 DEF Shaped, Alone
<1>4. \A x \in Rows : (writer[x] = r => Ended(x)) /\ (writer[x] # r => Kept(x))
  BY <1>1 DEF Ended, Kept
<1> QED
  BY <1>1, <1>3, <1>4 DEF CommitStep

\* A role that is created is a row nobody had.
LEMMA CreateDoes ==
  ASSUME LockInv, NEW r \in Requests, NEW owner, CreateRole(r, owner)
  PROVE  /\ Shaped' /\ Alone(r) /\ chain' = chain /\ pc[r] = "idle" /\ pc'[r] = "done" /\ mine'[r] = mine[r]
         /\ \A x \in Rows : x # r => Kept(x)
         /\ com[r] = None /\ writer[r] = None /\ writer'[r] = None /\ com'[r] = owner /\ cur'[r] = owner
<1>1. /\ pc' = [pc EXCEPT ![r] = "done"] /\ pc[r] = "idle" /\ mine' = mine /\ chain' = chain
      /\ com' = [y \in Rows |-> IF y = r THEN owner ELSE IF writer[y] = r THEN cur[y] ELSE com[y]]
      /\ cur' = [cur EXCEPT ![r] = owner]
      /\ writer' = [x \in Rows |-> IF writer[x] = r THEN None ELSE writer[x]]
  BY DEF CreateRole, InsertAndCommit, Released, Goto
<1>2. Shaped /\ (\A x \in Rows : RowHeld(x)) /\ OpFits(r) /\ r \in Rows
  BY RowsAre DEF LockInv
<1>3. com[r] = None
  BY <1>1, <1>2 DEF OpFits
<1>4. writer[r] = None
  BY <1>2, <1>3 DEF RowHeld, Holds
<1>5. \A x \in Rows : writer[x] # r
  BY <1>1, <1>2, DefinitionsAssumption, RowsAre DEF RowHeld, Holds, Locked, Commits
<1>6. Shaped' /\ Alone(r) /\ pc'[r] = "done"
  BY <1>1, <1>2 DEF Shaped, Alone
<1> QED
  BY <1>1, <1>2, <1>3, <1>4, <1>5, <1>6 DEF Kept, Shaped

-----------------------------------------------------------------------------
(* The steps, told by what they touch.                                     *)

SameAsk(r) == mine'[r] = mine[r]

\* A request begins, reads or checks.
Turns(r) ==
  /\ ReadStep(r) /\ IsAsk(mine'[r]) /\ AskFits(mine'[r])
  /\ \/ pc[r] = "idle" /\ pc'[r] = "s_lock" /\ mine'[r].op = "schema"
     \/ pc[r] = "idle" /\ pc'[r] = "r_read" /\ mine'[r].op = "relate"
     \/ pc[r] = "idle" /\ pc'[r] = "u_delete" /\ mine'[r].op = "unrelate"
     \/ pc[r] = "idle" /\ pc'[r] = "p_lock" /\ mine'[r].op = "policy"
     \/ pc[r] = "idle" /\ pc'[r] = "d_delete" /\ mine'[r].op = "unpolicy"
     \/ pc[r] = "idle" /\ pc'[r] = "n_lock" /\ mine'[r].op = "unrole"
     \/ pc[r] = "r_read" /\ pc'[r] = "r_lock" /\ SameAsk(r)
     \/ /\ pc[r] = "s_types" /\ pc'[r] = "s_read" /\ SameAsk(r)
        /\ ~HasPolicyForTypes(r, mine[r].ask.types)
     \/ /\ pc[r] = "s_read" /\ pc'[r] = "s_write"
        /\ mine'[r].op = mine[r].op /\ mine'[r].ask = mine[r].ask /\ mine'[r].before = Sees(r, "schema")
     \/ pc[r] = "r_again" /\ pc'[r] = "r_insert" /\ SameAsk(r) /\ IsAdmitted(r, mine[r].ask)
     \/ pc[r] = "p_roles" /\ pc'[r] = "p_type" /\ SameAsk(r) /\ NamesARole(r, mine[r].ask)
     \/ /\ pc[r] = "p_type" /\ pc'[r] = "p_count" /\ SameAsk(r)
        /\ ~DecidedByRelations(r, mine[r].ask.type)
     \/ /\ pc[r] = "p_count" /\ pc'[r] = "p_applicable" /\ SameAsk(r)
        /\ Cardinality({p \in ListPolicies(r) : p.client = mine[r].ask.client}) < MaxPolicies
     \/ /\ pc[r] = "p_applicable" /\ pc'[r] = "p_insert" /\ SameAsk(r)
        /\ Cardinality({p \in ListPolicies(r) : /\ p.client = mine[r].ask.client
                                                /\ p.type = mine[r].ask.type
                                                /\ p.action = mine[r].ask.action}) < MaxApplicable
     \/ pc[r] = "n_named" /\ pc'[r] = "n_delete" /\ SameAsk(r) /\ ~IsNamedByPolicy(r, mine[r].ask)

Locks(r) ==
  /\ WriteStep(r, {"definitions"}, "row")
  /\ \/ pc[r] = "s_lock" /\ pc'[r] = "s_types"
     \/ pc[r] = "r_lock" /\ pc'[r] = "r_again"
     \/ pc[r] = "p_lock" /\ pc'[r] = "p_roles"
     \/ pc[r] = "n_lock" /\ pc'[r] = "n_named"

PutsSchema(r) == pc[r] = "s_write" /\ pc'[r] = "s_remove" /\ WriteStep(r, {"schema"}, mine[r].ask)

Removes(r) ==
  /\ pc[r] = "s_remove" /\ pc'[r] = "commit"
  /\ WriteStep(r, {t \in RemovedBy(mine[r].before, mine[r].ask) : com[t] # None}, None)

Inserts(r) ==
  LET q == mine[r] IN
  /\ pc'[r] = "commit"
  /\ \/ pc[r] = "r_insert" /\ com[q.ask] = None /\ WriteStep(r, {q.ask}, "product")
     \/ pc[r] = "p_insert" /\ com[q.ask.name] = None /\ WriteStep(r, {q.ask.name}, q.ask)

Takes(r) ==
  /\ pc[r] \in {"u_delete", "d_delete", "n_delete"} /\ pc'[r] = "commit"
  /\ com[mine[r].ask] # None /\ WriteStep(r, {mine[r].ask}, None)

Ends(r) == CommitStep(r) /\ pc[r] = "commit" /\ pc'[r] \in Over /\ mine'[r] = NoAsk /\ chain' = Tells(r)

Creates(r) ==
  /\ Shaped' /\ Alone(r) /\ chain' = chain /\ pc[r] = "idle" /\ pc'[r] = "done" /\ SameAsk(r)
  /\ \A x \in Rows : x # r => Kept(x)
  /\ com[r] = None /\ writer[r] = None /\ writer'[r] = None /\ com'[r] = cur'[r]

Undoes(r) == UndoStep(r) /\ pc[r] \notin Over \cup {"idle"}

Puts(r) == Locks(r) \/ PutsSchema(r) \/ Removes(r) \/ Inserts(r) \/ Takes(r)

Moves(r) == Turns(r) \/ Puts(r) \/ Ends(r) \/ Creates(r) \/ Undoes(r)

\* A check that passes turns, one that fails undoes.
LEMMA ChecksMove ==
  ASSUME LockInv, NEW r \in Requests, NEW from, NEW to, NEW holds, Checks(r, from, to, holds),
         from \notin Over \cup {"idle"}
  PROVE  \/ Undoes(r)
         \/ /\ holds /\ ReadStep(r) /\ pc[r] = from /\ pc'[r] = to /\ SameAsk(r)
            /\ IsAsk(mine'[r]) /\ AskFits(mine'[r])
<1>1. pc[r] = from /\ IsAsk(mine[r]) /\ AskFits(mine[r])
  BY ChecksDoes DEF LockInv, OpFits
<1>2. CASE holds
  BY <1>1, <1>2, ChecksDoes DEF SameAsk
<1>3. CASE ~holds
  BY <1>1, <1>3, ChecksDoes DEF Undoes
<1> QED
  BY <1>2, <1>3

\* The row a call names is one of its table.
LEMMA AskedRow ==
  ASSUME LockInv, NEW r \in Requests
  PROVE  /\ pc[r] \in {"u_delete", "d_delete", "n_delete", "r_insert"} => mine[r].ask \in Rows
         /\ pc[r] = "p_insert" => mine[r].ask \in Policies /\ mine[r].ask.name \in Names
<1>1. OpFits(r)
  BY DEF LockInv
<1>2. pc[r] \in {"u_delete", "d_delete", "n_delete", "r_insert"} => mine[r].ask \in Rows
  BY <1>1, RowsAre DEF OpFits, AskFits, RelationSteps, RoleSteps, Over
<1>3. pc[r] = "p_insert" => mine[r].ask \in Policies
  BY <1>1 DEF OpFits, AskFits, PolicySteps, Over
<1> QED
  BY <1>2, <1>3 DEF Names

\* A call that removes one row has it, or is refused.
LEMMA DeletesMove ==
  ASSUME LockInv, NEW r \in Requests, NEW from \in {"u_delete", "d_delete", "n_delete"},
         Deletes(r, from, mine[r].ask)
  PROVE  Moves(r)
<1>1. pc[r] = from /\ mine[r].ask \in Rows
  BY AskedRow DEF Deletes
<1>2. CASE com[mine[r].ask] # None /\ Writes(r, from, "commit", mine[r].ask, None)
  <2>1. WriteStep(r, {mine[r].ask}, None) /\ pc'[r] = "commit"
    BY <1>1, <1>2, WritesDoes
  <2> QED
    BY <1>1, <1>2, <2>1 DEF Moves, Puts, Takes
<1>3. CASE Checks(r, from, "commit", FALSE)
  BY <1>1, <1>3, ChecksDoes DEF Moves, Undoes, Over
<1> QED
  BY <1>2, <1>3 DEF Deletes

\* A call that asks for the lock of the definitions gets it.
LEMMA LockMoves ==
  ASSUME LockInv, NEW r \in Requests, NEW from, NEW to, LockDefinitions(r, from, to)
  PROVE  pc[r] = from /\ pc'[r] = to /\ WriteStep(r, {"definitions"}, "row")
BY WritesDoes, RowsAre DEF LockDefinitions

\* The steps of a new schema.
LEMMA SchemaMoves ==
  ASSUME LockInv, NEW r \in Requests,
         LockForSchema(r) \/ CheckTypes(r) \/ ReadBefore(r) \/ WriteSchema(r) \/ RemoveRelations(r)
  PROVE  Moves(r)
<1>1. CASE LockForSchema(r)
  BY <1>1, LockMoves DEF LockForSchema, Moves, Puts, Locks
<1>2. CASE CheckTypes(r)
  <2> DEFINE holds == ~HasPolicyForTypes(r, mine[r].ask.types)
  <2>1. Checks(r, "s_types", "s_read", holds)
    BY <1>2 DEF CheckTypes
  <2> HIDE DEF holds
  <2>2. \/ Undoes(r)
        \/ /\ holds /\ ReadStep(r) /\ pc[r] = "s_types" /\ pc'[r] = "s_read" /\ SameAsk(r)
           /\ IsAsk(mine'[r]) /\ AskFits(mine'[r])
    BY <2>1, ChecksMove DEF Over
  <2> QED
    BY <2>2 DEF Moves, Turns, holds
<1>3. CASE ReadBefore(r)
  <2>1. /\ pc' = [pc EXCEPT ![r] = "s_write"] /\ pc[r] = "s_read"
        /\ mine' = [mine EXCEPT ![r].before = Sees(r, "schema")]
        /\ com' = com /\ cur' = cur /\ writer' = writer /\ chain' = chain
    BY <1>3 DEF ReadBefore, Goto, storage
  <2>2. Shaped /\ IsAsk(mine[r]) /\ AskFits(mine[r])
    BY <2>1 DEF LockInv, OpFits, Over
  <2>3. Shaped' /\ Alone(r) /\ pc'[r] = "s_write" /\ mine'[r] = [mine[r] EXCEPT !.before = Sees(r, "schema")]
    BY <2>1, <2>2 DEF Shaped, Alone
  <2>4. /\ IsAsk(mine'[r]) /\ mine'[r].op = mine[r].op /\ mine'[r].ask = mine[r].ask
        /\ mine'[r].before = Sees(r, "schema")
    BY <2>2, <2>3 DEF IsAsk
  <2>5. AskFits(mine'[r])
    BY <2>2, <2>4 DEF AskFits
  <2> QED
    BY <2>1, <2>3, <2>4, <2>5 DEF Moves, Turns, ReadStep, Kept
<1>4. CASE WriteSchema(r)
  BY <1>4, WritesDoes, RowsAre DEF WriteSchema, Moves, Puts, PutsSchema
<1>5. CASE RemoveRelations(r)
  BY <1>5, RemoveDoes DEF Moves, Puts, Removes
<1> QED
  BY <1>1, <1>2, <1>3, <1>4, <1>5

\* The steps of a relation.
LEMMA RelationMoves ==
  ASSUME LockInv, NEW r \in Requests,
         \/ ReadAdmission(r) \/ LockForRelation(r) \/ GiveUp(r) \/ AdmitAgain(r)
         \/ InsertRelation(r) \/ DeleteRelation(r)
  PROVE  Moves(r)
<1>1. ASSUME pc[r] \notin Over \cup {"idle"}, Drops(r) PROVE Moves(r)
  BY <1>1, DropDoes DEF Drops, Moves, Undoes, Over
<1>2. CASE ReadAdmission(r)
  BY <1>1, <1>2, ChecksMove DEF ReadAdmission, Moves, Turns, Over
<1>3. CASE LockForRelation(r)
  BY <1>3, LockMoves DEF LockForRelation, Moves, Puts, Locks
<1>4. CASE GiveUp(r)
  BY <1>4, ChecksMove DEF GiveUp, Moves, Over
<1>5. CASE AdmitAgain(r)
  BY <1>5, ChecksMove DEF AdmitAgain, Moves, Turns, Over
<1>6. CASE InsertRelation(r)
  <2>1. pc[r] = "r_insert" /\ mine[r].ask \in Rows
    BY <1>6, AskedRow DEF InsertRelation
  <2>2. CASE com[mine[r].ask] = None
    BY <1>6, <2>1, <2>2, WritesDoes DEF InsertRelation, Moves, Puts, Inserts
  <2>3. CASE com[mine[r].ask] # None
    BY <1>1, <1>6, <2>1, <2>3 DEF InsertRelation, Over
  <2> QED
    BY <2>2, <2>3
<1>7. CASE DeleteRelation(r)
  BY <1>7, DeletesMove DEF DeleteRelation
<1> QED
  BY <1>2, <1>3, <1>4, <1>5, <1>6, <1>7

\* The steps of a policy.
LEMMA PolicyMoves ==
  ASSUME LockInv, NEW r \in Requests,
         \/ LockForPolicy(r) \/ CheckConditions(r) \/ CheckType(r) \/ CountPolicies(r) \/ ListApplicable(r)
         \/ InsertPolicy(r) \/ DeletePolicy(r)
  PROVE  Moves(r)
<1>1. CASE LockForPolicy(r)
  BY <1>1, LockMoves DEF LockForPolicy, Moves, Puts, Locks
<1>2. CASE CheckConditions(r)
  BY <1>2, ChecksMove DEF CheckConditions, Moves, Turns, Over
<1>3. CASE CheckType(r)
  <2> DEFINE holds == ~DecidedByRelations(r, mine[r].ask.type)
  <2>1. Checks(r, "p_type", "p_count", holds)
    BY <1>3 DEF CheckType
  <2> HIDE DEF holds
  <2>2. \/ Undoes(r)
        \/ /\ holds /\ ReadStep(r) /\ pc[r] = "p_type" /\ pc'[r] = "p_count" /\ SameAsk(r)
           /\ IsAsk(mine'[r]) /\ AskFits(mine'[r])
    BY <2>1, ChecksMove DEF Over
  <2> QED
    BY <2>2 DEF Moves, Turns, holds
<1>4. CASE CountPolicies(r)
  <2> DEFINE holds == Cardinality({p \in ListPolicies(r) : p.client = mine[r].ask.client}) < MaxPolicies
  <2>1. Checks(r, "p_count", "p_applicable", holds)
    BY <1>4 DEF CountPolicies
  <2> HIDE DEF holds
  <2>2. \/ Undoes(r)
        \/ /\ holds /\ ReadStep(r) /\ pc[r] = "p_count" /\ pc'[r] = "p_applicable" /\ SameAsk(r)
           /\ IsAsk(mine'[r]) /\ AskFits(mine'[r])
    BY <2>1, ChecksMove DEF Over
  <2> QED
    BY <2>2 DEF Moves, Turns, holds
<1>5. CASE ListApplicable(r)
  <2> DEFINE holds == Cardinality({p \in ListPolicies(r) : /\ p.client = mine[r].ask.client
                                                          /\ p.type = mine[r].ask.type
                                                          /\ p.action = mine[r].ask.action}) < MaxApplicable
  <2>1. Checks(r, "p_applicable", "p_insert", holds)
    BY <1>5 DEF ListApplicable
  <2> HIDE DEF holds
  <2>2. \/ Undoes(r)
        \/ /\ holds /\ ReadStep(r) /\ pc[r] = "p_applicable" /\ pc'[r] = "p_insert" /\ SameAsk(r)
           /\ IsAsk(mine'[r]) /\ AskFits(mine'[r])
    BY <2>1, ChecksMove DEF Over
  <2> QED
    BY <2>2 DEF Moves, Turns, holds
<1>6. CASE InsertPolicy(r)
  <2>1. pc[r] = "p_insert" /\ mine[r].ask.name \in Rows
    BY <1>6, AskedRow, RowsAre DEF InsertPolicy
  <2>2. CASE com[mine[r].ask.name] = None
    BY <1>6, <2>1, <2>2, WritesDoes DEF InsertPolicy, Moves, Puts, Inserts
  <2>3. CASE com[mine[r].ask.name] # None
    BY <1>6, <2>1, <2>3, ChecksMove DEF InsertPolicy, Over, Moves
  <2> QED
    BY <2>2, <2>3
<1>7. CASE DeletePolicy(r)
  BY <1>7, DeletesMove DEF DeletePolicy
<1> QED
  BY <1>1, <1>2, <1>3, <1>4, <1>5, <1>6, <1>7

\* The steps of a role that goes, and the end of every call.
LEMMA RoleMoves ==
  ASSUME LockInv, NEW r \in Requests,
         \/ LockForRole(r) \/ CheckUnnamed(r) \/ DeleteRole(r) \/ CommitCall(r, "done")
         \/ Unheard(r) \/ Fail(r) \/ \E owner \in Clients \cup {Realm} : CreateRole(r, owner)
  PROVE  Moves(r)
<1>1. CASE LockForRole(r)
  BY <1>1, LockMoves DEF LockForRole, Moves, Puts, Locks
<1>2. CASE CheckUnnamed(r)
  <2> DEFINE holds == ~IsNamedByPolicy(r, mine[r].ask)
  <2>1. Checks(r, "n_named", "n_delete", holds)
    BY <1>2 DEF CheckUnnamed
  <2> HIDE DEF holds
  <2>2. \/ Undoes(r)
        \/ /\ holds /\ ReadStep(r) /\ pc[r] = "n_named" /\ pc'[r] = "n_delete" /\ SameAsk(r)
           /\ IsAsk(mine'[r]) /\ AskFits(mine'[r])
    BY <2>1, ChecksMove DEF Over
  <2> QED
    BY <2>2 DEF Moves, Turns, holds
<1>3. CASE DeleteRole(r)
  BY <1>3, DeletesMove DEF DeleteRole
<1>4. CASE CommitCall(r, "done") \/ Unheard(r)
  BY <1>4, CommitDoes DEF Unheard, Moves, Ends, Over
<1>5. CASE Fail(r)
  BY <1>5, DropDoes DEF Fail, Moves, Undoes, Over
<1>6. CASE \E owner \in Clients \cup {Realm} : CreateRole(r, owner)
  BY <1>6, CreateDoes DEF Moves, Creates, SameAsk
<1> QED
  BY <1>1, <1>2, <1>3, <1>4, <1>5, <1>6

\* The calls begin.
LEMMA BeginMoves ==
  ASSUME LockInv, NEW r \in Requests,
         \/ \E s \in Schemas : BeginSchema(r, s)
         \/ \E t \in Relations : BeginRelation(r, t) \/ BeginDeletion(r, t)
         \/ \E p \in Policies : BeginPolicy(r, p)
         \/ \E n \in Names : BeginPolicyDeletion(r, n)
         \/ \E role \in Roles \cup Requests : BeginRoleDeletion(r, role)
  PROVE  Moves(r)
<1>1. CASE \E s \in Schemas : BeginSchema(r, s)
  BY <1>1, BeginDoes DEF BeginSchema, Moves, Turns, AskFits
<1>2. CASE \E t \in Relations : BeginRelation(r, t)
  BY <1>2, BeginDoes DEF BeginRelation, Moves, Turns, AskFits
<1>3. CASE \E t \in Relations : BeginDeletion(r, t)
  BY <1>3, BeginDoes DEF BeginDeletion, Moves, Turns, AskFits
<1>4. CASE \E p \in Policies : BeginPolicy(r, p)
  BY <1>4, BeginDoes DEF BeginPolicy, Moves, Turns, AskFits
<1>5. CASE \E n \in Names : BeginPolicyDeletion(r, n)
  BY <1>5, BeginDoes DEF BeginPolicyDeletion, Moves, Turns, AskFits
<1>6. CASE \E role \in Roles \cup Requests : BeginRoleDeletion(r, role)
  BY <1>6, BeginDoes DEF BeginRoleDeletion, Moves, Turns, AskFits
<1> QED
  BY <1>1, <1>2, <1>3, <1>4, <1>5, <1>6

\* Every step is one of these.
LEMMA NextMoves ==
  ASSUME LockInv, Next
  PROVE  \E r \in Requests : Moves(r)
BY SchemaMoves, RelationMoves, PolicyMoves, RoleMoves, BeginMoves DEF Next, Write

-----------------------------------------------------------------------------
(* The locks stay with who has them.                                       *)

\* What another request has is as it was.
LEMMA OtherHolds ==
  ASSUME LockInv, NEW r \in Requests, Alone(r), NEW x \in Rows, Kept(x), writer[x] # r
  PROVE  RowHeld(x)'
<1>1. RowHeld(x)
  BY DEF LockInv
<1>2. CASE writer[x] = None
  BY <1>1, <1>2 DEF RowHeld, Kept
<1>3. CASE writer[x] # None
  <2>1. writer[x] \in Requests /\ Holds(writer[x], x) /\ writer'[x] = writer[x]
    BY <1>1, <1>3 DEF RowHeld, Kept
  <2>2. PICK w \in Requests : w = writer[x]
    BY <2>1
  <2>3. pc'[w] = pc[w] /\ mine'[w] = mine[w] /\ com'[x] = com[x] /\ cur'[x] = cur[x] /\ writer'[x] = w
    BY <2>1, <2>2 DEF Alone, Kept
  <2>4. Holds(w, x)'
    BY <2>1, <2>2, <2>3 DEF Holds, Locked, Commits
  <2> QED
    BY <1>3, <2>2, <2>3, <2>4 DEF RowHeld
<1> QED
  BY <1>2, <1>3

\* Another request goes on as it was, if its role is not made for it.
LEMMA OtherFits ==
  ASSUME LockInv, NEW r \in Requests, Alone(r), NEW q \in Requests, q # r,
         pc[q] = "idle" => com'[q] = com[q]
  PROVE  IsAsk(mine'[q]) /\ OpFits(q)'
<1>1. IsAsk(mine[q]) /\ OpFits(q) /\ pc'[q] = pc[q] /\ mine'[q] = mine[q]
  BY DEF LockInv, Alone
<1> QED
  BY <1>1 DEF OpFits

\* A request that writes nothing has what its step says.
LEMMA TurnsLock ==
  ASSUME LockInv, NEW r \in Requests, Turns(r)
  PROVE  LockInv'
<1>1. /\ Shaped' /\ Alone(r) /\ (\A x \in Rows : Kept(x)) /\ IsAsk(mine'[r]) /\ AskFits(mine'[r])
      /\ IsAsk(mine[r]) /\ OpFits(r) /\ r \in Rows /\ Requests \subseteq Rows
  BY RowsAre DEF LockInv, Turns, ReadStep
<1>2. OpFits(r)'
  BY <1>1 DEF Turns, SameAsk, OpFits, AskFits, SchemaSteps, RelationSteps, PolicySteps, RoleSteps, Over
<1>3. \A q \in Requests : IsAsk(mine'[q]) /\ OpFits(q)'
  BY <1>1, <1>2, OtherFits DEF Kept
<1>4. ASSUME NEW x \in Rows, writer[x] = r PROVE RowHeld(x)'
  <2>1. Holds(r, x) /\ Kept(x)
    BY <1>1, <1>4, RowsAre DEF LockInv, RowHeld
  <2>2. x = "definitions" /\ Locked(r)
    BY <2>1, DefinitionsAssumption DEF Holds, Commits, Turns
  <2>3. Locked(r)'
    BY <2>2 DEF Locked, Turns, Commits
  <2>4. Holds(r, x)'
    BY <2>1, <2>2, <2>3, RowsAre DEF Holds, Kept
  <2> QED
    BY <1>4, <2>1, <2>4, RowsAre DEF RowHeld, Kept
<1>5. \A x \in Rows : RowHeld(x)'
  BY <1>1, <1>4, OtherHolds
<1> QED
  BY <1>1, <1>3, <1>5 DEF LockInv

\* A step that writes leaves the others theirs.
LEMMA PutsLock ==
  ASSUME LockInv, NEW r \in Requests, NEW X, NEW v, WriteStep(r, X, v),
         OpFits(r)', \A x \in Rows : writer'[x] = r => Holds(r, x)'
  PROVE  LockInv'
<1>1. /\ Shaped' /\ Alone(r) /\ IsAsk(mine[r]) /\ mine'[r] = mine[r]
      /\ Requests \subseteq Rows /\ None \notin Requests /\ \A x \in Rows : com'[x] = com[x]
      /\ \A x \in Rows : Wrote(r, x, v) \/ Kept(x)
  BY RowsAre DEF LockInv, WriteStep, Wrote, Kept
<1>2. \A q \in Requests : IsAsk(mine'[q]) /\ OpFits(q)'
  BY <1>1, OtherFits
<1>3. \A x \in Rows : writer'[x] = r => RowHeld(x)'
  BY <1>1 DEF RowHeld
<1>4. \A x \in Rows : writer'[x] # r => Kept(x) /\ writer[x] # r
  BY <1>1 DEF Wrote, Kept
<1>5. \A x \in Rows : RowHeld(x)'
  BY <1>1, <1>3, <1>4, OtherHolds
<1> QED
  BY <1>1, <1>2, <1>5 DEF LockInv

\* Whoever gets the lock of the definitions, or writes under it.
LEMMA PutLock ==
  ASSUME LockInv, NEW r \in Requests, Puts(r)
  PROVE  LockInv'
<1>1. OpFits(r) /\ (\A x \in Rows : RowHeld(x)) /\ r \in Rows
  BY RowsAre DEF LockInv
<1>2. \A x \in Rows : writer[x] = r => Holds(r, x)
  BY <1>1, RowsAre DEF RowHeld
<1>3. CASE Locks(r)
  <2>1. WriteStep(r, {"definitions"}, "row") /\ mine'[r] = mine[r] /\ com'[r] = com[r]
    BY <1>1, <1>3 DEF Locks, WriteStep, Wrote, Kept
  <2>2. OpFits(r)'
    BY <1>1, <1>3, <2>1 DEF Locks, OpFits, SchemaSteps, RelationSteps, PolicySteps, RoleSteps, Over
  <2>3. \A x \in Rows : writer[x] # r
    BY <1>2, <1>3, DefinitionsAssumption DEF Holds, Commits, Locked, Locks
  <2>4. ASSUME NEW x \in Rows, writer'[x] = r PROVE Holds(r, x)'
    <3>1. x = "definitions"
      BY <2>1, <2>3, <2>4 DEF WriteStep, Kept
    <3>2. Locked(r)'
      BY <1>3 DEF Locked, Locks
    <3> QED
      BY <3>1, <3>2, RowsAre DEF Holds
  <2> QED
    BY <2>1, <2>2, <2>4, PutsLock
<1>4. CASE PutsSchema(r)
  <2>1. WriteStep(r, {"schema"}, mine[r].ask) /\ mine'[r] = mine[r] /\ com'[r] = com[r]
    BY <1>1, <1>4 DEF PutsSchema, WriteStep, Wrote, Kept
  <2>2. OpFits(r)'
    BY <1>1, <1>4, <2>1 DEF PutsSchema, OpFits, SchemaSteps, RelationSteps, PolicySteps, RoleSteps, Over
  <2>3. ASSUME NEW x \in Rows, writer'[x] = r PROVE Holds(r, x)'
    <3>1. CASE x = "schema"
      BY <1>4, <2>1, <3>1, RowsAre DEF PutsSchema, WriteStep, Wrote, Holds
    <3>2. CASE x # "schema"
      <4>1. Kept(x) /\ Holds(r, x)
        BY <1>2, <2>1, <2>3, <3>2 DEF WriteStep, Kept
      <4>2. x = "definitions"
        BY <1>4, <3>2, <4>1, DefinitionsAssumption DEF Holds, Commits, PutsSchema
      <4>3. Locked(r)'
        BY <1>4 DEF PutsSchema, Locked
      <4> QED
        BY <4>2, <4>3, RowsAre DEF Holds
    <3> QED
      BY <3>1, <3>2
  <2> QED
    BY <2>1, <2>2, <2>3, PutsLock
<1>5. CASE Removes(r)
  <2> DEFINE X == {t \in RemovedBy(mine[r].before, mine[r].ask) : com[t] # None}
  <2>1. WriteStep(r, X, None) /\ mine'[r] = mine[r] /\ pc'[r] = "commit" /\ mine[r].op = "schema"
    BY <1>1, <1>5 DEF Removes, WriteStep, OpFits, SchemaSteps
  <2>2. OpFits(r)'
    BY <1>1, <1>5, <2>1 DEF Removes, OpFits, SchemaSteps, RelationSteps, PolicySteps, RoleSteps, Over
  <2>3. X \subseteq Relations
    BY DEF RemovedBy
  <2>4. ASSUME NEW x \in Rows, writer'[x] = r PROVE Holds(r, x)'
    <3>1. CASE x \in X
      <4>1. /\ x \in Relations /\ x \in RemovedBy(mine[r].before, mine[r].ask) /\ com[x] # None
            /\ com'[x] = com[x] /\ cur'[x] = None
        BY <2>1, <2>3, <3>1 DEF WriteStep, Wrote
      <4>2. Commits(r, "schema")'
        BY <2>1 DEF Commits
      <4> QED
        BY <2>1, <4>1, <4>2, RowsAre DEF Holds
    <3>2. CASE x \notin X
      <4>1. Kept(x) /\ Holds(r, x)
        BY <1>2, <2>1, <2>4, <3>2 DEF WriteStep, Kept
      <4>2. x = "definitions" \/ (x = "schema" /\ cur[x] = mine[r].ask)
        BY <1>5, <4>1, DefinitionsAssumption DEF Holds, Commits, Removes
      <4>3. Locked(r)' /\ Commits(r, "schema")'
        BY <2>1 DEF Locked, Commits
      <4> QED
        BY <2>1, <4>1, <4>2, <4>3, RowsAre DEF Holds, Kept
    <3> QED
      BY <3>1, <3>2
  <2> QED
    BY <2>1, <2>2, <2>4, PutsLock
<1>6. CASE Inserts(r)
  <2>1. PICK x0, v :
          /\ x0 \in Rows
          /\ WriteStep(r, {x0}, v) /\ com[x0] = None /\ pc'[r] = "commit" /\ mine'[r] = mine[r]
          /\ \/ pc[r] = "r_insert" /\ mine[r].op = "relate" /\ x0 = mine[r].ask /\ x0 \in Relations /\ v = "product"
             \/ pc[r] = "p_insert" /\ mine[r].op = "policy" /\ x0 = mine[r].ask.name /\ x0 \in Names /\ v = mine[r].ask
    <3>1. CASE pc[r] = "r_insert"
      <4>1. mine[r].op = "relate" /\ mine[r].ask \in Relations
        BY <1>1, <3>1 DEF OpFits, AskFits, RelationSteps, Over
      <4> QED
        BY <1>6, <3>1, <4>1, RowsAre DEF Inserts, WriteStep
    <3>2. CASE pc[r] = "p_insert"
      <4>1. mine[r].op = "policy" /\ mine[r].ask.name \in Names
        BY <1>1, <3>2, AskedRow DEF OpFits, PolicySteps
      <4> QED
        BY <1>6, <3>2, <4>1, RowsAre DEF Inserts, WriteStep
    <3> QED
      BY <1>6, <3>1, <3>2 DEF Inserts
  <2>2. OpFits(r)'
    BY <1>1, <2>1 DEF OpFits, AskFits, SchemaSteps, RelationSteps, PolicySteps, RoleSteps, Over
  <2>3. Locked(r)' /\ (mine[r].op = "relate" => Commits(r, "relate")') /\ (mine[r].op = "policy" => Commits(r, "policy")')
    BY <2>1 DEF Locked, Commits
  <2>4. ASSUME NEW x \in Rows, writer'[x] = r PROVE Holds(r, x)'
    <3>1. CASE x = x0
      <4>1. com'[x] = None /\ cur'[x] = v
        BY <2>1, <3>1 DEF WriteStep, Wrote
      <4> QED
        BY <2>1, <2>3, <3>1, <4>1, RowsAre DEF Holds
    <3>2. CASE x # x0
      <4>1. Kept(x) /\ Holds(r, x)
        BY <1>2, <2>1, <2>4, <3>2 DEF WriteStep, Kept
      <4>2. x = "definitions"
        BY <2>1, <4>1, DefinitionsAssumption DEF Holds, Commits
      <4> QED
        BY <2>3, <4>2, RowsAre DEF Holds
    <3> QED
      BY <3>1, <3>2
  <2> QED
    BY <2>1, <2>2, <2>4, PutsLock
<1>7. CASE Takes(r)
  <2>1. PICK x0 \in Rows :
          /\ WriteStep(r, {x0}, None) /\ com[x0] # None /\ pc'[r] = "commit" /\ mine'[r] = mine[r] /\ x0 = mine[r].ask
          /\ \/ pc[r] = "u_delete" /\ mine[r].op = "unrelate" /\ x0 \in Relations
             \/ pc[r] = "d_delete" /\ mine[r].op = "unpolicy" /\ x0 \in Names
             \/ pc[r] = "n_delete" /\ mine[r].op = "unrole" /\ x0 \in Roles \cup Requests
    <3>1. /\ pc[r] = "u_delete" => mine[r].op = "unrelate" /\ mine[r].ask \in Relations
          /\ pc[r] = "d_delete" => mine[r].op = "unpolicy" /\ mine[r].ask \in Names
          /\ pc[r] = "n_delete" => mine[r].op = "unrole" /\ mine[r].ask \in Roles \cup Requests
      BY <1>1 DEF OpFits, AskFits, RoleSteps, Over
    <3> QED
      BY <1>7, <3>1, RowsAre DEF Takes, WriteStep
  <2>2. OpFits(r)'
    BY <1>1, <2>1 DEF OpFits, AskFits, SchemaSteps, RelationSteps, PolicySteps, RoleSteps, Over
  <2>3. Commits(r, mine[r].op)' /\ (pc[r] = "n_delete" => Locked(r)')
    BY <2>1 DEF Locked, Commits
  <2>4. ASSUME NEW x \in Rows, writer'[x] = r PROVE Holds(r, x)'
    <3>1. CASE x = x0
      <4>1. com'[x] # None /\ cur'[x] = None
        BY <2>1, <3>1 DEF WriteStep, Wrote
      <4> QED
        BY <2>1, <2>3, <3>1, <4>1, RowsAre DEF Holds
    <3>2. CASE x # x0
      <4>1. Kept(x) /\ Holds(r, x)
        BY <1>2, <2>1, <2>4, <3>2 DEF WriteStep, Kept
      <4>2. x = "definitions" /\ Locked(r)
        BY <2>1, <4>1, DefinitionsAssumption DEF Holds, Commits
      <4>3. pc[r] = "n_delete"
        BY <2>1, <4>2 DEF Locked, Commits
      <4> QED
        BY <2>3, <4>2, <4>3, RowsAre DEF Holds
    <3> QED
      BY <3>1, <3>2
  <2> QED
    BY <2>1, <2>2, <2>4, PutsLock
<1> QED
  BY <1>3, <1>4, <1>5, <1>6, <1>7 DEF Puts

\* Who commits or is dropped has nothing more, and what others have is theirs.
LEMMA EndsLock ==
  ASSUME LockInv, NEW r \in Requests, Shaped', Alone(r), pc'[r] \in Over, IsAsk(mine'[r]),
         \A x \in Rows : \/ Kept(x) /\ writer[x] # r
                         \/ writer[x] = r /\ writer'[x] = None /\ cur'[x] = com'[x]
  PROVE  LockInv'
<1>1. (\A x \in Rows : RowHeld(x)) /\ Requests \subseteq Rows
  BY RowsAre DEF LockInv
<1>2. ASSUME NEW q \in Requests, q # r PROVE IsAsk(mine'[q]) /\ OpFits(q)'
  <2>1. CASE pc[q] # "idle"
    BY <1>2, <2>1, OtherFits
  <2>2. CASE pc[q] = "idle"
    <3>1. com[q] = None
      BY <2>2 DEF LockInv, OpFits
    <3>2. writer[q] # r
      BY <1>1, <3>1, RowsAre DEF RowHeld, Holds
    <3> QED
      BY <1>1, <1>2, <3>2, OtherFits DEF Kept
  <2> QED
    BY <2>1, <2>2
<1>3. OpFits(r)'
  BY DEF OpFits, Over, SchemaSteps, RelationSteps, PolicySteps, RoleSteps
<1>4. \A x \in Rows : RowHeld(x)'
  BY OtherHolds DEF RowHeld
<1> QED
  BY <1>2, <1>3, <1>4 DEF LockInv

\* A role that is created is held by nobody.
LEMMA CreatesLock ==
  ASSUME LockInv, NEW r \in Requests, Creates(r)
  PROVE  LockInv'
<1>1. /\ Shaped' /\ Alone(r) /\ mine'[r] = mine[r] /\ IsAsk(mine[r]) /\ OpFits(r) /\ Requests \subseteq Rows
      /\ pc[r] = "idle" /\ pc'[r] = "done" /\ \A x \in Rows : RowHeld(x)
  BY RowsAre DEF LockInv, Creates, SameAsk
<1>2. OpFits(r)'
  BY <1>1 DEF OpFits, Over, SchemaSteps, RelationSteps, PolicySteps, RoleSteps
<1>3. \A q \in Requests : IsAsk(mine'[q]) /\ OpFits(q)'
  BY <1>1, <1>2, OtherFits DEF Creates, Kept
<1>4. \A x \in Rows : x # r => Kept(x) /\ writer[x] # r
  BY <1>1, RowsAre, DefinitionsAssumption DEF Creates, RowHeld, Holds, Locked, Commits
<1>5. RowHeld(r)'
  BY DEF RowHeld, Creates
<1>6. \A x \in Rows : RowHeld(x)'
  BY <1>1, <1>4, <1>5, OtherHolds
<1> QED
  BY <1>1, <1>3, <1>6 DEF LockInv

\* Every step leaves each row with who has it.
LEMMA MovesLock ==
  ASSUME LockInv, NEW r \in Requests, Moves(r)
  PROVE  LockInv'
<1>1. CASE Ends(r)
  <2>1. IsAsk(mine'[r])
    BY <1>1 DEF Ends, IsAsk, NoAsk
  <2> QED
    BY <1>1, <2>1, EndsLock DEF Ends, CommitStep, Ended
<1>2. CASE Undoes(r)
  BY <1>2, EndsLock DEF Undoes, UndoStep, Undone
<1> QED
  BY <1>1, <1>2, TurnsLock, PutLock, CreatesLock DEF Moves

-----------------------------------------------------------------------------
(* What was read under the lock stays so.                                  *)

\* Each check is of a step under the lock.
LEMMA CheckedIsLocked ==
  ASSUME NEW q, ~Locked(q)
  PROVE  SchemaFits(q) /\ RelationFits(q) /\ PolicyFits(q) /\ RoleFits(q)
BY DEF Locked, Commits, SchemaFits, RelationFits, PolicyFits, RoleFits

\* A step that keeps the schema and the roles, and keeps or removes the rest.
Shrinks ==
  /\ com'["schema"] = com["schema"]
  /\ \A x \in Roles \cup Requests : com[x] # None => com'[x] = com[x]
  /\ \A x \in Relations \cup Names : com'[x] = None \/ com'[x] = com[x]

\* There are fewer policies then, and as few of each kind.
LEMMA FewerPolicies ==
  ASSUME Shrinks, IsFiniteSet(KeptPolicies)
  PROVE  /\ KeptPolicies' \subseteq KeptPolicies /\ IsFiniteSet(KeptPolicies')
         /\ \A c : Cardinality(Of(c)) \in Nat /\ Cardinality(Of(c))' \in Nat /\ Cardinality(Of(c))' <= Cardinality(Of(c))
         /\ \A p : /\ Cardinality(Beside(p)) \in Nat /\ Cardinality(Beside(p))' \in Nat
                   /\ Cardinality(Beside(p))' <= Cardinality(Beside(p))
<1>1. KeptPolicies' \subseteq KeptPolicies
  BY DEF Shrinks, KeptPolicies
<1>2. IsFiniteSet(KeptPolicies')
  BY <1>1, FS_Subset
<1>3. ASSUME NEW S, NEW T, IsFiniteSet(S), T \subseteq S
      PROVE  Cardinality(S) \in Nat /\ Cardinality(T) \in Nat /\ Cardinality(T) <= Cardinality(S)
  BY <1>3, FS_Subset, FS_CardinalityType
<1>4. ASSUME NEW c
      PROVE Cardinality(Of(c)) \in Nat /\ Cardinality(Of(c))' \in Nat /\ Cardinality(Of(c))' <= Cardinality(Of(c))
  <2>1. Of(c) \subseteq KeptPolicies /\ Of(c)' \subseteq Of(c)
    BY <1>1 DEF Of
  <2>2. IsFiniteSet(Of(c))
    BY <2>1, FS_Subset
  <2> QED
    BY <1>3, <2>1, <2>2
<1>5. ASSUME NEW p
      PROVE /\ Cardinality(Beside(p)) \in Nat /\ Cardinality(Beside(p))' \in Nat
            /\ Cardinality(Beside(p))' <= Cardinality(Beside(p))
  <2>1. Beside(p) \subseteq KeptPolicies /\ Beside(p)' \subseteq Beside(p)
    BY <1>1 DEF Beside
  <2>2. IsFiniteSet(Beside(p))
    BY <2>1, FS_Subset
  <2> QED
    BY <1>3, <2>1, <2>2
<1> QED
  BY <1>1, <1>2, <1>4, <1>5

\* A policy a call writes, and what its row and the row of its role are.
LEMMA AskedPolicy ==
  ASSUME LockInv, NEW q \in Requests, pc[q] \in PolicySteps \/ Commits(q, "policy")
  PROVE  mine[q].ask \in Policies /\ mine[q].ask.role \in Roles \cup Requests /\ mine[q].ask.name \in Names
<1>1. OpFits(q)
  BY DEF LockInv
<1>2. mine[q].ask \in Policies
  BY <1>1 DEF OpFits, AskFits, PolicySteps, Over, Commits
<1> QED
  BY <1>2, WrittenAssumption DEF Names

\* What another request read stays so.
LEMMA OthersRead ==
  ASSUME LockInv, ReadInv, KeptInv, NEW q \in Requests, Shrinks,
         pc'[q] = pc[q], mine'[q] = mine[q], \A x \in Rows : writer[x] = q => writer'[x] = q
  PROVE  /\ Locked(q)' => writer'["definitions"] = q
         /\ SchemaFits(q)' /\ RelationFits(q)' /\ PolicyFits(q)' /\ RoleFits(q)'
<1>1. /\ Locked(q) => writer["definitions"] = q
      /\ SchemaFits(q) /\ RelationFits(q) /\ PolicyFits(q) /\ RoleFits(q) /\ OpFits(q)
  BY DEF ReadInv, LockInv
<1>2. Locked(q)' = Locked(q) /\ \A op : Commits(q, op)' = Commits(q, op)
  BY DEF Locked, Commits
<1>3. Locked(q)' => writer'["definitions"] = q
  BY <1>1, <1>2, RowsAre
<1>4. KeptPolicies' \subseteq KeptPolicies /\ com'["schema"] = com["schema"]
  BY FewerPolicies DEF Shrinks, KeptInv, PoliciesFit
<1>5. SchemaFits(q)'
  <2>1. ASSUME Commits(q, "schema"), NEW t \in RemovedBy(mine[q].before, mine[q].ask), com'[t] # None
        PROVE  writer'[t] = q
    <3>1. t \in Relations /\ com'[t] = com[t]
      BY <2>1 DEF RemovedBy, Shrinks
    <3> QED
      BY <1>1, <2>1, <3>1, RowsAre DEF SchemaFits
  <2> QED
    BY <1>1, <1>2, <1>4, <2>1, RowsAre DEF SchemaFits
<1>6. RelationFits(q)'
  <2>1. Commits(q, "relate") => mine[q].ask \in Rows
    BY <1>1, RowsAre DEF OpFits, AskFits, Commits, Over
  <2> QED
    BY <1>1, <1>2, <1>4, <2>1 DEF RelationFits, Admits
<1>7. PolicyFits(q)'
  <2>0. PICK p : p = mine[q].ask
    OBVIOUS
  <2>1. /\ Cardinality(Of(p.client)) \in Nat /\ Cardinality(Of(p.client))' \in Nat
        /\ Cardinality(Of(p.client))' <= Cardinality(Of(p.client))
        /\ Cardinality(Beside(p)) \in Nat /\ Cardinality(Beside(p))' \in Nat
        /\ Cardinality(Beside(p))' <= Cardinality(Beside(p))
    BY FewerPolicies DEF KeptInv, PoliciesFit
  <2>2. MaxPolicies \in Nat /\ MaxApplicable \in Nat
    BY DefinitionsAssumption
  <2>3. ASSUME pc[q] \in PolicySteps \/ Commits(q, "policy")
        PROVE  /\ com[p.role] \in {Realm, p.client} => com'[p.role] \in {Realm, p.client}
               /\ writer[p.name] = q => writer'[p.name] = q
    <3>1. p \in Policies /\ p.role \in Roles \cup Requests /\ p.name \in Names
      BY <2>0, <2>3, AskedPolicy
    <3>2. None \notin {Realm, p.client}
      BY <3>1, WrittenAssumption DEF Clients
    <3> QED
      BY <3>1, <3>2, RowsAre DEF Shrinks
  <2>4. CASE pc[q] \in PolicySteps \/ Commits(q, "policy")
    <3>1. /\ com[p.role] \in {Realm, p.client} => com'[p.role] \in {Realm, p.client}
          /\ writer[p.name] = q => writer'[p.name] = q
      BY <2>3, <2>4
    <3>2. ~Decides(com["schema"], p.type) => ~Decides(com'["schema"], p.type)
      BY <1>4
    <3>3. /\ Cardinality(Of(p.client)) < MaxPolicies => Cardinality(Of(p.client))' < MaxPolicies
          /\ Cardinality(Beside(p)) < MaxApplicable => Cardinality(Beside(p))' < MaxApplicable
      BY <2>1, <2>2
    <3> QED
      BY <1>1, <1>2, <2>0, <3>1, <3>2, <3>3 DEF PolicyFits
  <2>5. CASE ~(pc[q] \in PolicySteps \/ Commits(q, "policy"))
    BY <1>2, <2>5 DEF PolicyFits, PolicySteps
  <2> QED
    BY <2>4, <2>5
<1>8. RoleFits(q)'
  BY <1>1, <1>2, <1>4 DEF RoleFits
<1> QED
  BY <1>3, <1>5, <1>6, <1>7, <1>8

\* Who has written nothing but the lock sees what is committed.
LEMMA SeesCommitted ==
  ASSUME LockInv, NEW r \in Requests, pc[r] # "commit", pc[r] # "s_remove"
  PROVE  /\ \A x \in Rows \ {"definitions"} : writer[x] # r /\ Sees(r, x) = com[x]
         /\ ListPolicies(r) = KeptPolicies
<1>1. ASSUME NEW x \in Rows \ {"definitions"} PROVE writer[x] # r /\ Sees(r, x) = com[x]
  <2>1. RowHeld(x)
    BY DEF LockInv
  <2>2. writer[x] # r
    BY <2>1, DefinitionsAssumption, RowsAre DEF RowHeld, Holds, Commits
  <2> QED
    BY <2>2 DEF Sees
<1>2. \A n \in Names : Sees(r, n) = com[n]
  BY <1>1, RowsAre
<1>3. ListPolicies(r) = KeptPolicies
  BY <1>2 DEF ListPolicies, KeptPolicies
<1> QED
  BY <1>1, <1>3

\* A step that changes nothing that is committed.
Quiet == \A x \in Rows : com'[x] = com[x]

\* It keeps what is kept, and what the others read.
LEMMA QuietKeeps ==
  ASSUME LockInv, ReadInv, KeptInv, NEW r \in Requests, Alone(r), Quiet, chain' = chain,
         \A x \in Rows : writer[x] \in {r, None} \/ writer'[x] = writer[x]
  PROVE  /\ KeptInv' /\ KeptPolicies' = KeptPolicies /\ com'["schema"] = com["schema"]
         /\ \A q \in Requests : q # r =>
              /\ Locked(q)' => writer'["definitions"] = q
              /\ SchemaFits(q)' /\ RelationFits(q)' /\ PolicyFits(q)' /\ RoleFits(q)'
<1>1. KeptPolicies' = KeptPolicies /\ com'["schema"] = com["schema"] /\ Shrinks
  BY RowsAre DEF Quiet, KeptPolicies, Shrinks
<1>2. ASSUME NEW q \in Requests, q # r
      PROVE  /\ Locked(q)' => writer'["definitions"] = q
             /\ SchemaFits(q)' /\ RelationFits(q)' /\ PolicyFits(q)' /\ RoleFits(q)'
  <2>1. pc'[q] = pc[q] /\ mine'[q] = mine[q] /\ \A x \in Rows : writer[x] = q => writer'[x] = q
    BY <1>2, RowsAre DEF Alone
  <2> QED
    BY <1>1, <2>1, OthersRead
<1>3. RelationsFit'
  <2>1. \A t \in Relations : com'[t] = com[t]
    BY RowsAre DEF Quiet
  <2>2. RelationsFit
    BY DEF KeptInv
  <2> QED
    BY <1>1, <2>1, <2>2 DEF RelationsFit, Admits
<1>4. PoliciesFit'
  <2>1. (\A n \in Names : com'[n] = com[n]) /\ PoliciesFit
    BY RowsAre DEF Quiet, KeptInv
  <2>2. (\A c : Of(c)' = Of(c)) /\ (\A p : Beside(p)' = Beside(p))
    BY <1>1 DEF Of, Beside
  <2>3. \A p \in KeptPolicies : com'[p.role] = com[p.role]
    <3>1. \A p \in KeptPolicies : p \in Policies
      BY <2>1 DEF PoliciesFit, KeptPolicies
    <3> QED
      BY <3>1, WrittenAssumption, RowsAre DEF Quiet
  <2>4. ASSUME NEW p \in KeptPolicies
        PROVE  /\ ~Decides(com'["schema"], p.type) /\ com'[p.role] \in {Realm, p.client}
               /\ Cardinality(Of(p.client)') <= MaxPolicies /\ Cardinality(Beside(p)') <= MaxApplicable
    BY <1>1, <2>1, <2>2, <2>3 DEF PoliciesFit
  <2> QED
    BY <1>1, <2>1, <2>4 DEF PoliciesFit
<1> QED
  BY <1>1, <1>2, <1>3, <1>4 DEF KeptInv

\* A check that passes finds what is committed.
LEMMA TurnsRead ==
  ASSUME LockInv, ReadInv, KeptInv, NEW r \in Requests, Turns(r)
  PROVE  ReadInv' /\ KeptInv'
<1>1. /\ Alone(r) /\ Quiet /\ chain' = chain /\ \A x \in Rows : writer'[x] = writer[x]
  BY DEF Turns, ReadStep, Quiet, Kept
<1>2. /\ KeptInv' /\ KeptPolicies' = KeptPolicies /\ com'["schema"] = com["schema"]
      /\ \A q \in Requests : q # r =>
           /\ Locked(q)' => writer'["definitions"] = q
           /\ SchemaFits(q)' /\ RelationFits(q)' /\ PolicyFits(q)' /\ RoleFits(q)'
  BY <1>1, QuietKeeps
<1>3. /\ Locked(r) => writer["definitions"] = r
      /\ SchemaFits(r) /\ RelationFits(r) /\ PolicyFits(r) /\ RoleFits(r) /\ OpFits(r)
  BY DEF ReadInv, LockInv
<1>4. pc[r] # "commit" /\ pc[r] # "s_remove" /\ pc'[r] # "commit" /\ pc'[r] # "s_remove"
  BY DEF Turns
<1>5. /\ \A x \in Rows \ {"definitions"} : writer[x] # r /\ Sees(r, x) = com[x]
      /\ ListPolicies(r) = KeptPolicies /\ Sees(r, "schema") = com["schema"]
  BY <1>4, SeesCommitted, RowsAre
<1>6. Locked(r)' => writer'["definitions"] = r
  <2>1. Locked(r)' => Locked(r)
    BY <1>4 DEF Locked, Commits, Turns
  <2> QED
    BY <1>1, <1>3, <2>1, RowsAre
<1>7. SchemaFits(r)'
  <2>1. ASSUME pc'[r] = "s_read" PROVE \A p \in KeptPolicies : p.type \notin mine'[r].ask.types
    <3>1. mine'[r] = mine[r] /\ ~HasPolicyForTypes(r, mine[r].ask.types)
      BY <2>1 DEF Turns, SameAsk
    <3> QED
      BY <1>5, <3>1 DEF HasPolicyForTypes
  <2>2. ASSUME pc'[r] = "s_write"
        PROVE  mine'[r].before = com["schema"] /\ \A p \in KeptPolicies : p.type \notin mine'[r].ask.types
    <3>1. pc[r] = "s_read" /\ mine'[r].ask = mine[r].ask /\ mine'[r].before = Sees(r, "schema")
      BY <2>2 DEF Turns
    <3> QED
      BY <1>3, <1>5, <3>1 DEF SchemaFits
  <2> QED
    BY <1>2, <1>4, <2>1, <2>2 DEF SchemaFits, Commits
<1>8. RelationFits(r)'
  <2>1. ASSUME pc'[r] = "r_insert" PROVE Admits(com["schema"], mine'[r].ask)
    BY <1>5, <2>1 DEF Turns, SameAsk, IsAdmitted, Admits
  <2> QED
    BY <1>2, <1>4, <2>1 DEF RelationFits, Commits, Admits
<1>9. PolicyFits(r)'
  <2>1. PICK p : p = mine[r].ask
    OBVIOUS
  <2>2. Of(p.client)' = Of(p.client) /\ Beside(p)' = Beside(p)
    BY <1>2 DEF Of, Beside
  <2>3. CASE pc'[r] \in {"p_type", "p_count", "p_applicable", "p_insert"}
    <3>1. mine'[r] = mine[r] /\ pc[r] \in PolicySteps
      BY <2>3 DEF Turns, SameAsk, PolicySteps
    <3>2. p \in Policies /\ p.role \in Rows \ {"definitions"}
      BY <2>1, <3>1, AskedPolicy, RowsAre
    <3>3. com'[p.role] = com[p.role] /\ Sees(r, p.role) = com[p.role]
      BY <1>1, <1>5, <3>2 DEF Quiet
    <3>4. com[p.role] \in {Realm, p.client}
      <4>1. CASE pc'[r] = "p_type"
        BY <2>1, <3>3, <4>1 DEF Turns, NamesARole
      <4>2. CASE pc'[r] # "p_type"
        BY <1>3, <2>1, <2>3, <4>2 DEF Turns, PolicyFits
      <4> QED
        BY <4>1, <4>2
    <3>5. pc'[r] # "p_type" => ~Decides(com["schema"], p.type)
      <4>1. CASE pc'[r] = "p_count"
        BY <1>5, <2>1, <4>1 DEF Turns, DecidedByRelations, Decides
      <4>2. CASE pc'[r] \in {"p_applicable", "p_insert"}
        BY <1>3, <2>1, <4>2 DEF Turns, PolicyFits
      <4> QED
        BY <2>3, <4>1, <4>2
    <3>6. pc'[r] \in {"p_applicable", "p_insert"} => Cardinality(Of(p.client)) < MaxPolicies
      <4>1. CASE pc'[r] = "p_applicable"
        <5>1. Cardinality({w \in ListPolicies(r) : w.client = p.client}) < MaxPolicies
          BY <2>1, <4>1 DEF Turns
        <5>2. {w \in ListPolicies(r) : w.client = p.client} = Of(p.client)
          BY <1>5 DEF Of
        <5> QED
          BY <5>1, <5>2
      <4>2. CASE pc'[r] = "p_insert"
        BY <1>3, <2>1, <4>2 DEF Turns, PolicyFits
      <4> QED
        BY <4>1, <4>2
    <3>7. pc'[r] = "p_insert" => Cardinality(Beside(p)) < MaxApplicable
      <4>1. SUFFICES ASSUME pc'[r] = "p_insert" PROVE Cardinality(Beside(p)) < MaxApplicable
        OBVIOUS
      <4>2. Cardinality({w \in ListPolicies(r) : w.client = p.client /\ w.type = p.type /\ w.action = p.action}) < MaxApplicable
        BY <2>1, <4>1 DEF Turns
      <4>3. {w \in ListPolicies(r) : w.client = p.client /\ w.type = p.type /\ w.action = p.action} = Beside(p)
        BY <1>5 DEF Beside
      <4> QED
        BY <4>2, <4>3
    <3>8. mine'[r].ask = p
      BY <2>1, <3>1
    <3> QED
      BY <1>2, <1>4, <2>2, <3>3, <3>4, <3>5, <3>6, <3>7, <3>8 DEF PolicyFits, Commits
  <2>4. CASE pc'[r] \notin {"p_type", "p_count", "p_applicable", "p_insert"}
    BY <1>4, <2>4 DEF PolicyFits, Commits
  <2> QED
    BY <2>3, <2>4
<1>10. RoleFits(r)'
  <2>1. ASSUME pc'[r] = "n_delete" PROVE \A p \in KeptPolicies : p.role # mine'[r].ask
    BY <1>5, <2>1 DEF Turns, SameAsk, IsNamedByPolicy
  <2> QED
    BY <1>2, <1>4, <2>1 DEF RoleFits, Commits
<1> QED
  BY <1>2, <1>6, <1>7, <1>8, <1>9, <1>10 DEF ReadInv

\* What a request read stays so while it writes.
LEMMA PutsRead ==
  ASSUME LockInv, ReadInv, KeptInv, NEW r \in Requests, Puts(r)
  PROVE  ReadInv' /\ KeptInv'
<1>1. PICK X, v : WriteStep(r, X, v)
  BY DEF Puts, Locks, PutsSchema, Removes, Inserts, Takes
<1>2. /\ Alone(r) /\ Quiet /\ chain' = chain /\ mine'[r] = mine[r]
      /\ \A x \in Rows : writer[x] \in {r, None} \/ writer'[x] = writer[x]
      /\ \A x \in Rows : writer[x] = r => writer'[x] = r
  BY <1>1 DEF WriteStep, Wrote, Kept, Quiet
<1>3. /\ KeptInv' /\ KeptPolicies' = KeptPolicies /\ com'["schema"] = com["schema"]
      /\ \A q \in Requests : q # r =>
           /\ Locked(q)' => writer'["definitions"] = q
           /\ SchemaFits(q)' /\ RelationFits(q)' /\ PolicyFits(q)' /\ RoleFits(q)'
  BY <1>2, QuietKeeps
<1>4. /\ Locked(r) => writer["definitions"] = r
      /\ SchemaFits(r) /\ RelationFits(r) /\ PolicyFits(r) /\ RoleFits(r) /\ OpFits(r)
  BY DEF ReadInv, LockInv
<1>5. CASE Locks(r)
  <2>1. writer'["definitions"] = r
    BY <1>5, RowsAre DEF Locks, WriteStep, Wrote
  <2>2. SchemaFits(r)' /\ RelationFits(r)' /\ PolicyFits(r)' /\ RoleFits(r)'
    BY <1>5 DEF Locks, SchemaFits, RelationFits, PolicyFits, RoleFits, Commits
  <2> QED
    BY <1>3, <2>1, <2>2 DEF ReadInv
<1>6. CASE PutsSchema(r) \/ Removes(r)
  <2>1. writer'["definitions"] = r
    BY <1>2, <1>4, <1>6, RowsAre DEF PutsSchema, Removes, Locked
  <2>2. mine[r].op = "schema" /\ pc[r] \in {"s_write", "s_remove"} /\ pc'[r] \in {"s_remove", "commit"}
    BY <1>4, <1>6 DEF PutsSchema, Removes, OpFits, SchemaSteps
  <2>3. /\ \A p \in KeptPolicies : p.type \notin mine[r].ask.types
        /\ mine[r].before = com["schema"]
    BY <1>4, <2>2 DEF SchemaFits
  <2>4. writer'["schema"] = r
    <3>1. CASE PutsSchema(r)
      BY <3>1, RowsAre DEF PutsSchema, WriteStep, Wrote
    <3>2. CASE Removes(r)
      BY <1>2, <1>4, <3>2, RowsAre DEF Removes, SchemaFits
    <3> QED
      BY <1>6, <3>1, <3>2
  <2>5. ASSUME pc'[r] = "commit", NEW t \in RemovedBy(mine[r].before, mine[r].ask), com'[t] # None
        PROVE  writer'[t] = r
    <3>1. t \in Rows /\ Removes(r)
      BY <1>6, <2>5, RowsAre DEF RemovedBy, PutsSchema
    <3>2. t \in {u \in RemovedBy(mine[r].before, mine[r].ask) : com[u] # None}
      BY <1>2, <2>5, <3>1 DEF Quiet
    <3> QED
      BY <3>1, <3>2 DEF Removes, WriteStep, Wrote
  <2>6. SchemaFits(r)'
    BY <1>2, <1>3, <2>2, <2>3, <2>4, <2>5 DEF SchemaFits, Commits
  <2>7. RelationFits(r)' /\ PolicyFits(r)' /\ RoleFits(r)'
    BY <1>2, <2>2 DEF RelationFits, PolicyFits, RoleFits, Commits
  <2> QED
    BY <1>3, <2>1, <2>6, <2>7 DEF ReadInv
<1>7. CASE Inserts(r)
  <2>1. writer'["definitions"] = r
    BY <1>2, <1>4, <1>7, RowsAre DEF Inserts, Locked
  <2>2. CASE pc[r] = "r_insert"
    <3>1. mine[r].op = "relate" /\ mine[r].ask \in Rows /\ pc'[r] = "commit"
      BY <1>4, <1>7, <2>2, AskedRow DEF Inserts, OpFits, RelationSteps
    <3>2. writer'[mine[r].ask] = r
      BY <1>7, <2>2, <3>1 DEF Inserts, WriteStep, Wrote
    <3>3. RelationFits(r)'
      BY <1>2, <1>3, <1>4, <2>2, <3>2 DEF RelationFits, Admits
    <3>4. SchemaFits(r)' /\ PolicyFits(r)' /\ RoleFits(r)'
      BY <1>2, <3>1 DEF SchemaFits, PolicyFits, RoleFits, Commits
    <3> QED
      BY <1>3, <2>1, <3>3, <3>4 DEF ReadInv
  <2>3. CASE pc[r] = "p_insert"
    <3>1. mine[r].op = "policy" /\ pc'[r] = "commit"
      BY <1>4, <1>7, <2>3 DEF Inserts, OpFits, PolicySteps
    <3>2. PICK p : p = mine[r].ask
      OBVIOUS
    <3>3. p \in Policies /\ p.name \in Names /\ p.role \in Roles \cup Requests
      BY <2>3, <3>2, AskedPolicy DEF PolicySteps
    <3>4. writer'[p.name] = r
      BY <1>7, <2>3, <3>2, <3>3, RowsAre DEF Inserts, WriteStep, Wrote
    <3>5. com'[p.role] = com[p.role]
      BY <1>2, <3>3, RowsAre DEF Quiet
    <3>6. Of(p.client)' = Of(p.client) /\ Beside(p)' = Beside(p) /\ mine'[r].ask = p
      BY <1>2, <1>3, <3>2 DEF Of, Beside
    <3>7. /\ com[p.role] \in {Realm, p.client} /\ ~Decides(com["schema"], p.type)
          /\ Cardinality(Of(p.client)) < MaxPolicies /\ Cardinality(Beside(p)) < MaxApplicable
      BY <1>4, <2>3, <3>2 DEF PolicyFits
    <3>8. PolicyFits(r)'
      BY <1>3, <3>4, <3>5, <3>6, <3>7 DEF PolicyFits
    <3>9. SchemaFits(r)' /\ RelationFits(r)' /\ RoleFits(r)'
      BY <1>2, <3>1 DEF SchemaFits, RelationFits, RoleFits, Commits
    <3> QED
      BY <1>3, <2>1, <3>8, <3>9 DEF ReadInv
  <2> QED
    BY <1>7, <2>2, <2>3 DEF Inserts
<1>8. CASE Takes(r)
  <2>1. CASE pc[r] = "n_delete"
    <3>1. mine[r].op = "unrole" /\ pc'[r] = "commit" /\ writer'["definitions"] = r
      BY <1>2, <1>4, <1>8, <2>1, RowsAre DEF Takes, OpFits, RoleSteps, Locked
    <3>2. RoleFits(r)'
      BY <1>2, <1>3, <1>4, <2>1 DEF RoleFits
    <3>3. SchemaFits(r)' /\ RelationFits(r)' /\ PolicyFits(r)'
      BY <1>2, <3>1 DEF SchemaFits, RelationFits, PolicyFits, Commits
    <3> QED
      BY <1>3, <3>1, <3>2, <3>3 DEF ReadInv
  <2>2. CASE pc[r] \in {"u_delete", "d_delete"}
    <3>1. mine[r].op \in {"unrelate", "unpolicy"} /\ pc'[r] = "commit"
      BY <1>4, <1>8, <2>2 DEF Takes, OpFits
    <3>2. ~Locked(r)'
      BY <1>2, <3>1 DEF Locked, Commits
    <3>3. SchemaFits(r)' /\ RelationFits(r)' /\ PolicyFits(r)' /\ RoleFits(r)'
      BY <1>2, <3>1 DEF SchemaFits, RelationFits, PolicyFits, RoleFits, Commits
    <3> QED
      BY <1>3, <3>2, <3>3 DEF ReadInv
  <2> QED
    BY <1>8, <2>1, <2>2 DEF Takes
<1> QED
  BY <1>5, <1>6, <1>7, <1>8 DEF Puts

-----------------------------------------------------------------------------
(* The end of a call.                                                      *)

\* A call that is over relies on nothing.
LEMMA OverRelies ==
  ASSUME NEW r \in Requests, pc'[r] \in Over
  PROVE  ~Locked(r)' /\ SchemaFits(r)' /\ RelationFits(r)' /\ PolicyFits(r)' /\ RoleFits(r)'
BY DEF Over, Locked, Commits, SchemaFits, RelationFits, PolicyFits, RoleFits

\* What is kept agrees while rows only go.
LEMMA ShrinkKeeps ==
  ASSUME KeptInv, Shrinks,
         \A t \in Relations : \/ com'[t] = com[t] /\ chain'[t] = chain[t]
                              \/ com'[t] = None /\ chain'[t] = 0
  PROVE  KeptInv'
<1>1. RelationsFit /\ PoliciesFit /\ com'["schema"] = com["schema"]
  BY DEF KeptInv, Shrinks
<1>2. RelationsFit'
  BY <1>1, WrittenAssumption DEF RelationsFit, Admits
<1>3. IsFiniteSet(KeptPolicies)
  BY <1>1 DEF PoliciesFit
<1>4. KeptPolicies' \subseteq KeptPolicies /\ IsFiniteSet(KeptPolicies')
  BY <1>3, FewerPolicies
<1>5. \A n \in Names : com'[n] # None => com'[n] \in Policies /\ com'[n].name = n
  BY <1>1 DEF PoliciesFit, Shrinks
<1>6. ASSUME NEW p \in KeptPolicies'
      PROVE  /\ ~Decides(com'["schema"], p.type) /\ com'[p.role] \in {Realm, p.client}
             /\ Cardinality(Of(p.client)') <= MaxPolicies /\ Cardinality(Beside(p)') <= MaxApplicable
  <2>1. p \in KeptPolicies /\ p \in Policies
    BY <1>1, <1>4 DEF PoliciesFit, KeptPolicies
  <2>2. /\ ~Decides(com["schema"], p.type) /\ com[p.role] \in {Realm, p.client}
        /\ Cardinality(Of(p.client)) <= MaxPolicies /\ Cardinality(Beside(p)) <= MaxApplicable
    BY <1>1, <2>1 DEF PoliciesFit
  <2>3. None \notin {Realm, p.client} /\ p.role \in Roles \cup Requests
    BY <2>1, WrittenAssumption DEF Clients
  <2>4. com'[p.role] = com[p.role]
    BY <2>2, <2>3 DEF Shrinks
  <2>5. /\ Cardinality(Of(p.client)) \in Nat /\ Cardinality(Of(p.client))' \in Nat
        /\ Cardinality(Of(p.client))' <= Cardinality(Of(p.client))
        /\ Cardinality(Beside(p)) \in Nat /\ Cardinality(Beside(p))' \in Nat
        /\ Cardinality(Beside(p))' <= Cardinality(Beside(p))
    BY <1>3, FewerPolicies
  <2>6. Cardinality(Of(p.client))' <= MaxPolicies /\ Cardinality(Beside(p))' <= MaxApplicable
    BY <2>2, <2>5, DefinitionsAssumption
  <2> QED
    BY <1>1, <2>2, <2>4, <2>6
<1>7. PoliciesFit'
  BY <1>4, <1>5, <1>6 DEF PoliciesFit
<1> QED
  BY <1>2, <1>7 DEF KeptInv

\* A call that is dropped, or a role created, changes nothing that was read.
LEMMA UndoesRead ==
  ASSUME LockInv, ReadInv, KeptInv, NEW r \in Requests, Undoes(r)
  PROVE  ReadInv' /\ KeptInv'
<1>1. /\ Alone(r) /\ Quiet /\ chain' = chain /\ pc'[r] \in Over
      /\ \A x \in Rows : writer[x] \in {r, None} \/ writer'[x] = writer[x]
  BY DEF Undoes, UndoStep, Undone, Kept, Quiet
<1>2. KeptInv' /\ \A q \in Requests : q # r =>
        /\ Locked(q)' => writer'["definitions"] = q
        /\ SchemaFits(q)' /\ RelationFits(q)' /\ PolicyFits(q)' /\ RoleFits(q)'
  BY <1>1, QuietKeeps
<1> QED
  BY <1>1, <1>2, OverRelies DEF ReadInv

\* A role that is created only adds to what policies may name.
LEMMA CreatesRead ==
  ASSUME LockInv, ReadInv, KeptInv, NEW r \in Requests, Creates(r)
  PROVE  ReadInv' /\ KeptInv'
<1>1. /\ Alone(r) /\ chain' = chain /\ pc'[r] \in Over /\ com[r] = None
      /\ \A x \in Rows : x # r => Kept(x)
      /\ \A x \in Rows : writer'[x] = writer[x]
  BY DEF Creates, Over, Kept
<1>2. \A x \in Relations \cup Names \cup {"schema"} : com'[x] = com[x]
  BY <1>1, RowsAre DEF Kept
<1>3. Shrinks
  BY <1>1, <1>2, RowsAre DEF Shrinks, Kept
<1>4. KeptInv'
  BY <1>1, <1>2, <1>3, ShrinkKeeps
<1>5. \A q \in Requests : q # r =>
        /\ Locked(q)' => writer'["definitions"] = q
        /\ SchemaFits(q)' /\ RelationFits(q)' /\ PolicyFits(q)' /\ RoleFits(q)'
  BY <1>1, <1>3, OthersRead DEF Alone
<1> QED
  BY <1>1, <1>4, <1>5, OverRelies DEF ReadInv

\* What a commit leaves, by what the call was for.
Left(r) == \A x \in Rows : com'[x] = IF writer[x] = r THEN cur[x] ELSE com[x]

\* A new schema admits what stays, and no policy is for what it decides.
LEMMA SchemaEnds ==
  ASSUME LockInv, ReadInv, KeptInv, NEW r \in Requests, Commits(r, "schema"), Left(r), chain' = Tells(r)
  PROVE  KeptInv'
<1>1. /\ SchemaFits(r) /\ OpFits(r) /\ RelationsFit /\ PoliciesFit
      /\ \A x \in Rows : writer[x] = r => Holds(r, x)
  BY RowsAre DEF ReadInv, LockInv, KeptInv, RowHeld
<1>2. PICK s \in Schemas : s = mine[r].ask
  BY <1>1 DEF OpFits, AskFits, Commits, Over
<1>3. s.readable /\ s # None
  BY WrittenAssumption
<1>4. com'["schema"] = s
  BY <1>1, <1>2, RowsAre DEF SchemaFits, Holds, Left
<1>5. \A x \in Names \cup Roles \cup Requests : com'[x] = com[x]
  BY <1>1, RowsAre DEF Holds, Commits, Left
<1>6. ASSUME NEW t \in Relations
      PROVE  /\ com'[t] \in {None, "product", "slipped", "unsure"}
             /\ com'[t] \in {"product", "unsure"} => Admits(s, t)
             /\ com'[t] = "slipped" => Kind[t] \notin s.kinds
             /\ chain'[t] = IF com'[t] = None THEN 0 ELSE 1
  <2>1. /\ com[t] \in {None, "product", "slipped", "unsure"} /\ chain[t] = (IF com[t] = None THEN 0 ELSE 1)
        /\ com[t] = "product" => Admits(com["schema"], t)
        /\ com[t] = "slipped" => \/ com["schema"] = None
                                 \/ com["schema"].readable /\ Kind[t] \notin com["schema"].kinds
        /\ com[t] = "unsure" => /\ com["schema"] # None
                                /\ ~com["schema"].readable \/ Admits(com["schema"], t)
    BY <1>1 DEF RelationsFit
  <2>2. chain'[t] = IF writer[t] = r /\ com[t] # None THEN chain[t] - 1 ELSE chain[t]
    BY DEF Tells, Commits
  <2>3. CASE writer[t] = r
    <3>1. cur[t] = None /\ com[t] # None
      BY <1>1, <2>3, RowsAre DEF Holds, Commits
    <3>2. com'[t] = None
      BY <2>3, <3>1, RowsAre DEF Left
    <3> QED
      BY <2>1, <2>2, <2>3, <3>1, <3>2, WrittenAssumption
  <2>4. CASE writer[t] # r
    <3>1. com'[t] = com[t] /\ chain'[t] = chain[t]
      BY <2>2, <2>4, RowsAre DEF Left
    <3>2. com[t] # None => t \notin RemovedBy(com["schema"], s)
      BY <1>1, <1>2, <2>4 DEF SchemaFits
    <3>3. com[t] = "product" => Admits(s, t)
      BY <1>3, <2>1, <3>2, WrittenAssumption DEF RemovedBy, ChangedKinds, Admits
    <3>4. com[t] = "slipped" => Kind[t] \notin s.kinds
      <4> SUFFICES ASSUME com[t] = "slipped" PROVE Kind[t] \notin s.kinds
        OBVIOUS
      <4>1. t \notin RemovedBy(com["schema"], s)
        BY <3>2, WrittenAssumption
      <4>2. com["schema"] # None
        BY <4>1 DEF RemovedBy
      <4>3. com["schema"].readable /\ Kind[t] \notin com["schema"].kinds
        BY <2>1, <4>2
      <4>4. Kind[t] \notin ChangedKinds(com["schema"], s)
        BY <4>1, <4>2, <4>3 DEF RemovedBy
      <4> QED
        BY <4>3, <4>4 DEF ChangedKinds
    <3>5. com[t] = "unsure" => Admits(s, t)
      <4> SUFFICES ASSUME com[t] = "unsure" PROVE Admits(s, t)
        OBVIOUS
      <4>1. t \notin RemovedBy(com["schema"], s) /\ com["schema"] # None
        BY <2>1, <3>2, WrittenAssumption
      <4>2. CASE ~com["schema"].readable
        BY <1>3, <4>1, <4>2 DEF RemovedBy, Admits
      <4>3. CASE com["schema"].readable
        <5>1. Kind[t] \in com["schema"].kinds
          BY <2>1, <4>3 DEF Admits
        <5>2. Kind[t] \notin ChangedKinds(com["schema"], s)
          BY <4>1, <4>3 DEF RemovedBy
        <5> QED
          BY <1>3, <5>1, <5>2 DEF ChangedKinds, Admits
      <4> QED
        BY <4>2, <4>3
    <3> QED
      BY <2>1, <3>1, <3>3, <3>4, <3>5
  <2> QED
    BY <2>3, <2>4
<1>7. RelationsFit'
  BY <1>3, <1>4, <1>6 DEF RelationsFit
<1>8. KeptPolicies' = KeptPolicies
  BY <1>5 DEF KeptPolicies
<1>9. (\A c : Of(c)' = Of(c)) /\ (\A p : Beside(p)' = Beside(p))
  BY <1>8 DEF Of, Beside
<1>10. ASSUME NEW p \in KeptPolicies
       PROVE  /\ ~Decides(s, p.type) /\ com'[p.role] \in {Realm, p.client}
              /\ Cardinality(Of(p.client)') <= MaxPolicies /\ Cardinality(Beside(p)') <= MaxApplicable
  <2>1. p \in Policies
    BY <1>1 DEF PoliciesFit, KeptPolicies
  <2>2. com'[p.role] = com[p.role]
    BY <1>5, <2>1, WrittenAssumption
  <2>3. p.type \notin s.types
    BY <1>1, <1>2 DEF SchemaFits
  <2> QED
    BY <1>1, <1>9, <2>2, <2>3 DEF PoliciesFit, Decides
<1>11. PoliciesFit'
  BY <1>1, <1>4, <1>5, <1>8, <1>10 DEF PoliciesFit
<1> QED
  BY <1>7, <1>11 DEF KeptInv

\* A relation is of a kind the schema still admits.
LEMMA RelationEnds ==
  ASSUME LockInv, ReadInv, KeptInv, NEW r \in Requests, Commits(r, "relate"), Left(r), chain' = Tells(r)
  PROVE  KeptInv'
<1>1. /\ RelationFits(r) /\ OpFits(r) /\ RelationsFit /\ PoliciesFit
      /\ \A x \in Rows : writer[x] = r => Holds(r, x)
  BY RowsAre DEF ReadInv, LockInv, KeptInv, RowHeld
<1>2. PICK t0 \in Relations : t0 = mine[r].ask
  BY <1>1 DEF OpFits, AskFits, Commits, Over
<1>3. /\ writer[t0] = r /\ cur[t0] = "product" /\ com[t0] = None /\ Admits(com["schema"], t0)
      /\ com'[t0] = "product"
  BY <1>1, <1>2, RowsAre DEF RelationFits, Holds, Commits, Left
<1>4. \A x \in Rows : x # t0 /\ x # "definitions" => writer[x] # r /\ com'[x] = com[x]
  BY <1>1, <1>2, DefinitionsAssumption, RowsAre DEF Holds, Commits, Left
<1>5. \A x \in Names \cup Roles \cup Requests \cup {"schema"} : com'[x] = com[x]
  BY <1>4, RowsAre
<1>6. RelationsFit'
  <2>1. \A t \in Relations : t # t0 => com'[t] = com[t] /\ chain'[t] = chain[t]
    BY <1>2, <1>4, RowsAre DEF Tells, Commits
  <2>2. chain'[t0] = chain[t0] + 1 /\ chain[t0] = 0
    BY <1>1, <1>2, <1>3 DEF Tells, Commits, RelationsFit
  <2>3. com'[t0] = "product" /\ Admits(com'["schema"], t0) /\ chain'[t0] = 1
    BY <1>3, <1>5, <2>2
  <2>4. com'["schema"] = com["schema"]
    BY <1>5
  <2> QED
    BY <1>1, <2>1, <2>3, <2>4, WrittenAssumption DEF RelationsFit, Admits
<1>7. PoliciesFit'
  <2>1. KeptPolicies' = KeptPolicies /\ com'["schema"] = com["schema"]
    BY <1>5 DEF KeptPolicies
  <2>2. (\A c : Of(c)' = Of(c)) /\ (\A p : Beside(p)' = Beside(p))
    BY <2>1 DEF Of, Beside
  <2>3. ASSUME NEW p \in KeptPolicies PROVE com'[p.role] = com[p.role]
    <3>1. p \in Policies
      BY <1>1 DEF PoliciesFit, KeptPolicies
    <3> QED
      BY <1>5, <3>1, WrittenAssumption
  <2>4. ASSUME NEW p \in KeptPolicies
        PROVE  /\ ~Decides(com'["schema"], p.type) /\ com'[p.role] \in {Realm, p.client}
               /\ Cardinality(Of(p.client)') <= MaxPolicies /\ Cardinality(Beside(p)') <= MaxApplicable
    BY <1>1, <2>1, <2>2, <2>3 DEF PoliciesFit
  <2> QED
    BY <1>1, <1>5, <2>1, <2>4 DEF PoliciesFit
<1> QED
  BY <1>6, <1>7 DEF KeptInv

\* A policy is one more, where there was room for it.
LEMMA PolicyEnds ==
  ASSUME LockInv, ReadInv, KeptInv, NEW r \in Requests, Commits(r, "policy"), Left(r), chain' = Tells(r)
  PROVE  KeptInv'
<1>1. /\ PolicyFits(r) /\ OpFits(r) /\ RelationsFit /\ PoliciesFit
      /\ \A x \in Rows : writer[x] = r => Holds(r, x)
  BY RowsAre DEF ReadInv, LockInv, KeptInv, RowHeld
<1>2. PICK p0 \in Policies : p0 = mine[r].ask /\ p0.role \in Roles \cup Requests /\ p0.name \in Names
  BY AskedPolicy
<1>3. /\ writer[p0.name] = r /\ cur[p0.name] = p0 /\ com[p0.name] = None /\ com'[p0.name] = p0
      /\ com[p0.role] \in {Realm, p0.client} /\ ~Decides(com["schema"], p0.type)
      /\ Cardinality(Of(p0.client)) < MaxPolicies /\ Cardinality(Beside(p0)) < MaxApplicable
  BY <1>1, <1>2, RowsAre DEF PolicyFits, Holds, Commits, Left
<1>4. \A x \in Rows : x # p0.name /\ x # "definitions" => writer[x] # r /\ com'[x] = com[x]
  BY <1>1, <1>2, DefinitionsAssumption, RowsAre DEF Holds, Commits, Left
<1>5. (\A x \in Relations \cup Roles \cup Requests : com'[x] = com[x]) /\ com'["schema"] = com["schema"]
  BY <1>2, <1>4, RowsAre
<1>6. RelationsFit'
  <2>1. \A t \in Relations : chain'[t] = chain[t]
    BY <1>2, <1>4, RowsAre DEF Tells, Commits
  <2> QED
    BY <1>1, <1>5, <2>1 DEF RelationsFit, Admits
<1>7. p0 # None
  BY WrittenAssumption
<1>8. \A n \in Names : n # p0.name => com'[n] = com[n]
  BY <1>4, RowsAre
<1>9. KeptPolicies' = KeptPolicies \cup {p0}
  BY <1>2, <1>3, <1>7, <1>8 DEF KeptPolicies
<1>10. IsFiniteSet(KeptPolicies) /\ IsFiniteSet(KeptPolicies')
  BY <1>1, <1>9, FS_AddElement DEF PoliciesFit
<1>11. ASSUME NEW S, IsFiniteSet(S), NEW T, T = S \cup {p0}, NEW m \in Nat, Cardinality(S) < m
       PROVE  Cardinality(T) <= m
  BY <1>11, FS_AddElement, FS_CardinalityType
<1>12. ASSUME NEW p \in KeptPolicies'
       PROVE  Cardinality(Of(p.client)') <= MaxPolicies
  <2>1. IsFiniteSet(Of(p.client))
    BY <1>10, FS_Subset DEF Of
  <2>2. CASE p.client = p0.client
    <3>1. Of(p.client)' = Of(p.client) \cup {p0}
      BY <1>9, <2>2 DEF Of
    <3> QED
      BY <1>3, <1>11, <2>1, <2>2, <3>1, DefinitionsAssumption
  <2>3. CASE p.client # p0.client
    <3>1. Of(p.client)' = Of(p.client) /\ p \in KeptPolicies
      BY <1>9, <2>3 DEF Of
    <3> QED
      BY <1>1, <3>1 DEF PoliciesFit
  <2> QED
    BY <2>2, <2>3
<1>13. ASSUME NEW p \in KeptPolicies'
       PROVE  Cardinality(Beside(p)') <= MaxApplicable
  <2>1. IsFiniteSet(Beside(p)) /\ IsFiniteSet(Beside(p0))
    BY <1>10, FS_Subset DEF Beside
  <2>2. CASE p.client = p0.client /\ p.type = p0.type /\ p.action = p0.action
    <3>1. Beside(p)' = Beside(p0) \cup {p0}
      BY <1>9, <2>2 DEF Beside
    <3> QED
      BY <1>3, <1>11, <2>1, <3>1, DefinitionsAssumption
  <2>3. CASE ~(p.client = p0.client /\ p.type = p0.type /\ p.action = p0.action)
    <3>1. Beside(p)' = Beside(p) /\ p \in KeptPolicies
      BY <1>9, <2>3 DEF Beside
    <3> QED
      BY <1>1, <3>1 DEF PoliciesFit
  <2> QED
    BY <2>2, <2>3
<1>14. ASSUME NEW p \in KeptPolicies'
       PROVE  ~Decides(com'["schema"], p.type) /\ com'[p.role] \in {Realm, p.client}
  <2>1. CASE p = p0
    BY <1>2, <1>3, <1>5, <2>1
  <2>2. CASE p \in KeptPolicies
    <3>1. p \in Policies /\ com[p.role] \in {Realm, p.client} /\ ~Decides(com["schema"], p.type)
      BY <1>1, <2>2 DEF PoliciesFit, KeptPolicies
    <3> QED
      BY <1>5, <3>1, WrittenAssumption
  <2> QED
    BY <1>9, <2>1, <2>2
<1>15. \A n \in Names : com'[n] # None => com'[n] \in Policies /\ com'[n].name = n
  BY <1>1, <1>2, <1>3, <1>8 DEF PoliciesFit
<1>16. PoliciesFit'
  BY <1>10, <1>12, <1>13, <1>14, <1>15 DEF PoliciesFit
<1> QED
  BY <1>6, <1>16 DEF KeptInv

\* A role goes that no policy names.
LEMMA RoleEnds ==
  ASSUME LockInv, ReadInv, KeptInv, NEW r \in Requests, Commits(r, "unrole"), Left(r), chain' = Tells(r)
  PROVE  KeptInv'
<1>1. /\ RoleFits(r) /\ OpFits(r) /\ RelationsFit /\ PoliciesFit
      /\ \A x \in Rows : writer[x] = r => Holds(r, x)
  BY RowsAre DEF ReadInv, LockInv, KeptInv, RowHeld
<1>2. PICK role \in Roles \cup Requests : role = mine[r].ask
  BY <1>1 DEF OpFits, AskFits, Commits, Over
<1>3. \A x \in Rows : x # role /\ x # "definitions" => writer[x] # r /\ com'[x] = com[x]
  BY <1>1, <1>2, DefinitionsAssumption, RowsAre DEF Holds, Commits, Left
<1>4. (\A x \in Relations \cup Names : com'[x] = com[x]) /\ com'["schema"] = com["schema"]
  BY <1>2, <1>3, RowsAre
<1>5. RelationsFit'
  <2>1. \A t \in Relations : chain'[t] = chain[t]
    BY <1>2, <1>3, RowsAre DEF Tells, Commits
  <2> QED
    BY <1>1, <1>4, <2>1 DEF RelationsFit, Admits
<1>6. PoliciesFit'
  <2>1. KeptPolicies' = KeptPolicies
    BY <1>4 DEF KeptPolicies
  <2>2. (\A c : Of(c)' = Of(c)) /\ (\A p : Beside(p)' = Beside(p))
    BY <2>1 DEF Of, Beside
  <2>3. ASSUME NEW p \in KeptPolicies PROVE com'[p.role] = com[p.role]
    <3>1. p \in Policies /\ p.role # role
      BY <1>1, <1>2 DEF PoliciesFit, KeptPolicies, RoleFits
    <3> QED
      BY <1>3, <3>1, WrittenAssumption, RowsAre
  <2>4. ASSUME NEW p \in KeptPolicies
        PROVE  /\ ~Decides(com'["schema"], p.type) /\ com'[p.role] \in {Realm, p.client}
               /\ Cardinality(Of(p.client)') <= MaxPolicies /\ Cardinality(Beside(p)') <= MaxApplicable
    BY <1>1, <1>4, <2>2, <2>3 DEF PoliciesFit
  <2> QED
    BY <1>1, <1>4, <2>1, <2>4 DEF PoliciesFit
<1> QED
  BY <1>5, <1>6 DEF KeptInv

\* A relation or a policy goes, under no lock.
LEMMA RemovalEnds ==
  ASSUME LockInv, ReadInv, KeptInv, NEW r \in Requests, Commits(r, "unrelate") \/ Commits(r, "unpolicy"),
         Left(r), chain' = Tells(r)
  PROVE  KeptInv' /\ Shrinks
<1>1. RelationsFit /\ \A x \in Rows : writer[x] = r => Holds(r, x)
  BY RowsAre DEF LockInv, KeptInv, RowHeld
<1>2. \A x \in Rows : writer[x] = r => x \in Relations \cup Names /\ cur[x] = None /\ com[x] # None
  BY <1>1, DefinitionsAssumption, RowsAre DEF Holds, Commits, Locked
<1>3. \A x \in Rows : com'[x] = com[x] \/ (x \in Relations \cup Names /\ com'[x] = None)
  BY <1>2 DEF Left
<1>4. Shrinks
  BY <1>3, RowsAre DEF Shrinks
<1>5. ASSUME NEW t \in Relations
      PROVE  \/ com'[t] = com[t] /\ chain'[t] = chain[t]
             \/ com'[t] = None /\ chain'[t] = 0
  <2>1. chain'[t] = IF writer[t] = r /\ com[t] # None THEN chain[t] - 1 ELSE chain[t]
    BY DEF Tells, Commits
  <2>2. CASE writer[t] = r
    <3>1. com[t] # None /\ com'[t] = None /\ chain[t] = 1
      BY <1>1, <1>2, <2>2, RowsAre DEF Left, RelationsFit
    <3> QED
      BY <2>1, <2>2, <3>1
  <2>3. CASE writer[t] # r
    BY <2>1, <2>3, RowsAre DEF Left
  <2> QED
    BY <2>2, <2>3
<1> QED
  BY <1>4, <1>5, ShrinkKeeps

\* A commit publishes what agrees.
LEMMA EndsRead ==
  ASSUME LockInv, ReadInv, KeptInv, NEW r \in Requests, Ends(r)
  PROVE  ReadInv' /\ KeptInv'
<1>1. /\ Left(r) /\ chain' = Tells(r) /\ Alone(r) /\ pc'[r] \in Over /\ pc[r] = "commit"
      /\ \A x \in Rows : writer[x] # r => writer'[x] = writer[x]
  BY DEF Ends, CommitStep, Ended, Kept, Left
<1>2. AskFits(mine[r])
  BY <1>1 DEF LockInv, OpFits, Over
<1>3. CASE Commits(r, "unrelate") \/ Commits(r, "unpolicy")
  <2>1. KeptInv' /\ Shrinks
    BY <1>1, <1>3, RemovalEnds
  <2>2. \A q \in Requests : q # r =>
          /\ Locked(q)' => writer'["definitions"] = q
          /\ SchemaFits(q)' /\ RelationFits(q)' /\ PolicyFits(q)' /\ RoleFits(q)'
    BY <1>1, <2>1, OthersRead DEF Alone
  <2> QED
    BY <1>1, <2>1, <2>2, OverRelies DEF ReadInv
<1>4. CASE Locked(r)
  <2>1. KeptInv'
    BY <1>1, <1>4, SchemaEnds, RelationEnds, PolicyEnds, RoleEnds DEF Locked
  <2>2. \A q \in Requests : q # r => ~Locked(q)
    BY <1>4 DEF ReadInv
  <2>3. \A q \in Requests : q # r => ~Locked(q)'
    BY <1>1, <2>2 DEF Locked, Commits, Alone
  <2>4. \A q \in Requests : q # r => SchemaFits(q)' /\ RelationFits(q)' /\ PolicyFits(q)' /\ RoleFits(q)'
    BY <2>3 DEF Locked, Commits, SchemaFits, RelationFits, PolicyFits, RoleFits
  <2> QED
    BY <1>1, <2>1, <2>3, <2>4, OverRelies DEF ReadInv
<1> QED
  BY <1>1, <1>2, <1>3, <1>4 DEF AskFits, Commits, Locked

\* Each step keeps what was read and what is kept.
LEMMA MovesRead ==
  ASSUME LockInv, ReadInv, KeptInv, NEW r \in Requests, Moves(r)
  PROVE  ReadInv' /\ KeptInv'
BY TurnsRead, PutsRead, EndsRead, CreatesRead, UndoesRead DEF Moves

-----------------------------------------------------------------------------
(* The theorems.                                                           *)

\* What is found at the start agrees.
LEMMA InitDefinitions == Init => DefInv
<1> SUFFICES ASSUME Init PROVE DefInv
  OBVIOUS
<1> DEFINE Found(schema, t) == IF schema = None THEN "slipped"
                               ELSE IF Kind[t] \in schema.kinds THEN "product"
                               ELSE IF schema.readable THEN "slipped" ELSE "unsure"
<1>1. PICK schema \in FirstSchemas, kept \in SUBSET Relations :
        /\ StorageInit([x \in Rows |->
             CASE x = "definitions" -> "row"
               [] x = "schema" -> schema
               [] x \in Roles -> Realm
               [] x \in kept -> Found(schema, x)
               [] OTHER -> None])
        /\ chain = [t \in Relations |-> IF t \in kept THEN 1 ELSE 0]
        /\ pc = [r \in Requests |-> "idle"]
        /\ mine = [r \in Requests |-> NoAsk]
  BY DEF Init
<1>2. /\ DOMAIN com = Rows /\ cur = com /\ DOMAIN writer = Rows /\ \A x \in Rows : writer[x] = None
      /\ DOMAIN chain = Relations /\ DOMAIN pc = Requests /\ DOMAIN mine = Requests
  BY <1>1 DEF StorageInit
<1>3. \A r \in Requests : pc[r] = "idle" /\ mine[r] = NoAsk
  BY <1>1
<1>4. (\A x \in Names \cup Requests : com[x] = None) /\ com["schema"] = schema
  BY <1>1, RowsAre, PartsAssumption DEF StorageInit
<1>5. \A t \in Relations :
        /\ com[t] = IF t \in kept THEN Found(schema, t) ELSE None
        /\ chain[t] = IF t \in kept THEN 1 ELSE 0
  BY <1>1, RowsAre, PartsAssumption DEF StorageInit, Admits
<1>6. LockInv
  <2>1. \A r \in Requests : IsAsk(mine[r]) /\ OpFits(r)
    BY <1>3, <1>4 DEF IsAsk, NoAsk, OpFits, SchemaSteps, RelationSteps, PolicySteps, RoleSteps, Over
  <2> QED
    BY <1>2, <2>1 DEF LockInv, Shaped, RowHeld
<1>7. ReadInv
  BY <1>3 DEF ReadInv, Locked, Commits, SchemaFits, RelationFits, PolicyFits, RoleFits
<1>8. RelationsFit
  BY <1>4, <1>5, WrittenAssumption DEF RelationsFit, Admits
<1>9. PoliciesFit
  <2>1. KeptPolicies = {}
    BY <1>4 DEF KeptPolicies
  <2> QED
    BY <1>4, <2>1, FS_EmptySet DEF PoliciesFit
<1> QED
  BY <1>6, <1>7, <1>8, <1>9 DEF DefInv, KeptInv

\* Nothing is read or kept otherwise where nothing changes.
LEMMA StutterDefinitions == DefInv /\ UNCHANGED vars => DefInv'
<1> SUFFICES ASSUME DefInv, UNCHANGED vars PROVE DefInv'
  OBVIOUS
<1>1. com' = com /\ cur' = cur /\ writer' = writer /\ pc' = pc /\ mine' = mine /\ chain' = chain
  BY DEF vars, storage
<1>2. LockInv'
  BY <1>1 DEF DefInv, LockInv, Shaped, OpFits, RowHeld, Holds, Locked, Commits
<1>3. KeptPolicies' = KeptPolicies
  BY <1>1 DEF KeptPolicies
<1>4. (\A c : Of(c)' = Of(c)) /\ (\A p : Beside(p)' = Beside(p))
  BY <1>3 DEF Of, Beside
<1>5. ReadInv'
  BY <1>1, <1>3, <1>4 DEF DefInv, ReadInv, Locked, Commits, SchemaFits, RelationFits, PolicyFits, RoleFits
<1>6. KeptInv'
  BY <1>1, <1>3, <1>4 DEF DefInv, KeptInv, RelationsFit, PoliciesFit
<1> QED
  BY <1>2, <1>5, <1>6 DEF DefInv

\* Whatever is written at once, every request relies on what it checked under
\* the lock of the definitions until it commits, and what is kept agrees.
THEOREM DefinitionsFit == Spec => []DefInv
<1>1. Init => DefInv
  BY InitDefinitions
<1>2. DefInv /\ [Next]_vars => DefInv'
  <2> SUFFICES ASSUME DefInv, [Next]_vars PROVE DefInv'
    OBVIOUS
  <2>1. CASE UNCHANGED vars
    BY <2>1, StutterDefinitions
  <2>2. CASE Next
    <3>1. LockInv /\ ReadInv /\ KeptInv
      BY DEF DefInv
    <3>2. PICK r \in Requests : Moves(r)
      BY <2>2, <3>1, NextMoves
    <3> QED
      BY <3>1, <3>2, MovesLock, MovesRead DEF DefInv
  <2> QED
    BY <2>1, <2>2
<1> QED
  BY <1>1, <1>2, PTL DEF Spec

\* The inductive invariant says that the definitions agree.
LEMMA KeptAgrees == DefInv => DefinitionsAgree
<1> SUFFICES ASSUME RelationsFit, PoliciesFit PROVE DefinitionsAgree
  BY DEF DefInv, KeptInv
<1>1. KeptIsAdmitted /\ NoneIsWoken /\ UnsureIsSettled /\ ChainTellsKept
  BY DEF KeptIsAdmitted, NoneIsWoken, UnsureIsSettled, ChainTellsKept, RelationsFit, Admits
<1>2. \A n \in Names : com[n] # None => com[n] \in KeptPolicies
  BY DEF KeptPolicies
<1>3. OneDecider /\ PoliciesNameWhatIs
  BY <1>2 DEF OneDecider, PoliciesNameWhatIs, PoliciesFit, Decides
<1>4. ASSUME NEW c \in Clients,
             NEW kept, kept = {com[n] : n \in {m \in Names : com[m] # None /\ com[m].client = c}}
      PROVE  /\ Cardinality(kept) <= MaxPolicies
             /\ \A p \in kept : Cardinality({q \in kept : q.type = p.type /\ q.action = p.action}) <= MaxApplicable
  <2>1. kept = Of(c)
    BY <1>4 DEF Of, KeptPolicies
  <2>2. Cardinality(kept) <= MaxPolicies
    <3>1. CASE kept = {}
      BY <3>1, FS_EmptySet, DefinitionsAssumption
    <3>2. CASE kept # {}
      <4>1. PICK p \in KeptPolicies : p.client = c
        BY <2>1, <3>2 DEF Of
      <4> QED
        BY <2>1, <4>1 DEF PoliciesFit
    <3> QED
      BY <3>1, <3>2
  <2>3. ASSUME NEW p \in kept
        PROVE  Cardinality({q \in kept : q.type = p.type /\ q.action = p.action}) <= MaxApplicable
    <3>1. p \in KeptPolicies /\ p.client = c
      BY <2>1 DEF Of
    <3>2. {q \in kept : q.type = p.type /\ q.action = p.action} = Beside(p)
      BY <2>1, <3>1 DEF Of, Beside
    <3> QED
      BY <3>1, <3>2 DEF PoliciesFit
  <2> QED
    BY <2>2, <2>3
<1>5. PoliciesAreBounded
  BY <1>4 DEF PoliciesAreBounded
<1> QED
  BY <1>1, <1>3, <1>5 DEF DefinitionsAgree

\* Whatever schemas, relations, policies and roles are written and removed at
\* once, fail, or commit unheard: the relations the product keeps are of kinds the
\* schema admits, of the others none counts but what the first schema that opens
\* found under one that did not and admits, no type has two deciders, each policy names a role that is there and
\* none is past its bounds, and the chain tells the relations kept.
THEOREM DefinitionsStayAgreed == Spec => []DefinitionsAgree
BY DefinitionsFit, KeptAgrees, PTL

=============================================================================
