----------------------------- MODULE Migration ------------------------------
(***************************************************************************)
(* Runs of `migrate` (crates/pgcore/src/migrate, lock.rs): each applies    *)
(* what its binary embeds and the schema has not seen, one transaction per *)
(* migration, under a lock that keeps runs apart and guarantees nothing: a *)
(* failover forgets it.                                                    *)
(*                                                                         *)
(* A migration is the name of its text, and its version its place in the   *)
(* binary.  A binary is the sequence of the migrations it embeds.          *)
(***************************************************************************)
EXTENDS Integers, Sequences, FiniteSets

CONSTANTS Runners, None,
          Texts,        \* the texts of migrations
          Embedded,     \* the migrations of each binary
          BinaryOf,     \* the binary of each runner
          FirstHistory, \* the migrations applied before
          MaxVersion, MaxRuns, MaxFailovers

ASSUME MigrationAssumption ==
  /\ {MaxVersion, MaxRuns, MaxFailovers} \subseteq Nat
  /\ None \notin Texts \cup {"Ahead", "Gap", "Drift"}
  /\ \A r \in Runners : BinaryOf[r] \in DOMAIN Embedded
  /\ \A b \in DOMAIN Embedded : Embedded[b] \in Seq(Texts) /\ Len(Embedded[b]) <= MaxVersion
  /\ FirstHistory \in Seq(Texts) /\ Len(FirstHistory) <= MaxVersion

VARIABLES history,    \* schema_migrations: the text of each version, or None
          schema,     \* the texts whose statements are committed, in order
          lock,       \* the runner whose session holds the lock, or None
          step,       \* what each run is at, or how it ended
          next,       \* the version each run applies next
          runs, failovers

migrations == <<history, schema, lock, step, next, runs, failovers>>

Versions == 1..MaxVersion
Ended == {"none", "Done", "AlreadyRunning", "Refused", "Ahead", "Gap", "Drift", "Failed", "Lost"}

MigrationInit ==
  /\ history = [v \in Versions |-> IF v <= Len(FirstHistory) THEN FirstHistory[v] ELSE None]
  /\ schema = FirstHistory
  /\ lock = None
  /\ step = [r \in Runners |-> "none"]
  /\ next = [r \in Runners |-> 0]
  /\ runs = 0
  /\ failovers = 0

-----------------------------------------------------------------------------
(* The plan.                                                               *)

Pending(r) == Embedded[BinaryOf[r]]

Applied == {v \in Versions : history[v] # None}

\* Where a version stands in the history read in order.
Position(v) == Cardinality({u \in Applied : u <= v})

\* What is wrong with an applied version, if anything.
Trouble(r, v) ==
  IF Position(v) > Len(Pending(r)) THEN "Ahead"
  ELSE IF v # Position(v) THEN "Gap"
  ELSE IF history[v] # Pending(r)[v] THEN "Drift"
  ELSE None

\* The first trouble of the history, or None: the applied history must be a
\* prefix of what the binary embeds.
PlanPending(r) ==
  LET troubled == {v \in Applied : Trouble(r, v) # None} IN
    IF troubled = {} THEN None
    ELSE Trouble(r, CHOOSE v \in troubled : \A u \in troubled : v <= u)

\* The version of the schema: the last migration applied, or 0.
SchemaVersion == IF Applied = {} THEN 0 ELSE CHOOSE v \in Applied : \A u \in Applied : u <= v

-----------------------------------------------------------------------------
(* A run.                                                                  *)

Goes(r, to) == step' = [step EXCEPT ![r] = to]

\* The connection closes: what is not committed is undone, the lock is free.
Ends(r, how) ==
  /\ Goes(r, how)
  /\ lock' = IF lock = r THEN None ELSE lock
  /\ UNCHANGED <<next, runs, failovers>>

Start(r) ==
  /\ step[r] \in Ended /\ runs < MaxRuns
  /\ runs' = runs + 1
  /\ Goes(r, "connect")
  /\ UNCHANGED <<history, schema, lock, next, failovers>>

\* pg_try_advisory_lock, without waiting.
TryLock(r) ==
  /\ step[r] = "connect"
  /\ IF lock = None
     THEN /\ lock' = r
          /\ Goes(r, "plan")
          /\ UNCHANGED <<next, runs, failovers>>
     ELSE Ends(r, "AlreadyRunning")
  /\ UNCHANGED <<history, schema>>

\* A role of the cluster is missing, or the runner bypasses row security.
RefuseRunner(r) ==
  /\ step[r] = "plan"
  /\ Ends(r, "Refused")
  /\ UNCHANGED <<history, schema>>

ReadPlan(r) ==
  /\ step[r] = "plan"
  /\ IF PlanPending(r) # None
     THEN Ends(r, PlanPending(r))
     ELSE /\ next' = [next EXCEPT ![r] = Cardinality(Applied) + 1]
          /\ Goes(r, "apply")
          /\ UNCHANGED <<lock, runs, failovers>>
  /\ UNCHANGED <<history, schema>>

\* The text of a migration, in a transaction: it waits for the one that is
\* creating the same things, and fails when they are there.
Execute(r) ==
  /\ step[r] = "apply" /\ next[r] <= Len(Pending(r))
  /\ \A o \in Runners \ {r} :
       step[o] \in {"ran", "recorded"} => Pending(o)[next[o]] # Pending(r)[next[r]]
  /\ \A i \in DOMAIN schema : schema[i] # Pending(r)[next[r]]
  /\ Goes(r, "ran")
  /\ UNCHANGED <<history, schema, lock, next, runs, failovers>>

\* Mutant: a version written down already is written over.
RecordOver(r) ==
  /\ step[r] = "ran"
  /\ Goes(r, "recorded")
  /\ UNCHANGED <<history, schema, lock, next, runs, failovers>>

\* The version is the key of the history: it waits for the run that is writing
\* it down, and fails when it is there.
Record(r) ==
  /\ step[r] = "ran"
  /\ \A o \in Runners \ {r} : step[o] = "recorded" => next[o] # next[r]
  /\ history[next[r]] = None
  /\ Goes(r, "recorded")
  /\ UNCHANGED <<history, schema, lock, next, runs, failovers>>

Publish(r) ==
  /\ history' = [history EXCEPT ![next[r]] = Pending(r)[next[r]]]
  /\ schema' = Append(schema, Pending(r)[next[r]])

CommitOne(r) ==
  /\ step[r] = "recorded"
  /\ Publish(r)
  /\ next' = [next EXCEPT ![r] = @ + 1]
  /\ Goes(r, "apply")
  /\ UNCHANGED <<lock, runs, failovers>>

\* A statement fails, or waited too long for a lock: rolled back.
FailOne(r) ==
  /\ step[r] \in {"apply", "ran", "recorded"} /\ next[r] <= Len(Pending(r))
  /\ Ends(r, "Failed")
  /\ UNCHANGED <<history, schema>>

\* The commit took effect, and its answer was lost.
Unheard(r) ==
  /\ step[r] = "recorded"
  /\ Publish(r)
  /\ Ends(r, "Failed")

\* The process or its link dies.
LoseRun(r) ==
  /\ step[r] \notin Ended
  /\ Ends(r, "Lost")
  /\ UNCHANGED <<history, schema>>

Report(r) ==
  /\ step[r] = "apply" /\ next[r] > Len(Pending(r))
  /\ Ends(r, "Done")
  /\ UNCHANGED <<history, schema>>

\* A failover: locks are not replicated, and the run goes on.
Failover ==
  /\ failovers < MaxFailovers /\ lock # None
  /\ failovers' = failovers + 1
  /\ lock' = None
  /\ UNCHANGED <<history, schema, step, next, runs>>

Run(r) ==
  \/ TryLock(r) \/ ReadPlan(r) \/ Execute(r) \/ Record(r) \/ CommitOne(r) \/ Report(r)

Migrate ==
  \/ \E r \in Runners :
       Run(r) \/ Start(r) \/ RefuseRunner(r) \/ FailOne(r) \/ Unheard(r) \/ LoseRun(r)
  \/ Failover

-----------------------------------------------------------------------------
(* Properties.                                                             *)

\* What the history says is what the schema is, in order and without a gap,
\* and some binary embeds it: no run that was cut, that another overtook or
\* that a failover let in leaves a version half applied, applied twice, or of
\* one lineage upon another.
HistoryIsOneLineage ==
  /\ \A v \in Versions : history[v] = IF v <= Len(schema) THEN schema[v] ELSE None
  /\ Len(schema) <= MaxVersion
  /\ \/ schema = FirstHistory
     \/ \E b \in DOMAIN Embedded : /\ Len(schema) <= Len(Embedded[b])
                                   /\ \A i \in DOMAIN schema : schema[i] = Embedded[b][i]

\* A run that says it is done leaves its whole binary applied.
DoneMeansApplied ==
  \A r \in Runners :
    step[r] = "Done" => \A v \in DOMAIN Pending(r) : history[v] = Pending(r)[v]

\* Every run ends: none waits for another for ever, whoever holds the lock.
EveryRunEnds == \A r \in Runners : (step[r] = "connect") ~> (step[r] \in Ended)

\* What the history says is so, and so is what a run says when it is done.
HistoryStands == HistoryIsOneLineage /\ DoneMeansApplied
=============================================================================
