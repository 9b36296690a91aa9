--------------------------- MODULE RolloutProofs ----------------------------
(***************************************************************************)
(* What runs of `migrate` leave, and where requests go meanwhile: for any  *)
(* runners, binaries, nodes and bounds.  The lock is used nowhere here: it *)
(* keeps runs from waiting for each other, and the history is safe without.*)
(***************************************************************************)
EXTENDS Rollout, FiniteSetTheorems, WellFoundedInduction, TLAPS

-----------------------------------------------------------------------------
(* The history and the runs.                                               *)

\* The history says what the schema is.
HistoryFits ==
  /\ schema \in Seq(Texts) /\ Len(schema) <= MaxVersion
  /\ history = [v \in Versions |-> IF v <= Len(schema) THEN schema[v] ELSE None]

\* Runner r embeds the first n migrations of the schema.
Shares(r, n) ==
  /\ n <= Len(schema) /\ n <= Len(Pending(r))
  /\ \A i \in 1 .. n : schema[i] = Pending(r)[i]

\* A run applies the next migration upon those it read, and writes down a
\* version nobody has written.
RunFits(r) ==
  /\ step[r] \in {"apply", "ran", "recorded"} =>
       next[r] \in Nat \ {0} /\ Shares(r, next[r] - 1)
  /\ step[r] \in {"ran", "recorded"} => next[r] <= Len(Pending(r))
  /\ step[r] = "recorded" => next[r] = Len(schema) + 1
  /\ step[r] = "Done" => Shares(r, Len(Pending(r)))

\* The schema is what it was first, or what some binary embeds.
LineageFits ==
  \/ schema = FirstHistory
  \/ \E b \in DOMAIN Embedded : /\ Len(schema) <= Len(Embedded[b])
                                /\ \A i \in DOMAIN schema : schema[i] = Embedded[b][i]

MigrationInv ==
  /\ HistoryFits /\ LineageFits
  /\ step = [r \in Runners |-> step[r]] /\ next = [r \in Runners |-> next[r]]
  /\ \A r \in Runners : RunFits(r)
  /\ \A r, o \in Runners : step[r] = "recorded" /\ step[o] = "recorded" => r = o

\* The versions applied are the first ones, without a gap.
LEMMA AppliedIsPrefix ==
  ASSUME HistoryFits
  PROVE  /\ Len(schema) \in Nat /\ Applied = 1 .. Len(schema)
         /\ Cardinality(Applied) = Len(schema) /\ SchemaVersion = Len(schema)
<1>1. Len(schema) \in Nat /\ MaxVersion \in Nat
  BY MigrationAssumption DEF HistoryFits
<1>2. \A v \in 1 .. Len(schema) : schema[v] # None
  BY MigrationAssumption DEF HistoryFits
<1>3. Applied = 1 .. Len(schema)
  BY <1>1, <1>2 DEF HistoryFits, Applied, Versions
<1>4. Cardinality(Applied) = Len(schema)
  BY <1>1, <1>3, FS_Interval
<1>5. SchemaVersion = Len(schema)
  <2>1. CASE Len(schema) = 0
    BY <2>1, <1>3 DEF SchemaVersion
  <2>2. CASE Len(schema) # 0
    <3>1. Len(schema) \in Applied /\ \A u \in Applied : u <= Len(schema)
      BY <2>2, <1>1, <1>3
    <3>2. \A v \in Applied : (\A u \in Applied : u <= v) => v = Len(schema)
      BY <3>1, <1>1, <1>3
    <3> QED
      BY <3>1, <3>2 DEF SchemaVersion
  <2> QED
    BY <2>1, <2>2
<1> QED
  BY <1>1, <1>3, <1>4, <1>5

\* Read in order, a version stands where its number says.
LEMMA PositionIsVersion ==
  ASSUME HistoryFits, NEW v \in Applied
  PROVE  Position(v) = v
<1>1. Len(schema) \in Nat /\ Applied = 1 .. Len(schema)
  BY AppliedIsPrefix
<1>2. {u \in Applied : u <= v} = 1 .. v
  BY <1>1
<1>3. v \in Nat /\ v >= 1
  BY <1>1
<1>4. Cardinality(1 .. v) = v
  BY <1>3, FS_Interval
<1> QED
  BY <1>2, <1>4 DEF Position

\* Of any numbers there is a least one: the first trouble of a plan.
LEMMA LeastOfVersions ==
  ASSUME NEW S \in SUBSET Nat, S # {}
  PROVE  \E v \in S : \A u \in S : v <= u
<1> DEFINE R == OpToRel(<, Nat)
<1>1. PICK v \in S : \A u \in S : ~(<<u, v>> \in R)
  BY NatLessThanWellFounded, WFMin
<1>2. \A u \in S : ~(u < v)
  BY <1>1 DEF OpToRel
<1> HIDE DEF R
<1> QED
  BY <1>2

\* A binary embeds a sequence of texts, and no more versions than there are.
LEMMA PendingIsText ==
  ASSUME NEW r \in Runners
  PROVE  Pending(r) \in Seq(Texts) /\ Len(Pending(r)) \in Nat /\ Len(Pending(r)) <= MaxVersion
<1>1. BinaryOf[r] \in DOMAIN Embedded
  BY MigrationAssumption
<1>2. Embedded[BinaryOf[r]] \in Seq(Texts) /\ Len(Embedded[BinaryOf[r]]) <= MaxVersion
  BY <1>1, MigrationAssumption
<1> QED
  BY <1>2 DEF Pending

\* A plan that finds no trouble found what the binary embeds.
LEMMA PlanIsPrefix ==
  ASSUME HistoryFits, NEW r \in Runners, PlanPending(r) = None
  PROVE  Shares(r, Len(schema))
<1>1. Len(schema) \in Nat /\ Applied = 1 .. Len(schema) /\ MaxVersion \in Nat
  BY AppliedIsPrefix, MigrationAssumption
<1> DEFINE troubled == {v \in Applied : Trouble(r, v) # None}
<1>2. troubled = {}
  <2> SUFFICES ASSUME troubled # {} PROVE FALSE
    OBVIOUS
  <2>1. \E v \in troubled : \A u \in troubled : v <= u
    <3>1. troubled \in SUBSET Nat
      BY <1>1
    <3> HIDE DEF troubled
    <3> QED
      BY <3>1, LeastOfVersions
  <2>2. PlanPending(r) = Trouble(r, CHOOSE v \in troubled : \A u \in troubled : v <= u)
    BY DEF PlanPending
  <2> DEFINE least == CHOOSE v \in troubled : \A u \in troubled : v <= u
  <2>3. least \in troubled
    BY <2>1
  <2> QED
    BY <2>2, <2>3
<1>3. ASSUME NEW v \in 1 .. Len(schema)
      PROVE  v <= Len(Pending(r)) /\ schema[v] = Pending(r)[v]
  <2>1. v \in Applied /\ Trouble(r, v) = None
    BY <1>1, <1>2
  <2>2. Position(v) = v
    BY <2>1, PositionIsVersion
  <2>3. ~(v > Len(Pending(r))) /\ history[v] = Pending(r)[v]
    BY <2>1, <2>2, MigrationAssumption DEF Trouble
  <2>4. history[v] = schema[v]
    BY <1>1 DEF HistoryFits, Versions
  <2> QED
    BY <1>1, <2>3, <2>4, PendingIsText
<1>4. Len(schema) <= Len(Pending(r))
  <2>1. CASE Len(schema) = 0
    BY <2>1, PendingIsText
  <2>2. CASE Len(schema) # 0
    BY <2>2, <1>1, <1>3
  <2> QED
    BY <2>1, <2>2
<1> QED
  BY <1>1, <1>3, <1>4 DEF Shares

\* A step of one run that writes nothing and does not write a version down
\* leaves the others where they are.
LEMMA RunMoves ==
  ASSUME MigrationInv, NEW r \in Runners, NEW to, Goes(r, to), to # "recorded",
         UNCHANGED <<history, schema>>, next' = [o \in Runners |-> next'[o]],
         \A o \in Runners \ {r} : next'[o] = next[o],
         RunFits(r)'
  PROVE  MigrationInv'
<1>1. step' = [o \in Runners |-> IF o = r THEN to ELSE step[o]]
  BY DEF MigrationInv, Goes
<1>2. HistoryFits' /\ LineageFits'
  BY DEF MigrationInv, HistoryFits, LineageFits, Versions
<1>3. ASSUME NEW o \in Runners
      PROVE  RunFits(o)'
  <2>1. CASE o = r
    BY <2>1
  <2>2. CASE o # r
    <3>1. step'[o] = step[o] /\ next'[o] = next[o] /\ RunFits(o)
      BY <2>2, <1>1 DEF MigrationInv
    <3> QED
      BY <3>1 DEF RunFits, Shares, Pending
  <2> QED
    BY <2>1, <2>2
<1>4. \A o, p \in Runners : step'[o] = "recorded" /\ step'[p] = "recorded" => o = p
  BY <1>1 DEF MigrationInv
<1> QED
  BY <1>1, <1>2, <1>3, <1>4 DEF MigrationInv

\* A run that ends, done apart, leaves no trace.
LEMMA RunEnds ==
  ASSUME MigrationInv, NEW r \in Runners, NEW how, Ends(r, how), UNCHANGED <<history, schema>>,
         how \notin {"apply", "ran", "recorded"}, how = "Done" => Shares(r, Len(Pending(r)))
  PROVE  MigrationInv'
<1>1. Goes(r, how) /\ next' = next /\ step'[r] = how
  BY DEF Ends, Goes, MigrationInv
<1>2. RunFits(r)'
  BY <1>1 DEF RunFits, Shares, Pending
<1> QED
  BY <1>1, <1>2, RunMoves DEF MigrationInv

\* A commit carries the schema on by the one migration its run wrote down.
LEMMA PublishFits ==
  ASSUME MigrationInv, NEW r \in Runners, step[r] = "recorded", Publish(r)
  PROVE  /\ HistoryFits' /\ LineageFits'
         /\ \A n \in Nat : n = next[r] => Shares(r, n)'
         /\ \A o \in Runners : \A n \in Nat : Shares(o, n) => Shares(o, n)'
<1>1. /\ schema \in Seq(Texts) /\ Len(schema) \in Nat /\ Len(schema) <= MaxVersion
      /\ next[r] = Len(schema) + 1 /\ Shares(r, Len(schema)) /\ next[r] <= Len(Pending(r))
      /\ history = [v \in Versions |-> IF v <= Len(schema) THEN schema[v] ELSE None]
      /\ MaxVersion \in Nat
  BY MigrationAssumption DEF MigrationInv, HistoryFits, RunFits
<1>2. /\ Pending(r) \in Seq(Texts) /\ Len(Pending(r)) \in Nat /\ Len(Pending(r)) <= MaxVersion
      /\ Pending(r)' = Pending(r)
  BY PendingIsText DEF Pending
<1> DEFINE text == Pending(r)[next[r]]
<1>3. text \in Texts /\ schema' = Append(schema, text)
  BY <1>1, <1>2 DEF Publish
<1>4. /\ schema' \in Seq(Texts) /\ Len(schema') = Len(schema) + 1
      /\ schema'[Len(schema) + 1] = text
      /\ \A i \in 1 .. Len(schema) : schema'[i] = schema[i]
  BY <1>1, <1>3
<1>5. Len(schema') <= MaxVersion
  BY <1>1, <1>2, <1>4
<1>6. history' = [v \in Versions |-> IF v <= Len(schema') THEN schema'[v] ELSE None]
  <2>1. history' = [history EXCEPT ![next[r]] = text]
    BY DEF Publish
  <2> HIDE DEF text
  <2>2. ASSUME NEW v \in Versions
        PROVE  history'[v] = IF v <= Len(schema') THEN schema'[v] ELSE None
    BY <2>1, <1>1, <1>4 DEF Versions
  <2>3. history' = [v \in Versions |-> history'[v]]
    <3>1. history = [v \in Versions |-> history[v]]
      BY <1>1
    <3> QED
      BY <2>1, <3>1
  <2> QED
    BY <2>2, <2>3
<1>7. HistoryFits'
  BY <1>4, <1>5, <1>6 DEF HistoryFits, Versions
<1>8. ASSUME NEW n \in Nat, n = next[r]
      PROVE  Shares(r, n)'
  <2>1. n <= Len(schema') /\ n <= Len(Pending(r))
    BY <1>1, <1>4, <1>8
  <2>2. \A i \in 1 .. n : schema'[i] = Pending(r)[i]
    BY <1>1, <1>4, <1>8 DEF Shares
  <2> QED
    BY <2>1, <2>2, <1>2 DEF Shares
<1>9. LineageFits'
  <2>1. BinaryOf[r] \in DOMAIN Embedded /\ Embedded[BinaryOf[r]] = Pending(r)
    BY MigrationAssumption DEF Pending
  <2>2. DOMAIN schema' = 1 .. next[r]
    BY <1>1, <1>4
  <2>3. \A i \in 1 .. next[r] : schema'[i] = Pending(r)[i]
    BY <1>1, <1>4 DEF Shares
  <2> QED
    BY <2>1, <2>2, <2>3, <1>1, <1>4 DEF LineageFits
<1>10. ASSUME NEW o \in Runners, NEW n \in Nat, Shares(o, n)
       PROVE  Shares(o, n)'
  BY <1>1, <1>4, <1>10 DEF Shares, Pending
<1> QED
  BY <1>7, <1>8, <1>9, <1>10

\* Of two runs that would write one version down, one has to wait.
LEMMA RecordAlone ==
  ASSUME MigrationInv, NEW r \in Runners, Record(r)
  PROVE  MigrationInv'
<1>1. /\ step' = [o \in Runners |-> IF o = r THEN "recorded" ELSE step[o]]
      /\ next' = next /\ UNCHANGED <<history, schema>> /\ step[r] = "ran"
  BY DEF MigrationInv, Record, Goes
<1>2. /\ Len(schema) \in Nat /\ MaxVersion \in Nat
      /\ next[r] \in Nat \ {0} /\ next[r] - 1 <= Len(schema) /\ next[r] <= MaxVersion
      /\ schema \in Seq(Texts)
  BY <1>1, MigrationAssumption, PendingIsText DEF MigrationInv, HistoryFits, RunFits, Shares
<1>3. next[r] = Len(schema) + 1
  <2> SUFFICES ASSUME next[r] <= Len(schema) PROVE FALSE
    BY <1>2
  <2>1. history[next[r]] = schema[next[r]]
    BY <1>2 DEF MigrationInv, HistoryFits, Versions
  <2>2. schema[next[r]] # None
    BY <1>2, MigrationAssumption
  <2> QED
    BY <2>1, <2>2 DEF Record
<1>4. \A o \in Runners \ {r} : step[o] # "recorded"
  BY <1>3 DEF Record, MigrationInv, RunFits
<1>5. ASSUME NEW o \in Runners
      PROVE  RunFits(o)'
  BY <1>1, <1>3 DEF MigrationInv, RunFits, Shares, Pending
<1> QED
  BY <1>1, <1>4, <1>5 DEF MigrationInv, HistoryFits, LineageFits, Versions

\* A commit, heard of or not, moves its run on or ends it.
LEMMA CommitFits ==
  ASSUME MigrationInv, NEW r \in Runners, step[r] = "recorded", Publish(r),
         NEW to, Goes(r, to), to \notin {"ran", "recorded", "Done"},
         \/ next' = next /\ to # "apply"
         \/ next' = [next EXCEPT ![r] = @ + 1]
  PROVE  MigrationInv'
<1>1. /\ step' = [o \in Runners |-> IF o = r THEN to ELSE step[o]]
      /\ next' = [o \in Runners |-> next'[o]]
      /\ \A o \in Runners \ {r} : next'[o] = next[o]
      /\ to = "apply" => next'[r] = next[r] + 1
  BY DEF MigrationInv, Goes
<1>2. next[r] \in Nat \ {0} /\ \A o \in Runners \ {r} : step[o] # "recorded"
  BY DEF MigrationInv, RunFits
<1>3. to = "apply" => next'[r] \in Nat \ {0} /\ next'[r] - 1 = next[r]
  BY <1>1, <1>2
<1>4. ASSUME NEW o \in Runners
      PROVE  RunFits(o)'
  <2>1. CASE o = r
    <3>1. step'[o] = to
      BY <2>1, <1>1
    <3>2. ASSUME to = "apply" PROVE Shares(o, next[o] - 1)'
      <4>1. PICK n \in Nat : n = next[r]
        BY <1>2
      <4>2. Shares(r, n)'
        BY <4>1, PublishFits
      <4>3. next'[r] - 1 = n
        BY <3>2, <4>1, <1>3
      <4> QED
        BY <2>1, <4>2, <4>3
    <3> QED
      BY <2>1, <3>1, <3>2, <1>3 DEF RunFits
  <2>2. CASE o # r
    <3>1. step'[o] = step[o] /\ next'[o] = next[o] /\ step[o] # "recorded" /\ RunFits(o)
      BY <2>2, <1>1, <1>2 DEF MigrationInv
    <3>2. \A n \in Nat : Shares(o, n) => Shares(o, n)'
      BY PublishFits
    <3>3. ASSUME step[o] \in {"apply", "ran"}
          PROVE  next[o] \in Nat \ {0} /\ Shares(o, next[o] - 1)'
      <4>1. next[o] \in Nat \ {0} /\ Shares(o, next[o] - 1)
        BY <3>1, <3>3 DEF RunFits
      <4>2. PICK n \in Nat : n = next[o] - 1
        BY <4>1
      <4>3. Shares(o, n)'
        BY <3>2, <4>1, <4>2
      <4> QED
        BY <3>1, <4>1, <4>2, <4>3
    <3>4. ASSUME step[o] = "Done"
          PROVE  Shares(o, Len(Pending(o)))'
      <4>1. PICK n \in Nat : n = Len(Pending(o)) /\ n = Len(Pending(o)')
        BY PendingIsText DEF Pending
      <4> QED
        BY <3>1, <3>2, <3>4, <4>1 DEF RunFits
    <3> QED
      BY <3>1, <3>3, <3>4 DEF RunFits, Pending
  <2> QED
    BY <2>1, <2>2
<1>5. \A o, p \in Runners : step'[o] = "recorded" /\ step'[p] = "recorded" => o = p
  BY <1>1, <1>2
<1>6. HistoryFits' /\ LineageFits'
  BY PublishFits
<1> QED
  BY <1>1, <1>4, <1>5, <1>6 DEF MigrationInv

\* Every step of a run, and a failover, keeps what is written.
LEMMA MigrationStands == MigrationInv /\ Migrate => MigrationInv'
<1> SUFFICES ASSUME MigrationInv, Migrate PROVE MigrationInv'
  OBVIOUS
<1>1. ASSUME NEW r \in Runners, Start(r) PROVE MigrationInv'
  <2>1. Goes(r, "connect") /\ next' = next /\ UNCHANGED <<history, schema>> /\ step'[r] = "connect"
    BY <1>1 DEF Start, Goes, MigrationInv
  <2>2. RunFits(r)'
    BY <2>1 DEF RunFits
  <2> QED
    BY <2>1, <2>2, RunMoves DEF MigrationInv
<1>2. ASSUME NEW r \in Runners, TryLock(r) PROVE MigrationInv'
  <2>1. CASE lock = None
    <3>1. Goes(r, "plan") /\ next' = next /\ UNCHANGED <<history, schema>> /\ step'[r] = "plan"
      BY <1>2, <2>1 DEF TryLock, Goes, MigrationInv
    <3>2. RunFits(r)'
      BY <3>1 DEF RunFits
    <3> QED
      BY <3>1, <3>2, RunMoves DEF MigrationInv
  <2>2. CASE lock # None
    BY <1>2, <2>2, RunEnds DEF TryLock
  <2> QED
    BY <2>1, <2>2
<1>3. ASSUME NEW r \in Runners, RefuseRunner(r) PROVE MigrationInv'
  BY <1>3, RunEnds DEF RefuseRunner
<1>4. ASSUME NEW r \in Runners, ReadPlan(r) PROVE MigrationInv'
  <2>1. CASE PlanPending(r) = None
    <3>1. /\ Goes(r, "apply") /\ UNCHANGED <<history, schema>> /\ step'[r] = "apply"
          /\ next' = [next EXCEPT ![r] = Cardinality(Applied) + 1]
      BY <1>4, <2>1 DEF ReadPlan, Goes, MigrationInv
    <3>2. Len(schema) \in Nat /\ Cardinality(Applied) = Len(schema)
      BY AppliedIsPrefix DEF MigrationInv
    <3>3. Shares(r, Len(schema))
      BY <2>1, PlanIsPrefix DEF MigrationInv
    <3>4. next'[r] = Len(schema) + 1 /\ next' = [o \in Runners |-> next'[o]]
          /\ \A o \in Runners \ {r} : next'[o] = next[o]
      BY <3>1, <3>2 DEF MigrationInv
    <3>5. next'[r] \in Nat \ {0} /\ next'[r] - 1 = Len(schema)
      BY <3>2, <3>4
    <3>6. RunFits(r)'
      BY <3>1, <3>3, <3>5 DEF RunFits, Shares, Pending
    <3> QED
      BY <3>1, <3>4, <3>6, RunMoves
  <2>2. CASE PlanPending(r) # None
    <3>1. PlanPending(r) \in {"Ahead", "Gap", "Drift"}
      BY <2>2 DEF PlanPending, Trouble
    <3>2. Ends(r, PlanPending(r)) /\ UNCHANGED <<history, schema>>
      BY <1>4, <2>2 DEF ReadPlan
    <3> QED
      BY <3>1, <3>2, RunEnds
  <2> QED
    BY <2>1, <2>2
<1>5. ASSUME NEW r \in Runners, Execute(r) PROVE MigrationInv'
  <2>1. /\ Goes(r, "ran") /\ next' = next /\ UNCHANGED <<history, schema>> /\ step'[r] = "ran"
        /\ step[r] = "apply" /\ next[r] <= Len(Pending(r))
    BY <1>5 DEF Execute, Goes, MigrationInv
  <2>2. RunFits(r)'
    BY <2>1 DEF MigrationInv, RunFits, Shares, Pending
  <2> QED
    BY <2>1, <2>2, RunMoves DEF MigrationInv
<1>6. ASSUME NEW r \in Runners, Record(r) PROVE MigrationInv'
  BY <1>6, RecordAlone
<1>7. ASSUME NEW r \in Runners, CommitOne(r) PROVE MigrationInv'
  BY <1>7, CommitFits DEF CommitOne
<1>8. ASSUME NEW r \in Runners, FailOne(r) PROVE MigrationInv'
  BY <1>8, RunEnds DEF FailOne
<1>9. ASSUME NEW r \in Runners, Unheard(r) PROVE MigrationInv'
  BY <1>9, CommitFits DEF Unheard, Ends
<1>10. ASSUME NEW r \in Runners, LoseRun(r) PROVE MigrationInv'
  BY <1>10, RunEnds DEF LoseRun
<1>11. ASSUME NEW r \in Runners, Report(r) PROVE MigrationInv'
  <2>1. next[r] \in Nat \ {0} /\ Shares(r, next[r] - 1) /\ next[r] > Len(Pending(r))
    BY <1>11 DEF Report, MigrationInv, RunFits
  <2>2. Len(Pending(r)) \in Nat
    BY PendingIsText
  <2>3. Shares(r, Len(Pending(r)))
    BY <2>1, <2>2 DEF Shares
  <2> QED
    BY <1>11, <2>3, RunEnds DEF Report
<1>12. CASE Failover
  BY <1>12 DEF Failover, MigrationInv, HistoryFits, LineageFits, Versions, RunFits, Shares, Pending
<1> QED
  BY <1>1, <1>2, <1>3, <1>4, <1>5, <1>6, <1>7, <1>8, <1>9, <1>10, <1>11, <1>12 DEF Migrate, Run

\* What happens to nodes leaves the migrations alone.
LEMMA MigrateOrNot == [Next]_vars => UNCHANGED migrations \/ Migrate
  BY DEF Next, vars, migrations, Tick, StartNode, CheckDatabase, RefuseStart, Signal, StopData,
         EndNode, FinishRequest, AskReadiness, AnswerReadiness, FailProbe, Send

\* The migrations are kept from the first state on.
LEMMA MigrationHolds == Spec => []MigrationInv
<1>1. Init => MigrationInv
  <2> SUFFICES ASSUME Init PROVE MigrationInv
    OBVIOUS
  <2>1. HistoryFits
    BY MigrationAssumption DEF Init, MigrationInit, HistoryFits
  <2>2. LineageFits
    BY DEF Init, MigrationInit, LineageFits
  <2> QED
    BY <2>1, <2>2 DEF Init, MigrationInit, MigrationInv, RunFits
<1>2. MigrationInv /\ [Next]_vars => MigrationInv'
  <2> SUFFICES ASSUME MigrationInv, [Next]_vars PROVE MigrationInv'
    OBVIOUS
  <2>1. CASE UNCHANGED migrations
    BY <2>1 DEF migrations, MigrationInv, HistoryFits, LineageFits, Versions, RunFits, Shares, Pending
  <2>2. CASE Migrate
    BY <2>2, MigrationStands
  <2> QED
    BY <2>1, <2>2, MigrateOrNot
<1> QED
  BY <1>1, <1>2, PTL DEF Spec

\* For any runners and binaries, of one lineage or of several, however runs
\* are cut, lose an answer or are let in together by failovers: the history is
\* the schema, in order and without a gap, what one binary embeds or what was
\* there first, and a run that says it is done left its whole binary applied.
THEOREM HistoryStaysOneLineage == Spec => []HistoryStands
<1>1. MigrationInv => HistoryStands
  <2> SUFFICES ASSUME MigrationInv PROVE HistoryStands
    OBVIOUS
  <2>1. HistoryIsOneLineage
    BY DEF MigrationInv, HistoryFits, LineageFits, HistoryIsOneLineage
  <2>2. ASSUME NEW r \in Runners, step[r] = "Done", NEW v \in DOMAIN Pending(r)
        PROVE  history[v] = Pending(r)[v]
    <3>1. Pending(r) \in Seq(Texts) /\ Len(Pending(r)) \in Nat /\ Len(Pending(r)) <= MaxVersion
      BY PendingIsText
    <3>2. v \in 1 .. Len(Pending(r))
      BY <2>2, <3>1
    <3>3. Shares(r, Len(Pending(r)))
      BY <2>2 DEF MigrationInv, RunFits
    <3>4. v <= Len(schema) /\ schema[v] = Pending(r)[v] /\ v \in Versions
      <4>1. schema \in Seq(Texts) /\ Len(schema) \in Nat /\ MaxVersion \in Nat
        BY MigrationAssumption DEF MigrationInv, HistoryFits
      <4> QED
        BY <3>1, <3>2, <3>3, <4>1 DEF Shares, Versions
    <3> QED
      BY <3>4 DEF MigrationInv, HistoryFits
  <2> QED
    BY <2>1, <2>2 DEF HistoryStands, DoneMeansApplied
<1> QED
  BY <1>1, MigrationHolds, PTL

-----------------------------------------------------------------------------
(* The nodes.                                                              *)

\* The schema a node reads.
Window(n) == Len(Embedded[BinaryOf[n]])

NodeSteps == {"down", "start", "serving", "draining", "stopping"}

NodeTypes ==
  /\ node \in [Nodes -> [step : NodeSteps, time : Nat, inFlight : Nat]]
  /\ asked \in [Nodes -> BOOLEAN] /\ routed \in [Nodes -> BOOLEAN]
  /\ sinceAsked \in [Nodes -> Nat] /\ stale \in [Nodes -> Nat]

\* A node that serves, or served, was in its window, and one that was seen out
\* of it is out of it for good: the schema never goes back.
WindowFits(n) ==
  /\ node[n].step \notin {"down", "start"} => Window(n) <= Len(schema)
  /\ stale[n] > 0 => Window(n) < Len(schema)

\* Requests go to a node by the last answer it gave, or by the one before while
\* it is asked again; a node out of its window gives no other like it.
AnswerFits(n) ==
  /\ asked[n] => sinceAsked[n] <= ProbePatience
  /\ routed[n] /\ ~asked[n] => stale[n] <= sinceAsked[n] /\ stale[n] <= PollPeriod
  /\ routed[n] /\ asked[n] => stale[n] <= PollPeriod + sinceAsked[n]

NodesInv == NodeTypes /\ \A n \in Nodes : WindowFits(n) /\ AnswerFits(n)

\* The schema is carried on, never cut.
LEMMA SchemaGrows ==
  ASSUME MigrationInv, [Next]_vars
  PROVE  Len(schema) \in Nat /\ Len(schema') \in Nat /\ Len(schema) <= Len(schema')
<1>1. schema \in Seq(Texts) /\ Len(schema) \in Nat
  BY DEF MigrationInv, HistoryFits
<1>2. CASE schema' = schema
  BY <1>1, <1>2
<1>3. CASE schema' # schema
  <2>1. Migrate
    BY <1>3, MigrateOrNot DEF migrations
  <2>2. PICK r \in Runners : Publish(r) /\ step[r] = "recorded"
    BY <2>1, <1>3 DEF Migrate, Run, Start, TryLock, RefuseRunner, ReadPlan, Execute, Record,
                      CommitOne, FailOne, Unheard, LoseRun, Report, Failover
  <2>3. Pending(r)[next[r]] \in Texts
    BY <2>2, PendingIsText DEF MigrationInv, RunFits
  <2> QED
    BY <1>1, <2>2, <2>3 DEF Publish
<1> QED
  BY <1>2, <1>3

\* A binary embeds a number of migrations.
LEMMA WindowIsNumber ==
  ASSUME NEW n \in Nodes
  PROVE  Window(n) \in Nat /\ Window(n)' = Window(n)
<1>1. Embedded[BinaryOf[n]] \in Seq(Texts)
  BY MigrationAssumption, RolloutAssumption
<1> QED
  BY <1>1 DEF Window

\* A node judges by the length of the schema.
LEMMA JudgeIsWindow ==
  ASSUME MigrationInv, NEW n \in Nodes
  PROVE  Judge(n) <=> Len(schema) = Window(n)
  BY AppliedIsPrefix DEF MigrationInv, Judge, Window

\* Where a node may go on its own, and what stays meanwhile.
NodeGoes(n) ==
  /\ UNCHANGED <<migrations, asked, sinceAsked, routed, stale>>
  /\ node' \in [Nodes -> [step : NodeSteps, time : Nat, inFlight : Nat]]
  /\ \A m \in Nodes \ {n} : node'[m] = node[m]
  /\ node'[n].step \notin {"down", "start"} =>
       \/ node[n].step \notin {"down", "start"}
       \/ node[n].step = "start" /\ node'[n].step = "serving" /\ Judge(n)

NodeActs(n) ==
  \/ StartNode(n) \/ CheckDatabase(n) \/ RefuseStart(n) \/ Signal(n) \/ StopData(n)
  \/ EndNode(n) \/ FinishRequest(n) \/ Send(n)

\* A node starts, serves, drains and stops without anyone being asked.
LEMMA NodeActsAlone ==
  ASSUME NodeTypes, NEW n \in Nodes, NodeActs(n)
  PROVE  NodeGoes(n)
<1>1. /\ node \in [Nodes -> [step : NodeSteps, time : Nat, inFlight : Nat]]
      /\ node[n] \in [step : NodeSteps, time : Nat, inFlight : Nat]
  BY DEF NodeTypes
<1> USE DEF NodeGoes, NodeSteps
<1>2. CASE StartNode(n)
  BY <1>1, <1>2 DEF StartNode, Moves
<1>3. CASE CheckDatabase(n)
  BY <1>1, <1>3 DEF CheckDatabase, Moves
<1>4. CASE RefuseStart(n)
  BY <1>1, <1>4 DEF RefuseStart, Moves
<1>5. CASE Signal(n)
  BY <1>1, <1>5 DEF Signal, Moves
<1>6. CASE StopData(n)
  BY <1>1, <1>6 DEF StopData, Moves
<1>7. CASE EndNode(n)
  BY <1>1, <1>7 DEF EndNode, Down
<1>8. CASE FinishRequest(n)
  <2>1. node[n].inFlight - 1 \in Nat
    BY <1>1, <1>8 DEF FinishRequest
  <2> QED
    BY <1>1, <1>8, <2>1 DEF FinishRequest
<1>9. CASE Send(n)
  <2>1. node[n].inFlight + 1 \in Nat
    BY <1>1
  <2> QED
    BY <1>1, <1>9, <2>1 DEF Send
<1> QED
  BY <1>2, <1>3, <1>4, <1>5, <1>6, <1>7, <1>8, <1>9 DEF NodeActs

\* A step of a node itself changes no answer.
LEMMA NodeGoesFits ==
  ASSUME MigrationInv, NodesInv, NEW n \in Nodes, NodeGoes(n)
  PROVE  NodesInv'
<1>1. NodeTypes'
  BY DEF NodesInv, NodeTypes, NodeGoes
<1>2. ASSUME NEW m \in Nodes
      PROVE  WindowFits(m)' /\ AnswerFits(m)'
  <2>1. /\ schema' = schema /\ stale' = stale /\ routed' = routed /\ asked' = asked
        /\ sinceAsked' = sinceAsked
    BY DEF NodeGoes, migrations
  <2>2. Window(m) \in Nat /\ Window(m)' = Window(m) /\ (Judge(m) <=> Len(schema) = Window(m))
    BY WindowIsNumber, JudgeIsWindow
  <2>3. AnswerFits(m)'
    BY <2>1 DEF NodesInv, AnswerFits
  <2>4. WindowFits(m)'
    BY <2>1, <2>2 DEF NodesInv, WindowFits, NodeGoes
  <2> QED
    BY <2>3, <2>4
<1> QED
  BY <1>1, <1>2 DEF NodesInv

AsksOrAnswers(n) == AskReadiness(n) \/ AnswerReadiness(n) \/ FailProbe(n)

\* A node that is asked, and answers or does not, is routed to only for an
\* answer it gave in its window.
LEMMA AnswersFit ==
  ASSUME MigrationInv, NodesInv, NEW n \in Nodes, AsksOrAnswers(n)
  PROVE  NodesInv'
<1>1. /\ schema' = schema /\ stale' = stale /\ node' = node
      /\ \A m \in Nodes \ {n} :
           asked'[m] = asked[m] /\ routed'[m] = routed[m] /\ sinceAsked'[m] = sinceAsked[m]
  BY DEF AsksOrAnswers, AskReadiness, AnswerReadiness, FailProbe, migrations, NodesInv, NodeTypes
<1>2. NodeTypes'
  <2>1. CASE AskReadiness(n)
    BY <2>1 DEF AskReadiness, NodesInv, NodeTypes
  <2>2. CASE AnswerReadiness(n)
    BY <2>2 DEF AnswerReadiness, NodesInv, NodeTypes
  <2>3. CASE FailProbe(n)
    BY <2>3 DEF FailProbe, NodesInv, NodeTypes
  <2> QED
    BY <2>1, <2>2, <2>3 DEF AsksOrAnswers
<1>3. ASSUME NEW m \in Nodes
      PROVE  WindowFits(m)'
  BY <1>1, WindowIsNumber DEF NodesInv, WindowFits
<1>4. AnswerFits(n)'
  <2>1. /\ stale[n] \in Nat /\ sinceAsked[n] \in Nat /\ asked[n] \in BOOLEAN
        /\ PollPeriod \in Nat /\ ProbePatience \in Nat /\ AnswerFits(n) /\ WindowFits(n)
    BY RolloutAssumption DEF NodesInv, NodeTypes
  <2>2. CASE AskReadiness(n)
    BY <2>1, <2>2, <1>1 DEF AskReadiness, NodesInv, NodeTypes, AnswerFits
  <2>3. CASE AnswerReadiness(n)
    <3>1. ~asked'[n] /\ sinceAsked' = sinceAsked
      BY <2>3 DEF AnswerReadiness, NodesInv, NodeTypes
    <3>2. routed'[n] => Judge(n)
      BY <2>3 DEF AnswerReadiness, NodesInv, NodeTypes
    <3>3. routed'[n] => stale[n] = 0
      BY <3>2, <2>1, JudgeIsWindow, WindowIsNumber DEF WindowFits
    <3> QED
      BY <2>1, <3>1, <3>3, <1>1 DEF AnswerFits
  <2>4. CASE FailProbe(n)
    BY <2>1, <2>4, <1>1 DEF FailProbe, NodesInv, NodeTypes, AnswerFits
  <2> QED
    BY <2>2, <2>3, <2>4 DEF AsksOrAnswers
<1>5. ASSUME NEW m \in Nodes \ {n}
      PROVE  AnswerFits(m)'
  BY <1>1 DEF NodesInv, AnswerFits
<1> QED
  BY <1>2, <1>3, <1>4, <1>5 DEF NodesInv

\* Time passes for every node at once.
LEMMA TickFits ==
  ASSUME MigrationInv, NodesInv, Tick
  PROVE  NodesInv'
<1>1. DrainDelay \in Nat /\ DrainTimeout \in Nat /\ PollPeriod \in Nat /\ ProbePatience \in Nat
  BY RolloutAssumption
<1>2. schema' = schema /\ asked' = asked /\ routed' = routed
  BY DEF Tick, migrations
<1>3. ASSUME NEW n \in Nodes
      PROVE  /\ node'[n] \in [step : NodeSteps, time : Nat, inFlight : Nat]
             /\ node'[n].step = node[n].step
  <2>1. node[n] \in [step : NodeSteps, time : Nat, inFlight : Nat]
    BY DEF NodesInv, NodeTypes
  <2> DEFINE t == Least(node[n].time + 1, MaxTime)
  <2>2. t \in Nat
    BY <1>1, <2>1 DEF Least, MaxTime
  <2>3. node'[n] = IF node[n].step \in {"draining", "stopping"}
                   THEN [node[n] EXCEPT !.time = t] ELSE node[n]
    BY DEF Tick
  <2> HIDE DEF t
  <2> QED
    BY <2>1, <2>2, <2>3
<1>4. ASSUME NEW n \in Nodes
      PROVE  /\ stale'[n] \in Nat /\ stale'[n] <= stale[n] + 1
             /\ stale'[n] > 0 => /\ node[n].step \notin {"down", "start"}
                                 /\ Len(schema) # Window(n)
             /\ sinceAsked'[n] = sinceAsked[n] + 1
  <2>1. SchemaVersion = Len(schema)
    BY AppliedIsPrefix DEF MigrationInv
  <2> QED
    BY <1>1, <2>1 DEF Tick, NodesInv, NodeTypes, Least, MaxStale, Window
<1>5. NodeTypes'
  BY <1>2, <1>3, <1>4 DEF NodesInv, NodeTypes, Tick
<1>6. ASSUME NEW n \in Nodes
      PROVE  WindowFits(n)'
  <2>1. Window(n) \in Nat /\ Window(n)' = Window(n) /\ WindowFits(n) /\ Len(schema) \in Nat
    BY WindowIsNumber, AppliedIsPrefix DEF NodesInv, MigrationInv
  <2> QED
    BY <2>1, <1>2, <1>3, <1>4 DEF WindowFits
<1>7. ASSUME NEW n \in Nodes
      PROVE  AnswerFits(n)'
  <2>1. sinceAsked[n] < IF asked[n] THEN ProbePatience ELSE PollPeriod
    BY DEF Tick
  <2>2. stale[n] \in Nat /\ sinceAsked[n] \in Nat /\ AnswerFits(n)
    BY DEF NodesInv, NodeTypes
  <2> QED
    BY <2>1, <2>2, <1>1, <1>2, <1>4 DEF AnswerFits
<1> QED
  BY <1>5, <1>6, <1>7 DEF NodesInv

\* A step is one of a node, of its readiness, of time, or of a migration.
LEMMA TrafficOrNot ==
  [Next]_vars => \/ UNCHANGED traffic
                 \/ \E n \in Nodes : NodeActs(n) \/ AsksOrAnswers(n)
                 \/ Tick
  BY DEF Next, vars, NodeActs, AsksOrAnswers

\* What is known of windows and answers is known in every state.
LEMMA NodesHold == Spec => [](MigrationInv /\ NodesInv)
<1>1. Init => NodesInv
  <2> SUFFICES ASSUME Init PROVE NodesInv
    OBVIOUS
  <2>1. NodeTypes
    BY DEF Init, NodeTypes, Down, NodeSteps
  <2>2. PollPeriod \in Nat
    BY RolloutAssumption
  <2>3. ASSUME NEW n \in Nodes PROVE WindowFits(n) /\ AnswerFits(n)
    BY <2>2 DEF Init, Down, WindowFits, AnswerFits
  <2> QED
    BY <2>1, <2>3 DEF NodesInv
<1>2. MigrationInv /\ NodesInv /\ [Next]_vars => NodesInv'
  <2> SUFFICES ASSUME MigrationInv, NodesInv, [Next]_vars PROVE NodesInv'
    OBVIOUS
  <2>1. CASE UNCHANGED traffic
    <3>1. Len(schema) \in Nat /\ Len(schema') \in Nat /\ Len(schema) <= Len(schema')
      BY SchemaGrows
    <3>2. ASSUME NEW n \in Nodes PROVE WindowFits(n)' /\ AnswerFits(n)'
      BY <2>1, <3>1, WindowIsNumber DEF traffic, NodesInv, WindowFits, AnswerFits
    <3>3. NodeTypes'
      BY <2>1 DEF traffic, NodesInv, NodeTypes
    <3> QED
      BY <3>2, <3>3 DEF NodesInv
  <2>2. ASSUME NEW n \in Nodes, NodeActs(n) PROVE NodesInv'
    BY <2>2, NodeActsAlone, NodeGoesFits DEF NodesInv
  <2>3. ASSUME NEW n \in Nodes, AsksOrAnswers(n) PROVE NodesInv'
    BY <2>3, AnswersFit
  <2>4. CASE Tick
    BY <2>4, TickFits
  <2> QED
    BY <2>1, <2>2, <2>3, <2>4, TrafficOrNot
<1> QED
  BY <1>1, <1>2, MigrationHolds, PTL DEF Spec

\* What the drain delay is for: the time whoever routes traffic needs to notice,
\* to ask again or to get an answer that is on its way (server/src/serve.rs:21).
\* The operator sets it.
DrainIsLonger == PollPeriod < DrainDelay /\ ProbePatience < DrainDelay

\* A node that takes no connection is neither routed to nor about to be, and
\* of a node that drains only an answer asked for before the signal says ready.
DrainFits(n) ==
  /\ node[n].step \in {"down", "start", "stopping"} => ~asked[n] /\ ~routed[n]
  /\ node[n].step = "draining" /\ (asked[n] \/ routed[n]) => node[n].time <= sinceAsked[n]
  /\ sinceAsked[n] <= PollPeriod \/ sinceAsked[n] <= ProbePatience

DrainInv == ~refused /\ \A n \in Nodes : DrainFits(n)

\* The data plane stops once nobody sends to it.
LEMMA NodeDrains ==
  ASSUME DrainIsLonger, NodesInv, DrainInv, NEW n \in Nodes, NodeActs(n)
  PROVE  DrainInv'
<1>1. /\ NodeGoes(n) /\ node[n] \in [step : NodeSteps, time : Nat, inFlight : Nat]
      /\ sinceAsked[n] \in Nat /\ asked[n] \in BOOLEAN /\ routed[n] \in BOOLEAN
      /\ node \in [Nodes -> [step : NodeSteps, time : Nat, inFlight : Nat]]
  BY NodeActsAlone DEF NodesInv, NodeTypes
<1>2. PollPeriod \in Nat /\ ProbePatience \in Nat /\ DrainDelay \in Nat
  BY RolloutAssumption
<1>3. asked' = asked /\ routed' = routed /\ sinceAsked' = sinceAsked
  BY <1>1 DEF NodeGoes
<1>4. DrainFits(n)
  BY DEF DrainInv
<1>5. ~refused'
  <2>1. CASE Send(n)
    <3>1. node[n].step \in {"serving", "draining"}
      BY <2>1, <1>1, <1>4 DEF Send, DrainFits, NodeSteps
    <3> QED
      BY <2>1, <3>1 DEF Send, DrainInv
  <2>2. CASE ~Send(n)
    BY <2>2 DEF NodeActs, DrainInv, StartNode, CheckDatabase, RefuseStart, Signal, StopData, EndNode,
                FinishRequest
  <2> QED
    BY <2>1, <2>2
<1>6. DrainFits(n)'
  <2>1. CASE StartNode(n) \/ CheckDatabase(n) \/ RefuseStart(n)
    BY <2>1, <1>1, <1>3, <1>4 DEF StartNode, CheckDatabase, RefuseStart, Moves, DrainFits
  <2>2. CASE Signal(n)
    BY <2>2, <1>1, <1>3, <1>4 DEF Signal, Moves, DrainFits
  <2>3. CASE StopData(n)
    <3>1. ~asked[n] /\ ~routed[n]
      BY <2>3, <1>1, <1>2, <1>4 DEF StopData, DrainFits, DrainIsLonger
    <3> QED
      BY <2>3, <3>1, <1>1, <1>3, <1>4 DEF StopData, Moves, DrainFits
  <2>4. CASE EndNode(n)
    BY <2>4, <1>1, <1>3, <1>4 DEF EndNode, Down, DrainFits
  <2>5. CASE FinishRequest(n) \/ Send(n)
    <3>1. node'[n].step = node[n].step /\ node'[n].time = node[n].time
      BY <2>5, <1>1 DEF FinishRequest, Send
    <3> QED
      BY <3>1, <1>3, <1>4 DEF DrainFits
  <2> QED
    BY <2>1, <2>2, <2>3, <2>4, <2>5 DEF NodeActs
<1>7. ASSUME NEW m \in Nodes \ {n} PROVE DrainFits(m)'
  BY <1>1, <1>3 DEF DrainInv, DrainFits, NodeGoes
<1> QED
  BY <1>5, <1>6, <1>7 DEF DrainInv

\* Only a node that serves is asked further than its flag.
LEMMA AnswersDrain ==
  ASSUME NodesInv, DrainInv, NEW n \in Nodes, AsksOrAnswers(n)
  PROVE  DrainInv'
<1>1. /\ node' = node /\ refused' = refused
      /\ \A m \in Nodes \ {n} :
           asked'[m] = asked[m] /\ routed'[m] = routed[m] /\ sinceAsked'[m] = sinceAsked[m]
  BY DEF AsksOrAnswers, AskReadiness, AnswerReadiness, FailProbe, NodesInv, NodeTypes
<1>2. /\ DrainFits(n) /\ PollPeriod \in Nat
      /\ sinceAsked[n] \in Nat /\ asked[n] \in BOOLEAN /\ routed[n] \in BOOLEAN
  BY RolloutAssumption DEF DrainInv, NodesInv, NodeTypes
<1>3. DrainFits(n)'
  <2>1. CASE AskReadiness(n)
    <3>1. CASE node[n].step = "serving"
      BY <2>1, <3>1, <1>1, <1>2 DEF AskReadiness, NodesInv, NodeTypes, DrainFits
    <3>2. CASE node[n].step # "serving"
      BY <2>1, <3>2, <1>1, <1>2 DEF AskReadiness, NodesInv, NodeTypes, DrainFits
    <3> QED
      BY <3>1, <3>2
  <2>2. CASE AnswerReadiness(n) \/ FailProbe(n)
    <3>1. asked[n] /\ ~asked'[n] /\ sinceAsked' = sinceAsked
      BY <2>2 DEF AnswerReadiness, FailProbe, NodesInv, NodeTypes
    <3> QED
      BY <3>1, <1>1, <1>2 DEF DrainFits
  <2> QED
    BY <2>1, <2>2 DEF AsksOrAnswers
<1>4. ASSUME NEW m \in Nodes \ {n} PROVE DrainFits(m)'
  BY <1>1 DEF DrainInv, DrainFits
<1> QED
  BY <1>1, <1>3, <1>4 DEF DrainInv

\* While a node drains, what it was asked for grows as old as its drain.
LEMMA TickDrains ==
  ASSUME NodesInv, DrainInv, Tick
  PROVE  DrainInv'
<1>1. refused' = refused /\ asked' = asked /\ routed' = routed
  BY DEF Tick
<1>2. ASSUME NEW n \in Nodes PROVE DrainFits(n)'
  <2>1. /\ node[n] \in [step : NodeSteps, time : Nat, inFlight : Nat] /\ sinceAsked[n] \in Nat
        /\ DrainFits(n) /\ DrainDelay \in Nat /\ DrainTimeout \in Nat /\ PollPeriod \in Nat
        /\ ProbePatience \in Nat
    BY RolloutAssumption DEF DrainInv, NodesInv, NodeTypes
  <2> DEFINE t == Least(node[n].time + 1, MaxTime)
  <2>2. t \in Nat /\ t <= node[n].time + 1
    BY <2>1 DEF Least, MaxTime
  <2>3. /\ node'[n] = IF node[n].step \in {"draining", "stopping"}
                      THEN [node[n] EXCEPT !.time = t] ELSE node[n]
        /\ sinceAsked'[n] = sinceAsked[n] + 1
        /\ sinceAsked[n] < IF asked[n] THEN ProbePatience ELSE PollPeriod
    BY DEF Tick
  <2> HIDE DEF t
  <2>4. node'[n].step = node[n].step /\ (node[n].step = "draining" => node'[n].time = t)
    BY <2>1, <2>3
  <2> QED
    BY <2>1, <2>2, <2>3, <2>4, <1>1 DEF DrainFits
<1> QED
  BY <1>1, <1>2 DEF DrainInv

\* For any nodes, binaries and migrations under them: a node that a migration
\* left behind is sent requests no longer than it takes to ask it again; and
\* when a deployment drains for longer than that takes, no request ever reaches
\* a node that refuses it, an answer on its way when the signal came included.
THEOREM TrafficStaysServed ==
  ASSUME DrainIsLonger
  PROVE  Spec => []TrafficIsServed
<1>1. Init => DrainInv
  <2> SUFFICES ASSUME Init PROVE DrainInv
    OBVIOUS
  <2>1. PollPeriod \in Nat
    BY RolloutAssumption
  <2> QED
    BY <2>1 DEF Init, Down, DrainInv, DrainFits
<1>2. NodesInv /\ DrainInv /\ [Next]_vars => DrainInv'
  <2> SUFFICES ASSUME NodesInv, DrainInv, [Next]_vars PROVE DrainInv'
    OBVIOUS
  <2>1. CASE UNCHANGED traffic
    BY <2>1 DEF traffic, DrainInv, DrainFits
  <2>2. ASSUME NEW n \in Nodes, NodeActs(n) PROVE DrainInv'
    BY <2>2, NodeDrains
  <2>3. ASSUME NEW n \in Nodes, AsksOrAnswers(n) PROVE DrainInv'
    BY <2>3, AnswersDrain
  <2>4. CASE Tick
    BY <2>4, TickDrains
  <2> QED
    BY <2>1, <2>2, <2>3, <2>4, TrafficOrNot
<1>3. NodesInv /\ DrainInv => TrafficIsServed
  <2> SUFFICES ASSUME NodesInv, DrainInv PROVE TrafficIsServed
    OBVIOUS
  <2>1. ASSUME NEW n \in Nodes, stale[n] = MaxStale, routed[n] PROVE FALSE
    <3>1. /\ stale[n] \in Nat /\ sinceAsked[n] \in Nat /\ AnswerFits(n)
          /\ PollPeriod \in Nat /\ ProbePatience \in Nat
      BY RolloutAssumption DEF NodesInv, NodeTypes
    <3> QED
      BY <2>1, <3>1 DEF AnswerFits, MaxStale
  <2> QED
    BY <2>1 DEF TrafficIsServed, NoneIsRefused, LeftBehindIsLeft, DrainInv
<1> QED
  BY <1>1, <1>2, <1>3, NodesHold, PTL DEF Spec

=============================================================================
