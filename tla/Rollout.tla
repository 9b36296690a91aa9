------------------------------ MODULE Rollout -------------------------------
(***************************************************************************)
(* Nodes of an old and of a new binary while the schema is migrated under  *)
(* them: how a node starts, answers whether it is ready, is drained and    *)
(* stops (saffui/src/cli/serve.rs and wiring.rs, server/src/serve.rs,      *)
(* saffui-core/src/readiness.rs, pgcore/src/probe.rs and migrate/window.rs)*)
(*                                                                         *)
(* Whoever routes traffic is not of this code: it asks every node whether  *)
(* it is ready, PollPeriod apart at most, and sends requests to those that *)
(* last said so.  Time is counted from the start of what is timed.         *)
(***************************************************************************)
EXTENDS Migration

CONSTANTS Nodes,
          DrainDelay, DrainTimeout,
          ProbePatience,   \* of a whole answer: the wait for a session, its
                           \* opening or recycling and the read, one patience
                           \* of the store each
          PollPeriod,
          MaxInFlight, MaxStarts

ASSUME RolloutAssumption ==
  /\ {DrainTimeout, MaxInFlight, MaxStarts} \subseteq Nat
  /\ {DrainDelay, ProbePatience, PollPeriod} \subseteq Nat \ {0}
  /\ \A n \in Nodes : BinaryOf[n] \in DOMAIN Embedded

VARIABLES node,       \* what each node is at
          asked,      \* a readiness question that waits for the storage
          sinceAsked, \* how long ago each node was last asked
          routed,     \* whether requests are sent to the node
          refused,    \* whether a request sent was refused
          stale,      \* for how long each node has been out of its window
          starts

traffic == <<node, asked, sinceAsked, routed, refused, stale, starts>>
vars == <<migrations, traffic>>

Down == [step |-> "down", time |-> 0, inFlight |-> 0]

Init ==
  /\ MigrationInit
  /\ node = [n \in Nodes |-> Down]
  /\ asked = [n \in Nodes |-> FALSE]
  /\ sinceAsked = [n \in Nodes |-> 0]
  /\ routed = [n \in Nodes |-> FALSE]
  /\ refused = FALSE
  /\ stale = [n \in Nodes |-> 0]
  /\ starts = 0

-----------------------------------------------------------------------------
(* The window of a binary.                                                 *)

\* A binary reads exactly the schema it embeds.
Judge(n) == SchemaVersion = Len(Embedded[BinaryOf[n]])

Moves(n, to) == node' = [node EXCEPT ![n].step = to, ![n].time = 0]

-----------------------------------------------------------------------------
(* The life of a node.                                                     *)

\* Both planes are bound, nothing is served yet.
StartNode(n) ==
  /\ node[n].step = "down" /\ starts < MaxStarts
  /\ starts' = starts + 1
  /\ Moves(n, "start")
  /\ UNCHANGED <<migrations, asked, sinceAsked, routed, refused, stale>>

\* refuse_unfit_database: a node that cannot read its database never serves.
CheckDatabase(n) ==
  /\ node[n].step = "start"
  /\ Moves(n, IF Judge(n) THEN "serving" ELSE "down")
  /\ UNCHANGED <<migrations, asked, sinceAsked, routed, refused, stale, starts>>

\* Its role, its hasher or its retention link is refused, or it is killed.
RefuseStart(n) ==
  /\ node[n].step = "start"
  /\ Moves(n, "down")
  /\ UNCHANGED <<migrations, asked, sinceAsked, routed, refused, stale, starts>>

\* Mutant: the data plane stops before readiness fails.
SignalStops(n) ==
  /\ node[n].step = "serving"
  /\ Moves(n, "stopping")
  /\ UNCHANGED <<migrations, asked, sinceAsked, routed, refused, stale, starts>>

\* The first signal: the drain flag is raised, and never lowered.
Signal(n) ==
  /\ node[n].step = "serving"
  /\ Moves(n, "draining")
  /\ UNCHANGED <<migrations, asked, sinceAsked, routed, refused, stale, starts>>

\* After the delay, no new connection.
StopData(n) ==
  /\ node[n].step = "draining" /\ node[n].time >= DrainDelay
  /\ Moves(n, "stopping")
  /\ UNCHANGED <<migrations, asked, sinceAsked, routed, refused, stale, starts>>

\* Mutant: what is in flight is waited for, however long.
EndNodePatient(n) ==
  /\ node[n].step = "stopping" /\ node[n].inFlight = 0
  /\ node' = [node EXCEPT ![n] = Down]
  /\ UNCHANGED <<migrations, asked, sinceAsked, routed, refused, stale, starts>>

\* What is in flight ended, or the drain timeout did; the operations plane last.
EndNode(n) ==
  /\ node[n].step = "stopping"
  /\ node[n].inFlight = 0 \/ node[n].time >= DrainTimeout
  /\ node' = [node EXCEPT ![n] = Down]
  /\ UNCHANGED <<migrations, asked, sinceAsked, routed, refused, stale, starts>>

FinishRequest(n) ==
  /\ node[n].inFlight > 0
  /\ node' = [node EXCEPT ![n].inFlight = @ - 1]
  /\ UNCHANGED <<migrations, asked, sinceAsked, routed, refused, stale, starts>>

-----------------------------------------------------------------------------
(* Readiness.                                                              *)

\* The flag is read first: a draining node answers at once, a node that is
\* down answers nothing, and only a node that serves asks its storage.
AskReadiness(n) ==
  /\ ~asked[n]
  /\ IF node[n].step = "serving"
     THEN asked' = [asked EXCEPT ![n] = TRUE] /\ UNCHANGED routed
     ELSE routed' = [routed EXCEPT ![n] = FALSE] /\ UNCHANGED asked
  /\ sinceAsked' = [sinceAsked EXCEPT ![n] = 0]
  /\ UNCHANGED <<migrations, node, refused, stale, starts>>

\* The version is read, within the patience of the probe: the flag may have
\* been raised since.
AnswerReadiness(n) ==
  /\ asked[n]
  /\ asked' = [asked EXCEPT ![n] = FALSE]
  /\ routed' = [routed EXCEPT ![n] = Judge(n) /\ node[n].step \notin {"down", "start"}]
  /\ UNCHANGED <<migrations, node, sinceAsked, refused, stale, starts>>

\* No connection, or no answer in time.
FailProbe(n) ==
  /\ asked[n]
  /\ asked' = [asked EXCEPT ![n] = FALSE]
  /\ routed' = [routed EXCEPT ![n] = FALSE]
  /\ UNCHANGED <<migrations, node, sinceAsked, refused, stale, starts>>

-----------------------------------------------------------------------------
(* Who routes traffic, and time.                                           *)

Send(n) ==
  /\ routed[n] /\ node[n].inFlight < MaxInFlight
  /\ IF node[n].step \in {"serving", "draining"}
     THEN node' = [node EXCEPT ![n].inFlight = @ + 1] /\ UNCHANGED refused
     ELSE refused' = TRUE /\ UNCHANGED node
  /\ UNCHANGED <<migrations, asked, sinceAsked, routed, stale, starts>>

MaxTime == DrainDelay + DrainTimeout
MaxStale == PollPeriod + ProbePatience + 1
Least(a, b) == IF a < b THEN a ELSE b

\* Nobody is asked later, or answers later, than the bounds say.
Tick ==
  /\ \A n \in Nodes : sinceAsked[n] < IF asked[n] THEN ProbePatience ELSE PollPeriod
  /\ sinceAsked' = [n \in Nodes |-> sinceAsked[n] + 1]
  /\ node' = [n \in Nodes |->
                IF node[n].step \in {"draining", "stopping"}
                THEN [node[n] EXCEPT !.time = Least(@ + 1, MaxTime)] ELSE node[n]]
  /\ stale' = [n \in Nodes |->
                 IF node[n].step \in {"down", "start"} \/ SchemaVersion = Len(Embedded[BinaryOf[n]])
                 THEN 0 ELSE Least(stale[n] + 1, MaxStale)]
  /\ UNCHANGED <<migrations, asked, routed, refused, starts>>

Next ==
  \/ Migrate /\ UNCHANGED traffic
  \/ \E n \in Nodes :
       \/ StartNode(n) \/ CheckDatabase(n) \/ RefuseStart(n)
       \/ Signal(n) \/ StopData(n) \/ EndNode(n) \/ FinishRequest(n)
       \/ AskReadiness(n) \/ AnswerReadiness(n) \/ FailProbe(n) \/ Send(n)
  \/ Tick

Spec == Init /\ [][Next]_vars

-----------------------------------------------------------------------------
(* Properties.                                                             *)

\* No request is sent to a node that refuses it: readiness fails before the
\* data plane does, an answer on its way when the signal came included.
NoneIsRefused == ~refused

\* No request is sent for long to a node that a migration left behind.
LeftBehindIsLeft == \A n \in Nodes : stale[n] = MaxStale => ~routed[n]

\* Every shutdown ends, whatever is in flight.
ShutdownEnds == \A n \in Nodes : (node[n].step = "draining") ~> (node[n].step = "down")

\* Requests go to nodes that serve them, and that the schema still serves.
TrafficIsServed == NoneIsRefused /\ LeftBehindIsLeft
=============================================================================
