------------------------------- MODULE MCNodes -------------------------------
(***************************************************************************)
(* Small instances of what the nodes of one database do beside serving:    *)
(* the runs of migrations, the life of a node under them, and the passes   *)
(* of retention.  A behaviour is one of these.  Nodes share nothing but    *)
(* the schema: one of them lives while it is migrated, whose binary the    *)
(* schema reaches and then leaves behind.                                  *)
(***************************************************************************)
EXTENDS Rollout, TLC

CONSTANTS r1, r2, r3, n1, n2, s1, q1, q2, q3, tok, ses, b1,
          Lifetime, BatchRows, Budget, BatchTime, MaxNow, MaxFailures

VARIABLES com, cur, writer, sharers, now, holder, pass, serving, failures, part

\* Three binaries, one of them of another lineage.
MCEmbedded == ("old" :> <<"a", "b">>) @@ ("new" :> <<"a", "b", "c">>) @@ ("edited" :> <<"a", "d", "e">>)
MCBinaryOf == (r1 :> "new") @@ (r2 :> "edited") @@ (r3 :> "old") @@ (n1 :> "old")
MCFirst == <<"a">>

passes == <<com, cur, writer, sharers, now, holder, pass, serving, failures>>

\* A row of each kind is kept for a while after it expired, or for none.
Tables == <<"requests", "tokens", "sessions", "browsers">>
TableOf == [x \in {q1, q2, q3} |-> "requests"]
           @@ (tok :> "tokens") @@ (ses :> "sessions") @@ (b1 :> "browsers")
Kept == [t \in {"requests", "tokens", "sessions"} |-> 0] @@ ("browsers" :> 1)

\* A table that is full, and nobody serves; or a session and a browser that are still served.
Full == [x \in {q1, q2, q3, b1} |-> 0] @@ [x \in {tok, ses} |-> None]
Served == [x \in {q1, q2, q3, tok} |-> None] @@ (ses :> 1) @@ (b1 :> 0)

Retention == INSTANCE RetentionPass
  WITH Nodes <- {n1, n2}, Servers <- {s1}, Works <- {n1, n2, s1}, Rows <- DOMAIN TableOf,
       SessionOf <- (tok :> ses), Renewed <- {"browsers"},
       FirstRows <- {Full, Served}, lock <- holder

ASSUME PassesAssumption == Retention!RetentionAssumption

MCInit ==
  /\ Init
  /\ Retention!Init
  /\ part \in {"migration", "rollout", "full", "served"}
  /\ com = IF part = "full" THEN Full ELSE Served

\* The node lives while one run migrates.
Lives ==
  /\ Next
  /\ \A r \in Runners \ {r1} : step'[r] = step[r]
  /\ runs' <= 1 /\ failovers' = 0

MCNext ==
  \/ part = "migration" /\ Migrate /\ UNCHANGED <<traffic, passes, part>>
  \/ part = "rollout" /\ Lives /\ UNCHANGED <<passes, part>>
  \/ part = "full" /\ Retention!Next /\ UNCHANGED <<serving, vars, part>>
  \/ part = "served" /\ Retention!Next /\ UNCHANGED <<vars, part>>

Of(kinds, A) == part \in kinds /\ A

\* A run goes on, or a wait of it ends with a failure.  Time passes for a node,
\* a timer of it that is due fires, and it is asked; no request is promised to
\* end.  A step of a pass that may be taken is, and a request that serves a
\* session is served to its end.
MCFairness ==
  /\ \A r \in Runners : WF_migrations(Of({"migration", "rollout"}, Run(r) \/ FailOne(r)))
  /\ WF_vars(Of({"rollout"}, Tick))
  /\ \A n \in Nodes : /\ WF_vars(Of({"rollout"}, StopData(n)))
                      /\ WF_vars(Of({"rollout"}, EndNode(n)))
                      /\ WF_vars(Of({"rollout"}, AnswerReadiness(n) \/ FailProbe(n)))
                      /\ WF_vars(Of({"rollout"}, AskReadiness(n)))
  /\ \A n \in {n1, n2} : WF_passes(Of({"full", "served"}, Retention!Purge(n)))
  /\ WF_passes(Of({"full", "served"}, Retention!CommitServing(s1)))

MCSpec == MCInit /\ [][MCNext]_<<vars, passes, part>> /\ MCFairness

\* RetentionPass!PassesAreSafe: one node purges; a full table takes its part of
\* the budget and leaves theirs to the ones after; a row renewed while a batch
\* waits for it stays, and a session takes no live token along.
PassesAreSafe == Retention!PassesAreSafe

\* Migration!EveryRunEnds, Rollout!ShutdownEnds, RetentionPass!UselessGoes: a
\* run, and a node told to stop, end; what one pass leaves, a later one removes.
EverythingEnds == EveryRunEnds /\ ShutdownEnds /\ Retention!UselessGoes
=============================================================================
