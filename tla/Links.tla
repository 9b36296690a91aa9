------------------------------- MODULE Links --------------------------------
(***************************************************************************)
(* The pooled links to Postgres under the units of work: borrowing and     *)
(* recycling a session, opening a transaction in a scope, committing it,   *)
(* abandoning it, and the probe that borrows the same sessions (store/src/ *)
(* work.rs and lib.rs, pgcore/src/pool.rs and probe.rs).                   *)
(*                                                                         *)
(* A statement is sent and awaited; a call may be cancelled at any await.  *)
(* What it sent stays queued, and the server runs the queue of a session   *)
(* in order, whoever borrows it next.                                      *)
(***************************************************************************)
EXTENDS Naturals, Sequences, FiniteSets

CONSTANTS Units,    \* units of work, one transaction each
          Probes,   \* readiness probes
          Sessions, \* the links the pool may hold
          ScopeOf,  \* the realm each unit of work is bound to
          MaxWrites \* the statements of a unit of work, at most

Callers == Units \union Probes

ASSUME LinksAssumption ==
  /\ DOMAIN ScopeOf = Units /\ Units \cap Probes = {} /\ MaxWrites \in Nat
  /\ Callers \cap {"closed", "pool", "task"} = {}

NoTx == [open |-> FALSE]
Nobody == "nobody"

VARIABLES link,   \* each session: who holds it, its transaction, its settings
          queue,  \* the statements sent to each session and not run yet
          call,   \* each caller: its step, its session, its statements, whether one failed
          kept    \* the writes that are committed: whose, and which of theirs

linkVars == <<link, queue, call, kept>>

Closed == [at |-> "closed", tx |-> NoTx, bound |-> "pool"]
Fresh(c) == [at |-> c, tx |-> NoTx, bound |-> "pool"]
Waiting == [step |-> "wait", sess |-> Nobody, sent |-> 0, failed |-> FALSE, told |-> Nobody]

LinksInit ==
  /\ link = [s \in Sessions |-> Closed]
  /\ queue = [s \in Sessions |-> <<>>]
  /\ call = [c \in Callers |-> Waiting]
  /\ kept = {}

Holds(c) == call[c].sess
Sends(s, cmds, c) ==
  queue' = [queue EXCEPT ![s] = @ \o [i \in 1..Len(cmds) |-> [do |-> cmds[i], for |-> c]]]
Goes(c, to) == call' = [call EXCEPT ![c].step = to]
Ends(c, told) == call' = [call EXCEPT ![c].step = "end", ![c].told = told]
GivesBack(s) == link' = [link EXCEPT ![s].at = "pool"]

-----------------------------------------------------------------------------
(* Borrowing.                                                              *)

\* A session that waits in the pool is recycled before it is handed over.
Borrow(c) ==
  /\ call[c].step = "wait"
  /\ \E s \in Sessions :
       /\ link[s].at = "pool"
       /\ link' = [link EXCEPT ![s].at = c]
       /\ Sends(s, <<"rollback", "reset">>, c)
       /\ call' = [call EXCEPT ![c].step = "recycle", ![c].sess = s]
  /\ UNCHANGED kept

\* None waits and the pool is not full: a new one is connected.
Connect(c) ==
  /\ call[c].step = "wait"
  /\ \A s \in Sessions : link[s].at # "pool"
  /\ \E s \in Sessions :
       /\ link[s].at = "closed"
       /\ link' = [link EXCEPT ![s] = Fresh(c)]
       /\ call' = [call EXCEPT ![c].step = "ready", ![c].sess = s]
  /\ UNCHANGED <<queue, kept>>

\* The wait of the pool is bounded.
GiveUpWaiting(c) ==
  /\ call[c].step = "wait"
  /\ Ends(c, "busy")
  /\ UNCHANGED <<link, queue, kept>>

Recycled(c) ==
  /\ call[c].step = "recycle" /\ queue[Holds(c)] = <<>>
  /\ Goes(c, "ready")
  /\ UNCHANGED <<link, queue, kept>>

-----------------------------------------------------------------------------
(* A unit of work.                                                         *)

\* Mutant: the opening is sent and not awaited.
OpenUnawaited(w) ==
  /\ call[w].step = "ready"
  /\ Sends(Holds(w), <<"begin">>, w)
  /\ Goes(w, "run")
  /\ UNCHANGED <<link, kept>>

Open(w) ==
  /\ call[w].step = "ready"
  /\ Sends(Holds(w), <<"begin">>, w)
  /\ Goes(w, "opening")
  /\ UNCHANGED <<link, kept>>

Write(w) ==
  /\ call[w].step = "run" /\ call[w].sent < MaxWrites
  /\ Sends(Holds(w), <<"write">>, w)
  /\ call' = [call EXCEPT ![w].step = "writing", ![w].sent = @ + 1]
  /\ UNCHANGED <<link, kept>>

\* After a failed statement the server would report a commit that keeps
\* nothing: the transaction is rolled back, and a failure told.
CommitUnit(w) ==
  /\ call[w].step = "run"
  /\ Sends(Holds(w), <<IF call[w].failed THEN "rollback" ELSE "commit">>, w)
  /\ Goes(w, IF call[w].failed THEN "undoing" ELSE "committing")
  /\ UNCHANGED <<link, kept>>

\* Dropped, a cancelled call included: a task rolls back, and only then gives
\* the session back.
Abandon(w) ==
  /\ call[w].step \in {"run", "writing"}
  /\ link' = [link EXCEPT ![Holds(w)].at = "task"]
  /\ Sends(Holds(w), <<"rollback">>, w)
  /\ Ends(w, "abandoned")
  /\ UNCHANGED kept

\* No runtime to roll back on: the session is closed.
AbandonClosed(w) ==
  /\ call[w].step \in {"run", "writing"}
  /\ link' = [link EXCEPT ![Holds(w)] = Closed]
  /\ queue' = [queue EXCEPT ![Holds(w)] = <<>>]
  /\ Ends(w, "abandoned")
  /\ UNCHANGED kept

\* Cancelled before it owns a transaction, or while the end of it is awaited:
\* the session goes back with what was sent.
Cancel(c) ==
  /\ call[c].step \in {"recycle", "ready", "opening", "committing", "undoing", "bounding", "reading"}
  /\ IF call[c].step = "recycle"
     THEN /\ link' = [link EXCEPT ![Holds(c)] = Closed]
          /\ queue' = [queue EXCEPT ![Holds(c)] = <<>>]
     ELSE GivesBack(Holds(c)) /\ UNCHANGED queue
  /\ Ends(c, IF call[c].step = "committing" THEN "unheard" ELSE "abandoned")
  /\ UNCHANGED kept

TaskEnds(s) ==
  /\ link[s].at = "task" /\ queue[s] = <<>>
  /\ GivesBack(s)
  /\ UNCHANGED <<queue, call, kept>>

-----------------------------------------------------------------------------
(* A probe.                                                                *)

\* A bound of its own, which nobody takes away again.
Bound(p) ==
  /\ call[p].step = "ready"
  /\ Sends(Holds(p), <<"bound">>, p)
  /\ Goes(p, "bounding")
  /\ UNCHANGED <<link, kept>>

\* Past its patience it closes the link rather than give it back.
ProbeTimesOut(p) ==
  /\ call[p].step \in {"bounding", "reading"}
  /\ link' = [link EXCEPT ![Holds(p)] = Closed]
  /\ queue' = [queue EXCEPT ![Holds(p)] = <<>>]
  /\ Ends(p, "timed out")
  /\ UNCHANGED kept

-----------------------------------------------------------------------------
(* The server.                                                             *)

\* Whether the caller still awaits what its session runs.
Awaits(c, s) == call[c].sess = s /\ link[s].at = c

Answer(c, s, to, failed) ==
  call' = IF Awaits(c, s) THEN [call EXCEPT ![c].step = to, ![c].failed = failed] ELSE call

RunRollback(s, c) ==
  /\ queue[s][1].do = "rollback"
  /\ LET undone == Awaits(c, s) /\ call[c].step = "undoing"
     IN /\ link' = [link EXCEPT ![s].tx = NoTx, ![s].at = IF undone THEN "pool" ELSE @]
        /\ call' = IF undone THEN [call EXCEPT ![c].step = "end", ![c].told = "failed"] ELSE call
  /\ UNCHANGED kept

RunReset(s, c) ==
  /\ queue[s][1].do = "reset"
  /\ link' = [link EXCEPT ![s].bound = "pool"]
  /\ UNCHANGED <<call, kept>>

\* BEGIN inside a transaction only warns, and the settings are made in it.
Begun(tx, w) ==
  [open |-> TRUE, for |-> w, scope |-> ScopeOf[w],
   by |-> IF tx.open THEN tx.by ELSE {}, failed |-> tx.open /\ tx.failed]

RunBegin(s, c) ==
  /\ queue[s][1].do = "begin"
  /\ ~(link[s].tx.open /\ link[s].tx.failed)
  /\ link' = [link EXCEPT ![s].tx = Begun(@, c)]
  /\ Answer(c, s, "run", FALSE)
  /\ UNCHANGED kept

\* It begins and its settings fail: the session goes back inside it.
RefuseBegin(s, c) ==
  /\ queue[s][1].do = "begin"
  /\ link' = [link EXCEPT ![s].tx = [Begun(@, c) EXCEPT !.failed = TRUE],
                          ![s].at = IF Awaits(c, s) THEN "pool" ELSE @]
  /\ call' = IF Awaits(c, s) THEN [call EXCEPT ![c].step = "end", ![c].told = "failed"] ELSE call
  /\ UNCHANGED kept

RunWrite(s, c) ==
  /\ queue[s][1].do = "write" /\ link[s].tx.open
  /\ ~link[s].tx.failed
  /\ link' = [link EXCEPT ![s].tx.by = @ \union {<<c, call[c].sent>>}]
  /\ Answer(c, s, "run", call[c].failed)
  /\ UNCHANGED kept

\* Refused, or it waited too long, or an earlier one failed.
RefuseWrite(s, c) ==
  /\ queue[s][1].do = "write" /\ link[s].tx.open
  /\ link' = [link EXCEPT ![s].tx.failed = TRUE]
  /\ Answer(c, s, "run", TRUE)
  /\ UNCHANGED kept

\* The commit of a transaction that failed rolls it back, and says nothing.
RunCommit(s, c) ==
  /\ queue[s][1].do = "commit"
  /\ kept' = IF link[s].tx.open /\ ~link[s].tx.failed THEN kept \union link[s].tx.by ELSE kept
  /\ link' = [link EXCEPT ![s].tx = NoTx, ![s].at = IF Awaits(c, s) THEN "pool" ELSE @]
  /\ call' = IF Awaits(c, s) THEN [call EXCEPT ![c].step = "end", ![c].told = "committed"] ELSE call

RefuseCommit(s, c) ==
  /\ queue[s][1].do = "commit"
  /\ link' = [link EXCEPT ![s].tx = NoTx, ![s].at = IF Awaits(c, s) THEN "pool" ELSE @]
  /\ call' = IF Awaits(c, s) THEN [call EXCEPT ![c].step = "end", ![c].told = "failed"] ELSE call
  /\ UNCHANGED kept

RunBound(s, c) ==
  /\ queue[s][1].do = "bound"
  /\ link' = [link EXCEPT ![s].bound = "probe"]
  /\ Answer(c, s, "reading", FALSE)
  /\ UNCHANGED kept

Run(s) ==
  /\ queue[s] # <<>>
  /\ LET c == queue[s][1].for
     IN \/ RunRollback(s, c) \/ RunReset(s, c) \/ RunBound(s, c)
        \/ RunBegin(s, c) \/ RefuseBegin(s, c) \/ RunWrite(s, c) \/ RefuseWrite(s, c)
        \/ RunCommit(s, c) \/ RefuseCommit(s, c)
  /\ queue' = [queue EXCEPT ![s] = Tail(@)]

\* The version is read and the session given back, its bound still set.
ProbeReads(p) ==
  /\ call[p].step = "reading"
  /\ GivesBack(Holds(p))
  /\ Ends(p, "read")
  /\ UNCHANGED <<queue, kept>>

\* The link is lost; what was sent may have run before, and its answer is lost.
LoseLink(s) ==
  /\ link[s].at # "closed"
  /\ link' = [link EXCEPT ![s] = Closed]
  /\ queue' = [queue EXCEPT ![s] = <<>>]
  /\ call' = [c \in Callers |->
                IF Awaits(c, s) /\ call[c].step # "end"
                THEN [call[c] EXCEPT !.step = IF @ = "recycle" THEN "wait" ELSE "end",
                                     !.sess = Nobody,
                                     !.told = IF call[c].step = "recycle" THEN @
                                              ELSE IF call[c].step = "committing" THEN "unheard"
                                              ELSE "failed"]
                ELSE call[c]]
  /\ IF queue[s] # <<>> /\ queue[s][1].do = "commit" /\ link[s].tx.open /\ ~link[s].tx.failed
     THEN kept' \in {kept, kept \union link[s].tx.by}
     ELSE kept' = kept

\* Mutant: only what is still held is ended.
EndIdleHeld(s) ==
  /\ link[s].tx.open /\ queue[s] = <<>> /\ link[s].at = "task"
  /\ link' = [link EXCEPT ![s] = Closed]
  /\ UNCHANGED <<queue, call, kept>>

\* The server ends a transaction nobody drives.
EndIdle(s) ==
  /\ link[s].tx.open /\ queue[s] = <<>> /\ link[s].at \in {"pool", "task"}
  /\ link' = [link EXCEPT ![s] = Closed]
  /\ UNCHANGED <<queue, call, kept>>

-----------------------------------------------------------------------------
Handler(w) == Open(w) \/ Write(w) \/ CommitUnit(w) \/ Abandon(w) \/ AbandonClosed(w)
Borrowing(c) == Borrow(c) \/ Connect(c) \/ GiveUpWaiting(c)

LinksNext ==
  \/ \E c \in Callers : Borrowing(c) \/ Recycled(c) \/ Cancel(c)
  \/ \E w \in Units : Handler(w)
  \/ \E p \in Probes : Bound(p) \/ ProbeReads(p) \/ ProbeTimesOut(p)
  \/ \E s \in Sessions : Run(s) \/ TaskEnds(s) \/ LoseLink(s) \/ EndIdle(s)

LinksSpec == LinksInit /\ [][LinksNext]_linkVars

-----------------------------------------------------------------------------
(* Properties.                                                             *)

\* While a unit of work runs, its session is in a transaction of its own, in
\* its own scope, that holds no write but its own.
RunsInItsOwn ==
  \A w \in Units : call[w].step \in {"run", "writing"} =>
    LET tx == link[Holds(w)].tx
    IN tx.open /\ tx.for = w /\ tx.scope = ScopeOf[w] /\ tx.by \subseteq {w} \X (1..MaxWrites)

\* A unit of work that is told it committed has kept every write it sent; one
\* that was abandoned or failed has kept none, whoever borrows its session
\* next; and none is kept in part.
ToldIsKept ==
  \A w \in Units :
    LET mine == {n \in 1..MaxWrites : <<w, n>> \in kept}
    IN /\ mine \in {{}, 1..call[w].sent}
       /\ call[w].told = "committed" => mine = 1..call[w].sent
       /\ call[w].told \in {"abandoned", "failed", "busy"} => mine = {}

\* No unit of work runs under the bound of a probe.
BoundIsThePools ==
  \A w \in Units : call[w].step \in {"opening", "run", "writing", "committing"} =>
    link[Holds(w)].bound = "pool"

\* Every transaction ends, and its locks with it, one that nobody drives too.
EveryTransactionEnds == \A s \in Sessions : link[s].tx.open ~> ~link[s].tx.open

\* Units of work are apart: each runs in its own transaction, scope and
\* settings, and is told what is kept of it.
UnitsAreApart == RunsInItsOwn /\ ToldIsKept /\ BoundIsThePools
=============================================================================
