--------------------------- MODULE RetentionPass ----------------------------
(***************************************************************************)
(* The passes of retention (crates/store/src/retention.rs, saffui/jobs.rs):*)
(* every node offers one at each tick of its timer, one of them runs it,   *)
(* table after table, in batches, each table with an equal part of what is *)
(* left of the budget.  Serving goes on meanwhile: it makes rows live      *)
(* longer, and gives tokens to sessions.                                   *)
(*                                                                         *)
(* A row is the instant it expires at.  The clock that says what expired   *)
(* and the time a pass spends are counted apart: a pass is short.          *)
(***************************************************************************)
EXTENDS UnitOfWork, Integers, Sequences, FiniteSets

CONSTANTS Nodes, Servers,
          Tables,       \* the tables, in the order of a pass
          TableOf,      \* the table of each row
          SessionOf,    \* the session of each token
          Renewed,      \* the tables whose rows may be made to live longer
          Kept,         \* how long a row of each table is kept after it expired
          FirstRows,    \* the rows there may be at the start
          Lifetime,     \* how long a row made to live longer lives
          BatchRows, Budget,
          BatchTime,    \* the longest a batch takes
          MaxNow, MaxFailures

RetentionAssumption ==
  /\ {BatchRows, BatchTime, Lifetime} \subseteq Nat \ {0}
  /\ {Budget, MaxNow, MaxFailures} \subseteq Nat
  /\ \A t \in DOMAIN Kept : Kept[t] \in Nat
  /\ Works = Nodes \cup Servers /\ Rows = DOMAIN TableOf

VARIABLES now,
          lock,       \* the node that holds the lock of the pass, or None
          pass,       \* what each node is at
          serving,    \* what each server holds uncommitted
          failures    \* how many batches and links failed

vars == <<storage, now, lock, pass, serving, failures>>

Idle == [step |-> "idle", at |-> 0, now |-> 0, elapsed |-> 0, share |-> 0, spent |-> 0,
         found |-> {}, outcomes |-> <<>>]

Init ==
  /\ \E first \in FirstRows : StorageInit(first)
  /\ now = 0
  /\ lock = None
  /\ pass = [n \in Nodes |-> Idle]
  /\ serving = [s \in Servers |-> None]
  /\ failures = 0

-----------------------------------------------------------------------------
(* What a pass may remove.                                                 *)

\* PurgeCutoffs: rows older than this go.
Cutoff(n, table) == pass[n].now - Kept[table]

HasTokens(x) == \E t \in DOMAIN SessionOf : SessionOf[t] = x /\ com[t] # None

\* The rows the statement of a table finds.
Purgeable(n, table) ==
  {x \in Rows : TableOf[x] = table /\ com[x] # None /\ com[x] < Cutoff(n, table) /\ ~HasTokens(x)}

\* The tokens that go along with the sessions X.
Cascade(X) == {t \in DOMAIN SessionOf : SessionOf[t] \in X /\ com[t] # None}

-----------------------------------------------------------------------------
(* A pass.                                                                 *)

Elapses(n, step) == pass' = [pass EXCEPT ![n] = step]

\* The tick of the timer: the instant of the pass is read here.
Offer(n) ==
  /\ pass[n].step = "idle"
  /\ Elapses(n, [Idle EXCEPT !.step = "connect", !.now = now])
  /\ UNCHANGED <<storage, now, lock, serving, failures>>

\* pg_try_advisory_lock: another node is doing it.
TryLock(n) ==
  /\ pass[n].step = "connect"
  /\ IF lock = None
     THEN lock' = n /\ Elapses(n, [pass[n] EXCEPT !.step = "table", !.at = 1])
     ELSE lock' = lock /\ Elapses(n, Idle)
  /\ UNCHANGED <<storage, now, serving, failures>>

\* An equal part of what is left of the budget.
Share(n) ==
  (IF pass[n].elapsed > Budget THEN 0 ELSE Budget - pass[n].elapsed)
    \div (Len(Tables) + 1 - pass[n].at)

StartTable(n) ==
  /\ pass[n].step = "table" /\ pass[n].at <= Len(Tables)
  /\ Elapses(n, [pass[n] EXCEPT !.step = "find", !.share = Share(n), !.spent = 0])
  /\ UNCHANGED <<storage, now, lock, serving, failures>>

\* The subquery of a batch: some of the rows, as many as a batch holds.
FindRows(n) ==
  /\ pass[n].step = "find"
  /\ \E X \in SUBSET Purgeable(n, Tables[pass[n].at]) :
       /\ Cardinality(X) <= BatchRows
       /\ Cardinality(X) < BatchRows => X = Purgeable(n, Tables[pass[n].at])
       /\ Elapses(n, [pass[n] EXCEPT !.step = "remove", !.found = X])
  /\ UNCHANGED <<storage, now, lock, serving, failures>>

\* Mutant: a row found is removed, whatever it has become.
StillPurgeableAny(n, x) == com[x] # None

\* Asked again of each row, once nobody writes it: still expired, no tokens asked.
StillPurgeable(n, x) == com[x] # None /\ com[x] < Cutoff(n, TableOf[x])

\* The table is left, and what came of it told.
Leaves(p, outcome) ==
  [p EXCEPT !.step = "table", !.at = @ + 1, !.found = {}, !.outcomes = Append(@, outcome)]

\* One batch, in a transaction of its own, that takes `time`.
RemoveRows(n, time) ==
  LET X == {x \in pass[n].found : StillPurgeable(n, x)}
      p == [pass[n] EXCEPT !.elapsed = @ + time, !.spent = @ + time] IN
    /\ pass[n].step = "remove"
    /\ DeleteRows(X \cup Cascade(X))
    /\ Elapses(n, IF Cardinality(X) < BatchRows THEN Leaves(p, "Done")
                  ELSE IF p.spent >= p.share THEN Leaves(p, "RowsLeft")
                  ELSE [p EXCEPT !.step = "find", !.found = {}])
    /\ UNCHANGED <<now, lock, serving, failures>>

\* A batch fails or is given up: its table waits for the next pass.
FailBatch(n, time) ==
  /\ pass[n].step \in {"find", "remove"} /\ failures < MaxFailures
  /\ failures' = failures + 1
  /\ Elapses(n, [Leaves(pass[n], "Failed") EXCEPT !.elapsed = @ + time])
  /\ UNCHANGED <<storage, now, lock, serving>>

\* The link closes, or the node stops or panics: the lock goes with the link.
LoseLink(n) ==
  /\ pass[n].step # "idle" /\ failures < MaxFailures
  /\ failures' = failures + 1
  /\ lock' = IF lock = n THEN None ELSE lock
  /\ Elapses(n, Idle)
  /\ UNCHANGED <<storage, now, serving>>

\* The report, and the link closed.
EndPass(n) ==
  /\ pass[n].step = "table" /\ pass[n].at > Len(Tables)
  /\ lock' = None
  /\ Elapses(n, Idle)
  /\ UNCHANGED <<storage, now, serving, failures>>

-----------------------------------------------------------------------------
(* Serving.                                                                *)

\* A browser is known again, an enrollment is started over: an upsert.
Renew(s, x) ==
  /\ serving[s] = None /\ TableOf[x] \in Renewed
  /\ WriteRow(s, x, now + Lifetime)
  /\ serving' = [serving EXCEPT ![s] = x]
  /\ UNCHANGED <<now, lock, pass, failures>>

\* A token for a session that is live: the row of the session is held by the
\* foreign key until the commit.
IssueToken(s, t) ==
  /\ serving[s] = None /\ com[t] = None
  /\ com[SessionOf[t]] # None /\ com[SessionOf[t]] > now
  /\ HoldRow(s, SessionOf[t])
  /\ serving' = [serving EXCEPT ![s] = t]
  /\ UNCHANGED <<now, lock, pass, failures>>

\* A token expires with its session at the latest.
CommitServing(s) ==
  /\ serving[s] # None
  /\ IF serving[s] \in DOMAIN SessionOf
     THEN InsertAndCommit(s, serving[s], com[SessionOf[serving[s]]])
     ELSE Commit(s)
  /\ serving' = [serving EXCEPT ![s] = None]
  /\ UNCHANGED <<now, lock, pass, failures>>

Tick ==
  /\ now < MaxNow
  /\ now' = now + 1
  /\ UNCHANGED <<storage, lock, pass, serving, failures>>

Purge(n) ==
  \/ Offer(n) \/ TryLock(n) \/ StartTable(n) \/ FindRows(n)
  \/ \E time \in 1..BatchTime : RemoveRows(n, time)
  \/ EndPass(n)

Next ==
  \/ \E n \in Nodes : Purge(n) \/ LoseLink(n) \/ \E time \in 0..BatchTime : FailBatch(n, time)
  \/ \E s \in Servers : \/ \E x \in Rows : Renew(s, x)
                        \/ \E t \in DOMAIN SessionOf : IssueToken(s, t)
                        \/ CommitServing(s)
  \/ Tick

Spec == Init /\ [][Next]_vars

-----------------------------------------------------------------------------
(* Properties.                                                             *)

IsOfUse(x) == com[x] # None /\ com[x] + Kept[TableOf[x]] >= now

\* No pass removes what is of use: a row made to live longer while a batch
\* waits for it stays, and a session takes no live token along.
OnlyUselessGoes == [][\A x \in Rows : IsOfUse(x) => com'[x] # None]_vars

\* The tables a pass has been through took no more than their parts of the
\* budget and a batch each, however full they are and whichever batches fail:
\* the ones after keep theirs, and a pass ends within its budget and a batch of
\* each table.
PartIsKept ==
  \A n \in Nodes : pass[n].step = "table" =>
    pass[n].elapsed * Len(Tables) <= (pass[n].at - 1) * (Budget + Len(Tables) * BatchTime)

\* One node purges at a time.
OnePass == \A n \in Nodes : pass[n].step \in {"table", "find", "remove"} => lock = n

\* Everything of no use goes in the end, however full the tables are and
\* whichever batches fail: what one pass leaves, the next removes.
UselessGoes == (now = MaxNow) ~> (\A x \in Rows : com[x] # None => IsOfUse(x))

\* One node purges, within its budget, and nothing that is of use.
PassesAreSafe == OnlyUselessGoes /\ [](OnePass /\ PartIsKept)
=============================================================================
