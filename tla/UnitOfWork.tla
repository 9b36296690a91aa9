----------------------------- MODULE UnitOfWork -----------------------------
(***************************************************************************)
(* A unit of work on Postgres (crates/store/src/work.rs): one transaction  *)
(* at READ COMMITTED.  A statement sees what was committed before it began *)
(* and what its own work wrote.  A row a work wrote stays locked until the *)
(* work commits or is abandoned; a row it holds FOR SHARE stays readable,  *)
(* and nobody writes it meanwhile.                                         *)
(*                                                                         *)
(* com is the committed version of every row, cur the newest version, the  *)
(* uncommitted one of its writer included.  A row that is not there is     *)
(* None.  An insert is invisible, and blocks nobody, until the commit: it  *)
(* is modelled with the commit that publishes it.                          *)
(***************************************************************************)
CONSTANTS Works,    \* the units of work, one at a time per request
          Rows,     \* the keys of every row of the modelled tables
          None      \* no row, no writer, no family

ASSUME NoneAssumption == None \notin Works

VARIABLES com, cur, writer, sharers

storage == <<com, cur, writer, sharers>>

\* The version of a row a statement of work w sees.
Sees(w, x) == IF writer[x] = w THEN cur[x] ELSE com[x]

\* Whether w gets the row lock of an UPDATE or a DELETE without waiting.
MayWrite(w, x) == writer[x] \in {w, None} /\ sharers[x] \subseteq {w}

\* Whether w gets the row lock of a SELECT ... FOR SHARE without waiting.
MayShare(w, x) == writer[x] \in {w, None}

WriteRow(w, x, v) ==
  /\ MayWrite(w, x)
  /\ cur' = [cur EXCEPT ![x] = v]
  /\ writer' = [writer EXCEPT ![x] = w]
  /\ UNCHANGED <<com, sharers>>

\* One statement that writes several rows, f[x] over each x, and waits until it
\* has them all.
WriteRows(w, f) ==
  /\ \A x \in DOMAIN f : MayWrite(w, x)
  /\ cur' = [x \in Rows |-> IF x \in DOMAIN f THEN f[x] ELSE cur[x]]
  /\ writer' = [x \in Rows |-> IF x \in DOMAIN f THEN w ELSE writer[x]]
  /\ UNCHANGED <<com, sharers>>

HoldRow(w, x) ==
  /\ MayShare(w, x)
  /\ sharers' = [sharers EXCEPT ![x] = @ \cup {w}]
  /\ UNCHANGED <<com, cur, writer>>

Released(w) ==
  /\ writer' = [x \in Rows |-> IF writer[x] = w THEN None ELSE writer[x]]
  /\ sharers' = [x \in Rows |-> sharers[x] \ {w}]

\* COMMIT: what the work wrote is what everyone sees.
Commit(w) ==
  /\ com' = [x \in Rows |-> IF writer[x] = w THEN cur[x] ELSE com[x]]
  /\ cur' = cur
  /\ Released(w)

\* An INSERT of row v at the free key x, then COMMIT.
InsertAndCommit(w, x, v) ==
  /\ com' = [y \in Rows |-> IF y = x THEN v
                            ELSE IF writer[y] = w THEN cur[y] ELSE com[y]]
  /\ cur' = [cur EXCEPT ![x] = v]
  /\ Released(w)

\* ROLLBACK, asked for, after a failed statement, or because the work was
\* dropped: nothing of it stays.
Rollback(w) ==
  /\ cur' = [x \in Rows |-> IF writer[x] = w THEN com[x] ELSE cur[x]]
  /\ com' = com
  /\ Released(w)

\* A statement in a transaction of its own that removes the rows X.
DeleteRows(X) ==
  /\ \A x \in X : writer[x] = None /\ sharers[x] = {}
  /\ com' = [x \in Rows |-> IF x \in X THEN None ELSE com[x]]
  /\ cur' = [x \in Rows |-> IF x \in X THEN None ELSE cur[x]]
  /\ UNCHANGED <<writer, sharers>>

StorageInit(rows) ==
  /\ com = rows
  /\ cur = rows
  /\ writer = [x \in Rows |-> None]
  /\ sharers = [x \in Rows |-> {}]
=============================================================================
