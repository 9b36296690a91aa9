------------------------- MODULE SecondFactorProofs --------------------------
(***************************************************************************)
(* For any requests, keys, sessions and bounds, whatever is typed together *)
(* or fails: a code, the answer of a key and the start of an enrollment    *)
(* serve once, a suspension comes in time and is not lifted by who is      *)
(* suspended, and an enrollment ends the sessions of the password alone.   *)
(***************************************************************************)
EXTENDS SecondFactor, TLAPS

-----------------------------------------------------------------------------
(* Who holds which row at which step.                                      *)

IsAsk(q) == q = [op |-> q.op, session |-> q.session, code |-> q.code, key |-> q.key, counter |-> q.counter,
                 read |-> q.read, attempts |-> q.attempts, good |-> q.good]

\* The steps of each call.
CodeSteps == {"c_read", "c_count", "c_judge", "c_clear", "c_commit"}
KeySteps == {"k_read", "k_record", "k_clear", "k_commit"}
ConfirmSteps == {"confirm_totp", "f_check", "f_accept", "f_clear", "f_close", "f_commit"}
FinishSteps == {"finish_key", "n_spent", "n_check", "n_insert", "n_close", "n_commit"}
AdminCalls == {"remove_totp", "remove_keys", "resume_codes"}

OpFits(r) ==
  /\ pc[r] = "idle" => mine[r] = NoAsk
  /\ pc[r] \in {"s_totp", "s_keys"} => mine[r].op = "sign_in"
  /\ pc[r] \in CodeSteps => mine[r].op = "code"
  /\ pc[r] \in KeySteps => mine[r].op = "key" /\ mine[r].key \in Keys
  /\ pc[r] = "open" => mine[r].op \in {"sign_in", "code", "key"}
  /\ pc[r] \in {"begin_totp", "t_commit"} => mine[r].op = "begin_totp"
  /\ pc[r] \in ConfirmSteps => mine[r].op = "confirm_totp"
  /\ pc[r] \in {"begin_key", "g_write", "g_commit"} => mine[r].op = "begin_key"
  /\ pc[r] \in FinishSteps => mine[r].op = "finish_key"
  /\ pc[r] = "enrolled" => mine[r].op \in {"confirm_totp", "finish_key"}
  /\ pc[r] \in {"remove_totp", "m_clear"} => mine[r].op = "remove_totp"
  /\ pc[r] = "remove_keys" => mine[r].op = "remove_keys"
  /\ pc[r] = "resume_codes" => mine[r].op = "resume_codes"
  /\ pc[r] = "m_commit" => mine[r].op \in AdminCalls
  /\ pc[r] = "done" => mine[r].op \notin {"confirm_totp", "finish_key"}

Holds(q, x) ==
  /\ x = "totp" => \/ pc[q] \in {"c_clear", "c_commit", "t_commit", "f_clear", "f_close", "f_commit", "m_clear"}
                   \/ pc[q] = "m_commit" /\ mine[q].op = "remove_totp"
  /\ x = "attempts" => \/ pc[q] \in {"c_judge", "c_clear", "c_commit", "k_commit", "f_close", "f_commit"}
                       \/ pc[q] = "m_commit" /\ mine[q].op # "remove_keys"
  /\ x = "started" => pc[q] \in {"g_commit", "n_spent"}
  /\ x \in Keys => \/ pc[q] \in {"k_clear", "k_commit", "n_close", "n_commit"} /\ x = mine[q].key
                   \/ pc[q] = "m_commit" /\ mine[q].op = "remove_keys"
  /\ x \in AllSessions => pc[q] \in {"f_commit", "n_commit"}

RowHeld(x) == /\ writer[x] = None => cur[x] = com[x]
              /\ writer[x] # None => writer[x] \in Requests /\ Holds(writer[x], x)

Shaped == /\ DOMAIN com = Rows /\ DOMAIN cur = Rows /\ DOMAIN writer = Rows
          /\ DOMAIN pc = Requests /\ DOMAIN mine = Requests

LockInv == /\ Shaped
           /\ \A r \in Requests : IsAsk(mine[r]) /\ OpFits(r)
           /\ \A x \in Rows : RowHeld(x)

-----------------------------------------------------------------------------
(* Codes.                                                                  *)

\* A secret that is in force, or was: nobody makes it again.
Minted(s) == s = Old \/ (s \in Requests /\ mine[s].op = "begin_totp" /\ pc[s] = "done")

TotpFits ==
  /\ com["totp"] \in TotpRow \cup {None} /\ cur["totp"] \in TotpRow \cup {None}
  /\ com["totp"] # None => Minted(com["totp"].secret)
  /\ cur["totp"] # None => \/ Minted(cur["totp"].secret)
                           \/ cur["totp"].secret = writer["totp"] /\ pc[writer["totp"]] = "t_commit"

\* A code that is accepted, its work ended or not.
Serving(r) == /\ mine[r].op \in {"code", "confirm_totp"}
              /\ \/ pc[r] \in {"c_clear", "open", "done", "f_clear", "f_close", "f_commit", "enrolled"}
                 \/ pc[r] = "c_commit" /\ mine[r].good

\* The code serves no more for the application that a row tells.
Spent(v, c) == v # None /\ v.secret = c.secret => v.confirmed /\ v.last >= c.step

Accepting == {"c_clear", "c_commit", "f_clear", "f_close", "f_commit"}

CodeFits(r) ==
  /\ pc[r] \in {"c_read", "c_count", "c_judge", "f_check", "f_accept"} \/ Serving(r) => mine[r].code.step \in Nat
  /\ pc[r] \in {"c_read", "c_count", "c_judge"} => ~mine[r].good
  /\ pc[r] \in {"c_count", "c_judge", "f_check", "f_accept"} => Minted(mine[r].read)
  /\ pc[r] \in {"f_check", "f_accept"} => mine[r].code.secret = mine[r].read
  /\ Serving(r) =>
       /\ Minted(mine[r].code.secret)
       /\ pc[r] \in Accepting => /\ writer["totp"] = r /\ cur["totp"] # None /\ cur["totp"].confirmed
                                 /\ cur["totp"].secret = mine[r].code.secret
                                 /\ cur["totp"].last = mine[r].code.step
       /\ pc[r] \notin Accepting => Spent(com["totp"], mine[r].code) /\ Spent(cur["totp"], mine[r].code)

CodesApart == \A r, v \in Requests : r # v /\ Serving(r) /\ Serving(v) => mine[r].code # mine[v].code

CodeInv == TotpFits /\ (\A r \in Requests : CodeFits(r)) /\ CodesApart

-----------------------------------------------------------------------------
(* Keys.                                                                   *)

\* Who used a key last, and who enrolled it: calls that do it no more.
UsedBy(u) == u = None \/ (u \in Requests /\ mine[u].op = "key" /\ pc[u] \in {"open", "done", "refused"})
Since(s) == s = None \/ (s \in Requests /\ pc[s] = "enrolled")

KeyRowFits(k) ==
  /\ com[k] \in KeyRow \cup {None} /\ cur[k] \in KeyRow \cup {None}
  /\ com[k] # None => UsedBy(com[k].used) /\ Since(com[k].since)
  /\ cur[k] # None =>
       /\ UsedBy(cur[k].used) \/ (cur[k].used = writer[k] /\ pc[writer[k]] \in {"k_clear", "k_commit"})
       /\ Since(cur[k].since) \/ (cur[k].since = writer[k] /\ pc[writer[k]] \in {"n_close", "n_commit"})

\* An answer that was recorded, its work ended or not.
Using(r) == mine[r].op = "key" /\ pc[r] \in {"k_clear", "k_commit", "open", "done"}

\* A row of that enrollment that went on since the answer was judged.
Passed(r, v) == v # None /\ v.since = mine[r].read.since =>
                  v.counter >= mine[r].counter /\ v.used # mine[r].read.used

KeyFits(r) ==
  /\ pc[r] \in {"k_read", "k_record"} \/ Using(r) => mine[r].key \in Keys /\ mine[r].counter \in Nat
  /\ pc[r] = "k_record" => mine[r].read \in KeyRow /\ Proves(mine[r].read, mine[r].counter)
  /\ Using(r) =>
       /\ mine[r].read \in KeyRow /\ UsedBy(mine[r].read.used) /\ Since(mine[r].read.since)
       /\ pc[r] \in {"k_clear", "k_commit"} =>
            /\ writer[mine[r].key] = r /\ cur[mine[r].key] # None
            /\ cur[mine[r].key].counter = mine[r].counter /\ cur[mine[r].key].used = r
            /\ cur[mine[r].key].since = mine[r].read.since
       /\ pc[r] \in {"open", "done"} => Passed(r, com[mine[r].key]) /\ Passed(r, cur[mine[r].key])

KeysApart ==
  \A r, v \in Requests : r # v /\ Using(r) /\ Using(v) /\ mine[r].key = mine[v].key =>
    /\ mine[r].read # mine[v].read
    /\ mine[r].read.since = mine[v].read.since => mine[r].counter # mine[v].counter \/ mine[r].counter = 0

KeyInv == (\A k \in Keys : KeyRowFits(k)) /\ (\A r \in Requests : KeyFits(r)) /\ KeysApart

-----------------------------------------------------------------------------
(* Starts of an enrollment.                                                *)

Opened(s) == s \in Requests /\ mine[s].op = "begin_key" /\ pc[s] = "done"

StartedFits ==
  /\ com["started"] = None \/ Opened(com["started"])
  /\ \/ cur["started"] = None \/ Opened(cur["started"])
     \/ cur["started"] = writer["started"] /\ pc[writer["started"]] = "g_commit"

Took(r) == /\ mine[r].op = "finish_key"
           /\ pc[r] \in {"n_spent", "n_check", "n_insert", "n_close", "n_commit", "enrolled"}

StartFits(r) ==
  Took(r) => /\ Opened(mine[r].read)
             /\ pc[r] = "n_spent" => writer["started"] = r /\ cur["started"] = None
             /\ pc[r] # "n_spent" => com["started"] # mine[r].read /\ cur["started"] # mine[r].read

StartsApart == \A r, v \in Requests : r # v /\ Took(r) /\ Took(v) => mine[r].read # mine[v].read

StartInv == StartedFits /\ (\A r \in Requests : StartFits(r)) /\ StartsApart

-----------------------------------------------------------------------------
(* Sessions.                                                               *)

SessionFits(s) == /\ com[s] \in SessionRow /\ cur[s] \in SessionRow /\ cur[s].proven = com[s].proven
                  /\ writer[s] # None => ~cur[s].active

ClosingFits(r) ==
  \A s \in Sessions : s # mine[r].session =>
    /\ pc[r] \in {"f_commit", "n_commit"} => com[s].proven \/ ~com[s].active \/ writer[s] = r
    /\ pc[r] = "enrolled" => com[s].proven \/ ~com[s].active

SessionInv == (\A s \in Sessions : SessionFits(s)) /\ (\A r \in Requests : ClosingFits(r))

-----------------------------------------------------------------------------
(* Attempts.                                                               *)

AttemptFits(r) ==
  /\ pc[r] = "c_judge" \/ pc[r] = "c_clear" \/ pc[r] = "c_commit" =>
       writer["attempts"] = r /\ mine[r].attempts = Attempts(com["attempts"]) + 1
  /\ pc[r] = "c_judge" \/ (pc[r] = "c_commit" /\ ~mine[r].good) => cur["attempts"] = mine[r].attempts
  /\ pc[r] = "c_clear" \/ (pc[r] = "c_commit" /\ mine[r].good) => mine[r].attempts <= MaxCodeFailures
  /\ pc[r] = "c_clear" => mine[r].good
  /\ pc[r] = "c_commit" /\ mine[r].good => cur["attempts"] = None
  /\ pc[r] = "k_commit" /\ writer["attempts"] = r =>
       cur["attempts"] = None /\ Attempts(com["attempts"]) < MaxCodeFailures
  /\ pc[r] \in {"f_close", "f_commit", "m_commit"} /\ writer["attempts"] = r => cur["attempts"] = None

AttemptsInv ==
  /\ com["attempts"] \in Nat \cup {None} /\ wrong \in Nat
  /\ wrong <= Attempts(com["attempts"]) /\ wrong <= MaxCodeFailures
  /\ com["attempts"] # None /\ com["attempts"] >= MaxCodeFailures => told
  /\ \A r \in Requests : AttemptFits(r)

-----------------------------------------------------------------------------
(* What a step of one request does.                                        *)

Alone(r) == \A q \in Requests : q # r => pc'[q] = pc[q] /\ mine'[q] = mine[q]
Kept(x) == com'[x] = com[x] /\ cur'[x] = cur[x] /\ writer'[x] = writer[x]
AllKept == \A x \in Rows : Kept(x)
Counted == wrong' = wrong /\ told' = told
Wrote(r, x, v) == writer[x] \in {r, None} /\ com'[x] = com[x] /\ cur'[x] = v /\ writer'[x] = r

Ended(r, x) == com'[x] = cur[x] /\ cur'[x] = cur[x] /\ writer'[x] = None
Undone(r, x) == com'[x] = com[x] /\ cur'[x] = com[x] /\ writer'[x] = None

\* It reads, it writes the rows X as f tells, it commits, or it is dropped.
ReadStep(r) == Shaped' /\ Alone(r) /\ AllKept /\ Counted
WriteStep(r, X, f) == /\ Shaped' /\ Alone(r) /\ Counted
                      /\ \A x \in Rows : (x \in X => Wrote(r, x, f[x])) /\ (x \notin X => Kept(x))
CommitStep(r) == /\ Shaped' /\ Alone(r)
                 /\ \A x \in Rows : (writer[x] = r => Ended(r, x)) /\ (writer[x] # r => Kept(x))
UndoStep(r) == /\ Shaped' /\ Alone(r) /\ Counted /\ pc'[r] = "refused" /\ mine'[r] = mine[r]
               /\ \A x \in Rows : (writer[x] = r => Undone(r, x)) /\ (writer[x] # r => Kept(x))

\* A step that reads changes the request that takes it, and no row.
LEMMA ReadsDoes ==
  ASSUME LockInv, NEW r \in Requests, NEW to, NEW ask, Reads(r, to, ask)
  PROVE  ReadStep(r) /\ pc'[r] = to /\ mine'[r] = ask
<1>1. /\ pc' = [pc EXCEPT ![r] = to] /\ mine' = [mine EXCEPT ![r] = ask]
      /\ com' = com /\ cur' = cur /\ writer' = writer /\ wrong' = wrong /\ told' = told
  BY DEF Reads, Goto, storage
<1>2. Shaped
  BY DEF LockInv
<1>3. Shaped'
  BY <1>1, <1>2 DEF Shaped
<1>4. Alone(r) /\ AllKept /\ Counted
  BY <1>1, <1>2 DEF Alone, AllKept, Kept, Counted, Shaped
<1> QED
  BY <1>1, <1>2, <1>3, <1>4 DEF ReadStep, Shaped

\* A step that writes changes the rows it names, which were its own or free.
LEMMA WritesDoes ==
  ASSUME LockInv, NEW r \in Requests, NEW from, NEW to, NEW f, Writes(r, from, to, f)
  PROVE  WriteStep(r, DOMAIN f, f) /\ pc[r] = from /\ pc'[r] = to /\ mine'[r] = mine[r]
<1>1. /\ pc' = [pc EXCEPT ![r] = to] /\ mine' = mine /\ pc[r] = from
      /\ com' = com /\ wrong' = wrong /\ told' = told
      /\ \A x \in DOMAIN f : writer[x] \in {r, None}
      /\ cur' = [x \in Rows |-> IF x \in DOMAIN f THEN f[x] ELSE cur[x]]
      /\ writer' = [x \in Rows |-> IF x \in DOMAIN f THEN r ELSE writer[x]]
  BY DEF Writes, WriteRows, MayWrite, Goto
<1>2. Shaped
  BY DEF LockInv
<1>3. Shaped'
  BY <1>1, <1>2 DEF Shaped
<1>4. Alone(r) /\ Counted /\ pc'[r] = to
  BY <1>1, <1>2 DEF Alone, Counted, Shaped
<1>5. \A x \in Rows : (x \in DOMAIN f => Wrote(r, x, f[x])) /\ (x \notin DOMAIN f => Kept(x))
  BY <1>1 DEF Wrote, Kept
<1> QED
  BY <1>1, <1>3, <1>4, <1>5 DEF WriteStep

\* A statement of one row that tells more than that it was written.
LEMMA WriteRowDoes ==
  ASSUME LockInv, NEW r \in Requests, NEW x \in Rows, NEW v, WriteRow(r, x, v),
         NEW to, Goto(r, to), NEW ask, mine' = [mine EXCEPT ![r] = ask], UNCHANGED <<wrong, told>>
  PROVE  WriteStep(r, {x}, Row(x, v)) /\ pc'[r] = to /\ mine'[r] = ask
<1>1. /\ pc' = [pc EXCEPT ![r] = to] /\ com' = com /\ wrong' = wrong /\ told' = told
      /\ writer[x] \in {r, None} /\ cur' = [cur EXCEPT ![x] = v] /\ writer' = [writer EXCEPT ![x] = r]
  BY DEF WriteRow, MayWrite, Goto
<1>2. Shaped
  BY DEF LockInv
<1>3. Shaped'
  BY <1>1, <1>2 DEF Shaped
<1>4. Alone(r) /\ Counted /\ pc'[r] = to /\ mine'[r] = ask
  BY <1>1, <1>2 DEF Alone, Counted, Shaped
<1>5. \A y \in Rows : (y \in {x} => Wrote(r, y, Row(x, v)[y])) /\ (y \notin {x} => Kept(y))
  BY <1>1, <1>2 DEF Wrote, Kept, Row, Shaped
<1> QED
  BY <1>3, <1>4, <1>5 DEF WriteStep

\* A commit shows what the request wrote, and gives its rows back.
LEMMA CommitDoes ==
  ASSUME LockInv, NEW r \in Requests, Commit(r), NEW to, Goto(r, to), mine' = mine
  PROVE  CommitStep(r) /\ pc'[r] = to /\ mine'[r] = mine[r]
<1>1. /\ pc' = [pc EXCEPT ![r] = to] /\ mine' = mine
      /\ com' = [x \in Rows |-> IF writer[x] = r THEN cur[x] ELSE com[x]] /\ cur' = cur
      /\ writer' = [x \in Rows |-> IF writer[x] = r THEN None ELSE writer[x]]
  BY DEF Commit, Released, Goto
<1>2. Shaped
  BY DEF LockInv
<1>3. Shaped'
  BY <1>1, <1>2 DEF Shaped
<1>4. Alone(r) /\ pc'[r] = to
  BY <1>1, <1>2 DEF Alone, Shaped
<1>5. \A x \in Rows : (writer[x] = r => Ended(r, x)) /\ (writer[x] # r => Kept(x))
  BY <1>1 DEF Ended, Kept
<1> QED
  BY <1>1, <1>3, <1>4, <1>5 DEF CommitStep

\* A commit that may forget the codes got wrong.
LEMMA CommitsDoes ==
  ASSUME LockInv, NEW r \in Requests, NEW from, NEW to, Commits(r, from, to)
  PROVE  /\ CommitStep(r) /\ pc[r] = from /\ pc'[r] = to /\ mine'[r] = mine[r]
         /\ wrong' = (IF Forgets(r) THEN 0 ELSE wrong) /\ told' = (IF Forgets(r) THEN FALSE ELSE told)
<1>1. Commit(r) /\ Goto(r, to) /\ mine' = mine
  BY DEF Commits
<1>2. CommitStep(r) /\ pc'[r] = to /\ mine'[r] = mine[r]
  BY <1>1, CommitDoes
<1> QED
  BY <1>2 DEF Commits

\* A call that is refused leaves every row as it was committed.
LEMMA RefuseDoes ==
  ASSUME LockInv, NEW r \in Requests, Refuse(r)
  PROVE  UndoStep(r)
<1>1. /\ pc' = [pc EXCEPT ![r] = "refused"] /\ mine' = mine /\ wrong' = wrong /\ told' = told
      /\ cur' = [x \in Rows |-> IF writer[x] = r THEN com[x] ELSE cur[x]] /\ com' = com
      /\ writer' = [x \in Rows |-> IF writer[x] = r THEN None ELSE writer[x]]
  BY DEF Refuse, Rollback, Released, Goto
<1>2. Shaped
  BY DEF LockInv
<1>3. Shaped'
  BY <1>1, <1>2 DEF Shaped
<1>4. Alone(r) /\ pc'[r] = "refused" /\ Counted
  BY <1>1, <1>2 DEF Alone, Shaped, Counted
<1>5. \A x \in Rows : (writer[x] = r => Undone(r, x)) /\ (writer[x] # r => Kept(x))
  BY <1>1 DEF Undone, Kept
<1> QED
  BY <1>1, <1>3, <1>4, <1>5 DEF UndoStep

\* The rows there are.
LEMMA RowsAre ==
  /\ "totp" \in Rows /\ "attempts" \in Rows /\ "started" \in Rows /\ Keys \subseteq Rows /\ AllSessions \subseteq Rows
  /\ "totp" \notin Keys \cup AllSessions /\ "attempts" \notin Keys \cup AllSessions
  /\ "started" \notin Keys \cup AllSessions /\ Keys \cap AllSessions = {} /\ None \notin Requests
BY RowsAssumption, PartsAssumption, NoneAssumption DEF AllSessions

\* Opening a session writes its row, which is none of the others.
LEMMA OpenSessionDoes ==
  ASSUME LockInv, NEW r \in Requests, OpenSession(r)
  PROVE  /\ Shaped' /\ Alone(r) /\ Counted /\ pc[r] = "open" /\ pc'[r] = "done" /\ mine'[r] = mine[r]
         /\ \A x \in Rows : x # r => Kept(x)
         /\ writer'[r] = writer[r] /\ com'[r] = cur'[r]
<1>1. PICK v : InsertAndCommit(r, r, v)
  BY DEF OpenSession
<1>2. /\ pc' = [pc EXCEPT ![r] = "done"] /\ mine' = mine /\ wrong' = wrong /\ told' = told /\ pc[r] = "open"
      /\ com' = [y \in Rows |-> IF y = r THEN v ELSE IF writer[y] = r THEN cur[y] ELSE com[y]]
      /\ cur' = [cur EXCEPT ![r] = v]
      /\ writer' = [x \in Rows |-> IF writer[x] = r THEN None ELSE writer[x]]
  BY <1>1 DEF OpenSession, InsertAndCommit, Released, Goto
<1>3. Shaped /\ \A x \in Rows : RowHeld(x)
  BY DEF LockInv
<1>4. \A x \in Rows : writer[x] # r
  BY <1>2, <1>3, RowsAre, RowsAssumption DEF RowHeld, Holds, AllSessions
<1>5. Shaped'
  BY <1>2, <1>3 DEF Shaped
<1>6. r \in Rows
  BY RowsAre DEF AllSessions
<1> QED
  BY <1>2, <1>3, <1>4, <1>5, <1>6 DEF Alone, Counted, Kept, Shaped

-----------------------------------------------------------------------------
(* The steps, told by what they touch.                                     *)

SameAsk(r) == mine'[r] = mine[r]
SameCode(r) == mine'[r].op = mine[r].op /\ mine'[r].code = mine[r].code

\* A request begins, reads or judges.
Turns(r) ==
  /\ ReadStep(r) /\ IsAsk(mine'[r])
  /\ \/ pc[r] = "idle" /\ pc'[r] = "s_totp" /\ mine'[r].op = "sign_in"
     \/ pc[r] = "s_totp" /\ pc'[r] = "s_keys" /\ mine'[r].op = mine[r].op
     \/ pc[r] = "s_keys" /\ pc'[r] \in {"open", "owed"} /\ SameAsk(r)
     \/ /\ pc[r] = "idle" /\ pc'[r] = "c_read" /\ mine'[r].op = "code"
        /\ mine'[r].code.step \in Nat /\ ~mine'[r].good
     \/ /\ pc[r] = "c_read" /\ pc'[r] = "c_count" /\ SameCode(r) /\ mine'[r].good = mine[r].good
        /\ Sees(r, "totp") # None /\ mine'[r].read = Sees(r, "totp").secret
     \/ /\ pc[r] = "c_judge" /\ pc'[r] = "c_commit" /\ SameCode(r) /\ mine'[r].attempts = mine[r].attempts
        /\ ~mine'[r].good \/ mine'[r].good = mine[r].good
     \/ /\ pc[r] = "idle" /\ pc'[r] = "k_read" /\ mine'[r].op = "key"
        /\ mine'[r].key \in Keys /\ mine'[r].counter \in Nat
     \/ /\ pc[r] = "k_read" /\ pc'[r] = "k_record" /\ mine'[r].op = mine[r].op /\ mine'[r].key = mine[r].key
        /\ mine'[r].counter = mine[r].counter /\ mine'[r].read = Sees(r, mine[r].key)
        /\ Proves(mine'[r].read, mine'[r].counter)
     \/ /\ pc[r] = "idle" /\ mine'[r].op = pc'[r]
        /\ pc'[r] \in {"begin_totp", "confirm_totp", "begin_key", "finish_key"} \cup AdminCalls
     \/ /\ pc[r] = "confirm_totp" /\ pc'[r] = "f_check" /\ mine'[r].op = mine[r].op
        /\ Sees(r, "totp") # None /\ mine'[r].read = Sees(r, "totp").secret
        /\ mine'[r].code.secret = mine'[r].read /\ mine'[r].code.step \in Nat
     \/ pc[r] = "f_check" /\ pc'[r] = "f_accept" /\ SameAsk(r)
     \/ pc[r] = "begin_key" /\ pc'[r] = "g_write" /\ SameAsk(r)
     \/ pc[r] = "n_check" /\ pc'[r] = "n_insert" /\ SameAsk(r)

PutsTotp(r) ==
  \/ /\ pc[r] = "c_judge" /\ pc'[r] = "c_clear" /\ IsAsk(mine'[r]) /\ SameCode(r)
     /\ mine'[r].attempts = mine[r].attempts /\ mine'[r].good
     /\ mine[r].attempts <= MaxCodeFailures /\ mine[r].code.secret = mine[r].read
     /\ AcceptsStep(cur["totp"], mine[r].read, mine[r].code.step, FALSE)
     /\ WriteStep(r, {"totp"}, Row("totp", Accepted(cur["totp"], mine[r].code.step)))
  \/ /\ pc[r] = "f_accept" /\ pc'[r] = "f_clear" /\ SameAsk(r)
     /\ AcceptsStep(cur["totp"], mine[r].read, mine[r].code.step, TRUE)
     /\ WriteStep(r, {"totp"}, Row("totp", Accepted(cur["totp"], mine[r].code.step)))
  \/ /\ pc[r] = "begin_totp" /\ pc'[r] = "t_commit" /\ SameAsk(r)
     /\ WriteStep(r, {"totp"}, Row("totp", [secret |-> r, confirmed |-> FALSE, last |-> -1]))
  \/ /\ pc[r] = "remove_totp" /\ pc'[r] = "m_clear" /\ SameAsk(r)
     /\ WriteStep(r, {"totp"}, Row("totp", None))

PutsAttempts(r) ==
  \/ /\ pc[r] = "c_count" /\ pc'[r] = "c_judge" /\ IsAsk(mine'[r]) /\ SameCode(r)
     /\ mine'[r].read = mine[r].read /\ mine'[r].good = mine[r].good
     /\ mine'[r].attempts = Attempts(cur["attempts"]) + 1
     /\ WriteStep(r, {"attempts"}, Row("attempts", Attempts(cur["attempts"]) + 1))
  \/ /\ pc[r] = "c_clear" /\ pc'[r] = "c_commit" /\ SameAsk(r)
     /\ WriteStep(r, {"attempts"}, Row("attempts", None))
  \/ /\ pc[r] = "k_clear" /\ pc'[r] = "k_commit" /\ SameAsk(r)
     /\ \E X \in SUBSET {"attempts"} : \E f :
          /\ WriteStep(r, X, f)
          /\ "attempts" \in X => /\ com["attempts"] # None /\ com["attempts"] < MaxCodeFailures
                                 /\ f["attempts"] = None
  \/ /\ \/ pc[r] = "f_clear" /\ pc'[r] = "f_close"
        \/ pc[r] = "m_clear" /\ pc'[r] = "m_commit"
        \/ pc[r] = "resume_codes" /\ pc'[r] = "m_commit"
     /\ SameAsk(r)
     /\ \E X \in SUBSET {"attempts"} : \E f :
          WriteStep(r, X, f) /\ ("attempts" \in X => f["attempts"] = None)

PutsKeys(r) ==
  \/ /\ pc[r] = "k_record" /\ pc'[r] = "k_clear" /\ IsAsk(mine'[r])
     /\ mine'[r].op = mine[r].op /\ mine'[r].key = mine[r].key /\ mine'[r].counter = mine[r].counter
     /\ mine'[r].read = cur[mine[r].key] /\ IsAsRead(cur[mine[r].key], mine[r].read)
     /\ WriteStep(r, {mine[r].key}, Row(mine[r].key, [cur[mine[r].key] EXCEPT !.counter = mine[r].counter, !.used = r]))
  \/ /\ pc[r] = "n_insert" /\ pc'[r] = "n_close" /\ IsAsk(mine'[r])
     /\ mine'[r].op = mine[r].op /\ mine'[r].read = mine[r].read /\ mine'[r].key \in Keys
     /\ cur[mine'[r].key] = None
     /\ WriteStep(r, {mine'[r].key}, Row(mine'[r].key, [counter |-> 0, used |-> None, since |-> r]))
  \/ /\ pc[r] = "remove_keys" /\ pc'[r] = "m_commit" /\ SameAsk(r)
     /\ \E X \in SUBSET Keys : \E f : WriteStep(r, X, f) /\ \A x \in X : f[x] = None

PutsStarted(r) ==
  \/ /\ pc[r] = "g_write" /\ pc'[r] = "g_commit" /\ SameAsk(r)
     /\ WriteStep(r, {"started"}, Row("started", r))
  \/ /\ pc[r] = "finish_key" /\ pc'[r] = "n_spent" /\ IsAsk(mine'[r]) /\ mine'[r].op = mine[r].op
     /\ mine'[r].read = cur["started"] /\ cur["started"] # None
     /\ WriteStep(r, {"started"}, Row("started", None))

PutsSessions(r) ==
  /\ \/ pc[r] = "f_close" /\ pc'[r] = "f_commit"
     \/ pc[r] = "n_close" /\ pc'[r] = "n_commit"
  /\ SameAsk(r)
  /\ \E f : /\ WriteStep(r, ClosedSessions(r), f)
            /\ \A s \in ClosedSessions(r) : f[s] = [cur[s] EXCEPT !.active = FALSE]

EndsCode(r) ==
  LET q == mine[r] IN
  /\ pc[r] = "c_commit" /\ CommitStep(r) /\ SameAsk(r)
  /\ pc'[r] = IF q.good THEN "open" ELSE "refused"
  /\ wrong' = IF q.good THEN 0 ELSE IF q.attempts <= MaxCodeFailures THEN wrong + 1 ELSE wrong
  /\ told' = IF q.good THEN FALSE ELSE told \/ IsSuspension(q)

Ends(r) ==
  /\ CommitStep(r) /\ SameAsk(r)
  /\ wrong' = (IF Forgets(r) THEN 0 ELSE wrong) /\ told' = (IF Forgets(r) THEN FALSE ELSE told)
  /\ \/ pc[r] = "k_commit" /\ pc'[r] = "open"
     \/ pc[r] = "t_commit" /\ pc'[r] = "done"
     \/ pc[r] = "f_commit" /\ pc'[r] = "enrolled"
     \/ pc[r] = "g_commit" /\ pc'[r] = "done"
     \/ pc[r] = "n_spent" /\ pc'[r] = "n_check"
     \/ pc[r] = "n_commit" /\ pc'[r] = "enrolled"
     \/ pc[r] = "m_commit" /\ pc'[r] = "done"

Opens(r) ==
  /\ Shaped' /\ Alone(r) /\ Counted /\ pc[r] = "open" /\ pc'[r] = "done" /\ SameAsk(r)
  /\ \A x \in Rows : x # r => Kept(x)
  /\ writer'[r] = writer[r] /\ com'[r] = cur'[r]

Undoes(r) == UndoStep(r) /\ pc[r] \notin {"idle", "refused", "owed", "done", "enrolled"}

Moves(r) == \/ Turns(r) \/ PutsTotp(r) \/ PutsAttempts(r) \/ PutsKeys(r) \/ PutsStarted(r) \/ PutsSessions(r)
            \/ EndsCode(r) \/ Ends(r) \/ Opens(r) \/ Undoes(r)

\* Which of them the steps are: the calls begin.
LEMMA BeginTurns ==
  ASSUME LockInv, NEW r \in Requests, Begin(r)
  PROVE  Turns(r)
<1>1. IsAsk(mine[r]) /\ OpFits(r)
  BY DEF LockInv
<1>2. CASE BeginSignIn(r)
  <2>1. PICK q : q = [mine[r] EXCEPT !.op = "sign_in"]
    OBVIOUS
  <2>2. IsAsk(q) /\ q.op = "sign_in"
    BY <1>1, <2>1 DEF IsAsk
  <2>3. Reads(r, "s_totp", q) /\ pc[r] = "idle"
    BY <1>2, <2>1 DEF BeginSignIn
  <2>4. ReadStep(r) /\ pc'[r] = "s_totp" /\ mine'[r] = q
    BY <2>3, ReadsDoes
  <2> QED
    BY <2>2, <2>3, <2>4 DEF Turns
<1>3. ASSUME NEW c \in Code, BeginCode(r, c) PROVE Turns(r)
  <2>1. PICK q : q = [mine[r] EXCEPT !.op = "code", !.code = c]
    OBVIOUS
  <2>2. Reads(r, "c_read", q) /\ pc[r] = "idle"
    BY <1>3, <2>1 DEF BeginCode
  <2>3. mine[r].good = FALSE
    BY <1>1, <2>2 DEF OpFits, NoAsk
  <2>4. IsAsk(q) /\ q.op = "code" /\ q.code = c /\ q.good = FALSE
    BY <1>1, <2>1, <2>3 DEF IsAsk
  <2>5. c.step \in Nat
    BY FactorAssumption DEF Code
  <2>6. ReadStep(r) /\ pc'[r] = "c_read" /\ mine'[r] = q
    BY <2>2, ReadsDoes
  <2> QED
    BY <2>2, <2>4, <2>5, <2>6 DEF Turns
<1>4. ASSUME NEW k \in Keys, NEW n \in Counters, BeginKey(r, k, n) PROVE Turns(r)
  <2>1. PICK q : q = [mine[r] EXCEPT !.op = "key", !.key = k, !.counter = n]
    OBVIOUS
  <2>2. IsAsk(q) /\ q.op = "key" /\ q.key = k /\ q.counter = n
    BY <1>1, <2>1 DEF IsAsk
  <2>3. Reads(r, "k_read", q) /\ pc[r] = "idle"
    BY <1>4, <2>1 DEF BeginKey
  <2>4. ReadStep(r) /\ pc'[r] = "k_read" /\ mine'[r] = q
    BY <2>3, ReadsDoes
  <2>5. n \in Nat
    BY FactorAssumption
  <2> QED
    BY <2>2, <2>3, <2>4, <2>5 DEF Turns
<1>5. ASSUME NEW op \in {"begin_totp", "confirm_totp", "begin_key", "finish_key"}, NEW s,
             pc[r] = "idle", Reads(r, op, [mine[r] EXCEPT !.op = op, !.session = s])
      PROVE  Turns(r)
  <2>1. PICK q : q = [mine[r] EXCEPT !.op = op, !.session = s]
    OBVIOUS
  <2>2. IsAsk(q) /\ q.op = op
    BY <1>1, <2>1 DEF IsAsk
  <2>3. Reads(r, op, q)
    BY <1>5, <2>1
  <2>4. ReadStep(r) /\ pc'[r] = op /\ mine'[r] = q
    BY <2>3, ReadsDoes
  <2> QED
    BY <1>5, <2>2, <2>4 DEF Turns
<1>6. ASSUME NEW op \in AdminCalls, BeginAdmin(r, op) PROVE Turns(r)
  <2>1. PICK q : q = [mine[r] EXCEPT !.op = op]
    OBVIOUS
  <2>2. IsAsk(q) /\ q.op = op
    BY <1>1, <2>1 DEF IsAsk
  <2>3. Reads(r, op, q) /\ pc[r] = "idle"
    BY <1>6, <2>1 DEF BeginAdmin
  <2>4. ReadStep(r) /\ pc'[r] = op /\ mine'[r] = q
    BY <2>3, ReadsDoes
  <2> QED
    BY <2>2, <2>3, <2>4 DEF Turns
<1>7. ASSUME NEW s \in AllSessions, BeginTotpEnrollment(r, s) PROVE Turns(r)
  BY <1>5, <1>7 DEF BeginTotpEnrollment
<1>8. ASSUME NEW s \in AllSessions, NEW op \in {"confirm_totp", "begin_key", "finish_key"}, BeginSignedIn(r, op, s)
      PROVE  Turns(r)
  BY <1>5, <1>8 DEF BeginSignedIn
<1> QED
  BY <1>2, <1>3, <1>4, <1>6, <1>7, <1>8 DEF Begin, AdminCalls

\* A call that is refused, wherever.
LEMMA RefuseUndoes ==
  ASSUME LockInv, NEW r \in Requests, Refuse(r), ~IsOver(r)
  PROVE  Moves(r)
BY RefuseDoes DEF Moves, Undoes, IsOver

\* The steps of a sign in.
LEMMA SignInMoves ==
  ASSUME LockInv, NEW r \in Requests, ReadOwedCode(r) \/ ReadOwedKey(r) \/ OpenSession(r)
  PROVE  Moves(r)
<1>1. IsAsk(mine[r])
  BY DEF LockInv
<1>2. CASE ReadOwedCode(r)
  <2>1. PICK q : q = [mine[r] EXCEPT !.good = ~IsEnrolled(r)]
    OBVIOUS
  <2>2. IsAsk(q) /\ q.op = mine[r].op
    BY <1>1, <2>1 DEF IsAsk
  <2>3. Reads(r, "s_keys", q) /\ pc[r] = "s_totp"
    BY <1>2, <2>1 DEF ReadOwedCode
  <2>4. ReadStep(r) /\ pc'[r] = "s_keys" /\ mine'[r] = q
    BY <2>3, ReadsDoes
  <2> QED
    BY <2>2, <2>3, <2>4 DEF Turns, Moves
<1>3. CASE ReadOwedKey(r)
  <2>1. PICK to \in {"open", "owed"} : Reads(r, to, mine[r]) /\ pc[r] = "s_keys"
    BY <1>3 DEF ReadOwedKey
  <2>2. ReadStep(r) /\ pc'[r] = to /\ mine'[r] = mine[r]
    BY <2>1, ReadsDoes
  <2> QED
    BY <1>1, <2>1, <2>2 DEF Turns, Moves, SameAsk
<1>4. CASE OpenSession(r)
  BY <1>4, OpenSessionDoes DEF Moves, Opens, SameAsk
<1> QED
  BY <1>2, <1>3, <1>4

\* The steps of a code.
LEMMA CodeMoves ==
  ASSUME LockInv, NEW r \in Requests,
         \/ RefuseLocked(r) \/ ReadTotp(r) \/ CountCodeAttempt(r) \/ RejectCode(r) \/ AcceptCode(r)
         \/ ClearAttempts(r) \/ CommitCode(r)
  PROVE  Moves(r)
<1>1. IsAsk(mine[r])
  BY DEF LockInv
<1>2. CASE RefuseLocked(r)
  BY <1>2, RefuseUndoes DEF RefuseLocked, IsOver
<1>3. CASE ReadTotp(r) /\ ~IsEnrolled(r)
  BY <1>3, RefuseUndoes DEF ReadTotp, IsOver
<1>4. CASE ReadTotp(r) /\ IsEnrolled(r)
  <2>1. PICK q : q = [mine[r] EXCEPT !.read = Sees(r, "totp").secret]
    OBVIOUS
  <2>2. IsAsk(q) /\ q.op = mine[r].op /\ q.code = mine[r].code /\ q.good = mine[r].good /\ q.read = Sees(r, "totp").secret
    BY <1>1, <2>1 DEF IsAsk
  <2>3. Reads(r, "c_count", q) /\ pc[r] = "c_read" /\ Sees(r, "totp") # None
    BY <1>4, <2>1 DEF ReadTotp, IsEnrolled
  <2>4. ReadStep(r) /\ pc'[r] = "c_count" /\ mine'[r] = q
    BY <2>3, ReadsDoes
  <2> QED
    BY <2>2, <2>3, <2>4 DEF Turns, Moves, SameCode
<1>5. CASE CountCodeAttempt(r)
  <2>1. PICK n : n = Attempts(cur["attempts"]) + 1
    OBVIOUS
  <2>2. PICK q : q = [mine[r] EXCEPT !.attempts = n]
    OBVIOUS
  <2>4. /\ IsAsk(q) /\ q.op = mine[r].op /\ q.code = mine[r].code /\ q.good = mine[r].good
        /\ q.read = mine[r].read /\ q.attempts = n
    BY <1>1, <2>2 DEF IsAsk
  <2>5. /\ WriteRow(r, "attempts", n) /\ pc[r] = "c_count" /\ Goto(r, "c_judge")
        /\ mine' = [mine EXCEPT ![r] = q] /\ UNCHANGED <<wrong, told>>
    BY <1>5, <2>1, <2>2 DEF CountCodeAttempt
  <2>6. WriteStep(r, {"attempts"}, Row("attempts", n)) /\ pc'[r] = "c_judge" /\ mine'[r] = q
    BY <2>5, RowsAre, WriteRowDoes
  <2> QED
    BY <2>1, <2>4, <2>5, <2>6 DEF Moves, PutsAttempts, SameCode
<1>6. CASE RejectCode(r)
  <2>1. Goto(r, "c_commit") /\ mine' = mine /\ UNCHANGED <<storage, wrong, told>> /\ pc[r] = "c_judge"
    BY <1>6 DEF RejectCode
  <2>2. Shaped /\ pc' = [pc EXCEPT ![r] = "c_commit"] /\ com' = com /\ cur' = cur /\ writer' = writer
    BY <2>1 DEF LockInv, Goto, storage
  <2>3. Shaped' /\ Alone(r) /\ pc'[r] = "c_commit"
    BY <2>1, <2>2 DEF Shaped, Alone
  <2>4. ReadStep(r) /\ pc'[r] = "c_commit" /\ mine'[r] = mine[r]
    BY <2>1, <2>2, <2>3 DEF ReadStep, AllKept, Kept, Counted
  <2> QED
    BY <1>1, <2>1, <2>4 DEF Turns, Moves, SameCode
<1>7. CASE AcceptCode(r) /\ ~AcceptsStep(cur["totp"], mine[r].read, mine[r].code.step, FALSE)
  <2>1. PICK q : q = [mine[r] EXCEPT !.good = FALSE]
    OBVIOUS
  <2>2. IsAsk(q) /\ q.op = mine[r].op /\ q.code = mine[r].code /\ q.attempts = mine[r].attempts /\ q.good = FALSE
    BY <1>1, <2>1 DEF IsAsk
  <2>3. AcceptsStep(cur["totp"], mine[r].read, mine[r].code.step, FALSE) = FALSE
    BY <1>7 DEF AcceptsStep
  <2>4. Goto(r, "c_commit") /\ mine' = [mine EXCEPT ![r] = q] /\ UNCHANGED <<storage, wrong, told>> /\ pc[r] = "c_judge"
    BY <1>7, <2>1, <2>3 DEF AcceptCode
  <2>5. Reads(r, "c_commit", q)
    BY <2>4 DEF Reads
  <2>6. ReadStep(r) /\ pc'[r] = "c_commit" /\ mine'[r] = q
    BY <2>5, ReadsDoes
  <2> QED
    BY <2>2, <2>4, <2>6 DEF Turns, Moves, SameCode
<1>8. CASE AcceptCode(r) /\ AcceptsStep(cur["totp"], mine[r].read, mine[r].code.step, FALSE)
  <2>1. PICK q : q = [mine[r] EXCEPT !.good = TRUE]
    OBVIOUS
  <2>2. IsAsk(q) /\ q.op = mine[r].op /\ q.code = mine[r].code /\ q.attempts = mine[r].attempts /\ q.good = TRUE
    BY <1>1, <2>1 DEF IsAsk
  <2>3. AcceptsStep(cur["totp"], mine[r].read, mine[r].code.step, FALSE) = TRUE
    BY <1>8 DEF AcceptsStep
  <2>4. /\ Goto(r, "c_clear") /\ mine' = [mine EXCEPT ![r] = q] /\ UNCHANGED <<wrong, told>> /\ pc[r] = "c_judge"
        /\ WriteRow(r, "totp", Accepted(cur["totp"], mine[r].code.step))
        /\ mine[r].attempts <= MaxCodeFailures /\ mine[r].code.secret = mine[r].read
    BY <1>8, <2>1, <2>3 DEF AcceptCode
  <2>5. WriteStep(r, {"totp"}, Row("totp", Accepted(cur["totp"], mine[r].code.step))) /\ pc'[r] = "c_clear" /\ mine'[r] = q
    BY <2>4, RowsAre, WriteRowDoes
  <2> QED
    BY <1>8, <2>2, <2>4, <2>5 DEF PutsTotp, Moves, SameCode
<1>9. CASE ClearAttempts(r)
  <2>1. PICK f : f = Row("attempts", None)
    OBVIOUS
  <2>2. DOMAIN f = {"attempts"}
    BY <2>1 DEF Row
  <2>3. Writes(r, "c_clear", "c_commit", f)
    BY <1>9, <2>1 DEF ClearAttempts
  <2>4. WriteStep(r, DOMAIN f, f) /\ pc[r] = "c_clear" /\ pc'[r] = "c_commit" /\ mine'[r] = mine[r]
    BY <2>3, WritesDoes
  <2> QED
    BY <2>1, <2>2, <2>4 DEF PutsAttempts, Moves, SameAsk
<1>10. CASE CommitCode(r)
  <2>1. PICK to : Goto(r, to) /\ to = IF mine[r].good THEN "open" ELSE "refused"
    BY <1>10 DEF CommitCode
  <2>2. Commit(r) /\ mine' = mine
    BY <1>10 DEF CommitCode
  <2>3. CommitStep(r) /\ pc'[r] = to /\ mine'[r] = mine[r]
    BY <2>1, <2>2, CommitDoes
  <2> QED
    BY <1>10, <2>1, <2>3 DEF CommitCode, EndsCode, Moves, SameAsk
<1> QED
  BY <1>2, <1>3, <1>4, <1>5, <1>6, <1>7, <1>8, <1>9, <1>10

\* The steps of the answer of a key.
LEMMA KeyMoves ==
  ASSUME LockInv, NEW r \in Requests, JudgeAnswer(r) \/ RecordKeyUse(r) \/ ClearAttemptsBelow(r) \/ CommitKey(r)
  PROVE  Moves(r)
<1>1. IsAsk(mine[r])
  BY DEF LockInv
<1>2. CASE JudgeAnswer(r) /\ ~Proves(Sees(r, mine[r].key), mine[r].counter)
  BY <1>2, RefuseUndoes DEF JudgeAnswer, IsOver
<1>3. CASE JudgeAnswer(r) /\ Proves(Sees(r, mine[r].key), mine[r].counter)
  <2>1. PICK q : q = [mine[r] EXCEPT !.read = Sees(r, mine[r].key)]
    OBVIOUS
  <2>2. /\ IsAsk(q) /\ q.op = mine[r].op /\ q.key = mine[r].key /\ q.counter = mine[r].counter
        /\ q.read = Sees(r, mine[r].key)
    BY <1>1, <2>1 DEF IsAsk
  <2>3. Reads(r, "k_record", q) /\ pc[r] = "k_read"
    BY <1>3, <2>1 DEF JudgeAnswer
  <2>4. ReadStep(r) /\ pc'[r] = "k_record" /\ mine'[r] = q
    BY <2>3, ReadsDoes
  <2> QED
    BY <1>3, <2>2, <2>3, <2>4 DEF Turns, Moves
<1>4. CASE RecordKeyUse(r) /\ ~IsAsRead(cur[mine[r].key], mine[r].read)
  BY <1>4, RefuseUndoes DEF RecordKeyUse, IsOver
<1>5. CASE RecordKeyUse(r) /\ IsAsRead(cur[mine[r].key], mine[r].read)
  <2>1. PICK v : v = cur[mine[r].key]
    OBVIOUS
  <2>2. PICK q : q = [mine[r] EXCEPT !.good = TRUE, !.read = v]
    OBVIOUS
  <2>3. IsAsk(q) /\ q.op = mine[r].op /\ q.key = mine[r].key /\ q.counter = mine[r].counter /\ q.read = v
    BY <1>1, <2>2 DEF IsAsk
  <2>4. mine' = [mine EXCEPT ![r].good = TRUE, ![r].read = v]
    BY <1>5, <2>1 DEF RecordKeyUse
  <2>5. mine' = [mine EXCEPT ![r] = q]
    BY <2>2, <2>4 DEF LockInv, Shaped
  <2>6. PICK w : w = [v EXCEPT !.counter = mine[r].counter, !.used = r]
    OBVIOUS
  <2>7. WriteRow(r, mine[r].key, w) /\ Goto(r, "k_clear") /\ UNCHANGED <<wrong, told>> /\ pc[r] = "k_record"
    BY <1>5, <2>1, <2>6 DEF RecordKeyUse
  <2>8. mine[r].key \in Rows
    BY <2>7, RowsAre DEF LockInv, OpFits, KeySteps
  <2>9. WriteStep(r, {mine[r].key}, Row(mine[r].key, w)) /\ pc'[r] = "k_clear" /\ mine'[r] = q
    BY <2>5, <2>7, <2>8, WriteRowDoes
  <2> QED
    BY <1>5, <2>1, <2>3, <2>6, <2>7, <2>9 DEF PutsKeys, Moves
<1>6. CASE ClearAttemptsBelow(r)
  <2>1. PICK f : f = [x \in {y \in {"attempts"} : com[y] # None /\ com[y] < MaxCodeFailures} |-> None]
    OBVIOUS
  <2>2. /\ DOMAIN f \in SUBSET {"attempts"}
        /\ "attempts" \in DOMAIN f => com["attempts"] # None /\ com["attempts"] < MaxCodeFailures /\ f["attempts"] = None
    BY <2>1
  <2>3. Writes(r, "k_clear", "k_commit", f)
    BY <1>6, <2>1 DEF ClearAttemptsBelow
  <2>4. WriteStep(r, DOMAIN f, f) /\ pc[r] = "k_clear" /\ pc'[r] = "k_commit" /\ mine'[r] = mine[r]
    BY <2>3, WritesDoes
  <2> QED
    BY <2>2, <2>4 DEF PutsAttempts, Moves, SameAsk
<1>7. CASE CommitKey(r)
  BY <1>7, CommitsDoes DEF CommitKey, Ends, Moves, SameAsk
<1> QED
  BY <1>2, <1>3, <1>4, <1>5, <1>6, <1>7

\* A statement that clears the attempts, if there are any.
LEMMA ClearedDoes ==
  ASSUME LockInv, NEW r \in Requests, NEW from, NEW to, Writes(r, from, to, AttemptsCleared)
  PROVE  /\ pc[r] = from /\ pc'[r] = to /\ mine'[r] = mine[r]
         /\ \E X \in SUBSET {"attempts"} : \E f : WriteStep(r, X, f) /\ ("attempts" \in X => f["attempts"] = None)
<1>1. PICK f : f = AttemptsCleared
  OBVIOUS
<1>2. DOMAIN f \in SUBSET {"attempts"} /\ ("attempts" \in DOMAIN f => f["attempts"] = None)
  BY <1>1 DEF AttemptsCleared
<1>3. WriteStep(r, DOMAIN f, f) /\ pc[r] = from /\ pc'[r] = to /\ mine'[r] = mine[r]
  BY <1>1, WritesDoes
<1> QED
  BY <1>2, <1>3

\* A statement that closes the sessions of the password alone.
LEMMA ClosesDoes ==
  ASSUME LockInv, NEW r \in Requests, NEW from, NEW to, CloseSessionsWithoutFactor(r, from, to)
  PROVE  /\ pc[r] = from /\ pc'[r] = to /\ SameAsk(r)
         /\ \E f : /\ WriteStep(r, ClosedSessions(r), f)
                   /\ \A s \in ClosedSessions(r) : f[s] = [cur[s] EXCEPT !.active = FALSE]
<1>1. PICK f : f = [s \in ClosedSessions(r) |-> [cur[s] EXCEPT !.active = FALSE]]
  OBVIOUS
<1>2. DOMAIN f = ClosedSessions(r) /\ \A s \in ClosedSessions(r) : f[s] = [cur[s] EXCEPT !.active = FALSE]
  BY <1>1
<1>3. Writes(r, from, to, f)
  BY <1>1 DEF CloseSessionsWithoutFactor
<1>4. WriteStep(r, DOMAIN f, f) /\ pc[r] = from /\ pc'[r] = to /\ mine'[r] = mine[r]
  BY <1>3, WritesDoes
<1> QED
  BY <1>2, <1>4 DEF SameAsk

\* A statement that writes one row and tells nothing.
LEMMA WritesRowDoes ==
  ASSUME LockInv, NEW r \in Requests, NEW from, NEW to, NEW x, NEW v, Writes(r, from, to, Row(x, v))
  PROVE  WriteStep(r, {x}, Row(x, v)) /\ pc[r] = from /\ pc'[r] = to /\ SameAsk(r)
<1>1. PICK f : f = Row(x, v)
  OBVIOUS
<1>2. DOMAIN f = {x}
  BY <1>1 DEF Row
<1>3. WriteStep(r, DOMAIN f, f) /\ pc[r] = from /\ pc'[r] = to /\ mine'[r] = mine[r]
  BY <1>1, WritesDoes
<1> QED
  BY <1>1, <1>2, <1>3 DEF SameAsk

\* The steps that set up an application.
LEMMA TotpMoves ==
  ASSUME LockInv, NEW r \in Requests,
         \/ WritePendingTotp(r) \/ CommitPendingTotp(r)
         \/ (\E step \in Steps : ReadPendingTotp(r, step)) \/ CheckConfirm(r) \/ AcceptConfirmation(r)
         \/ ClearAtConfirmation(r) \/ CloseAtConfirmation(r) \/ CommitConfirmation(r)
  PROVE  Moves(r)
<1>1. IsAsk(mine[r])
  BY DEF LockInv
<1>2. CASE WritePendingTotp(r)
  <2>1. CASE cur["totp"] # None /\ cur["totp"].confirmed
    BY <1>2, <2>1, RefuseUndoes DEF WritePendingTotp, IsOver
  <2>2. CASE ~(cur["totp"] # None /\ cur["totp"].confirmed)
    <3>1. PICK v : v = [secret |-> r, confirmed |-> FALSE, last |-> -1]
      OBVIOUS
    <3>2. Writes(r, "begin_totp", "t_commit", Row("totp", v))
      BY <1>2, <2>2, <3>1 DEF WritePendingTotp
    <3> QED
      BY <3>1, <3>2, WritesRowDoes DEF Moves, PutsTotp
  <2> QED
    BY <2>1, <2>2
<1>3. CASE CommitPendingTotp(r)
  BY <1>3, CommitsDoes DEF CommitPendingTotp, Ends, Moves, SameAsk
<1>4. ASSUME NEW step \in Steps, ReadPendingTotp(r, step) PROVE Moves(r)
  <2>1. CASE Sees(r, "totp") = None \/ IsEnrolled(r)
    BY <1>4, <2>1, RefuseUndoes DEF ReadPendingTotp, IsOver
  <2>2. CASE ~(Sees(r, "totp") = None \/ IsEnrolled(r))
    <3>1. PICK c : c = [secret |-> Sees(r, "totp").secret, step |-> step]
      OBVIOUS
    <3>2. PICK q : q = [mine[r] EXCEPT !.read = Sees(r, "totp").secret, !.code = c]
      OBVIOUS
    <3>3. IsAsk(q) /\ q.op = mine[r].op /\ q.read = Sees(r, "totp").secret /\ q.code = c
      BY <1>1, <3>2 DEF IsAsk
    <3>4. Reads(r, "f_check", q) /\ pc[r] = "confirm_totp"
      BY <1>4, <2>2, <3>1, <3>2 DEF ReadPendingTotp
    <3>5. ReadStep(r) /\ pc'[r] = "f_check" /\ mine'[r] = q
      BY <3>4, ReadsDoes
    <3>6. c.secret = Sees(r, "totp").secret /\ c.step \in Nat
      BY <3>1, FactorAssumption
    <3> QED
      BY <2>2, <3>3, <3>4, <3>5, <3>6 DEF Turns, Moves
  <2> QED
    BY <2>1, <2>2
<1>5. CASE CheckConfirm(r)
  <2>1. CASE RefusesUnproven(r, mine[r].session)
    BY <1>5, <2>1, RefuseUndoes DEF CheckConfirm, RequireFactorProof, IsOver
  <2>2. CASE ~RefusesUnproven(r, mine[r].session)
    <3>1. Reads(r, "f_accept", mine[r]) /\ pc[r] = "f_check"
      BY <1>5, <2>2 DEF CheckConfirm, RequireFactorProof
    <3>2. ReadStep(r) /\ pc'[r] = "f_accept" /\ mine'[r] = mine[r]
      BY <3>1, ReadsDoes
    <3> QED
      BY <1>1, <3>1, <3>2 DEF Turns, Moves, SameAsk
  <2> QED
    BY <2>1, <2>2
<1>6. CASE AcceptConfirmation(r)
  <2>1. CASE AcceptsStep(cur["totp"], mine[r].read, mine[r].code.step, TRUE)
    <3>1. Writes(r, "f_accept", "f_clear", Row("totp", Accepted(cur["totp"], mine[r].code.step)))
      BY <1>6, <2>1 DEF AcceptConfirmation
    <3> QED
      BY <2>1, <3>1, WritesRowDoes DEF Moves, PutsTotp
  <2>2. CASE ~AcceptsStep(cur["totp"], mine[r].read, mine[r].code.step, TRUE)
    BY <1>6, <2>2, RefuseUndoes DEF AcceptConfirmation, IsOver
  <2> QED
    BY <2>1, <2>2
<1>7. CASE ClearAtConfirmation(r)
  BY <1>7, ClearedDoes DEF ClearAtConfirmation, Moves, PutsAttempts, SameAsk
<1>8. CASE CloseAtConfirmation(r)
  BY <1>8, ClosesDoes DEF CloseAtConfirmation, Moves, PutsSessions
<1>9. CASE CommitConfirmation(r)
  BY <1>9, CommitsDoes DEF CommitConfirmation, Ends, Moves, SameAsk
<1> QED
  BY <1>2, <1>3, <1>4, <1>5, <1>6, <1>7, <1>8, <1>9

\* The steps that set up a key.
LEMMA EnrollMoves ==
  ASSUME LockInv, NEW r \in Requests,
         \/ CheckBeginKey(r) \/ RefuseOneMoreKey(r) \/ WriteKeyEnrollment(r) \/ CommitBeginKey(r)
         \/ TakeKeyEnrollment(r) \/ CommitSpent(r) \/ CheckFinishKey(r)
         \/ (\E k \in Keys : InsertSecurityKey(r, k)) \/ CloseAtKey(r) \/ CommitFinishKey(r)
  PROVE  Moves(r)
<1>1. IsAsk(mine[r])
  BY DEF LockInv
<1>2. CASE CheckBeginKey(r)
  <2>1. CASE RefusesUnproven(r, mine[r].session)
    BY <1>2, <2>1, RefuseUndoes DEF CheckBeginKey, RequireFactorProof, IsOver
  <2>2. CASE ~RefusesUnproven(r, mine[r].session)
    <3>1. Reads(r, "g_write", mine[r]) /\ pc[r] = "begin_key"
      BY <1>2, <2>2 DEF CheckBeginKey, RequireFactorProof
    <3>2. ReadStep(r) /\ pc'[r] = "g_write" /\ mine'[r] = mine[r]
      BY <3>1, ReadsDoes
    <3> QED
      BY <1>1, <3>1, <3>2 DEF Turns, Moves, SameAsk
  <2> QED
    BY <2>1, <2>2
<1>3. CASE RefuseOneMoreKey(r)
  BY <1>3, RefuseUndoes DEF RefuseOneMoreKey, IsOver
<1>4. CASE WriteKeyEnrollment(r)
  BY <1>4, WritesRowDoes DEF WriteKeyEnrollment, Moves, PutsStarted
<1>5. CASE CommitBeginKey(r)
  BY <1>5, CommitsDoes DEF CommitBeginKey, Ends, Moves, SameAsk
<1>6. CASE TakeKeyEnrollment(r)
  <2>1. CASE cur["started"] = None
    BY <1>6, <2>1, RefuseUndoes DEF TakeKeyEnrollment, IsOver
  <2>2. CASE cur["started"] # None
    <3>1. PICK q : q = [mine[r] EXCEPT !.read = cur["started"]]
      OBVIOUS
    <3>2. IsAsk(q) /\ q.op = mine[r].op /\ q.read = cur["started"]
      BY <1>1, <3>1 DEF IsAsk
    <3>3. /\ WriteRow(r, "started", None) /\ Goto(r, "n_spent") /\ UNCHANGED <<wrong, told>> /\ pc[r] = "finish_key"
          /\ mine' = [mine EXCEPT ![r] = q]
      BY <1>6, <2>2, <3>1 DEF TakeKeyEnrollment
    <3>4. WriteStep(r, {"started"}, Row("started", None)) /\ pc'[r] = "n_spent" /\ mine'[r] = q
      BY <3>3, RowsAre, WriteRowDoes
    <3> QED
      BY <2>2, <3>2, <3>3, <3>4 DEF PutsStarted, Moves
  <2> QED
    BY <2>1, <2>2
<1>7. CASE CommitSpent(r)
  BY <1>7, CommitsDoes DEF CommitSpent, Ends, Moves, SameAsk
<1>8. CASE CheckFinishKey(r)
  <2>1. CASE RefusesUnproven(r, mine[r].session)
    BY <1>8, <2>1, RefuseUndoes DEF CheckFinishKey, RequireFactorProof, IsOver
  <2>2. CASE ~RefusesUnproven(r, mine[r].session)
    <3>1. Reads(r, "n_insert", mine[r]) /\ pc[r] = "n_check"
      BY <1>8, <2>2 DEF CheckFinishKey, RequireFactorProof
    <3>2. ReadStep(r) /\ pc'[r] = "n_insert" /\ mine'[r] = mine[r]
      BY <3>1, ReadsDoes
    <3> QED
      BY <1>1, <3>1, <3>2 DEF Turns, Moves, SameAsk
  <2> QED
    BY <2>1, <2>2
<1>9. ASSUME NEW k \in Keys, InsertSecurityKey(r, k) PROVE Moves(r)
  <2>1. CASE cur[k] # None
    BY <1>9, <2>1, RefuseUndoes DEF InsertSecurityKey, IsOver
  <2>2. CASE cur[k] = None
    <3>1. PICK q : q = [mine[r] EXCEPT !.key = k]
      OBVIOUS
    <3>2. IsAsk(q) /\ q.op = mine[r].op /\ q.read = mine[r].read /\ q.key = k
      BY <1>1, <3>1 DEF IsAsk
    <3>3. PICK v : v = [counter |-> 0, used |-> None, since |-> r]
      OBVIOUS
    <3>4. /\ WriteRow(r, k, v) /\ Goto(r, "n_close") /\ UNCHANGED <<wrong, told>> /\ pc[r] = "n_insert"
          /\ mine' = [mine EXCEPT ![r] = q]
      BY <1>9, <2>2, <3>1, <3>3 DEF InsertSecurityKey
    <3>5. WriteStep(r, {k}, Row(k, v)) /\ pc'[r] = "n_close" /\ mine'[r] = q
      BY <3>4, RowsAre, WriteRowDoes
    <3> QED
      BY <2>2, <3>2, <3>3, <3>4, <3>5 DEF PutsKeys, Moves
  <2> QED
    BY <2>1, <2>2
<1>10. CASE CloseAtKey(r)
  BY <1>10, ClosesDoes DEF CloseAtKey, Moves, PutsSessions
<1>11. CASE CommitFinishKey(r)
  BY <1>11, CommitsDoes DEF CommitFinishKey, Ends, Moves, SameAsk
<1> QED
  BY <1>2, <1>3, <1>4, <1>5, <1>6, <1>7, <1>8, <1>9, <1>10, <1>11

\* The steps of an administrator.
LEMMA AdminMoves ==
  ASSUME LockInv, NEW r \in Requests,
         RemoveTotp(r) \/ ClearAtRemoval(r) \/ RemoveSecurityKeys(r) \/ ResumeCodes(r) \/ CommitAdmin(r)
  PROVE  Moves(r)
<1>1. CASE RemoveTotp(r)
  <2>1. CASE pc[r] = "remove_totp" /\ Refuse(r)
    BY <2>1, RefuseUndoes DEF IsOver
  <2>2. CASE Writes(r, "remove_totp", "m_clear", Row("totp", None))
    BY <2>2, WritesRowDoes DEF Moves, PutsTotp
  <2> QED
    BY <1>1, <2>1, <2>2 DEF RemoveTotp
<1>2. CASE ClearAtRemoval(r)
  BY <1>2, ClearedDoes DEF ClearAtRemoval, Moves, PutsAttempts, SameAsk
<1>3. CASE RemoveSecurityKeys(r)
  <2>1. CASE pc[r] = "remove_keys" /\ Refuse(r)
    BY <2>1, RefuseUndoes DEF IsOver
  <2>2. PICK f : f = [k \in {k \in Keys : com[k] # None} |-> None]
    OBVIOUS
  <2>3. CASE Writes(r, "remove_keys", "m_commit", f)
    <3>1. DOMAIN f \in SUBSET Keys /\ \A x \in DOMAIN f : f[x] = None
      BY <2>2
    <3>2. WriteStep(r, DOMAIN f, f) /\ pc[r] = "remove_keys" /\ pc'[r] = "m_commit" /\ mine'[r] = mine[r]
      BY <2>3, WritesDoes
    <3> QED
      BY <3>1, <3>2 DEF PutsKeys, Moves, SameAsk
  <2> QED
    BY <1>3, <2>1, <2>2, <2>3 DEF RemoveSecurityKeys
<1>4. CASE ResumeCodes(r)
  BY <1>4, ClearedDoes DEF ResumeCodes, Moves, PutsAttempts, SameAsk
<1>5. CASE CommitAdmin(r)
  BY <1>5, CommitsDoes DEF CommitAdmin, Ends, Moves, SameAsk
<1> QED
  BY <1>1, <1>2, <1>3, <1>4, <1>5

\* Every step is one of them.
LEMMA NextMoves ==
  ASSUME LockInv, NEW r \in Requests, Begin(r) \/ Advance(r) \/ Fail(r)
  PROVE  Moves(r)
<1>1. CASE Begin(r)
  BY <1>1, BeginTurns DEF Moves
<1>2. CASE Fail(r)
  BY <1>2, RefuseUndoes DEF Fail
<1>3. CASE Advance(r)
  BY <1>3, SignInMoves, CodeMoves, KeyMoves, TotpMoves, EnrollMoves, AdminMoves DEF Advance
<1> QED
  BY <1>1, <1>2, <1>3

-----------------------------------------------------------------------------
(* Every row is held by who wrote it, and by the step it is at.            *)

RowGoes(r, x) == Kept(x) \/ writer'[x] = r \/ (writer'[x] \in {None, writer[x]} /\ cur'[x] = com'[x])

\* What is left to show of a step: the request, and the rows it holds then.
LEMMA LockGoes ==
  ASSUME LockInv, NEW r \in Requests, Shaped', Alone(r), IsAsk(mine'[r]), OpFits(r)',
         \A x \in Rows : RowGoes(r, x) /\ (writer'[x] = r => Holds(r, x)')
  PROVE  LockInv'
<1>1. ASSUME NEW q \in Requests PROVE IsAsk(mine'[q]) /\ OpFits(q)'
  BY <1>1 DEF LockInv, Alone, OpFits
<1>2. ASSUME NEW x \in Rows PROVE RowHeld(x)'
  <2>1. RowHeld(x) /\ RowGoes(r, x)
    BY DEF LockInv
  <2>2. CASE writer'[x] = r
    BY <2>2, RowsAre DEF RowHeld
  <2>3. CASE writer'[x] = None
    BY <2>1, <2>3, RowsAre DEF RowHeld, RowGoes, Kept
  <2>4. CASE writer'[x] # r /\ writer'[x] # None
    <3>1. writer'[x] = writer[x] /\ writer[x] \in Requests /\ Holds(writer[x], x)
      BY <2>1, <2>4 DEF RowHeld, RowGoes, Kept
    <3>2. PICK q : q = writer[x]
      OBVIOUS
    <3>3. pc'[q] = pc[q] /\ mine'[q] = mine[q]
      BY <2>4, <3>1, <3>2 DEF Alone
    <3>4. Holds(q, x)'
      BY <3>1, <3>2, <3>3 DEF Holds
    <3> QED
      BY <2>4, <3>1, <3>2, <3>4 DEF RowHeld
  <2> QED
    BY <2>2, <2>3, <2>4
<1> QED
  BY <1>1, <1>2 DEF LockInv

\* A row that is held is held as told.
LEMMA HeldSo ==
  ASSUME LockInv, NEW r \in Requests, NEW x \in Rows, writer[x] = r
  PROVE  Holds(r, x) /\ x \in {"totp", "attempts", "started"} \cup Keys \cup AllSessions
BY RowsAre, RowsAssumption DEF LockInv, RowHeld, AllSessions

\* A step that reads keeps the rows held as they are.
LEMMA TurnsLock ==
  ASSUME LockInv, NEW r \in Requests, Turns(r)
  PROVE  LockInv'
<1>1. Shaped' /\ Alone(r) /\ AllKept /\ IsAsk(mine'[r]) /\ OpFits(r)
  BY DEF Turns, ReadStep, LockInv
<1>2. OpFits(r)'
  BY <1>1 DEF Turns, OpFits, SameAsk, SameCode, CodeSteps, KeySteps, ConfirmSteps, FinishSteps, AdminCalls
<1>3. ASSUME NEW x \in Rows, writer[x] = r PROVE Holds(r, x)'
  <2>1. Holds(r, x) /\ x \in {"totp", "attempts", "started"} \cup Keys \cup AllSessions
    BY <1>3, HeldSo
  <2>2. pc[r] = "c_judge" /\ pc'[r] = "c_commit"
    BY <2>1, RowsAre DEF Turns, Holds
  <2> QED
    BY <2>1, <2>2, RowsAre DEF Holds
<1> QED
  BY <1>1, <1>2, <1>3, LockGoes DEF AllKept, Kept, RowGoes

\* A statement that writes: the rows it writes, and those it held before.
LEMMA WritesLock ==
  ASSUME LockInv, NEW r \in Requests, NEW X, NEW f, WriteStep(r, X, f), IsAsk(mine'[r]), OpFits(r)',
         \A x \in Rows : writer[x] = r \/ x \in X => Holds(r, x)'
  PROVE  LockInv'
<1>1. Shaped' /\ Alone(r)
  BY DEF WriteStep
<1>2. \A x \in Rows : RowGoes(r, x) /\ (writer'[x] = r => Holds(r, x)')
  BY RowsAre DEF WriteStep, Wrote, Kept, RowGoes
<1> QED
  BY <1>1, <1>2, LockGoes

\* A commit, or the end of a call that is dropped, holds nothing.
LEMMA EndsLock ==
  ASSUME LockInv, NEW r \in Requests, CommitStep(r) \/ UndoStep(r), SameAsk(r), OpFits(r)'
  PROVE  LockInv'
<1>1. Shaped' /\ Alone(r) /\ IsAsk(mine'[r])
  BY DEF CommitStep, UndoStep, LockInv, SameAsk
<1>2. \A x \in Rows : RowGoes(r, x) /\ writer'[x] # r
  BY RowsAre DEF CommitStep, UndoStep, Ended, Undone, Kept, RowGoes
<1> QED
  BY <1>1, <1>2, LockGoes

\* Every step keeps each row with who wrote it.
LEMMA MovesLock ==
  ASSUME LockInv, NEW r \in Requests, Moves(r)
  PROVE  LockInv'
<1>1. IsAsk(mine[r]) /\ OpFits(r)
  BY DEF LockInv
<1> USE DEF SameAsk, SameCode, CodeSteps, KeySteps, ConfirmSteps, FinishSteps, AdminCalls
<1>2. CASE Turns(r)
  BY <1>2, TurnsLock
<1>3. CASE PutsTotp(r)
  <2>1. IsAsk(mine'[r]) /\ OpFits(r)'
    BY <1>1, <1>3 DEF PutsTotp, OpFits
  <2>2. PICK f : WriteStep(r, {"totp"}, f)
    BY <1>3 DEF PutsTotp
  <2>3. ASSUME NEW x \in Rows, writer[x] = r \/ x \in {"totp"} PROVE Holds(r, x)'
    <3>1. CASE x = "totp"
      BY <1>1, <1>3, <3>1, RowsAre DEF PutsTotp, Holds, OpFits
    <3>2. CASE x # "totp"
      <4>1. Holds(r, x) /\ x \in {"attempts", "started"} \cup Keys \cup AllSessions
        BY <2>3, <3>2, HeldSo
      <4> QED
        BY <1>3, <3>2, <4>1, RowsAre DEF PutsTotp, Holds
    <3> QED
      BY <3>1, <3>2
  <2> QED
    BY <2>1, <2>2, <2>3, WritesLock
<1>4. CASE PutsAttempts(r)
  <2>1. IsAsk(mine'[r]) /\ OpFits(r)'
    BY <1>1, <1>4 DEF PutsAttempts, OpFits
  <2>2. PICK X \in SUBSET {"attempts"} : \E f : WriteStep(r, X, f)
    BY <1>4 DEF PutsAttempts
  <2>3. ASSUME NEW x \in Rows, writer[x] = r \/ x \in X PROVE Holds(r, x)'
    <3>1. CASE x = "attempts"
      BY <1>1, <1>4, <3>1, RowsAre DEF PutsAttempts, Holds, OpFits
    <3>2. CASE x # "attempts"
      <4>1. Holds(r, x) /\ x \in {"totp", "started"} \cup Keys \cup AllSessions
        BY <2>3, <3>2, HeldSo
      <4> QED
        BY <1>1, <1>4, <3>2, <4>1, RowsAre DEF PutsAttempts, Holds, OpFits
    <3> QED
      BY <3>1, <3>2
  <2> QED
    BY <2>1, <2>2, <2>3, WritesLock
<1>5. CASE PutsKeys(r)
  <2>1. IsAsk(mine'[r]) /\ OpFits(r)'
    BY <1>1, <1>5 DEF PutsKeys, OpFits
  <2>2. PICK X \in SUBSET Keys : /\ \E f : WriteStep(r, X, f)
                                 /\ pc[r] # "remove_keys" => X = {mine'[r].key}
    BY <1>1, <1>5 DEF PutsKeys, OpFits
  <2>3. ASSUME NEW x \in Rows, writer[x] = r \/ x \in X PROVE Holds(r, x)'
    <3>1. CASE x \in X
      BY <1>1, <1>5, <2>2, <3>1, RowsAre DEF PutsKeys, Holds, OpFits
    <3>2. CASE x \notin X
      <4>1. Holds(r, x) /\ x \in {"totp", "attempts", "started"} \cup Keys \cup AllSessions
        BY <2>3, <3>2, HeldSo
      <4> QED
        BY <1>1, <1>5, <3>2, <4>1, RowsAre DEF PutsKeys, Holds, OpFits
    <3> QED
      BY <3>1, <3>2
  <2> QED
    BY <2>1, <2>2, <2>3, WritesLock
<1>6. CASE PutsStarted(r)
  <2>1. IsAsk(mine'[r]) /\ OpFits(r)'
    BY <1>1, <1>6 DEF PutsStarted, OpFits
  <2>2. PICK f : WriteStep(r, {"started"}, f)
    BY <1>6 DEF PutsStarted
  <2>3. ASSUME NEW x \in Rows, writer[x] = r \/ x \in {"started"} PROVE Holds(r, x)'
    <3>1. CASE x = "started"
      BY <1>6, <3>1, RowsAre DEF PutsStarted, Holds
    <3>2. CASE x # "started"
      <4>1. Holds(r, x) /\ x \in {"totp", "attempts"} \cup Keys \cup AllSessions
        BY <2>3, <3>2, HeldSo
      <4> QED
        BY <1>6, <3>2, <4>1, RowsAre DEF PutsStarted, Holds
    <3> QED
      BY <3>1, <3>2
  <2> QED
    BY <2>1, <2>2, <2>3, WritesLock
<1>7. CASE PutsSessions(r)
  <2>1. IsAsk(mine'[r]) /\ OpFits(r)'
    BY <1>1, <1>7 DEF PutsSessions, OpFits
  <2>2. PICK f : WriteStep(r, ClosedSessions(r), f)
    BY <1>7 DEF PutsSessions
  <2>3. ASSUME NEW x \in Rows, writer[x] = r \/ x \in ClosedSessions(r) PROVE Holds(r, x)'
    <3>1. CASE x \in ClosedSessions(r)
      BY <1>7, <3>1, RowsAre DEF PutsSessions, Holds, ClosedSessions
    <3>2. CASE x \notin ClosedSessions(r)
      <4>1. Holds(r, x) /\ x \in {"totp", "attempts", "started"} \cup Keys \cup AllSessions
        BY <2>3, <3>2, HeldSo
      <4> QED
        BY <1>7, <4>1, RowsAre DEF PutsSessions, Holds
    <3> QED
      BY <3>1, <3>2
  <2> QED
    BY <2>1, <2>2, <2>3, WritesLock
<1>8. CASE EndsCode(r)
  BY <1>1, <1>8, EndsLock DEF EndsCode, OpFits
<1>9. CASE Ends(r)
  <2>1. OpFits(r)'
    BY <1>1, <1>9 DEF Ends, OpFits
  <2> QED
    BY <1>9, <2>1, EndsLock DEF Ends
<1>10. CASE Opens(r)
  <2>1. OpFits(r)' /\ IsAsk(mine'[r])
    BY <1>1, <1>10 DEF Opens, OpFits
  <2>2. ASSUME NEW x \in Rows, writer'[x] = r PROVE FALSE
    <3>1. writer[x] = r
      BY <1>10, <2>2 DEF Opens, Kept
    <3>2. Holds(r, x) /\ x \in {"totp", "attempts", "started"} \cup Keys \cup AllSessions
      BY <3>1, HeldSo
    <3> QED
      BY <1>10, <3>2, RowsAre DEF Opens, Holds
  <2>3. \A x \in Rows : RowGoes(r, x)
    BY <1>10 DEF Opens, RowGoes
  <2> QED
    BY <1>10, <2>1, <2>2, <2>3, LockGoes DEF Opens
<1>11. CASE Undoes(r)
  BY <1>11, EndsLock DEF Undoes, UndoStep, OpFits
<1> QED
  BY <1>2, <1>3, <1>4, <1>5, <1>6, <1>7, <1>8, <1>9, <1>10, <1>11 DEF Moves

-----------------------------------------------------------------------------
(* A code serves once.                                                     *)

\* A call that is over takes no step.
LEMMA OverStays ==
  ASSUME NEW r \in Requests, Moves(r)
  PROVE  pc[r] \notin {"refused", "owed", "done", "enrolled"} /\ Alone(r)
BY DEF Moves, Turns, PutsTotp, PutsAttempts, PutsKeys, PutsStarted, PutsSessions, EndsCode, Ends, Opens, Undoes,
       ReadStep, WriteStep, CommitStep, UndoStep

\* What a step may do to the row of the application.
TotpGoes(r) ==
  \/ Kept("totp") /\ (pc[r] = "t_commit" => writer["totp"] # r)
  \/ /\ writer["totp"] = r /\ Ended(r, "totp")
     /\ pc[r] = "t_commit" => pc'[r] = "done" /\ mine'[r].op = "begin_totp"
  \/ writer["totp"] = r /\ Undone(r, "totp")
  \/ \E v \in TotpRow \cup {None} :
       /\ Wrote(r, "totp", v)
       /\ v # None => Minted(v.secret) \/ (v.secret = r /\ pc'[r] = "t_commit")
       /\ \A q \in Requests : Minted(mine[q].code.secret) /\ mine[q].code.step \in Nat /\ Spent(cur["totp"], mine[q].code)
                                => Spent(v, mine[q].code)

\* A secret stays one that was made.
LEMMA MintedStays ==
  ASSUME NEW r \in Requests, Alone(r), pc[r] # "done", NEW s, Minted(s)
  PROVE  Minted(s)'
BY DEF Minted, Alone

\* The others keep what they were told.
LEMMA CodeOfOthers ==
  ASSUME CodeInv, NEW r \in Requests, Alone(r), pc[r] # "done", TotpGoes(r), NEW q \in Requests, q # r
  PROVE  CodeFits(q)'
<1>1. pc'[q] = pc[q] /\ mine'[q] = mine[q]
  BY DEF Alone
<1>2. CodeFits(q)
  BY DEF CodeInv
<1>3. Serving(q)' <=> Serving(q)
  BY <1>1 DEF Serving
<1>4. \A s : Minted(s) => Minted(s)'
  BY MintedStays
<1>5. writer["totp"] = q => Kept("totp")
  BY RowsAre DEF TotpGoes, Wrote
<1>6. ASSUME Serving(q), pc[q] \notin Accepting
      PROVE  Spent(com'["totp"], mine[q].code) /\ Spent(cur'["totp"], mine[q].code)
  <2>1. /\ Spent(com["totp"], mine[q].code) /\ Spent(cur["totp"], mine[q].code)
        /\ Minted(mine[q].code.secret) /\ mine[q].code.step \in Nat
    BY <1>2, <1>6 DEF CodeFits
  <2>2. CASE Kept("totp") \/ Ended(r, "totp") \/ Undone(r, "totp")
    BY <2>1, <2>2 DEF Kept, Ended, Undone
  <2>3. CASE \E v : Wrote(r, "totp", v) /\ Spent(v, mine[q].code)
    BY <2>1, <2>3 DEF Wrote
  <2> QED
    BY <2>1, <2>2, <2>3 DEF TotpGoes
<1>7. ASSUME Serving(q), pc[q] \in Accepting
      PROVE  /\ writer'["totp"] = q /\ cur'["totp"] # None /\ cur'["totp"].confirmed
             /\ cur'["totp"].secret = mine[q].code.secret
             /\ cur'["totp"].last = mine[q].code.step
  BY <1>2, <1>5, <1>7 DEF CodeFits, Kept
<1> QED
  BY <1>1, <1>2, <1>3, <1>4, <1>6, <1>7 DEF CodeFits

\* What is left to show of a step: its own request, and that its code is new.
LEMMA CodeGoes ==
  ASSUME LockInv, CodeInv, NEW r \in Requests, Alone(r), pc[r] # "done", TotpGoes(r), CodeFits(r)',
         Serving(r)' => \/ Serving(r) /\ SameCode(r)
                        \/ \A q \in Requests : q # r /\ Serving(q) => mine[q].code # mine'[r].code
  PROVE  CodeInv'
<1>1. \A s : Minted(s) => Minted(s)'
  BY MintedStays
<1>2. \A q \in Requests : CodeFits(q)'
  BY CodeOfOthers
<1>3. TotpFits'
  <2>1. TotpFits
    BY DEF CodeInv
  <2>2. CASE Kept("totp") /\ (pc[r] = "t_commit" => writer["totp"] # r)
    <3>1. /\ com'["totp"] \in TotpRow \cup {None} /\ cur'["totp"] \in TotpRow \cup {None}
          /\ (com["totp"] # None => Minted(com["totp"].secret))'
      BY <1>1, <2>1, <2>2 DEF TotpFits, Kept
    <3>2. ASSUME cur["totp"] # None, cur["totp"].secret = writer["totp"], pc[writer["totp"]] = "t_commit"
          PROVE  cur'["totp"].secret = writer'["totp"] /\ pc'[writer'["totp"]] = "t_commit"
      <4>1. writer["totp"] \in Requests
        BY <2>1, <3>2, RowsAre, PartsAssumption DEF TotpFits, TotpRow, LockInv, RowHeld
      <4> QED
        BY <2>2, <3>2, <4>1 DEF Kept, Alone
    <3> QED
      BY <1>1, <2>1, <2>2, <3>1, <3>2 DEF TotpFits, Kept
  <2>3. CASE writer["totp"] = r /\ Ended(r, "totp") /\ (pc[r] = "t_commit" => pc'[r] = "done" /\ mine'[r].op = "begin_totp")
    BY <1>1, <2>1, <2>3 DEF TotpFits, Ended, Minted
  <2>4. CASE writer["totp"] = r /\ Undone(r, "totp")
    BY <1>1, <2>1, <2>4 DEF TotpFits, Undone
  <2>5. ASSUME NEW v \in TotpRow \cup {None}, Wrote(r, "totp", v),
               v # None => Minted(v.secret) \/ (v.secret = r /\ pc'[r] = "t_commit")
        PROVE  TotpFits'
    BY <1>1, <2>1, <2>5 DEF TotpFits, Wrote
  <2> QED
    BY <2>2, <2>3, <2>4, <2>5 DEF TotpGoes
<1>4. CodesApart'
  <2>1. ASSUME NEW q \in Requests, q # r PROVE (Serving(q)' <=> Serving(q)) /\ mine'[q].code = mine[q].code
    BY <2>1 DEF Serving, Alone
  <2>2. ASSUME NEW q \in Requests, q # r, Serving(q)', Serving(r)' PROVE mine'[q].code # mine'[r].code
    BY <2>1, <2>2 DEF CodeInv, CodesApart, SameCode
  <2> QED
    BY <2>1, <2>2 DEF CodeInv, CodesApart
<1> QED
  BY <1>2, <1>3, <1>4 DEF CodeInv

\* A step that leaves the row of the application alone.
LEMMA CodeKept ==
  ASSUME LockInv, CodeInv, NEW r \in Requests, Alone(r), pc[r] # "done", Kept("totp"), pc[r] # "t_commit",
         CodeFits(r)', Serving(r)' => Serving(r) /\ SameCode(r)
  PROVE  CodeInv'
<1>1. TotpGoes(r)
  BY DEF TotpGoes
<1> QED
  BY <1>1, CodeGoes

\* The row is not held by a request that has not come to it.
LEMMA TotpNotHeld ==
  ASSUME LockInv, NEW r \in Requests,
         pc[r] \notin {"c_clear", "c_commit", "t_commit", "f_clear", "f_close", "f_commit", "m_clear", "m_commit"}
  PROVE  writer["totp"] # r
BY RowsAre, HeldSo DEF Holds

\* A step that reads believes no code.
LEMMA TurnsCode ==
  ASSUME LockInv, CodeInv, NEW r \in Requests, Turns(r)
  PROVE  CodeInv'
<1>1. Alone(r) /\ Kept("totp") /\ OpFits(r) /\ CodeFits(r)
  BY RowsAre DEF Turns, ReadStep, AllKept, LockInv, CodeInv
<1>2. \A s : Minted(s) => Minted(s)'
  BY <1>1, MintedStays DEF Turns
<1>3. ~Serving(r)'
  BY <1>1 DEF Turns, OpFits, CodeFits, Serving, SameAsk, SameCode, AdminCalls, CodeSteps, ConfirmSteps, KeySteps, FinishSteps
<1>4. Sees(r, "totp") # None /\ pc[r] \in {"c_read", "confirm_totp"} => Minted(Sees(r, "totp").secret)
  BY TotpNotHeld DEF Sees, CodeInv, TotpFits
<1>5. CodeFits(r)'
  <2>1. pc'[r] \in {"c_read", "c_count", "c_judge", "f_check", "f_accept"} => mine'[r].code.step \in Nat
    BY <1>1 DEF Turns, CodeFits, SameAsk, SameCode, AdminCalls
  <2>2. pc'[r] \in {"c_read", "c_count", "c_judge"} => ~mine'[r].good
    BY <1>1 DEF Turns, CodeFits, SameAsk, SameCode, AdminCalls
  <2>3. pc'[r] \in {"c_count", "c_judge", "f_check", "f_accept"} => Minted(mine'[r].read)
    BY <1>1, <1>4 DEF Turns, CodeFits, SameAsk, SameCode, AdminCalls
  <2>4. pc'[r] \in {"f_check", "f_accept"} => mine'[r].code.secret = mine'[r].read
    BY <1>1 DEF Turns, CodeFits, SameAsk, SameCode, AdminCalls
  <2>5. PICK s : s = mine'[r].read
    OBVIOUS
  <2>6. pc'[r] \in {"c_count", "c_judge", "f_check", "f_accept"} => Minted(mine[r].read)'
    <3>1. Minted(s) => Minted(s)'
      BY <1>2
    <3> QED
      BY <2>3, <2>5, <3>1 DEF Minted
  <2> QED
    BY <1>3, <2>1, <2>2, <2>4, <2>6 DEF CodeFits
<1> QED
  BY <1>1, <1>3, <1>5, CodeKept DEF Turns

\* A statement that writes other rows.
LEMMA PutsOthersCode ==
  ASSUME LockInv, CodeInv, NEW r \in Requests, PutsAttempts(r) \/ PutsKeys(r) \/ PutsStarted(r) \/ PutsSessions(r)
  PROVE  CodeInv'
<1>1. Alone(r) /\ OpFits(r) /\ CodeFits(r)
  BY DEF PutsAttempts, PutsKeys, PutsStarted, PutsSessions, WriteStep, LockInv, CodeInv
<1>2. Kept("totp")
  <2>1. CASE PutsAttempts(r)
    BY <2>1, RowsAre DEF PutsAttempts, WriteStep
  <2>2. CASE PutsKeys(r)
    <3>1. PICK X \in SUBSET Keys : \E f : WriteStep(r, X, f)
      BY <1>1, <2>2 DEF PutsKeys, OpFits, KeySteps
    <3> QED
      BY <3>1, RowsAre DEF WriteStep
  <2>3. CASE PutsStarted(r)
    BY <2>3, RowsAre DEF PutsStarted, WriteStep
  <2>4. CASE PutsSessions(r)
    <3>1. PICK f : WriteStep(r, ClosedSessions(r), f)
      BY <2>4 DEF PutsSessions
    <3> QED
      BY <3>1, RowsAre DEF WriteStep, ClosedSessions
  <2> QED
    BY <2>1, <2>2, <2>3, <2>4
<1>3. pc[r] \notin {"done", "t_commit"}
  BY DEF PutsAttempts, PutsKeys, PutsStarted, PutsSessions
<1>4. \A s : Minted(s) => Minted(s)'
  BY <1>1, <1>3, MintedStays
<1>5. Serving(r)' => /\ Serving(r) /\ SameCode(r) /\ pc'[r] \in Accepting /\ pc[r] \in Accepting
                     /\ pc'[r] = "c_commit" => pc[r] = "c_clear"
  BY <1>1 DEF PutsAttempts, PutsKeys, PutsStarted, PutsSessions, OpFits, CodeFits, Serving, SameAsk, SameCode, Accepting,
              CodeSteps, ConfirmSteps, KeySteps, FinishSteps
<1>6. pc'[r] \in {"c_read", "c_count", "c_judge", "f_check", "f_accept"} =>
        pc'[r] = "c_judge" /\ pc[r] = "c_count" /\ SameCode(r) /\ mine'[r].good = mine[r].good /\ mine'[r].read = mine[r].read
  BY DEF PutsAttempts, PutsKeys, PutsStarted, PutsSessions
<1>7. CodeFits(r)'
  <2>1. CASE pc'[r] \in {"c_read", "c_count", "c_judge", "f_check", "f_accept"}
    <3>1. /\ pc'[r] = "c_judge" /\ mine'[r].code.step \in Nat /\ ~mine'[r].good /\ Minted(mine[r].read)
          /\ mine'[r].read = mine[r].read
      BY <1>1, <1>6, <2>1 DEF CodeFits, SameCode
    <3>2. ~Serving(r)'
      BY <3>1 DEF Serving
    <3>3. Minted(mine[r].read)'
      BY <1>4, <3>1 DEF Minted
    <3> QED
      BY <3>1, <3>2, <3>3 DEF CodeFits
  <2>2. CASE Serving(r)'
    <3>1. /\ mine'[r].code.step \in Nat /\ Minted(mine[r].code.secret)
          /\ writer["totp"] = r /\ cur["totp"] # None /\ cur["totp"].confirmed
          /\ cur["totp"].secret = mine[r].code.secret
          /\ cur["totp"].last = mine[r].code.step
          /\ mine'[r].code = mine[r].code
          /\ pc'[r] \in Accepting
      BY <1>1, <1>5, <2>2 DEF CodeFits, SameCode
    <3>2. Minted(mine[r].code.secret)'
      BY <1>4, <3>1 DEF Minted
    <3>3. pc'[r] \notin {"c_read", "c_count", "c_judge", "f_check", "f_accept"}
      BY <3>1 DEF Accepting
    <3> QED
      BY <1>2, <3>1, <3>2, <3>3 DEF CodeFits, Kept
  <2>3. CASE ~Serving(r)' /\ pc'[r] \notin {"c_read", "c_count", "c_judge", "f_check", "f_accept"}
    BY <2>3 DEF CodeFits
  <2> QED
    BY <2>1, <2>2, <2>3
<1> QED
  BY <1>1, <1>2, <1>3, <1>5, <1>7, CodeKept

\* The row of the application as it is once a code is accepted.
LEMMA AcceptedIs ==
  ASSUME NEW v \in TotpRow, NEW step \in Nat
  PROVE  /\ Accepted(v, step) \in TotpRow /\ Accepted(v, step) # None
         /\ Accepted(v, step).secret = v.secret /\ Accepted(v, step).confirmed /\ Accepted(v, step).last = step
<1>1. PICK w : w = [v EXCEPT !.last = step, !.confirmed = TRUE]
  OBVIOUS
<1>2. w \in TotpRow /\ w.secret = v.secret /\ w.confirmed = TRUE /\ w.last = step
  <2>1. v = [secret |-> v.secret, confirmed |-> v.confirmed, last |-> v.last] /\ v.secret \in Requests \cup {Old}
    BY DEF TotpRow
  <2>2. w = [secret |-> v.secret, confirmed |-> TRUE, last |-> step]
    BY <1>1, <2>1
  <2>3. step \in Int
    OBVIOUS
  <2> QED
    BY <2>1, <2>2, <2>3 DEF TotpRow
<1>3. w # None
  BY <1>2, PartsAssumption
<1> QED
  BY <1>1, <1>2, <1>3 DEF Accepted

\* A code is accepted, to sign in or to confirm the application.
LEMMA AcceptsCode ==
  ASSUME LockInv, CodeInv, NEW r \in Requests, NEW confirming \in BOOLEAN,
         AcceptsStep(cur["totp"], mine[r].read, mine[r].code.step, confirming),
         WriteStep(r, {"totp"}, Row("totp", Accepted(cur["totp"], mine[r].code.step))),
         mine[r].code.secret = mine[r].read, SameCode(r),
         \/ pc[r] = "c_judge" /\ pc'[r] = "c_clear"
         \/ pc[r] = "f_accept" /\ pc'[r] = "f_clear"
  PROVE  CodeInv'
<1>1. PICK v : v = Accepted(cur["totp"], mine[r].code.step)
  OBVIOUS
<1>2. Alone(r) /\ OpFits(r) /\ CodeFits(r) /\ TotpFits /\ Wrote(r, "totp", v)
  BY <1>1, RowsAre DEF WriteStep, LockInv, CodeInv, Row
<1>3. /\ mine[r].code.step \in Nat /\ Minted(mine[r].read)
      /\ cur["totp"] \in TotpRow /\ cur["totp"].secret = mine[r].code.secret
      /\ cur["totp"].last < mine[r].code.step /\ cur["totp"].confirmed = ~confirming
  BY <1>2 DEF CodeFits, TotpFits, AcceptsStep
<1>4. /\ v \in TotpRow /\ v # None /\ v.secret = cur["totp"].secret /\ v.confirmed
      /\ v.last = mine[r].code.step
  BY <1>1, <1>3, AcceptedIs
<1>5. cur["totp"].last \in Int
  BY <1>3 DEF TotpRow
<1>6. ASSUME NEW q \in Requests, mine[q].code.step \in Nat, Spent(cur["totp"], mine[q].code)
      PROVE  Spent(v, mine[q].code)
  BY <1>3, <1>4, <1>5, <1>6, PartsAssumption DEF Spent
<1>7. TotpGoes(r)
  BY <1>2, <1>3, <1>4, <1>6 DEF TotpGoes
<1>8. ASSUME NEW q \in Requests, q # r, Serving(q) PROVE mine[q].code # mine'[r].code
  <2>1. SUFFICES ASSUME mine[q].code = mine[r].code PROVE FALSE
    BY DEF SameCode
  <2>2. CodeFits(q)
    BY DEF CodeInv
  <2>3. pc[q] \notin Accepting
    BY <1>2, <1>8, <2>2, RowsAre DEF CodeFits, Wrote
  <2>4. Spent(cur["totp"], mine[q].code)
    BY <1>8, <2>2, <2>3 DEF CodeFits
  <2>5. cur["totp"] # None
    BY <1>3, PartsAssumption
  <2>6. cur["totp"].confirmed /\ cur["totp"].last >= mine[r].code.step
    BY <1>3, <2>1, <2>4, <2>5 DEF Spent
  <2> QED
    BY <1>3, <1>5, <2>6
<1>9. pc[r] # "done" /\ pc'[r] \in Accepting
  BY DEF Accepting
<1>10. CodeFits(r)'
  <2>1. Minted(mine[r].code.secret)'
    BY <1>2, <1>3, <1>9, MintedStays DEF SameCode, Minted
  <2>2. /\ writer'["totp"] = r /\ cur'["totp"] = v
    BY <1>2 DEF Wrote
  <2> QED
    BY <1>3, <1>4, <1>9, <2>1, <2>2 DEF CodeFits, SameCode
<1> QED
  BY <1>2, <1>7, <1>8, <1>9, <1>10, CodeGoes

\* A statement that writes the application: it accepts a code, puts a new secret or takes it away.
LEMMA PutsTotpCode ==
  ASSUME LockInv, CodeInv, NEW r \in Requests, PutsTotp(r)
  PROVE  CodeInv'
<1>1. OpFits(r) /\ CodeFits(r) /\ TotpFits
  BY DEF LockInv, CodeInv
<1>2. CASE pc[r] = "c_judge"
  BY <1>2, AcceptsCode DEF PutsTotp
<1>3. CASE pc[r] = "f_accept"
  BY <1>1, <1>3, AcceptsCode DEF PutsTotp, CodeFits, SameAsk, SameCode
<1>4. ASSUME NEW v \in TotpRow \cup {None}, WriteStep(r, {"totp"}, Row("totp", v)),
             \/ v = None /\ pc'[r] = "m_clear"
             \/ v # None /\ v.secret = r /\ pc'[r] = "t_commit"
      PROVE  CodeInv'
  <2>1. Alone(r) /\ Wrote(r, "totp", v) /\ pc[r] # "done"
    BY <1>4, RowsAre DEF WriteStep, Row, PutsTotp
  <2>2. \A q \in Requests : Minted(mine[q].code.secret) => Spent(v, mine[q].code)
    BY <1>4, <2>1, PartsAssumption DEF Minted, Spent
  <2>3. TotpGoes(r)
    BY <1>4, <2>1, <2>2 DEF TotpGoes
  <2>4. ~Serving(r)' /\ CodeFits(r)'
    BY <1>4 DEF CodeFits, Serving
  <2> QED
    BY <2>1, <2>3, <2>4, CodeGoes
<1>5. CASE pc[r] = "begin_totp"
  <2>1. PICK v : v = [secret |-> r, confirmed |-> FALSE, last |-> -1]
    OBVIOUS
  <2>2. v \in TotpRow /\ v.secret = r
    BY <2>1 DEF TotpRow
  <2>3. v # None
    BY <2>2, PartsAssumption
  <2> QED
    BY <1>4, <1>5, <2>1, <2>2, <2>3 DEF PutsTotp
<1>6. CASE pc[r] = "remove_totp"
  BY <1>4, <1>6 DEF PutsTotp
<1> QED
  BY <1>2, <1>3, <1>5, <1>6 DEF PutsTotp

\* A unit of work ends, by a commit or dropped.
LEMMA EndsCodes ==
  ASSUME LockInv, CodeInv, NEW r \in Requests, EndsCode(r) \/ Ends(r) \/ Undoes(r) \/ Opens(r)
  PROVE  CodeInv'
<1>1. Alone(r) /\ OpFits(r) /\ CodeFits(r) /\ TotpFits /\ SameAsk(r) /\ pc[r] # "done"
  BY DEF EndsCode, Ends, Undoes, Opens, CommitStep, UndoStep, LockInv, CodeInv, SameAsk
<1>2. TotpGoes(r)
  <2>1. CASE Opens(r)
    BY <2>1, RowsAre DEF Opens, TotpGoes, AllSessions
  <2>2. CASE Undoes(r)
    BY <2>2, RowsAre DEF Undoes, UndoStep, TotpGoes
  <2>3. CASE EndsCode(r) \/ Ends(r)
    BY <1>1, <2>3, RowsAre DEF EndsCode, Ends, CommitStep, TotpGoes, OpFits, SameAsk
  <2> QED
    BY <2>1, <2>2, <2>3
<1>3. \A s : Minted(s) => Minted(s)'
  BY <1>1, MintedStays
<1>4. pc'[r] \notin {"c_read", "c_count", "c_judge", "f_check", "f_accept"} \cup Accepting
  BY DEF EndsCode, Ends, Undoes, Opens, UndoStep, Accepting
<1>5. ASSUME Serving(r)' PROVE Serving(r) /\ ~Undoes(r)
  BY <1>1, <1>5 DEF EndsCode, Ends, Undoes, Opens, UndoStep, OpFits, Serving, SameAsk, AdminCalls, CodeSteps, KeySteps,
       ConfirmSteps, FinishSteps
<1>6. ASSUME Serving(r)'
      PROVE  /\ mine'[r].code.step \in Nat /\ Minted(mine[r].code.secret)'
             /\ Spent(com'["totp"], mine[r].code) /\ Spent(cur'["totp"], mine[r].code)
  <2>1. Serving(r) /\ mine[r].code.step \in Nat /\ Minted(mine[r].code.secret) /\ mine'[r] = mine[r]
    BY <1>1, <1>5, <1>6 DEF CodeFits, SameAsk
  <2>2. Minted(mine[r].code.secret)'
    BY <1>3, <2>1 DEF Minted
  <2>3. CASE pc[r] \in Accepting
    <3>1. /\ writer["totp"] = r /\ cur["totp"].confirmed /\ cur["totp"].last = mine[r].code.step
          /\ cur["totp"] \in TotpRow
      BY <1>1, <2>1, <2>3 DEF CodeFits, TotpFits
    <3>2. Ended(r, "totp")
      BY <1>5, <1>6, <2>3, <3>1, RowsAre DEF EndsCode, Ends, Opens, CommitStep, Accepting
    <3> QED
      BY <2>1, <2>2, <3>1, <3>2 DEF Ended, Spent, TotpRow
  <2>4. CASE pc[r] \notin Accepting
    <3>1. Spent(com["totp"], mine[r].code) /\ Spent(cur["totp"], mine[r].code)
      BY <1>1, <2>1, <2>4 DEF CodeFits
    <3>2. Opens(r)
      BY <1>5, <1>6, <2>1, <2>4 DEF EndsCode, Ends, Serving, Accepting
    <3>3. Kept("totp")
      BY <3>2, RowsAre DEF Opens, AllSessions
    <3> QED
      BY <2>1, <2>2, <3>1, <3>3 DEF Kept
  <2> QED
    BY <2>3, <2>4
<1>7. CodeFits(r)'
  BY <1>1, <1>4, <1>6 DEF CodeFits, SameAsk
<1> QED
  BY <1>1, <1>2, <1>5, <1>7, CodeGoes DEF SameAsk, SameCode

\* Every step keeps codes apart.
LEMMA MovesCode ==
  ASSUME LockInv, CodeInv, NEW r \in Requests, Moves(r)
  PROVE  CodeInv'
BY TurnsCode, PutsTotpCode, PutsOthersCode, EndsCodes DEF Moves

-----------------------------------------------------------------------------
(* The answer of a key serves once.                                        *)

Recording == {"k_clear", "k_commit"}
Inserting == {"n_close", "n_commit"}

\* What a step may do to the row of a key.
KeyGoes(r, k) ==
  \/ /\ Kept(k)
     /\ writer[k] = r => /\ pc[r] \in Recording => pc'[r] \in Recording
                         /\ pc[r] \in Inserting => pc'[r] \in Inserting
  \/ /\ writer[k] = r /\ Ended(r, k)
     /\ pc[r] \in Recording => pc'[r] = "open" /\ mine'[r].op = "key"
     /\ pc[r] \in Inserting => pc'[r] = "enrolled"
  \/ writer[k] = r /\ Undone(r, k)
  \/ \E v \in KeyRow \cup {None} :
       /\ Wrote(r, k, v)
       /\ v # None => /\ UsedBy(v.used) \/ (v.used = r /\ pc'[r] \in Recording)
                      /\ Since(v.since) \/ (v.since = r /\ pc'[r] \in Inserting)
       /\ \A q \in Requests : q # r /\ Using(q) /\ mine[q].key = k /\ Passed(q, cur[k]) => Passed(q, v)

\* Who used a key, or enrolled one, did.
LEMMA UsedStays ==
  ASSUME NEW r \in Requests, Moves(r), NEW u, UsedBy(u)
  PROVE  UsedBy(u)'
<1>1. Alone(r) /\ pc[r] \notin {"done", "refused"}
  BY OverStays
<1>2. pc[r] = "open" => pc'[r] \in {"done", "refused"} /\ mine'[r] = mine[r]
  BY DEF Moves, Turns, PutsTotp, PutsAttempts, PutsKeys, PutsStarted, PutsSessions, EndsCode, Ends, Opens, Undoes,
         UndoStep, SameAsk
<1> QED
  BY <1>1, <1>2 DEF UsedBy, Alone

\* Who enrolled a key did.
LEMMA SinceStays ==
  ASSUME NEW r \in Requests, Moves(r), NEW s, Since(s)
  PROVE  Since(s)'
BY OverStays DEF Since, Alone

\* The others keep the answers they were judged for.
LEMMA KeyOfOthers ==
  ASSUME KeyInv, NEW r \in Requests, Moves(r), \A k \in Keys : KeyGoes(r, k), NEW q \in Requests, q # r
  PROVE  KeyFits(q)'
<1>1. pc'[q] = pc[q] /\ mine'[q] = mine[q]
  BY OverStays DEF Alone
<1>2. KeyFits(q)
  BY DEF KeyInv
<1>3. Using(q)' <=> Using(q)
  BY <1>1 DEF Using
<1>4. (\A u : UsedBy(u) => UsedBy(u)') /\ (\A s : Since(s) => Since(s)')
  BY UsedStays, SinceStays
<1>5. CASE ~Using(q)
  BY <1>1, <1>2, <1>3, <1>5 DEF KeyFits
<1>6. CASE Using(q)
  <2>1. PICK k \in Keys : k = mine[q].key
    BY <1>2, <1>6 DEF KeyFits
  <2>2. KeyGoes(r, k)
    OBVIOUS
  <2>3. writer[k] = q => Kept(k)
    BY <2>2, RowsAre DEF KeyGoes, Wrote
  <2>4. /\ mine[q].read \in KeyRow /\ UsedBy(mine[q].read.used) /\ Since(mine[q].read.since)
        /\ mine[q].counter \in Nat
    BY <1>2, <1>6 DEF KeyFits
  <2>5. UsedBy(mine[q].read.used)' /\ Since(mine[q].read.since)'
    BY <1>1, <1>4, <2>4 DEF UsedBy, Since
  <2>6. CASE pc[q] \in {"k_clear", "k_commit"}
    <3>1. /\ writer[k] = q /\ cur[k] # None /\ cur[k].counter = mine[q].counter /\ cur[k].used = q
          /\ cur[k].since = mine[q].read.since
      BY <1>2, <1>6, <2>1, <2>6 DEF KeyFits
    <3>2. Kept(k)
      BY <2>3, <3>1
    <3> QED
      BY <1>1, <2>1, <2>4, <2>5, <2>6, <3>1, <3>2 DEF KeyFits, Kept
  <2>7. CASE pc[q] \in {"open", "done"}
    <3>1. Passed(q, com[k]) /\ Passed(q, cur[k])
      BY <1>2, <1>6, <2>1, <2>7 DEF KeyFits
    <3>2. Passed(q, com'[k]) /\ Passed(q, cur'[k])
      <4>1. CASE Kept(k) \/ Ended(r, k) \/ Undone(r, k)
        BY <3>1, <4>1 DEF Kept, Ended, Undone
      <4>2. ASSUME NEW v, Wrote(r, k, v), Passed(q, v)
            PROVE  Passed(q, com'[k]) /\ Passed(q, cur'[k])
        BY <3>1, <4>2 DEF Wrote
      <4> QED
        BY <1>6, <2>1, <2>2, <3>1, <4>1, <4>2 DEF KeyGoes
    <3>3. Passed(q, com[k])' /\ Passed(q, cur[k])'
      BY <1>1, <3>2 DEF Passed
    <3> QED
      BY <1>1, <2>1, <2>4, <2>5, <2>7, <3>3 DEF KeyFits
  <2> QED
    BY <1>6, <2>6, <2>7 DEF Using
<1> QED
  BY <1>5, <1>6

\* The row of a key tells who used and who enrolled it.
LEMMA KeyRowGoes ==
  ASSUME LockInv, KeyInv, NEW r \in Requests, Moves(r), NEW k \in Keys, KeyGoes(r, k)
  PROVE  KeyRowFits(k)'
<1>1. Alone(r) /\ KeyRowFits(k) /\ k \in Rows
  BY OverStays, RowsAre DEF KeyInv
<1>2. (\A u : UsedBy(u) => UsedBy(u)') /\ (\A s : Since(s) => Since(s)')
  BY UsedStays, SinceStays
<1>3. writer[k] \in Requests \cup {None}
  BY <1>1 DEF LockInv, RowHeld
<1>4. UsedBy(None) /\ Since(None)
  BY DEF UsedBy, Since
<1>5. CASE /\ Kept(k)
           /\ writer[k] = r => /\ pc[r] \in Recording => pc'[r] \in Recording
                               /\ pc[r] \in Inserting => pc'[r] \in Inserting
  <2>1. writer[k] # None /\ pc[writer[k]] \in Recording => pc'[writer[k]] \in Recording
    BY <1>1, <1>3, <1>5 DEF Alone
  <2>2. writer[k] # None /\ pc[writer[k]] \in Inserting => pc'[writer[k]] \in Inserting
    BY <1>1, <1>3, <1>5 DEF Alone
  <2> QED
    BY <1>1, <1>2, <1>4, <1>5, <2>1, <2>2 DEF KeyRowFits, Kept, Recording, Inserting
<1>6. CASE /\ writer[k] = r /\ Ended(r, k)
           /\ pc[r] \in Recording => pc'[r] = "open" /\ mine'[r].op = "key"
           /\ pc[r] \in Inserting => pc'[r] = "enrolled"
  <2>1. (pc[r] \in Recording => UsedBy(r)') /\ (pc[r] \in Inserting => Since(r)')
    BY <1>6 DEF UsedBy, Since
  <2> QED
    BY <1>1, <1>2, <1>6, <2>1 DEF KeyRowFits, Ended, Recording, Inserting
<1>7. CASE writer[k] = r /\ Undone(r, k)
  BY <1>1, <1>2, <1>7 DEF KeyRowFits, Undone
<1>8. ASSUME NEW v \in KeyRow \cup {None}, Wrote(r, k, v),
             v # None => /\ UsedBy(v.used) \/ (v.used = r /\ pc'[r] \in Recording)
                         /\ Since(v.since) \/ (v.since = r /\ pc'[r] \in Inserting)
      PROVE  KeyRowFits(k)'
  BY <1>1, <1>2, <1>8 DEF KeyRowFits, Wrote, Recording, Inserting
<1> QED
  BY <1>5, <1>6, <1>7, <1>8 DEF KeyGoes

\* The answers of two requests are told apart.
Apart(r, v) ==
  mine[r].key = mine[v].key =>
    /\ mine[r].read # mine[v].read
    /\ mine[r].read.since = mine[v].read.since => mine[r].counter # mine[v].counter \/ mine[r].counter = 0

\* What is left to show of a step: its own request, and that its answer is new.
LEMMA KeysGo ==
  ASSUME LockInv, KeyInv, NEW r \in Requests, Moves(r), \A k \in Keys : KeyGoes(r, k), KeyFits(r)',
         Using(r)' => \/ Using(r) /\ mine'[r] = mine[r]
                      \/ \A q \in Requests : q # r /\ Using(q) => Apart(q, r)'
  PROVE  KeyInv'
<1>1. Alone(r)
  BY OverStays
<1>2. \A q \in Requests : KeyFits(q)'
  BY KeyOfOthers
<1>3. \A k \in Keys : KeyRowFits(k)'
  BY KeyRowGoes
<1>4. KeysApart'
  <2>1. ASSUME NEW q \in Requests, q # r PROVE (Using(q)' <=> Using(q)) /\ mine'[q] = mine[q]
    BY <1>1, <2>1 DEF Using, Alone
  <2>2. ASSUME NEW q \in Requests, q # r, Using(q)', Using(r)' PROVE Apart(q, r)'
    BY <2>1, <2>2 DEF KeyInv, KeysApart, Apart
  <2>3. ASSUME NEW q \in Requests, q # r, Using(q)', Using(r)' PROVE Apart(r, q)'
    BY <2>2, <2>3 DEF Apart
  <2>4. ASSUME NEW p \in Requests, NEW q \in Requests, p # r, q # r, p # q, Using(p)', Using(q)' PROVE Apart(p, q)'
    BY <2>1, <2>4 DEF KeyInv, KeysApart, Apart
  <2> QED
    BY <2>2, <2>3, <2>4 DEF KeysApart, Apart
<1> QED
  BY <1>2, <1>3, <1>4 DEF KeyInv

\* The rows of keys are held at these steps alone.
LEMMA KeyNotHeld ==
  ASSUME LockInv, NEW r \in Requests, NEW k \in Keys, writer[k] = r
  PROVE  pc[r] \in Recording \cup Inserting \cup {"m_commit"}
BY RowsAre, HeldSo DEF Holds, Recording, Inserting

\* A step that leaves the rows of keys alone.
LEMMA KeysKept ==
  ASSUME LockInv, KeyInv, NEW r \in Requests, Moves(r),
         Turns(r) \/ PutsTotp(r) \/ PutsAttempts(r) \/ PutsStarted(r) \/ PutsSessions(r) \/ Opens(r)
  PROVE  KeyInv'
<1>1. OpFits(r) /\ KeyFits(r)
  BY DEF LockInv, KeyInv
<1>2. \A k \in Keys : Kept(k)
  <2>1. CASE Turns(r)
    BY <2>1, RowsAre DEF Turns, ReadStep, AllKept
  <2>2. CASE PutsTotp(r)
    BY <2>2, RowsAre DEF PutsTotp, WriteStep
  <2>3. CASE PutsAttempts(r)
    <3>1. PICK X \in SUBSET {"attempts"} : \E f : WriteStep(r, X, f)
      BY <2>3 DEF PutsAttempts
    <3> QED
      BY <3>1, RowsAre DEF WriteStep
  <2>4. CASE PutsStarted(r)
    BY <2>4, RowsAre DEF PutsStarted, WriteStep
  <2>5. CASE PutsSessions(r)
    <3>1. PICK f : WriteStep(r, ClosedSessions(r), f)
      BY <2>5 DEF PutsSessions
    <3> QED
      BY <3>1, RowsAre DEF WriteStep, ClosedSessions
  <2>6. CASE Opens(r)
    BY <2>6, RowsAre DEF Opens, AllSessions
  <2> QED
    BY <2>1, <2>2, <2>3, <2>4, <2>5, <2>6
<1>3. /\ pc[r] \in Recording => pc[r] = "k_clear" /\ pc'[r] = "k_commit" /\ SameAsk(r)
      /\ pc[r] \in Inserting => pc'[r] \in Inserting
  BY DEF Turns, PutsTotp, PutsAttempts, PutsStarted, PutsSessions, Opens, Recording, Inserting
<1>4. \A k \in Keys : KeyGoes(r, k)
  BY <1>2, <1>3 DEF KeyGoes, Recording
<1>5. ASSUME Using(r)' PROVE /\ Using(r) /\ mine'[r] = mine[r]
                             /\ \/ pc[r] = "k_clear" /\ pc'[r] = "k_commit"
                                \/ pc[r] = "open" /\ pc'[r] = "done"
  BY <1>1, <1>5 DEF Turns, PutsTotp, PutsAttempts, PutsStarted, PutsSessions, Opens, Using, OpFits, SameAsk, SameCode,
        CodeSteps, KeySteps, ConfirmSteps, FinishSteps, AdminCalls
<1>6. KeyFits(r)'
  <2>1. CASE Using(r)'
    <3>1. PICK k \in Keys : k = mine[r].key
      BY <1>1, <1>5, <2>1 DEF KeyFits
    <3>2. Kept(k) /\ mine'[r] = mine[r] /\ mine[r].counter \in Nat /\ mine[r].read \in KeyRow
      BY <1>1, <1>2, <1>5, <2>1 DEF KeyFits
    <3>3. UsedBy(mine[r].read.used) /\ Since(mine[r].read.since)
      BY <1>1, <1>5, <2>1 DEF KeyFits
    <3>4. UsedBy(mine[r].read.used)' /\ Since(mine[r].read.since)'
      BY <3>2, <3>3, UsedStays, SinceStays DEF UsedBy, Since
    <3>5. CASE pc[r] = "k_clear" /\ pc'[r] = "k_commit"
      <4>1. /\ writer[k] = r /\ cur[k] # None /\ cur[k].counter = mine[r].counter /\ cur[k].used = r
            /\ cur[k].since = mine[r].read.since
        BY <1>1, <1>5, <2>1, <3>1, <3>5 DEF KeyFits
      <4> QED
        BY <3>1, <3>2, <3>4, <3>5, <4>1 DEF KeyFits, Kept
    <3>6. CASE pc[r] = "open" /\ pc'[r] = "done"
      <4>1. Passed(r, com[k]) /\ Passed(r, cur[k])
        BY <1>1, <1>5, <2>1, <3>1, <3>6 DEF KeyFits
      <4>2. Passed(r, com[k])' /\ Passed(r, cur[k])'
        BY <3>2, <4>1 DEF Passed, Kept
      <4> QED
        BY <3>1, <3>2, <3>4, <3>6, <4>2 DEF KeyFits
    <3> QED
      BY <1>5, <2>1, <3>5, <3>6
  <2>2. CASE ~Using(r)' /\ pc'[r] = "k_record"
    <3>1. /\ pc[r] = "k_read" /\ mine'[r].key = mine[r].key /\ mine'[r].counter = mine[r].counter
          /\ mine'[r].read = Sees(r, mine[r].key) /\ Proves(mine'[r].read, mine'[r].counter)
      BY <2>2 DEF Turns, PutsTotp, PutsAttempts, PutsStarted, PutsSessions, Opens, AdminCalls
    <3>2. PICK k \in Keys : k = mine[r].key
      BY <1>1, <3>1 DEF KeyFits
    <3>3. Sees(r, k) = com[k]
      BY <3>1, KeyNotHeld DEF Sees, Recording, Inserting
    <3>4. com[k] \in KeyRow \cup {None} /\ mine[r].counter \in Nat
      BY <1>1, <3>1 DEF KeyInv, KeyRowFits, KeyFits
    <3>5. mine'[r].read \in KeyRow
      BY <3>1, <3>2, <3>3, <3>4 DEF Proves
    <3> QED
      BY <2>2, <3>1, <3>2, <3>4, <3>5 DEF KeyFits, Proves
  <2>3. CASE ~Using(r)' /\ pc'[r] = "k_read"
    BY <2>3 DEF Turns, PutsTotp, PutsAttempts, PutsStarted, PutsSessions, Opens, AdminCalls, KeyFits
  <2> QED
    BY <2>1, <2>2, <2>3 DEF KeyFits
<1> QED
  BY <1>4, <1>5, <1>6, KeysGo

\* Keys are taken away.
LEMMA RemovesKeys ==
  ASSUME LockInv, KeyInv, NEW r \in Requests, Moves(r), PutsKeys(r), pc[r] = "remove_keys"
  PROVE  KeyInv'
<1>1. PICK X \in SUBSET Keys : \E f : WriteStep(r, X, f) /\ \A x \in X : f[x] = None
  BY DEF PutsKeys
<1>2. PICK f : WriteStep(r, X, f) /\ \A x \in X : f[x] = None
  BY <1>1
<1>3. pc'[r] = "m_commit"
  BY DEF PutsKeys
<1>4. ASSUME NEW k \in Keys PROVE KeyGoes(r, k)
  <2>1. CASE k \in X
    <3>1. Wrote(r, k, None)
      BY <1>2, <2>1, RowsAre DEF WriteStep
    <3> QED
      BY <3>1 DEF KeyGoes, Passed
  <2>2. CASE k \notin X
    BY <1>2, <2>2, RowsAre DEF WriteStep, KeyGoes, Recording, Inserting
  <2> QED
    BY <2>1, <2>2
<1>5. ~Using(r)' /\ KeyFits(r)'
  BY <1>3 DEF KeyFits, Using
<1> QED
  BY <1>4, <1>5, KeysGo

\* A key is enrolled: no answer was judged against that row.
LEMMA InsertsKey ==
  ASSUME LockInv, KeyInv, NEW r \in Requests, Moves(r), PutsKeys(r), pc[r] = "n_insert"
  PROVE  KeyInv'
<1>1. PICK k \in Keys : WriteStep(r, {k}, Row(k, [counter |-> 0, used |-> None, since |-> r]))
  BY DEF PutsKeys
<1>2. PICK v : v = [counter |-> 0, used |-> None, since |-> r]
  OBVIOUS
<1>3. v \in KeyRow /\ v.used = None /\ v.since = r
  BY <1>2 DEF KeyRow
<1>4. pc'[r] = "n_close" /\ Wrote(r, k, v)
  BY <1>1, <1>2, RowsAre DEF PutsKeys, WriteStep, Row
<1>5. ASSUME NEW q \in Requests, Using(q) PROVE Passed(q, v)
  <2>1. Since(mine[q].read.since)
    BY <1>5 DEF KeyInv, KeyFits
  <2>2. mine[q].read.since # r
    BY <2>1, RowsAre DEF Since
  <2> QED
    BY <1>3, <2>2 DEF Passed
<1>6. ASSUME NEW x \in Keys PROVE KeyGoes(r, x)
  <2>1. CASE x = k
    BY <1>3, <1>4, <1>5, <2>1 DEF KeyGoes, UsedBy, Inserting
  <2>2. CASE x # k
    BY <1>1, <2>2, RowsAre DEF WriteStep, KeyGoes, Recording, Inserting
  <2> QED
    BY <2>1, <2>2
<1>7. ~Using(r)' /\ KeyFits(r)'
  BY <1>4 DEF KeyFits, Using
<1> QED
  BY <1>6, <1>7, KeysGo

\* The use of a key is recorded: it went on since it was read, and since all
\* those that were believed before.
LEMMA RecordsKey ==
  ASSUME LockInv, KeyInv, NEW r \in Requests, Moves(r), PutsKeys(r), pc[r] = "k_record"
  PROVE  KeyInv'
<1>1. PICK k \in Keys : k = mine[r].key
  BY DEF LockInv, OpFits, KeySteps
<1>2. PICK n : n = mine[r].counter
  OBVIOUS
<1>3. PICK c : c = cur[k]
  OBVIOUS
<1>4. PICK v : v = [c EXCEPT !.counter = n, !.used = r]
  OBVIOUS
<1>5. /\ pc'[r] = "k_clear" /\ mine'[r].key = k /\ mine'[r].counter = n /\ mine'[r].read = c
      /\ mine'[r].op = mine[r].op /\ IsAsRead(c, mine[r].read) /\ WriteStep(r, {k}, Row(k, v))
  BY <1>1, <1>2, <1>3, <1>4 DEF PutsKeys
<1>6. Wrote(r, k, v)
  BY <1>5, RowsAre DEF WriteStep, Row
<1>7. n \in Nat /\ mine[r].read \in KeyRow /\ Proves(mine[r].read, n)
  BY <1>2 DEF KeyInv, KeyFits
<1>8. c \in KeyRow /\ c.counter = mine[r].read.counter /\ KeyRowFits(k)
  BY <1>3, <1>5 DEF KeyInv, KeyRowFits, IsAsRead
<1>9. c.counter \in Nat /\ (n > c.counter \/ (n = 0 /\ c.counter = 0))
  BY <1>7, <1>8 DEF Proves, KeyRow
<1>10. v \in KeyRow /\ v.counter = n /\ v.used = r /\ v.since = c.since
  <2>1. c = [counter |-> c.counter, used |-> c.used, since |-> c.since] /\ c.since \in Requests \cup {None}
    BY <1>8 DEF KeyRow
  <2>2. v = [counter |-> n, used |-> r, since |-> c.since]
    BY <1>4, <2>1
  <2> QED
    BY <1>7, <2>1, <2>2 DEF KeyRow
<1>11. v # None /\ c # None
  BY <1>8, <1>10, PartsAssumption
<1>12. UsedBy(c.used) /\ Since(c.since)
  <2>1. writer[k] \in {r, None}
    BY <1>6 DEF Wrote
  <2>2. pc[r] \notin {"k_clear", "k_commit", "n_close", "n_commit"}
    OBVIOUS
  <2> QED
    BY <1>3, <1>8, <1>11, <2>1, <2>2 DEF KeyRowFits, UsedBy, Since
<1>13. ASSUME NEW q \in Requests, q # r, Using(q), mine[q].key = k
       PROVE  /\ Passed(q, c) /\ mine[q].counter \in Nat /\ mine[q].read.used # r
  <2>1. KeyFits(q)
    BY DEF KeyInv
  <2>2. pc[q] \notin {"k_clear", "k_commit"}
    BY <1>6, <1>13, <2>1, RowsAre DEF KeyFits, Wrote
  <2>3. UsedBy(mine[q].read.used) /\ mine[q].counter \in Nat /\ pc[q] \in {"open", "done"}
    BY <1>13, <2>1, <2>2 DEF KeyFits, Using
  <2>4. Passed(q, cur[k])
    BY <1>13, <2>1, <2>3 DEF KeyFits
  <2> QED
    BY <1>3, <2>3, <2>4, RowsAre DEF UsedBy
<1>14. ASSUME NEW q \in Requests, q # r, Using(q), mine[q].key = k
       PROVE  Passed(q, v)
  <2>1. Passed(q, c) /\ mine[q].counter \in Nat /\ mine[q].read.used # r
    BY <1>13, <1>14
  <2> QED
    BY <1>7, <1>9, <1>10, <1>11, <2>1 DEF Passed
<1>15. ASSUME NEW x \in Keys PROVE KeyGoes(r, x)
  <2>1. CASE x = k
    BY <1>6, <1>10, <1>5, <1>12, <1>14, <2>1 DEF KeyGoes, Recording
  <2>2. CASE x # k
    <3>1. Kept(x)
      BY <1>5, <2>2, RowsAre DEF WriteStep
    <3> QED
      BY <3>1 DEF KeyGoes, Recording, Inserting
  <2> QED
    BY <2>1, <2>2
<1>16. ASSUME NEW q \in Requests, q # r, Using(q) PROVE Apart(q, r)'
  <2>1. mine'[q] = mine[q]
    BY <1>16, OverStays DEF Alone
  <2>2. CASE mine[q].key = k
    <3>1. Passed(q, c) /\ mine[q].counter \in Nat
      BY <1>13, <1>16, <2>2
    <3>2. c # mine[q].read
      BY <1>11, <3>1 DEF Passed
    <3>3. mine[q].read.since = c.since => mine[q].counter # n \/ mine[q].counter = 0
      BY <1>7, <1>9, <1>11, <3>1 DEF Passed
    <3> QED
      BY <1>5, <2>1, <3>2, <3>3 DEF Apart
  <2>3. CASE mine[q].key # k
    BY <1>5, <2>1, <2>3 DEF Apart
  <2> QED
    BY <2>2, <2>3
<1>17. KeyFits(r)'
  <2>1. UsedBy(mine[r].read.used)' /\ Since(mine[r].read.since)'
    BY <1>5, <1>12, UsedStays, SinceStays DEF UsedBy, Since
  <2>2. writer'[k] = r /\ cur'[k] = v
    BY <1>6 DEF Wrote
  <2> QED
    BY <1>5, <1>7, <1>8, <1>10, <1>11, <2>1, <2>2 DEF KeyFits
<1> QED
  BY <1>15, <1>16, <1>17, KeysGo

\* A unit of work ends, by a commit or dropped.
LEMMA EndsKeys ==
  ASSUME LockInv, KeyInv, NEW r \in Requests, Moves(r), EndsCode(r) \/ Ends(r) \/ Undoes(r)
  PROVE  KeyInv'
<1>1. OpFits(r) /\ KeyFits(r) /\ SameAsk(r)
  BY DEF LockInv, KeyInv, EndsCode, Ends, Undoes, UndoStep, SameAsk
<1>2. ASSUME NEW k \in Keys PROVE KeyGoes(r, k)
  <2>1. k \in Rows
    BY RowsAre
  <2>2. CASE writer[k] # r
    BY <2>1, <2>2 DEF EndsCode, Ends, Undoes, CommitStep, UndoStep, KeyGoes
  <2>3. CASE writer[k] = r /\ Undoes(r)
    BY <2>1, <2>3 DEF Undoes, UndoStep, KeyGoes
  <2>4. CASE writer[k] = r /\ (EndsCode(r) \/ Ends(r))
    BY <1>1, <2>1, <2>4 DEF EndsCode, Ends, CommitStep, KeyGoes, Recording, Inserting, OpFits, KeySteps, SameAsk
  <2> QED
    BY <2>2, <2>3, <2>4
<1>3. ASSUME Using(r)' PROVE pc[r] = "k_commit" /\ pc'[r] = "open" /\ CommitStep(r) /\ Using(r) /\ mine'[r] = mine[r]
  BY <1>1, <1>3 DEF EndsCode, Ends, Undoes, UndoStep, Using, OpFits, SameAsk, CodeSteps, KeySteps, ConfirmSteps,
       FinishSteps, AdminCalls
<1>4. pc'[r] \notin {"k_read", "k_record", "k_clear", "k_commit"}
  BY DEF EndsCode, Ends, Undoes, UndoStep
<1>5. CASE Using(r)'
  <2>1. PICK k \in Keys : k = mine[r].key
    BY <1>1, <1>3, <1>5 DEF KeyFits
  <2>2. /\ mine[r].counter \in Nat /\ mine[r].read \in KeyRow /\ UsedBy(mine[r].read.used) /\ Since(mine[r].read.since)
        /\ writer[k] = r /\ cur[k].counter = mine[r].counter /\ cur[k].used = r
    BY <1>1, <1>3, <1>5, <2>1 DEF KeyFits
  <2>3. UsedBy(mine[r].read.used)' /\ Since(mine[r].read.since)'
    BY <1>3, <1>5, <2>2, UsedStays, SinceStays DEF UsedBy, Since
  <2>4. Ended(r, k)
    BY <1>3, <1>5, <2>2, RowsAre DEF CommitStep
  <2>5. mine[r].read.used # r
    BY <1>3, <1>5, <2>2, RowsAre DEF UsedBy
  <2>6. Passed(r, com[k])' /\ Passed(r, cur[k])'
    BY <1>3, <1>5, <2>2, <2>4, <2>5 DEF Passed, Ended
  <2>7. KeyFits(r)'
    BY <1>3, <1>4, <1>5, <2>1, <2>2, <2>3, <2>6 DEF KeyFits
  <2> QED
    BY <1>2, <1>3, <1>5, <2>7, KeysGo
<1>6. CASE ~Using(r)'
  <2>1. KeyFits(r)'
    BY <1>4, <1>6 DEF KeyFits
  <2> QED
    BY <1>2, <1>6, <2>1, KeysGo
<1> QED
  BY <1>5, <1>6

\* Every step keeps answers apart.
LEMMA MovesKeys ==
  ASSUME LockInv, KeyInv, NEW r \in Requests, Moves(r)
  PROVE  KeyInv'
<1>1. PutsKeys(r) => pc[r] \in {"k_record", "n_insert", "remove_keys"}
  BY DEF PutsKeys
<1> QED
  BY <1>1, KeysKept, RemovesKeys, InsertsKey, RecordsKey, EndsKeys DEF Moves

-----------------------------------------------------------------------------
(* What was started enrolls one key.                                       *)

\* What a step may do to the enrollment of a key that was started.
StartedGoes(r) ==
  \/ Kept("started") /\ (pc[r] = "g_commit" => writer["started"] # r)
  \/ /\ writer["started"] = r /\ Ended(r, "started")
     /\ pc[r] = "g_commit" => pc'[r] = "done" /\ mine'[r].op = "begin_key"
  \/ writer["started"] = r /\ Undone(r, "started")
  \/ \E v : Wrote(r, "started", v) /\ (v = None \/ (v = r /\ pc'[r] = "g_commit"))

\* A start stays one that was opened.
LEMMA OpenedStays ==
  ASSUME NEW r \in Requests, Moves(r), NEW s, Opened(s)
  PROVE  Opened(s)'
BY OverStays DEF Opened, Alone

\* What is left to show of a step: its own request, and that what it took is new.
LEMMA StartsGo ==
  ASSUME LockInv, StartInv, NEW r \in Requests, Moves(r), StartedGoes(r), StartFits(r)',
         Took(r)' => \/ Took(r) /\ mine'[r].read = mine[r].read
                     \/ \A q \in Requests : q # r /\ Took(q) => mine[q].read # mine'[r].read
  PROVE  StartInv'
<1>1. Alone(r) /\ pc[r] # "done"
  BY OverStays
<1>2. \A s : Opened(s) => Opened(s)'
  BY OpenedStays
<1>3. ASSUME NEW q \in Requests, q # r PROVE /\ pc'[q] = pc[q] /\ mine'[q] = mine[q] /\ (Took(q)' <=> Took(q))
  BY <1>1, <1>3 DEF Alone, Took
<1>4. writer["started"] \in Requests \cup {None}
  BY RowsAre DEF LockInv, RowHeld
<1>5. StartedFits'
  <2>1. StartedFits
    BY DEF StartInv
  <2>2. CASE Kept("started") /\ (pc[r] = "g_commit" => writer["started"] # r)
    <3>1. ASSUME cur["started"] # None, cur["started"] = writer["started"], pc[writer["started"]] = "g_commit"
          PROVE  pc'[writer["started"]] = "g_commit"
      BY <1>3, <1>4, <2>2, <3>1
    <3> QED
      BY <1>2, <2>1, <2>2, <3>1 DEF StartedFits, Kept
  <2>3. CASE /\ writer["started"] = r /\ Ended(r, "started")
             /\ pc[r] = "g_commit" => pc'[r] = "done" /\ mine'[r].op = "begin_key"
    BY <1>2, <2>1, <2>3 DEF StartedFits, Ended, Opened
  <2>4. CASE writer["started"] = r /\ Undone(r, "started")
    BY <1>2, <2>1, <2>4 DEF StartedFits, Undone
  <2>5. CASE \E v : Wrote(r, "started", v) /\ (v = None \/ (v = r /\ pc'[r] = "g_commit"))
    BY <1>2, <2>1, <2>5 DEF StartedFits, Wrote
  <2> QED
    BY <2>2, <2>3, <2>4, <2>5 DEF StartedGoes
<1>6. ASSUME NEW q \in Requests, q # r PROVE StartFits(q)'
  <2>1. StartFits(q)
    BY DEF StartInv
  <2>2. writer["started"] = q => Kept("started")
    BY <1>6, RowsAre DEF StartedGoes, Wrote
  <2>3. CASE ~Took(q)
    BY <1>3, <1>6, <2>3 DEF StartFits
  <2>4. CASE Took(q)
    <3>1. Opened(mine[q].read) /\ mine[q].read # r /\ mine[q].read # None
      BY <1>1, <2>1, <2>4, RowsAre DEF StartFits, Opened
    <3>2. Opened(mine[q].read)'
      BY <1>2, <1>3, <1>6, <3>1 DEF Opened
    <3>3. CASE pc[q] = "n_spent"
      BY <1>3, <1>6, <2>1, <2>2, <2>4, <3>2, <3>3 DEF StartFits, Kept
    <3>4. CASE pc[q] # "n_spent"
      <4>1. com["started"] # mine[q].read /\ cur["started"] # mine[q].read
        BY <2>1, <2>4, <3>4 DEF StartFits
      <4>2. com'["started"] # mine[q].read /\ cur'["started"] # mine[q].read
        BY <3>1, <4>1 DEF StartedGoes, Kept, Ended, Undone, Wrote
      <4> QED
        BY <1>3, <1>6, <3>2, <3>4, <4>2 DEF StartFits
    <3> QED
      BY <3>3, <3>4
  <2> QED
    BY <2>3, <2>4
<1>7. StartsApart'
  BY <1>3 DEF StartInv, StartsApart
<1> QED
  BY <1>5, <1>6, <1>7 DEF StartInv

\* What was started is taken: by nobody before.
LEMMA TakesStart ==
  ASSUME LockInv, StartInv, NEW r \in Requests, Moves(r), PutsStarted(r), pc[r] = "finish_key"
  PROVE  StartInv'
<1>1. /\ pc'[r] = "n_spent" /\ mine'[r].op = "finish_key" /\ mine'[r].read = cur["started"] /\ cur["started"] # None
      /\ Wrote(r, "started", None)
  BY RowsAre DEF PutsStarted, WriteStep, Row, LockInv, OpFits, FinishSteps
<1>2. StartedGoes(r)
  BY <1>1 DEF StartedGoes
<1>3. Opened(cur["started"])
  BY <1>1 DEF StartInv, StartedFits, Wrote
<1>4. StartFits(r)'
  <2>1. Opened(mine[r].read)'
    BY <1>1, <1>3, OpenedStays DEF Opened
  <2> QED
    BY <1>1, <2>1 DEF StartFits, Wrote
<1>5. ASSUME NEW q \in Requests, q # r, Took(q) PROVE mine[q].read # mine'[r].read
  BY <1>1, <1>5, RowsAre DEF StartInv, StartFits, Wrote
<1> QED
  BY <1>2, <1>4, <1>5, StartsGo

\* A step that leaves alone what was started.
LEMMA StartedKept ==
  ASSUME LockInv, StartInv, NEW r \in Requests, Moves(r),
         Turns(r) \/ PutsTotp(r) \/ PutsAttempts(r) \/ PutsKeys(r) \/ PutsSessions(r) \/ Opens(r)
  PROVE  StartInv'
<1>1. OpFits(r) /\ StartFits(r)
  BY DEF LockInv, StartInv
<1>2. Kept("started")
  <2>1. CASE Turns(r)
    BY <2>1, RowsAre DEF Turns, ReadStep, AllKept
  <2>2. CASE PutsTotp(r)
    BY <2>2, RowsAre DEF PutsTotp, WriteStep
  <2>3. CASE PutsAttempts(r)
    <3>1. PICK X \in SUBSET {"attempts"} : \E f : WriteStep(r, X, f)
      BY <2>3 DEF PutsAttempts
    <3> QED
      BY <3>1, RowsAre DEF WriteStep
  <2>4. CASE PutsKeys(r)
    <3>1. PICK X \in SUBSET Keys : \E f : WriteStep(r, X, f)
      BY <1>1, <2>4 DEF PutsKeys, OpFits, KeySteps
    <3> QED
      BY <3>1, RowsAre DEF WriteStep
  <2>5. CASE PutsSessions(r)
    <3>1. PICK f : WriteStep(r, ClosedSessions(r), f)
      BY <2>5 DEF PutsSessions
    <3> QED
      BY <3>1, RowsAre DEF WriteStep, ClosedSessions
  <2>6. CASE Opens(r)
    BY <2>6, RowsAre DEF Opens, AllSessions
  <2> QED
    BY <2>1, <2>2, <2>3, <2>4, <2>5, <2>6
<1>3. pc[r] # "g_commit"
  BY DEF Turns, PutsTotp, PutsAttempts, PutsKeys, PutsSessions, Opens
<1>4. Took(r)' => Took(r) /\ mine'[r].read = mine[r].read /\ pc[r] # "n_spent" /\ pc'[r] # "n_spent"
  BY <1>1 DEF Turns, PutsTotp, PutsAttempts, PutsKeys, PutsSessions, Opens, Took, OpFits, SameAsk, SameCode, CodeSteps,
       KeySteps, ConfirmSteps, FinishSteps, AdminCalls
<1>5. StartFits(r)'
  <2>1. CASE Took(r)'
    <3>1. Opened(mine[r].read) /\ com["started"] # mine[r].read /\ cur["started"] # mine[r].read
      BY <1>1, <1>4, <2>1 DEF StartFits
    <3>2. Opened(mine[r].read)'
      BY <1>4, <2>1, <3>1, OpenedStays DEF Opened
    <3> QED
      BY <1>2, <1>4, <2>1, <3>1, <3>2 DEF StartFits, Kept
  <2>2. CASE ~Took(r)'
    BY <2>2 DEF StartFits
  <2> QED
    BY <2>1, <2>2
<1> QED
  BY <1>2, <1>3, <1>4, <1>5, StartsGo DEF StartedGoes

\* A unit of work ends, or an enrollment is started.
LEMMA EndsStarts ==
  ASSUME LockInv, StartInv, NEW r \in Requests, Moves(r),
         EndsCode(r) \/ Ends(r) \/ Undoes(r) \/ (PutsStarted(r) /\ pc[r] = "g_write")
  PROVE  StartInv'
<1>1. OpFits(r) /\ StartFits(r) /\ SameAsk(r)
  BY DEF LockInv, StartInv, EndsCode, Ends, Undoes, UndoStep, SameAsk, PutsStarted
<1>2. StartedGoes(r)
  <2>1. CASE PutsStarted(r) /\ pc[r] = "g_write"
    <3>1. Wrote(r, "started", r) /\ pc'[r] = "g_commit"
      BY <2>1, RowsAre DEF PutsStarted, WriteStep, Row
    <3> QED
      BY <3>1 DEF StartedGoes
  <2>2. CASE Undoes(r)
    BY <2>2, RowsAre DEF Undoes, UndoStep, StartedGoes
  <2>3. CASE EndsCode(r) \/ Ends(r)
    BY <1>1, <2>3, RowsAre DEF EndsCode, Ends, CommitStep, StartedGoes, OpFits, SameAsk
  <2> QED
    BY <2>1, <2>2, <2>3
<1>3. Took(r)' => /\ Took(r) /\ mine'[r].read = mine[r].read /\ pc'[r] # "n_spent" /\ CommitStep(r)
                  /\ pc[r] \in {"n_spent", "n_commit"}
  BY <1>1 DEF EndsCode, Ends, Undoes, UndoStep, PutsStarted, Took, OpFits, SameAsk, CodeSteps,
       KeySteps, ConfirmSteps, FinishSteps, AdminCalls
<1>4. StartFits(r)'
  <2>1. CASE Took(r)'
    <3>1. Opened(mine[r].read)'
      BY <1>1, <1>3, <2>1, OpenedStays DEF Opened, StartFits
    <3>2. mine[r].read # None
      BY <1>1, <1>3, <2>1, RowsAre DEF StartFits, Opened
    <3>3. com'["started"] # mine[r].read /\ cur'["started"] # mine[r].read
      BY <1>1, <1>3, <2>1, <3>2, RowsAre DEF StartFits, CommitStep, Kept, Ended
    <3> QED
      BY <1>3, <2>1, <3>1, <3>3 DEF StartFits
  <2>2. CASE ~Took(r)'
    BY <2>2 DEF StartFits
  <2> QED
    BY <2>1, <2>2
<1> QED
  BY <1>2, <1>3, <1>4, StartsGo

\* Every step keeps the starts apart.
LEMMA MovesStarts ==
  ASSUME LockInv, StartInv, NEW r \in Requests, Moves(r)
  PROVE  StartInv'
<1>1. PutsStarted(r) => pc[r] \in {"g_write", "finish_key"}
  BY DEF PutsStarted
<1> QED
  BY <1>1, TakesStart, StartedKept, EndsStarts DEF Moves

-----------------------------------------------------------------------------
(* An enrollment ends the sessions of the password alone.                  *)

\* What a step may do to a session that was open before.
SessionGoes(r, s) ==
  \/ Kept(s)
  \/ writer[s] = r /\ Ended(r, s)
  \/ writer[s] = r /\ Undone(r, s)
  \/ Wrote(r, s, [cur[s] EXCEPT !.active = FALSE])

\* A session keeps whether it was proven, and is inactive in the hands of who closes it.
LEMMA SessionGo ==
  ASSUME LockInv, SessionInv, NEW r \in Requests, Moves(r), NEW s \in Sessions, SessionGoes(r, s)
  PROVE  SessionFits(s)'
<1>1. SessionFits(s) /\ RowHeld(s)
  BY RowsAre DEF SessionInv, LockInv, AllSessions
<1>2. CASE Kept(s)
  BY <1>1, <1>2 DEF SessionFits, Kept
<1>3. CASE Ended(r, s) \/ Undone(r, s)
  BY <1>1, <1>3 DEF SessionFits, Ended, Undone
<1>4. CASE Wrote(r, s, [cur[s] EXCEPT !.active = FALSE])
  <2>1. PICK v : v = [cur[s] EXCEPT !.active = FALSE]
    OBVIOUS
  <2>2. PICK c : c = cur[s] /\ c \in SessionRow
    BY <1>1 DEF SessionFits
  <2>3. c = [proven |-> c.proven, active |-> c.active] /\ c.proven \in BOOLEAN
    BY <2>2 DEF SessionRow
  <2>4. v = [proven |-> c.proven, active |-> FALSE]
    BY <2>1, <2>2, <2>3
  <2>5. v \in SessionRow /\ v.proven = c.proven /\ v.active = FALSE
    BY <2>3, <2>4 DEF SessionRow
  <2> QED
    BY <1>1, <1>4, <2>1, <2>2, <2>5 DEF SessionFits, Wrote
<1> QED
  BY <1>2, <1>3, <1>4 DEF SessionGoes

\* A session is not opened again, and is left to who is closing it.
LEMMA ClosedStays ==
  ASSUME LockInv, SessionInv, NEW r \in Requests, NEW s \in Sessions, SessionGoes(r, s)
  PROVE  /\ com'[s] = com[s] \/ ~com'[s].active
         /\ \A q \in Requests : writer[s] = q /\ q # r => writer'[s] = q
<1>1. SessionFits(s)
  BY DEF SessionInv
<1> QED
  BY <1>1, RowsAre DEF SessionFits, SessionGoes, Kept, Ended, Undone, Wrote

\* What is left to show of a step: its own request.
LEMMA SessionsGo ==
  ASSUME LockInv, SessionInv, NEW r \in Requests, Moves(r), \A s \in Sessions : SessionGoes(r, s), ClosingFits(r)'
  PROVE  SessionInv'
<1>1. \A s \in Sessions : SessionFits(s)'
  BY SessionGo
<1>2. ASSUME NEW q \in Requests, q # r PROVE ClosingFits(q)'
  <2>1. pc'[q] = pc[q] /\ mine'[q] = mine[q] /\ ClosingFits(q)
    BY <1>2, OverStays DEF Alone, SessionInv
  <2>2. \A s \in Sessions : (com'[s] = com[s] \/ ~com'[s].active) /\ (writer[s] = q => writer'[s] = q)
    BY <1>2, ClosedStays
  <2> QED
    BY <2>1, <2>2 DEF ClosingFits
<1> QED
  BY <1>1, <1>2 DEF SessionInv

\* Every step keeps the closed sessions closed.
LEMMA MovesSessions ==
  ASSUME LockInv, SessionInv, NEW r \in Requests, Moves(r)
  PROVE  SessionInv'
<1>1. OpFits(r) /\ ClosingFits(r)
  BY DEF LockInv, SessionInv
<1>2. \A s \in Sessions : s \in Rows /\ s \in AllSessions /\ s # r /\ s \notin Keys \cup {"totp", "attempts", "started"}
  BY RowsAre, PartsAssumption DEF AllSessions
<1>3. CASE Turns(r) \/ PutsTotp(r) \/ PutsAttempts(r) \/ PutsKeys(r) \/ PutsStarted(r) \/ Opens(r)
  <2>1. \A s \in Sessions : Kept(s)
    <3>1. CASE Turns(r)
      BY <1>2, <3>1 DEF Turns, ReadStep, AllKept
    <3>2. CASE PutsTotp(r)
      BY <1>2, <3>2 DEF PutsTotp, WriteStep
    <3>3. CASE PutsAttempts(r)
      <4>1. PICK X \in SUBSET {"attempts"} : \E f : WriteStep(r, X, f)
        BY <3>3 DEF PutsAttempts
      <4> QED
        BY <1>2, <4>1 DEF WriteStep
    <3>4. CASE PutsKeys(r)
      <4>1. PICK X \in SUBSET Keys : \E f : WriteStep(r, X, f)
        BY <1>1, <3>4 DEF PutsKeys, OpFits, KeySteps
      <4> QED
        BY <1>2, <4>1 DEF WriteStep
    <3>5. CASE PutsStarted(r)
      BY <1>2, <3>5 DEF PutsStarted, WriteStep
    <3>6. CASE Opens(r)
      BY <1>2, <3>6 DEF Opens
    <3> QED
      BY <1>3, <3>1, <3>2, <3>3, <3>4, <3>5, <3>6
  <2>2. pc'[r] \notin {"f_commit", "n_commit", "enrolled"}
    BY <1>3 DEF Turns, PutsTotp, PutsAttempts, PutsKeys, PutsStarted, Opens, AdminCalls
  <2>3. ClosingFits(r)'
    BY <2>2 DEF ClosingFits
  <2> QED
    BY <2>1, <2>3, SessionsGo DEF SessionGoes
<1>4. CASE PutsSessions(r)
  <2>1. PICK f : /\ WriteStep(r, ClosedSessions(r), f)
                 /\ \A s \in ClosedSessions(r) : f[s] = [cur[s] EXCEPT !.active = FALSE]
    BY <1>4 DEF PutsSessions
  <2>2. ASSUME NEW s \in Sessions PROVE SessionGoes(r, s)
    <3>1. CASE s \in ClosedSessions(r)
      BY <1>2, <2>1, <3>1 DEF WriteStep, SessionGoes
    <3>2. CASE s \notin ClosedSessions(r)
      BY <1>2, <2>1, <3>2 DEF WriteStep, SessionGoes
    <3> QED
      BY <3>1, <3>2
  <2>3. pc'[r] \in {"f_commit", "n_commit"} /\ mine'[r] = mine[r]
    BY <1>4 DEF PutsSessions, SameAsk
  <2>4. ASSUME NEW s \in Sessions, s # mine[r].session
        PROVE  com'[s].proven \/ ~com'[s].active \/ writer'[s] = r
    <3>1. com[s] # None
      BY PartsAssumption DEF SessionInv, SessionFits
    <3>2. CASE s \in ClosedSessions(r)
      BY <1>2, <2>1, <3>2 DEF WriteStep, Wrote
    <3>3. CASE s \notin ClosedSessions(r)
      <4>1. com'[s] = com[s]
        BY <1>2, <2>1, <3>3 DEF WriteStep, Kept
      <4> QED
        BY <1>2, <2>4, <3>1, <3>3, <4>1 DEF ClosedSessions
    <3> QED
      BY <3>2, <3>3
  <2>5. ClosingFits(r)'
    BY <2>3, <2>4 DEF ClosingFits
  <2> QED
    BY <2>2, <2>5, SessionsGo
<1>5. CASE EndsCode(r) \/ Ends(r) \/ Undoes(r)
  <2>1. \A s \in Sessions : SessionGoes(r, s)
    BY <1>2, <1>5 DEF EndsCode, Ends, Undoes, CommitStep, UndoStep, SessionGoes
  <2>2. pc'[r] \notin {"f_commit", "n_commit"}
    BY <1>5 DEF EndsCode, Ends, Undoes, UndoStep
  <2>3. ASSUME pc'[r] = "enrolled", NEW s \in Sessions, s # mine'[r].session
        PROVE  com'[s].proven \/ ~com'[s].active
    <3>1. pc[r] \in {"f_commit", "n_commit"} /\ CommitStep(r) /\ mine'[r] = mine[r]
      BY <1>5, <2>3 DEF EndsCode, Ends, Undoes, UndoStep, SameAsk
    <3>2. com[s].proven \/ ~com[s].active \/ writer[s] = r
      BY <1>1, <2>3, <3>1 DEF ClosingFits
    <3>3. CASE writer[s] = r
      BY <1>2, <3>1, <3>3, RowsAre DEF CommitStep, Ended, SessionInv, SessionFits
    <3>4. CASE writer[s] # r
      BY <1>2, <3>1, <3>2, <3>4 DEF CommitStep, Kept
    <3> QED
      BY <3>3, <3>4
  <2>4. ClosingFits(r)'
    BY <2>2, <2>3 DEF ClosingFits
  <2> QED
    BY <2>1, <2>4, SessionsGo
<1> QED
  BY <1>3, <1>4, <1>5 DEF Moves

-----------------------------------------------------------------------------
(* A suspension comes in time, and is told.                                *)

\* What a step may do to the row of the attempts.
AttemptsGo(r) ==
  \/ Kept("attempts")
  \/ writer["attempts"] = r /\ (Ended(r, "attempts") \/ Undone(r, "attempts"))
  \/ \E v : Wrote(r, "attempts", v)

\* The others keep the attempts they counted.
LEMMA AttemptOfOthers ==
  ASSUME LockInv, AttemptsInv, NEW r \in Requests, Moves(r), AttemptsGo(r), NEW q \in Requests, q # r
  PROVE  AttemptFits(q)'
<1>1. pc'[q] = pc[q] /\ mine'[q] = mine[q] /\ AttemptFits(q)
  BY OverStays DEF Alone, AttemptsInv
<1>2. writer["attempts"] = q => Kept("attempts")
  BY RowsAre DEF AttemptsGo, Wrote
<1>3. writer'["attempts"] = q => writer["attempts"] = q
  BY RowsAre DEF AttemptsGo, Kept, Ended, Undone, Wrote
<1> QED
  BY <1>1, <1>2, <1>3 DEF AttemptFits, Kept

\* A step that commits no attempts.
LEMMA AttemptsUncommitted ==
  ASSUME LockInv, AttemptsInv, NEW r \in Requests, Moves(r), AttemptsGo(r), Counted, com'["attempts"] = com["attempts"],
         AttemptFits(r)'
  PROVE  AttemptsInv'
<1>1. \A q \in Requests : AttemptFits(q)'
  BY AttemptOfOthers
<1> QED
  BY <1>1 DEF AttemptsInv, Counted

\* The row of the attempts is held at these steps alone.
LEMMA AttemptsNotHeld ==
  ASSUME LockInv, NEW r \in Requests, writer["attempts"] = r
  PROVE  \/ pc[r] \in {"c_judge", "c_clear", "c_commit", "k_commit", "f_close", "f_commit"}
         \/ pc[r] = "m_commit" /\ mine[r].op # "remove_keys"
BY RowsAre, HeldSo DEF Holds

\* A step that leaves the row of the attempts alone.
LEMMA AttemptsKept ==
  ASSUME LockInv, CodeInv, AttemptsInv, NEW r \in Requests, Moves(r),
         Turns(r) \/ PutsTotp(r) \/ PutsKeys(r) \/ PutsStarted(r) \/ PutsSessions(r) \/ Opens(r)
  PROVE  AttemptsInv'
<1>1. OpFits(r) /\ AttemptFits(r) /\ CodeFits(r)
  BY DEF LockInv, AttemptsInv, CodeInv
<1>2. Kept("attempts") /\ Counted
  <2>1. CASE Turns(r)
    BY <2>1, RowsAre DEF Turns, ReadStep, AllKept
  <2>2. CASE PutsTotp(r)
    BY <2>2, RowsAre DEF PutsTotp, WriteStep
  <2>4. CASE PutsKeys(r)
    <3>1. PICK X \in SUBSET Keys : \E f : WriteStep(r, X, f)
      BY <1>1, <2>4 DEF PutsKeys, OpFits, KeySteps
    <3> QED
      BY <3>1, RowsAre DEF WriteStep
  <2>3. CASE PutsStarted(r)
    BY <2>3, RowsAre DEF PutsStarted, WriteStep
  <2>5. CASE PutsSessions(r)
    <3>1. PICK f : WriteStep(r, ClosedSessions(r), f)
      BY <2>5 DEF PutsSessions
    <3> QED
      BY <3>1, RowsAre DEF WriteStep, ClosedSessions
  <2>6. CASE Opens(r)
    BY <2>6, RowsAre DEF Opens, AllSessions
  <2> QED
    BY <2>1, <2>2, <2>3, <2>4, <2>5, <2>6
<1>3. AttemptFits(r)'
  <2>1. CASE pc[r] = "c_judge" /\ pc'[r] = "c_commit"
    <3>1. Turns(r)
      BY <2>1 DEF PutsTotp, PutsKeys, PutsStarted, PutsSessions, Opens
    <3>2. mine'[r].attempts = mine[r].attempts /\ ~mine'[r].good
      BY <1>1, <2>1, <3>1 DEF Turns, CodeFits
    <3> QED
      BY <1>1, <1>2, <2>1, <3>2 DEF AttemptFits, Kept
  <2>2. CASE pc[r] = "c_judge" /\ pc'[r] = "c_clear"
    <3>1. /\ mine'[r].attempts = mine[r].attempts /\ mine'[r].good /\ mine[r].attempts <= MaxCodeFailures
      BY <2>2 DEF PutsTotp, Turns, PutsKeys, PutsStarted, PutsSessions, Opens
    <3> QED
      BY <1>1, <1>2, <2>2, <3>1 DEF AttemptFits, Kept
  <2>3. CASE pc'[r] = "f_commit"
    <3>1. pc[r] = "f_close"
      BY <2>3 DEF PutsTotp, Turns, PutsKeys, PutsStarted, PutsSessions, Opens, AdminCalls
    <3> QED
      BY <1>1, <1>2, <2>3, <3>1 DEF AttemptFits, Kept
  <2>4. CASE pc'[r] = "m_commit"
    <3>1. pc[r] = "remove_keys"
      BY <2>4 DEF PutsTotp, Turns, PutsKeys, PutsStarted, PutsSessions, Opens, AdminCalls
    <3>2. writer["attempts"] # r
      BY <3>1, AttemptsNotHeld
    <3> QED
      BY <1>2, <2>4, <3>2 DEF AttemptFits, Kept
  <2>5. \/ pc[r] = "c_judge" /\ pc'[r] \in {"c_commit", "c_clear"}
        \/ pc'[r] \notin {"c_judge", "c_clear", "c_commit", "k_commit", "f_close"}
    BY DEF PutsTotp, Turns, PutsKeys, PutsStarted, PutsSessions, Opens, AdminCalls
  <2> QED
    BY <2>1, <2>2, <2>3, <2>4, <2>5 DEF AttemptFits
<1> QED
  BY <1>2, <1>3, AttemptsUncommitted DEF AttemptsGo, Kept

\* The attempts are counted, or cleared.
LEMMA AttemptsPut ==
  ASSUME LockInv, AttemptsInv, NEW r \in Requests, Moves(r), PutsAttempts(r)
  PROVE  AttemptsInv'
<1>1. OpFits(r) /\ AttemptFits(r) /\ RowHeld("attempts")
  BY RowsAre DEF LockInv, AttemptsInv
<1>2. PICK X \in SUBSET {"attempts"} : \E f : WriteStep(r, X, f)
  BY DEF PutsAttempts
<1>3. Counted /\ com'["attempts"] = com["attempts"] /\ AttemptsGo(r)
  BY <1>2, RowsAre DEF WriteStep, Wrote, Kept, AttemptsGo
<1>4. AttemptFits(r)'
  <2>1. CASE pc[r] = "c_count"
    <3>1. PICK n : n = Attempts(cur["attempts"]) + 1
      OBVIOUS
    <3>2. /\ pc'[r] = "c_judge" /\ mine'[r].attempts = n /\ Wrote(r, "attempts", n)
      BY <2>1, <3>1, RowsAre DEF PutsAttempts, WriteStep, Row
    <3>3. writer["attempts"] = None
      BY <2>1, <3>2, AttemptsNotHeld DEF Wrote
    <3>4. cur["attempts"] = com["attempts"]
      BY <1>1, <3>3 DEF RowHeld
    <3> QED
      BY <1>3, <3>1, <3>2, <3>4 DEF AttemptFits, Wrote
  <2>2. CASE pc[r] = "c_clear"
    <3>1. pc'[r] = "c_commit" /\ mine'[r] = mine[r] /\ Wrote(r, "attempts", None)
      BY <2>2, RowsAre DEF PutsAttempts, WriteStep, Row, SameAsk
    <3> QED
      BY <1>1, <1>3, <2>2, <3>1 DEF AttemptFits, Wrote
  <2>3. CASE pc[r] = "k_clear"
    <3>1. PICK Y \in SUBSET {"attempts"} :
            \E f : /\ WriteStep(r, Y, f)
                   /\ "attempts" \in Y => /\ com["attempts"] # None /\ com["attempts"] < MaxCodeFailures
                                          /\ f["attempts"] = None
      BY <2>3 DEF PutsAttempts
    <3>2. pc'[r] = "k_commit"
      BY <2>3 DEF PutsAttempts
    <3>3. CASE "attempts" \in Y
      <4>1. Wrote(r, "attempts", None) /\ com["attempts"] # None /\ com["attempts"] < MaxCodeFailures
        BY <3>1, <3>3, RowsAre DEF WriteStep
      <4> QED
        BY <1>3, <3>2, <4>1 DEF AttemptFits, Wrote, Attempts
    <3>4. CASE "attempts" \notin Y
      <4>1. Kept("attempts")
        BY <3>1, <3>4, RowsAre DEF WriteStep
      <4>2. writer'["attempts"] # r
        BY <2>3, <4>1, AttemptsNotHeld DEF Kept
      <4> QED
        BY <3>2, <4>2 DEF AttemptFits
    <3> QED
      BY <3>3, <3>4
  <2>4. CASE pc[r] \in {"f_clear", "m_clear", "resume_codes"}
    <3>1. PICK Y \in SUBSET {"attempts"} : \E f : WriteStep(r, Y, f) /\ ("attempts" \in Y => f["attempts"] = None)
      BY <2>4 DEF PutsAttempts
    <3>2. pc'[r] \in {"f_close", "m_commit"}
      BY <2>4 DEF PutsAttempts
    <3>3. CASE "attempts" \in Y
      <4>1. Wrote(r, "attempts", None)
        BY <3>1, <3>3, RowsAre DEF WriteStep
      <4> QED
        BY <3>2, <4>1 DEF AttemptFits, Wrote
    <3>4. CASE "attempts" \notin Y
      <4>1. Kept("attempts")
        BY <3>1, <3>4, RowsAre DEF WriteStep
      <4>2. writer'["attempts"] # r
        BY <2>4, <4>1, AttemptsNotHeld DEF Kept
      <4> QED
        BY <3>2, <4>2 DEF AttemptFits
    <3> QED
      BY <3>3, <3>4
  <2> QED
    BY <2>1, <2>2, <2>3, <2>4 DEF PutsAttempts
<1> QED
  BY <1>3, <1>4, AttemptsUncommitted

\* A code is judged for good: counted, told, or forgotten.
LEMMA AttemptsJudged ==
  ASSUME LockInv, AttemptsInv, NEW r \in Requests, Moves(r), EndsCode(r)
  PROVE  AttemptsInv'
<1>1. /\ writer["attempts"] = r /\ mine[r].attempts = Attempts(com["attempts"]) + 1
      /\ ~mine[r].good => cur["attempts"] = mine[r].attempts
      /\ mine[r].good => cur["attempts"] = None
  BY DEF AttemptsInv, AttemptFits, EndsCode
<1>2. Ended(r, "attempts")
  BY <1>1, RowsAre DEF EndsCode, CommitStep
<1>3. AttemptFits(r)'
  BY DEF AttemptFits, EndsCode
<1>4. \A q \in Requests : AttemptFits(q)'
  BY <1>1, <1>2, <1>3, AttemptOfOthers DEF AttemptsGo
<1>5. /\ com["attempts"] \in Nat \cup {None} /\ wrong \in Nat
      /\ wrong <= Attempts(com["attempts"]) /\ wrong <= MaxCodeFailures
      /\ com["attempts"] # None /\ com["attempts"] >= MaxCodeFailures => told
  BY DEF AttemptsInv
<1>6. MaxCodeFailures \in Nat /\ MaxCodeFailures > 0 /\ None \notin Nat
  BY FactorAssumption, PartsAssumption
<1>7. CASE mine[r].good
  <2>1. com'["attempts"] = None /\ wrong' = 0
    BY <1>1, <1>2, <1>7 DEF Ended, EndsCode
  <2> QED
    BY <1>4, <1>6, <2>1 DEF AttemptsInv, Attempts
<1>8. CASE ~mine[r].good
  <2>1. PICK n : n = Attempts(com["attempts"])
    OBVIOUS
  <2>2. n \in Nat /\ wrong <= n /\ (n >= MaxCodeFailures => told)
    BY <1>5, <1>6, <2>1 DEF Attempts
  <2>3. com'["attempts"] = n + 1 /\ n + 1 # None
    BY <1>1, <1>2, <1>6, <1>8, <2>1, <2>2 DEF Ended
  <2>4. wrong' = IF n + 1 <= MaxCodeFailures THEN wrong + 1 ELSE wrong
    BY <1>1, <1>8, <2>1 DEF EndsCode
  <2>5. told \/ n + 1 = MaxCodeFailures => told'
    BY <1>1, <1>8, <2>1 DEF EndsCode, IsSuspension
  <2>6. wrong' \in Nat /\ wrong' <= n + 1 /\ wrong' <= MaxCodeFailures
    BY <1>5, <1>6, <2>2, <2>4
  <2>7. n + 1 >= MaxCodeFailures => told'
    BY <1>6, <2>2, <2>5
  <2> QED
    BY <1>4, <2>2, <2>3, <2>6, <2>7 DEF AttemptsInv, Attempts
<1> QED
  BY <1>7, <1>8

\* Any other unit of work ends: it forgets the attempts or leaves them.
LEMMA AttemptsEnded ==
  ASSUME LockInv, AttemptsInv, NEW r \in Requests, Moves(r), Ends(r) \/ Undoes(r)
  PROVE  AttemptsInv'
<1>1. AttemptFits(r) /\ pc'[r] \notin {"c_judge", "c_clear", "c_commit", "k_commit", "f_close", "f_commit", "m_commit"}
  BY DEF AttemptsInv, Ends, Undoes, UndoStep
<1>2. AttemptFits(r)'
  BY <1>1 DEF AttemptFits
<1>3. CASE Undoes(r)
  <2>1. Counted /\ AttemptsGo(r) /\ com'["attempts"] = com["attempts"]
    BY <1>3, RowsAre DEF Undoes, UndoStep, AttemptsGo, Undone, Kept
  <2> QED
    BY <1>2, <2>1, AttemptsUncommitted
<1>4. CASE Ends(r) /\ writer["attempts"] # r
  <2>1. Counted /\ AttemptsGo(r) /\ com'["attempts"] = com["attempts"]
    BY <1>4, RowsAre DEF Ends, CommitStep, Forgets, AttemptsGo, Kept, Counted
  <2> QED
    BY <1>2, <2>1, AttemptsUncommitted
<1>5. CASE Ends(r) /\ writer["attempts"] = r
  <2>1. pc[r] \in {"k_commit", "f_commit", "m_commit"}
    BY <1>5, AttemptsNotHeld DEF Ends
  <2>2. cur["attempts"] = None
    BY <1>1, <1>5, <2>1 DEF AttemptFits
  <2>3. Ended(r, "attempts") /\ wrong' = 0
    BY <1>5, <2>2, RowsAre DEF Ends, CommitStep, Forgets
  <2>4. \A q \in Requests : AttemptFits(q)'
    BY <1>2, <1>5, <2>3, AttemptOfOthers DEF AttemptsGo
  <2>5. com'["attempts"] = None
    BY <2>2, <2>3 DEF Ended
  <2>6. MaxCodeFailures \in Nat
    BY FactorAssumption
  <2> QED
    BY <2>3, <2>4, <2>5, <2>6 DEF AttemptsInv, Attempts
<1> QED
  BY <1>3, <1>4, <1>5

\* Every step keeps the count, and what is told of it.
LEMMA MovesAttempts ==
  ASSUME LockInv, CodeInv, AttemptsInv, NEW r \in Requests, Moves(r)
  PROVE  AttemptsInv'
BY AttemptsKept, AttemptsPut, AttemptsJudged, AttemptsEnded DEF Moves

-----------------------------------------------------------------------------
(* What holds of every state.                                              *)

FactorInv == LockInv /\ CodeInv /\ KeyInv /\ StartInv /\ SessionInv /\ AttemptsInv

\* Nothing is asked, and the rows are what the person holds.
LEMMA InitFactors ==
  ASSUME Init
  PROVE  FactorInv
<1>1. PICK start \in Starts :
        StorageInit([x \in Rows |->
          CASE x = "totp" /\ start.enrolled -> [secret |-> Old, confirmed |-> TRUE, last |-> -1]
            [] x \in start.keys -> [counter |-> 0, used |-> None, since |-> None]
            [] x \in Sessions -> [proven |-> x \in start.proven, active |-> TRUE]
            [] OTHER -> None])
  BY DEF Init
<1>2. start.keys \subseteq Keys
  BY FactorAssumption
<1>3. cur = com /\ writer = [x \in Rows |-> None] /\ DOMAIN com = Rows
  BY <1>1 DEF StorageInit
<1>4. \A x \in Rows :
        com[x] = CASE x = "totp" /\ start.enrolled -> [secret |-> Old, confirmed |-> TRUE, last |-> -1]
                   [] x \in start.keys -> [counter |-> 0, used |-> None, since |-> None]
                   [] x \in Sessions -> [proven |-> x \in start.proven, active |-> TRUE]
                   [] OTHER -> None
  BY <1>1 DEF StorageInit
<1>5. com["attempts"] = None /\ com["started"] = None
  BY <1>2, <1>4, RowsAre DEF AllSessions
<1>6. com["totp"] \in {[secret |-> Old, confirmed |-> TRUE, last |-> -1], None}
  BY <1>2, <1>4, RowsAre DEF AllSessions
<1>7. \A k \in Keys : com[k] \in {[counter |-> 0, used |-> None, since |-> None], None}
  BY <1>2, <1>4, RowsAre DEF AllSessions
<1>8. ASSUME NEW s \in Sessions PROVE com[s] \in SessionRow
  <2>1. com[s] = [proven |-> s \in start.proven, active |-> TRUE]
    BY <1>2, <1>4, RowsAre DEF AllSessions
  <2>2. (s \in start.proven) \in BOOLEAN
    OBVIOUS
  <2> QED
    BY <2>1, <2>2 DEF SessionRow
<1>9. pc = [r \in Requests |-> "idle"] /\ mine = [r \in Requests |-> NoAsk] /\ wrong = 0 /\ told = FALSE
  BY DEF Init
<1>10. \A r \in Requests : pc[r] = "idle" /\ mine[r] = NoAsk
  BY <1>9
<1>11. IsAsk(NoAsk) /\ NoAsk.op = "none"
  BY DEF IsAsk, NoAsk
<1>12. \A x \in Rows : writer[x] = None /\ cur[x] = com[x]
  BY <1>3
<1>13. LockInv
  <2>1. Shaped
    BY <1>3, <1>9 DEF Shaped
  <2>2. \A r \in Requests : IsAsk(mine[r]) /\ OpFits(r)
    BY <1>10, <1>11 DEF OpFits, CodeSteps, KeySteps, ConfirmSteps, FinishSteps
  <2>3. \A x \in Rows : RowHeld(x)
    BY <1>12 DEF RowHeld
  <2> QED
    BY <2>1, <2>2, <2>3 DEF LockInv
<1>14. CodeInv
  <2>1. PICK v : v = [secret |-> Old, confirmed |-> TRUE, last |-> -1]
    OBVIOUS
  <2>2. v \in TotpRow /\ v.secret = Old
    BY <2>1 DEF TotpRow
  <2>3. TotpFits
    BY <1>6, <1>12, <2>1, <2>2, RowsAre DEF TotpFits, Minted
  <2>4. \A r \in Requests : ~Serving(r) /\ CodeFits(r)
    BY <1>10, <1>11 DEF Serving, CodeFits
  <2> QED
    BY <2>3, <2>4 DEF CodeInv, CodesApart
<1>15. KeyInv
  <2>1. PICK v : v = [counter |-> 0, used |-> None, since |-> None]
    OBVIOUS
  <2>2. v \in KeyRow /\ v.used = None /\ v.since = None
    BY <2>1 DEF KeyRow
  <2>3. \A k \in Keys : KeyRowFits(k)
    BY <1>7, <1>12, <2>1, <2>2, RowsAre DEF KeyRowFits, UsedBy, Since
  <2>4. \A r \in Requests : ~Using(r) /\ KeyFits(r)
    BY <1>10, <1>11 DEF Using, KeyFits
  <2> QED
    BY <2>3, <2>4 DEF KeyInv, KeysApart
<1>16. StartInv
  <2>1. StartedFits
    BY <1>5, <1>12, RowsAre DEF StartedFits
  <2>2. \A r \in Requests : ~Took(r) /\ StartFits(r)
    BY <1>10, <1>11 DEF Took, StartFits
  <2> QED
    BY <2>1, <2>2 DEF StartInv, StartsApart
<1>17. SessionInv
  <2>1. \A s \in Sessions : SessionFits(s)
    BY <1>8, <1>12, RowsAre DEF SessionFits, AllSessions
  <2>2. \A r \in Requests : ClosingFits(r)
    BY <1>10 DEF ClosingFits
  <2> QED
    BY <2>1, <2>2 DEF SessionInv
<1>18. AttemptsInv
  <2>1. \A r \in Requests : AttemptFits(r)
    BY <1>10 DEF AttemptFits
  <2> QED
    BY <1>5, <1>9, <2>1, FactorAssumption DEF AttemptsInv, Attempts
<1> QED
  BY <1>13, <1>14, <1>15, <1>16, <1>17, <1>18 DEF FactorInv

\* Each step, of whichever request, keeps it.
LEMMA NextFactors ==
  ASSUME FactorInv, [Next]_vars
  PROVE  FactorInv'
<1>1. CASE Next
  <2>1. PICK r \in Requests : Begin(r) \/ Advance(r) \/ Fail(r)
    BY <1>1 DEF Next
  <2>2. LockInv /\ CodeInv /\ KeyInv /\ StartInv /\ SessionInv /\ AttemptsInv
    BY DEF FactorInv
  <2>3. Moves(r)
    BY <2>1, <2>2, NextMoves
  <2> QED
    BY <2>2, <2>3, MovesLock, MovesCode, MovesKeys, MovesStarts, MovesSessions, MovesAttempts DEF FactorInv
<1>2. CASE UNCHANGED vars
  <2>1. com' = com /\ cur' = cur /\ writer' = writer /\ pc' = pc /\ mine' = mine /\ wrong' = wrong /\ told' = told
    BY <1>2 DEF vars, storage
  <2>2. LockInv'
    BY <2>1 DEF FactorInv, LockInv, Shaped, RowHeld, Holds, OpFits
  <2>3. CodeInv'
    BY <2>1 DEF FactorInv, CodeInv, TotpFits, CodeFits, CodesApart, Serving, Minted
  <2>4. KeyInv'
    BY <2>1 DEF FactorInv, KeyInv, KeyRowFits, KeyFits, KeysApart, Using, UsedBy, Since, Passed
  <2>5. StartInv'
    BY <2>1 DEF FactorInv, StartInv, StartedFits, StartFits, StartsApart, Took, Opened
  <2>6. SessionInv'
    BY <2>1 DEF FactorInv, SessionInv, SessionFits, ClosingFits
  <2>7. AttemptsInv'
    BY <2>1 DEF FactorInv, AttemptsInv, AttemptFits
  <2> QED
    BY <2>2, <2>3, <2>4, <2>5, <2>6, <2>7 DEF FactorInv
<1> QED
  BY <1>1, <1>2

\* The inductive invariant of the second factors holds of every state.
THEOREM FactorsFit == Spec => []FactorInv
<1>1. Init => FactorInv
  BY InitFactors
<1>2. FactorInv /\ [Next]_vars => FactorInv'
  BY NextFactors
<1> QED
  BY <1>1, <1>2, PTL DEF Spec

\* What it says of codes, answers and starts: each serves once.
LEMMA FactorsServeOnce ==
  ASSUME FactorInv
  PROVE  ServesOnce
<1>1. LockInv /\ CodeInv /\ KeyInv /\ StartInv
  BY DEF FactorInv
<1>2. \A r \in Requests : OpFits(r)
  BY <1>1 DEF LockInv
<1>3. NoCodeTwice
  <2>1. ASSUME NEW r \in Believed, mine[r].op \in {"code", "confirm_totp"} PROVE Serving(r)
    BY <2>1 DEF Believed, Serving
  <2> QED
    BY <1>1, <2>1 DEF NoCodeTwice, Believed, CodeInv, CodesApart
<1>4. AcceptedForKeptSecret
  <2>1. ASSUME NEW r \in Requests, pc[r] \in {"c_clear", "c_commit"}, mine[r].good
        PROVE  cur["totp"] # None /\ cur["totp"].secret = mine[r].code.secret
    <3>1. Serving(r) /\ pc[r] \in Accepting
      BY <1>2, <2>1 DEF Serving, Accepting, OpFits, CodeSteps
    <3> QED
      BY <1>1, <3>1 DEF CodeInv, CodeFits
  <2> QED
    BY <2>1 DEF AcceptedForKeptSecret
<1>5. NoProofTwice
  <2>1. ASSUME NEW r \in Believed, mine[r].op = "key" PROVE Using(r)
    BY <1>2, <2>1 DEF Believed, Using, OpFits
  <2> QED
    BY <1>1, <2>1 DEF NoProofTwice, Believed, KeyInv, KeysApart
<1>6. OneKeyPerStart
  BY <1>1 DEF OneKeyPerStart, StartInv, StartsApart, Took
<1> QED
  BY <1>3, <1>4, <1>5, <1>6 DEF ServesOnce

\* Whatever is typed together, removed, set up again or dropped, a code, the
\* answer of a key and the start of an enrollment are each believed once, and
\* a code for the secret it was judged against.
THEOREM FactorsServeOnceAlways == Spec => []ServesOnce
<1>1. FactorInv => ServesOnce
  BY FactorsServeOnce
<1> QED
  BY <1>1, FactorsFit, PTL

\* An enrollment that is done left no session of the password alone active
\* but its own.
THEOREM UnprovenSessionsAreEnded == Spec => []UnprovenSessionsEnd
<1>1. FactorInv => UnprovenSessionsEnd
  BY DEF FactorInv, SessionInv, ClosingFits, UnprovenSessionsEnd
<1> QED
  BY <1>1, FactorsFit, PTL

\* Who may change how many codes were got wrong, once they are suspended.
LEMMA SuspensionMoves ==
  ASSUME FactorInv, [Next]_vars, com["attempts"] # None, com["attempts"] >= MaxCodeFailures,
         com'["attempts"] # com["attempts"]
  PROVE  \/ com'["attempts"] # None /\ com'["attempts"] > com["attempts"]
         \/ \E r \in Requests : /\ mine[r].op \in {"resume_codes", "remove_totp", "confirm_totp"}
                                /\ pc[r] # pc'[r]
<1>1. PICK r \in Requests : Begin(r) \/ Advance(r) \/ Fail(r)
  BY DEF vars, storage, Next
<1>2. LockInv /\ AttemptsInv /\ OpFits(r) /\ AttemptFits(r)
  BY DEF FactorInv, LockInv, AttemptsInv
<1>3. Moves(r)
  BY <1>1, <1>2, NextMoves
<1>4. com["attempts"] \in Nat /\ MaxCodeFailures \in Nat /\ None \notin Nat
  BY <1>2, FactorAssumption, PartsAssumption DEF AttemptsInv
<1>5. EndsCode(r) \/ Ends(r)
  <2>1. ~Turns(r)
    BY RowsAre DEF Turns, ReadStep, AllKept, Kept
  <2>2. ASSUME NEW X, NEW f, WriteStep(r, X, f) PROVE FALSE
    BY <2>2, RowsAre DEF WriteStep, Wrote, Kept
  <2>3. ~PutsTotp(r) /\ ~PutsAttempts(r) /\ ~PutsKeys(r) /\ ~PutsStarted(r) /\ ~PutsSessions(r)
    BY <2>2 DEF PutsTotp, PutsAttempts, PutsKeys, PutsStarted, PutsSessions
  <2>4. ~Opens(r)
    BY RowsAre DEF Opens, Kept, AllSessions
  <2>5. ~Undoes(r)
    BY RowsAre DEF Undoes, UndoStep, Undone, Kept
  <2> QED
    BY <1>3, <2>1, <2>3, <2>4, <2>5 DEF Moves
<1>6. writer["attempts"] = r /\ Ended(r, "attempts")
  BY <1>5, RowsAre DEF EndsCode, Ends, CommitStep, Kept
<1>7. CASE EndsCode(r)
  <2>1. pc[r] = "c_commit" /\ mine[r].attempts = com["attempts"] + 1
    BY <1>2, <1>7 DEF EndsCode, AttemptFits, Attempts
  <2>2. ~mine[r].good
    BY <1>2, <1>4, <2>1 DEF AttemptFits
  <2>3. com'["attempts"] = com["attempts"] + 1
    BY <1>2, <1>6, <2>1, <2>2 DEF AttemptFits, Ended
  <2> QED
    BY <1>4, <2>3
<1>8. CASE Ends(r)
  <2>1. pc[r] # "k_commit"
    BY <1>2, <1>4, <1>6 DEF AttemptFits, Attempts
  <2>2. \/ pc[r] \in {"c_judge", "c_clear", "c_commit", "k_commit", "f_close", "f_commit"}
        \/ pc[r] = "m_commit" /\ mine[r].op # "remove_keys"
    BY <1>2, <1>6, AttemptsNotHeld
  <2>3. mine[r].op \in {"resume_codes", "remove_totp", "confirm_totp"}
    BY <1>2, <1>8, <2>1, <2>2 DEF Ends, OpFits, ConfirmSteps, AdminCalls
  <2>4. pc[r] # pc'[r]
    BY <1>8 DEF Ends
  <2> QED
    BY <2>3, <2>4
<1> QED
  BY <1>5, <1>7, <1>8

\* A suspension comes in time, is told in the chain, and is lifted by an
\* administrator or an application set up anew, by no code and no key.
THEOREM SuspensionsStand == Spec => SuspensionStands
<1>1. FactorInv => SuspensionHolds /\ SuspensionIsTold
  BY DEF FactorInv, AttemptsInv, SuspensionHolds, SuspensionIsTold
<1>2. FactorInv /\ [Next]_vars =>
        [com["attempts"] # None /\ com["attempts"] >= MaxCodeFailures /\ com'["attempts"] # com["attempts"]
         => \/ com'["attempts"] # None /\ com'["attempts"] > com["attempts"]
            \/ \E r \in Requests : /\ mine[r].op \in {"resume_codes", "remove_totp", "confirm_totp"}
                                   /\ pc[r] # pc'[r]]_vars
  BY SuspensionMoves
<1> QED
  BY <1>1, <1>2, FactorsFit, PTL DEF Spec, SuspensionStands, SuspensionIsLiftedByOthers

=============================================================================
