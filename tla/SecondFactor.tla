---------------------------- MODULE SecondFactor ----------------------------
(***************************************************************************)
(* The second factors of one person: an authenticator application          *)
(* (login/steps/totp.rs), security keys (login/steps/webauthn.rs), how     *)
(* they are set up and taken away (login/enroll.rs), and the sessions      *)
(* opened with or without them (login/flow.rs, login/session.rs).          *)
(*                                                                         *)
(* Each request is one call, served once; its statements are its steps.    *)
(* The password was proven before the calls that ask for one.  What a      *)
(* request makes is named by it: a secret, the start of an enrollment, a   *)
(* session.  The lock of the name is the business of Brake: here a code or *)
(* an answer may be refused for it at any time, and a wrong one is counted *)
(* there too.                                                              *)
(***************************************************************************)
EXTENDS UnitOfWork, Integers, FiniteSets

CONSTANTS Requests, Keys,
          Sessions,        \* sessions opened before the behaviour starts
          Starts,          \* what may be held when it starts: whether an application is
                           \* enrolled, the keys, the sessions a factor opened
          Old,             \* the secret of an application enrolled before it starts
          Operations,      \* what each request may call
          MaxCodeFailures, MaxSecurityKeys,
          Steps,           \* the time steps of codes that are tried
          Counters         \* the counters keys answer with; 0 is no counter

ASSUME FactorAssumption ==
  /\ Starts \subseteq [enrolled : BOOLEAN, keys : SUBSET Keys, proven : SUBSET Sessions]
  /\ MaxCodeFailures \in Nat \ {0} /\ MaxSecurityKeys \in Nat \ {0}
  /\ Steps \subseteq Nat /\ Counters \subseteq Nat

\* The row of the application, the row of the attempts and the enrollment of a
\* key that was started: one each for the person.
ASSUME RowsAssumption ==
  /\ Works = Requests
  /\ Rows = {"totp", "attempts", "started"} \cup Keys \cup Sessions \cup Requests

\* What a row is when it is there.
TotpRow == [secret : Requests \cup {Old}, confirmed : BOOLEAN, last : Int]
KeyRow == [counter : Nat, used : Requests \cup {None}, since : Requests \cup {None}]
SessionRow == [proven : BOOLEAN, active : BOOLEAN]

\* The rows are told apart, and what is absent is none of them.
ASSUME PartsAssumption ==
  /\ {"totp", "attempts", "started"} \cap (Keys \cup Sessions \cup Requests) = {}
  /\ Keys \cap (Sessions \cup Requests) = {} /\ Sessions \cap Requests = {}
  /\ Old \notin Requests \cup {None}
  /\ None \notin Nat \cup TotpRow \cup KeyRow \cup SessionRow

VARIABLES pc,      \* the next step of each request
          mine,    \* what each request asked, read and was answered
          wrong,   \* how many wrong codes in a row were judged and told
          told     \* whether the chain tells that the codes are suspended

vars == <<storage, pc, mine, wrong, told>>

\* The secrets there are, and None, the secret of a code that is of none.
Secrets == {Old, None} \cup {r \in Requests : "begin_totp" \in Operations[r]}
Code == [secret : Secrets, step : Steps]
NoAsk == [op |-> "none", session |-> None, code |-> None, key |-> None, counter |-> 0,
          read |-> None, attempts |-> 0, good |-> FALSE]

Init ==
  /\ \E start \in Starts :
       StorageInit([x \in Rows |->
         CASE x = "totp" /\ start.enrolled -> [secret |-> Old, confirmed |-> TRUE, last |-> -1]
           [] x \in start.keys -> [counter |-> 0, used |-> None, since |-> None]
           [] x \in Sessions -> [proven |-> x \in start.proven, active |-> TRUE]
           [] OTHER -> None])
  /\ pc = [r \in Requests |-> "idle"]
  /\ mine = [r \in Requests |-> NoAsk]
  /\ wrong = 0
  /\ told = FALSE

-----------------------------------------------------------------------------
(* What a statement reads.                                                 *)

\* A confirmed application, as a statement of r sees it.
IsEnrolled(r) == Sees(r, "totp") # None /\ Sees(r, "totp").confirmed

ListSecurityKeys(r) == {k \in Keys : Sees(r, k) # None}

HoldsSecondFactor(r) == IsEnrolled(r) \/ ListSecurityKeys(r) # {}

AllSessions == Sessions \cup Requests

IsActive(r, s) == Sees(r, s) # None /\ Sees(r, s).active

\* refuse_unproven_session
RefusesUnproven(r, s) == ~com[s].proven /\ HoldsSecondFactor(r)

-----------------------------------------------------------------------------
(* Steps shared by the calls.                                              *)

Goto(r, to) == pc' = [pc EXCEPT ![r] = to]

\* A step that only reads.
Reads(r, to, ask) ==
  /\ Goto(r, to)
  /\ mine' = [mine EXCEPT ![r] = ask]
  /\ UNCHANGED <<storage, wrong, told>>

\* A step that writes rows f and nothing else.
Writes(r, from, to, f) ==
  /\ pc[r] = from
  /\ WriteRows(r, f)
  /\ Goto(r, to)
  /\ UNCHANGED <<mine, wrong, told>>

\* The unit of work is dropped, and the call refused.
Refuse(r) ==
  /\ Rollback(r)
  /\ Goto(r, "refused")
  /\ UNCHANGED <<mine, wrong, told>>

\* Codes got wrong that are forgotten when r commits.
Forgets(r) == writer["attempts"] = r /\ cur["attempts"] = None

\* A unit of work of the steps in `from` commits.
Commits(r, from, to) ==
  /\ pc[r] = from
  /\ Commit(r)
  /\ Goto(r, to)
  /\ wrong' = IF Forgets(r) THEN 0 ELSE wrong
  /\ told' = IF Forgets(r) THEN FALSE ELSE told
  /\ mine' = mine

Row(x, v) == [y \in {x} |-> v]

\* clear_code_attempts: a DELETE of the row, if there is one, that waits for it.
AttemptsCleared == [x \in {y \in {"attempts"} : com[y] # None} |-> None]

-----------------------------------------------------------------------------
(* Signing in.                                                             *)

\* sign_in_with_password, once the password is proven: what is owed is read
\* in two statements of a unit of work that is dropped.
BeginSignIn(r) == pc[r] = "idle" /\ "sign_in" \in Operations[r] /\ Reads(r, "s_totp", [mine[r] EXCEPT !.op = "sign_in"])
ReadOwedCode(r) == pc[r] = "s_totp" /\ Reads(r, "s_keys", [mine[r] EXCEPT !.good = ~IsEnrolled(r)])
ReadOwedKey(r) ==
  /\ pc[r] = "s_keys"
  /\ Reads(r, IF mine[r].good /\ ListSecurityKeys(r) = {} THEN "open" ELSE "owed", mine[r])

\* open_session: the methods of the session tell what was proven.
OpenSession(r) ==
  /\ pc[r] = "open"
  /\ InsertAndCommit(r, r, [proven |-> mine[r].op # "sign_in", active |-> TRUE])
  /\ Goto(r, "done")
  /\ UNCHANGED <<mine, wrong, told>>

\* verify_code: a code of some secret and some step, in its time.
BeginCode(r, c) ==
  /\ pc[r] = "idle" /\ "code" \in Operations[r]
  /\ Reads(r, "c_read", [mine[r] EXCEPT !.op = "code", !.code = c])

\* The name is locked: refused before anything is read.
RefuseLocked(r) == pc[r] \in {"c_read", "k_read"} /\ Refuse(r)

ReadTotp(r) ==
  /\ pc[r] = "c_read"
  /\ IF IsEnrolled(r)
     THEN Reads(r, "c_count", [mine[r] EXCEPT !.read = Sees(r, "totp").secret])
     ELSE Refuse(r)

Attempts(v) == IF v = None THEN 0 ELSE v

\* Mutant: the attempts are read, and written without the lock of their row.
CountUnlocked(r) ==
  /\ pc[r] = "c_count"
  /\ cur' = [cur EXCEPT !["attempts"] = Attempts(com["attempts"]) + 1]
  /\ writer' = [writer EXCEPT !["attempts"] = r]
  /\ mine' = [mine EXCEPT ![r].attempts = Attempts(com["attempts"]) + 1]
  /\ Goto(r, "c_judge")
  /\ UNCHANGED <<com, sharers, wrong, told>>

\* Counted before it is judged: the row is held until the commit.
CountCodeAttempt(r) ==
  /\ pc[r] = "c_count"
  /\ WriteRow(r, "attempts", Attempts(cur["attempts"]) + 1)
  /\ mine' = [mine EXCEPT ![r].attempts = Attempts(cur["attempts"]) + 1]
  /\ Goto(r, "c_judge")
  /\ UNCHANGED <<wrong, told>>

\* Mutant: the step used last is accepted again.
AcceptsStepAgain(v, secret, step, confirming) ==
  v # None /\ v.secret = secret /\ v.confirmed = ~confirming /\ v.last <= step

\* The WHERE of accept_totp_step.
AcceptsStep(v, secret, step, confirming) ==
  v # None /\ v.secret = secret /\ v.confirmed = ~confirming /\ v.last < step

Accepted(v, step) == [v EXCEPT !.last = step, !.confirmed = TRUE]

\* A code of another secret proves nothing: no row is looked for.
RejectCode(r) ==
  /\ pc[r] = "c_judge"
  /\ mine[r].attempts > MaxCodeFailures \/ mine[r].code.secret # mine[r].read
  /\ Goto(r, "c_commit")
  /\ UNCHANGED <<storage, mine, wrong, told>>

\* accept_code: one UPDATE compares and records, after it waited for the row.
AcceptCode(r) ==
  LET accepted == AcceptsStep(cur["totp"], mine[r].read, mine[r].code.step, FALSE) IN
  /\ pc[r] = "c_judge"
  /\ mine[r].attempts <= MaxCodeFailures /\ mine[r].code.secret = mine[r].read
  /\ MayWrite(r, "totp")
  /\ IF accepted
     THEN WriteRow(r, "totp", Accepted(cur["totp"], mine[r].code.step))
     ELSE UNCHANGED storage
  /\ mine' = [mine EXCEPT ![r].good = accepted]
  /\ Goto(r, IF accepted THEN "c_clear" ELSE "c_commit")
  /\ UNCHANGED <<wrong, told>>

ClearAttempts(r) == Writes(r, "c_clear", "c_commit", Row("attempts", None))

\* The code that suspends the others is told in the chain.
IsSuspension(q) == ~q.good /\ q.attempts = MaxCodeFailures

\* The unit of work of a code commits, accepted or not.
CommitCode(r) ==
  LET q == mine[r] IN
  /\ pc[r] = "c_commit"
  /\ Commit(r)
  /\ Goto(r, IF q.good THEN "open" ELSE "refused")
  /\ wrong' = IF q.good THEN 0 ELSE IF q.attempts <= MaxCodeFailures THEN wrong + 1 ELSE wrong
  /\ told' = IF q.good THEN FALSE ELSE told \/ IsSuspension(q)
  /\ mine' = mine

\* verify_key: the answer of a key, with the counter it moved to.
BeginKey(r, k, n) ==
  /\ pc[r] = "idle" /\ "key" \in Operations[r]
  /\ Reads(r, "k_read", [mine[r] EXCEPT !.op = "key", !.key = k, !.counter = n])

\* finish_proof: the key is held, and its counter went on, or it has none.
Proves(v, n) == v # None /\ (n > v.counter \/ (n = 0 /\ v.counter = 0))

\* An answer that proves nothing, or a copy suspected: refused, and counted
\* under the name.
JudgeAnswer(r) ==
  LET v == Sees(r, mine[r].key) IN
  /\ pc[r] = "k_read"
  /\ IF Proves(v, mine[r].counter)
     THEN Reads(r, "k_record", [mine[r] EXCEPT !.read = v])
     ELSE Refuse(r)

\* The WHERE of record_key_use: the record and the last use as they were read,
\* whichever enrollment the row is of.
IsAsRead(v, read) == v # None /\ v.counter = read.counter /\ v.used = read.used

\* record_key_use: one UPDATE of the key as it was read, and of no other.  What
\* is remembered is the row it changed.
RecordKeyUse(r) ==
  LET v == cur[mine[r].key] IN
  /\ pc[r] = "k_record"
  /\ MayWrite(r, mine[r].key)
  /\ IF IsAsRead(v, mine[r].read)
     THEN /\ WriteRow(r, mine[r].key, [v EXCEPT !.counter = mine[r].counter, !.used = r])
          /\ Goto(r, "k_clear")
          /\ mine' = [mine EXCEPT ![r].good = TRUE, ![r].read = v]
          /\ UNCHANGED <<wrong, told>>
     ELSE Refuse(r)

\* clear_code_attempts_below: a proven key forgets the codes got wrong short
\* of a suspension.
ClearAttemptsBelow(r) ==
  Writes(r, "k_clear", "k_commit",
         [x \in {y \in {"attempts"} : com[y] # None /\ com[y] < MaxCodeFailures} |-> None])

CommitKey(r) == Commits(r, "k_commit", "open")

-----------------------------------------------------------------------------
(* Setting up an application.                                              *)

\* require_signed_in_person: the ticket of a session that is active.
BeginSignedIn(r, op, s) ==
  /\ pc[r] = "idle" /\ op \in Operations[r] /\ s # r
  /\ IsActive(r, s)
  /\ Reads(r, op, [mine[r] EXCEPT !.op = op, !.session = s])

\* begin_totp_enrollment: what the person holds was read with the session.
BeginTotpEnrollment(r, s) ==
  /\ pc[r] = "idle" /\ "begin_totp" \in Operations[r] /\ s # r
  /\ IsActive(r, s)
  /\ ~RefusesUnproven(r, s)
  /\ Reads(r, "begin_totp", [mine[r] EXCEPT !.op = "begin_totp", !.session = s])

\* write_pending_totp: over a confirmed application it writes nothing.
WritePendingTotp(r) ==
  /\ pc[r] = "begin_totp"
  /\ MayWrite(r, "totp")
  /\ IF cur["totp"] # None /\ cur["totp"].confirmed
     THEN Refuse(r)
     ELSE Writes(r, "begin_totp", "t_commit",
                 Row("totp", [secret |-> r, confirmed |-> FALSE, last |-> -1]))

CommitPendingTotp(r) == Commits(r, "t_commit", "done")

\* confirm_totp_enrollment, after the password: the pending secret is read.
ReadPendingTotp(r, step) ==
  /\ pc[r] = "confirm_totp"
  /\ IF Sees(r, "totp") = None \/ IsEnrolled(r)
     THEN Refuse(r)
     ELSE Reads(r, "f_check", [mine[r] EXCEPT !.read = Sees(r, "totp").secret,
                               !.code = [secret |-> Sees(r, "totp").secret, step |-> step]])

\* require_factor_proof: what the person holds is read again, with no lock.
RequireFactorProof(r, from, to) ==
  /\ pc[r] = from
  /\ IF RefusesUnproven(r, mine[r].session) THEN Refuse(r) ELSE Reads(r, to, mine[r])

CheckConfirm(r) == RequireFactorProof(r, "f_check", "f_accept")

AcceptConfirmation(r) ==
  /\ pc[r] = "f_accept"
  /\ MayWrite(r, "totp")
  /\ IF AcceptsStep(cur["totp"], mine[r].read, mine[r].code.step, TRUE)
     THEN Writes(r, "f_accept", "f_clear", Row("totp", Accepted(cur["totp"], mine[r].code.step)))
     ELSE Refuse(r)

ClearAtConfirmation(r) == Writes(r, "f_clear", "f_close", AttemptsCleared)

\* Mutant: the sessions the password alone opened are left as they are.
ClosedNone(r) == {}

\* The sessions end_sessions_proven_only_by ends: active, of the password
\* alone, and not the one kept.  Their refresh tokens, revoked along with them,
\* are not modelled here.
ClosedSessions(r) ==
  {s \in AllSessions \ {mine[r].session} : com[s] # None /\ com[s].active /\ ~com[s].proven}

CloseSessionsWithoutFactor(r, from, to) ==
  Writes(r, from, to, [s \in ClosedSessions(r) |-> [cur[s] EXCEPT !.active = FALSE]])

CloseAtConfirmation(r) == CloseSessionsWithoutFactor(r, "f_close", "f_commit")
CommitConfirmation(r) == Commits(r, "f_commit", "enrolled")

-----------------------------------------------------------------------------
(* Setting up a key.                                                       *)

\* begin_key_enrollment, after the password.
CheckBeginKey(r) == RequireFactorProof(r, "begin_key", "g_write")
RefuseOneMoreKey(r) ==
  pc[r] = "g_write" /\ Cardinality(ListSecurityKeys(r)) >= MaxSecurityKeys /\ Refuse(r)
WriteKeyEnrollment(r) ==
  /\ Cardinality(ListSecurityKeys(r)) < MaxSecurityKeys
  /\ Writes(r, "g_write", "g_commit", Row("started", r))
CommitBeginKey(r) == Commits(r, "g_commit", "done")

\* finish_key_enrollment: take_key_enrollment removes what was started, and
\* commits before the answer is judged.
TakeKeyEnrollment(r) ==
  /\ pc[r] = "finish_key"
  /\ MayWrite(r, "started")
  /\ IF cur["started"] = None
     THEN Refuse(r)
     ELSE /\ WriteRow(r, "started", None)
          /\ mine' = [mine EXCEPT ![r].read = cur["started"]]
          /\ Goto(r, "n_spent")
          /\ UNCHANGED <<wrong, told>>
CommitSpent(r) == Commits(r, "n_spent", "n_check")
CheckFinishKey(r) == RequireFactorProof(r, "n_check", "n_insert")

\* The key the browser answered with: a credential enrolled already writes
\* nothing.
InsertSecurityKey(r, k) ==
  /\ pc[r] = "n_insert"
  /\ MayWrite(r, k)
  /\ IF cur[k] # None
     THEN Refuse(r)
     ELSE /\ WriteRow(r, k, [counter |-> 0, used |-> None, since |-> r])
          /\ Goto(r, "n_close")
          /\ mine' = [mine EXCEPT ![r].key = k]
          /\ UNCHANGED <<wrong, told>>
CloseAtKey(r) == CloseSessionsWithoutFactor(r, "n_close", "n_commit")
CommitFinishKey(r) == Commits(r, "n_commit", "enrolled")

-----------------------------------------------------------------------------
(* An administrator.                                                       *)

BeginAdmin(r, op) ==
  pc[r] = "idle" /\ op \in Operations[r] /\ Reads(r, op, [mine[r] EXCEPT !.op = op])

RemoveTotp(r) ==
  \/ pc[r] = "remove_totp" /\ com["totp"] = None /\ Refuse(r)
  \/ com["totp"] # None /\ Writes(r, "remove_totp", "m_clear", Row("totp", None))
ClearAtRemoval(r) == Writes(r, "m_clear", "m_commit", AttemptsCleared)
RemoveSecurityKeys(r) ==
  \/ pc[r] = "remove_keys" /\ (\A k \in Keys : com[k] = None) /\ Refuse(r)
  \/ /\ \E k \in Keys : com[k] # None
     /\ Writes(r, "remove_keys", "m_commit", [k \in {k \in Keys : com[k] # None} |-> None])
ResumeCodes(r) == Writes(r, "resume_codes", "m_commit", AttemptsCleared)
CommitAdmin(r) == Commits(r, "m_commit", "done")

-----------------------------------------------------------------------------
(* The system.                                                             *)

IsOver(r) == pc[r] \in {"idle", "refused", "owed", "done", "enrolled"}

\* A call is dropped anywhere.
Fail(r) == ~IsOver(r) /\ Refuse(r)

Begin(r) ==
  \/ BeginSignIn(r)
  \/ \E c \in Code : BeginCode(r, c)
  \/ \E k \in Keys, n \in Counters : BeginKey(r, k, n)
  \/ \E s \in AllSessions : \/ BeginTotpEnrollment(r, s)
                            \/ \E op \in {"confirm_totp", "begin_key", "finish_key"} :
                                 BeginSignedIn(r, op, s)
  \/ \E op \in {"remove_totp", "remove_keys", "resume_codes"} : BeginAdmin(r, op)

Advance(r) ==
  \/ ReadOwedCode(r) \/ ReadOwedKey(r) \/ OpenSession(r)
  \/ RefuseLocked(r) \/ ReadTotp(r) \/ CountCodeAttempt(r) \/ RejectCode(r) \/ AcceptCode(r)
  \/ ClearAttempts(r) \/ CommitCode(r)
  \/ JudgeAnswer(r) \/ RecordKeyUse(r) \/ ClearAttemptsBelow(r) \/ CommitKey(r)
  \/ WritePendingTotp(r) \/ CommitPendingTotp(r)
  \/ (\E step \in Steps : ReadPendingTotp(r, step)) \/ CheckConfirm(r) \/ AcceptConfirmation(r)
  \/ ClearAtConfirmation(r) \/ CloseAtConfirmation(r) \/ CommitConfirmation(r)
  \/ CheckBeginKey(r) \/ RefuseOneMoreKey(r) \/ WriteKeyEnrollment(r) \/ CommitBeginKey(r)
  \/ TakeKeyEnrollment(r) \/ CommitSpent(r) \/ CheckFinishKey(r)
  \/ (\E k \in Keys : InsertSecurityKey(r, k)) \/ CloseAtKey(r) \/ CommitFinishKey(r)
  \/ RemoveTotp(r) \/ ClearAtRemoval(r) \/ RemoveSecurityKeys(r) \/ ResumeCodes(r) \/ CommitAdmin(r)

Next == \E r \in Requests : Begin(r) \/ Advance(r) \/ Fail(r)

Spec == Init /\ [][Next]_vars

-----------------------------------------------------------------------------
(* Properties.                                                             *)

\* The requests a code, or the answer of a key, was believed for.
Believed == {r \in Requests : pc[r] \in {"open", "done", "enrolled"}}

\* A code serves once: of requests that run beside each other with one code,
\* to sign in or to confirm the application, one is believed.
NoCodeTwice ==
  \A r, v \in Believed :
    r # v /\ {mine[r].op, mine[v].op} \subseteq {"code", "confirm_totp"} => mine[r].code # mine[v].code

\* No code is accepted for a secret that was replaced or removed since the
\* request read it: what it commits is the secret it was judged against.
AcceptedForKeptSecret ==
  \A r \in Requests :
    pc[r] \in {"c_clear", "c_commit"} /\ mine[r].good =>
      cur["totp"] # None /\ cur["totp"].secret = mine[r].code.secret

\* However many codes are tried at once, no more wrong ones in a row are
\* judged than a person may get wrong.
SuspensionHolds == wrong <= MaxCodeFailures

\* Codes that are suspended are told suspended in the chain, by whichever
\* request brought the count there.
SuspensionIsTold == com["attempts"] # None /\ com["attempts"] >= MaxCodeFailures => told

\* No code and no key of the person lifts a suspension: an administrator
\* does, or an application set up anew.
SuspensionIsLiftedByOthers ==
  [][com["attempts"] # None /\ com["attempts"] >= MaxCodeFailures /\ com'["attempts"] # com["attempts"]
     => \/ com'["attempts"] # None /\ com'["attempts"] > com["attempts"]
        \/ \E r \in Requests : /\ mine[r].op \in {"resume_codes", "remove_totp", "confirm_totp"}
                               /\ pc[r] # pc'[r]]_vars

\* Two answers judged against one use of a key are not both believed, nor are
\* two of one counter: a copy of a key and the key itself do not both sign in
\* with it, as long as the key is not taken away and set up again.  Of a key
\* that counts nothing only the first holds.
NoProofTwice ==
  \A r, v \in Believed :
    r # v /\ mine[r].op = "key" /\ mine[v].op = "key" /\ mine[r].key = mine[v].key =>
      /\ mine[r].read # mine[v].read
      /\ mine[r].read.since = mine[v].read.since =>
           mine[r].counter # mine[v].counter \/ mine[r].counter = 0

\* What was started enrolls one key, whoever answers it how many times.
OneKeyPerStart ==
  \A r, v \in Requests :
    r # v /\ pc[r] = "enrolled" /\ pc[v] = "enrolled"
    /\ mine[r].op = "finish_key" /\ mine[v].op = "finish_key" => mine[r].read # mine[v].read

\* An enrollment ends every session the password alone opened before it but
\* the one it came from, even when two enrollments end each other's.
UnprovenSessionsEnd ==
  \A r \in Requests, s \in Sessions :
    pc[r] = "enrolled" /\ s # mine[r].session => com[s].proven \/ ~com[s].active

\* Whatever proves a person serves once: a code, and for the secret it was
\* judged against; the answer of a key that counts; the start of an enrollment.
ServesOnce == NoCodeTwice /\ AcceptedForKeptSecret /\ NoProofTwice /\ OneKeyPerStart

\* A suspension comes in time, is told, and is not lifted by who is suspended.
SuspensionStands == [](SuspensionHolds /\ SuspensionIsTold) /\ SuspensionIsLiftedByOthers
=============================================================================
