-------------------------------- MODULE Brake --------------------------------
(***************************************************************************)
(* The brake on guesses (login/throttle.rs): counters in buckets of time,  *)
(* kept per realm in login_failures, read before a password is hashed and  *)
(* written after it failed; the browsers a person signed in from, which    *)
(* are counted apart (login/device.rs); the unlock of a name by an         *)
(* administrator (login/unlock.rs); and the counter of the sign-ins left   *)
(* waiting.                                                                *)
(*                                                                         *)
(* An attempt is a call of verify_password and, when the password is       *)
(* right, of open_session_for.  Its statements are its steps.  It stamps   *)
(* itself once, when it begins, and reads and writes the buckets of that   *)
(* stamp however late it gets to them.  Persons owe no second factor here. *)
(* An attempt may be dropped between any two steps: its caller hung up, a  *)
(* statement failed, the node stopped.                                     *)
(***************************************************************************)
EXTENDS UnitOfWork, Integers, FiniteSets, FiniteSetsExt, Sequences

CONSTANTS Attempts,         \* the attempts served at once
          Administrators,   \* the calls that may unlock a name
          Names,            \* what is typed
          Person,           \* the person each name is of, or None
          Addresses,        \* what a caller is counted as; None when unknown
          Devices,          \* the browsers a realm may come to know
          BucketLength, LongBucketLength, LongWindowBuckets,  \* in instants
          CountersKept,     \* how long retention keeps a bucket
          MarkLifetime,     \* how long a browser stays known
          MaxRecentFailures, MaxRecentFailuresPerName, MaxDailyFailures,
          MaxDailyFailuresPerBrowser, MaxRecentAttempts, MaxPendingSignIns,
          MostBrowsersPerPerson,
          Operations,       \* what the attempts do: sign in, or ask to
          Guesses,          \* whether the password typed is right: TRUE, FALSE
          LastInstant,      \* bound on the clock
          MaxBegun          \* bound on the attempts that ever begin

ASSUME BrakeAssumption ==
  /\ {BucketLength, LongBucketLength, LongWindowBuckets} \subseteq Nat \ {0}
  /\ {CountersKept, MarkLifetime, LastInstant, MaxBegun} \subseteq Nat
  /\ DOMAIN Person = Names
  /\ Guesses \subseteq BOOLEAN
  /\ Operations \subseteq {"sign_in", "wait"}

VARIABLES now,      \* the clock of the node
          pc,       \* the next step of each call
          call,     \* what each call carries
          todo,     \* the counters a call still writes, or forgets
          begun,    \* how many attempts began
          judged    \* what callers were given, by the counter it belongs to:
                    \* hashes, refusals of a wrong guess, sign-ins left waiting

-----------------------------------------------------------------------------
(* Counters and buckets.                                                   *)

\* A counter is a kind, the name it counts and where it counts from.
Counters ==
  {<<"address", None, a>> : a \in Addresses} \cup
  {<<"both", n, a>> : n \in Names, a \in Addresses} \cup
  {<<k, n, None>> : k \in {"name", "name_today"}, n \in Names} \cup
  {<<"attempts", None, d>> : d \in Devices} \cup
  {<<k, n, d>> : k \in {"recent", "today"}, n \in Names, d \in Devices} \cup
  {<<"waiting", None, x>> : x \in Addresses \cup Devices}

IsLong(c) == c[1] \in {"name_today", "today"}
Length(c) == IF IsLong(c) THEN LongBucketLength ELSE BucketLength

\* The bucket an instant falls in, by its rank.
StartBucket(c, t) == t \div Length(c)

\* The oldest bucket that counts at t: the one before, or a day of them.
StartWindow(c, t) ==
  StartBucket(c, t) - IF IsLong(c) THEN LongWindowBuckets - 1 ELSE 1

BucketsOf(c) == 0 .. StartBucket(c, LastInstant)
Buckets == UNION {{c} \X BucketsOf(c) : c \in Counters}

ASSUME RowsAssumption ==
  /\ Works = Attempts \cup Administrators
  /\ Rows = Buckets \cup Devices

CounterRows == Rows \ Devices

vars == <<storage, now, pc, call, todo, begun, judged>>

Failures(v) == IF v = None THEN 0 ELSE v

\* The failures of counter c a statement of w sums, from the bucket `since`.
CountLoginFailures(w, c, since) ==
  MapThenSumSet(LAMBDA b : Failures(Sees(w, <<c, b>>)), {b \in BucketsOf(c) : b >= since})

CountedAt(w, c) == CountLoginFailures(w, c, StartWindow(c, call[w].at))

\* The counters of an attempt that failed, in the order it records them.
FailureCounters(q) ==
  <<<<"name_today", q.name, None>>>> \o
  (IF q.browser # None
   THEN <<<<"recent", q.name, q.browser>>, <<"today", q.name, q.browser>>>>
   ELSE <<<<"name", q.name, None>>>> \o
        (IF q.address = None THEN <<>> ELSE <<<<"both", q.name, q.address>>>>))

\* The counter an attempt is admitted under, and its bound.
AttemptCounter(q) ==
  IF q.browser # None THEN <<"attempts", None, q.browser>> ELSE <<"address", None, q.address>>
WaitingCounter(q) ==
  <<"waiting", None, IF q.browser # None THEN q.browser ELSE q.address>>
AdmissionCounter(q) == IF q.op = "wait" THEN WaitingCounter(q) ELSE AttemptCounter(q)
IsUncounted(q) == q.browser = None /\ q.address = None
AdmissionBound(q) == IF q.op = "wait" THEN MaxPendingSignIns ELSE MaxRecentAttempts

\* Mutant: the guesses made on the name from elsewhere lock a known browser.
IsNameLockedForAll(w) ==
  \/ CountedAt(w, <<"name", call[w].name, None>>) >= MaxRecentFailuresPerName
  \/ CountedAt(w, <<"name_today", call[w].name, None>>) >= MaxDailyFailures

\* Mutant: what a day allows is read of nobody.
IsNameLockedOfLate(w) ==
  LET q == call[w] IN
  IF q.browser # None
  THEN CountedAt(w, <<"recent", q.name, q.browser>>) >= MaxRecentFailures
  ELSE LET name == CountedAt(w, <<"name", q.name, None>>) IN
       IF q.address = None
       THEN name >= MaxRecentFailures
       ELSE \/ CountedAt(w, <<"both", q.name, q.address>>) >= MaxRecentFailures
            \/ name >= MaxRecentFailuresPerName

\* Tells whether the name is locked for this attempt.
IsNameLocked(w) ==
  LET q == call[w] IN
  IF q.browser # None
  THEN \/ CountedAt(w, <<"recent", q.name, q.browser>>) >= MaxRecentFailures
       \/ CountedAt(w, <<"today", q.name, q.browser>>) >= MaxDailyFailuresPerBrowser
  ELSE LET name == CountedAt(w, <<"name", q.name, None>>) IN
       \/ IF q.address = None
          THEN name >= MaxRecentFailures
          ELSE \/ CountedAt(w, <<"both", q.name, q.address>>) >= MaxRecentFailures
               \/ name >= MaxRecentFailuresPerName
       \/ CountedAt(w, <<"name_today", q.name, None>>) >= MaxDailyFailures

-----------------------------------------------------------------------------
(* The steps of an attempt.                                                *)

\* Nobody is being served, nothing is counted, and these browsers are known.
StartsWith(known) ==
  /\ StorageInit([x \in Rows |-> IF x \in DOMAIN known THEN known[x] ELSE None])
  /\ now = 0
  /\ pc = [w \in Works |-> "out"]
  /\ call = [w \in Works |-> None]
  /\ todo = [w \in Works |-> <<>>]
  /\ begun = 0
  /\ judged = [x \in CounterRows |-> 0]

Init == StartsWith(<<>>)

Goto(w, step) == pc' = [pc EXCEPT ![w] = step]
GotoWith(w, step, counters) == Goto(w, step) /\ todo' = [todo EXCEPT ![w] = counters]

\* The call is answered: what it carried is gone with it.
Answered(w) ==
  /\ Goto(w, "out")
  /\ call' = [call EXCEPT ![w] = None]
  /\ todo' = [todo EXCEPT ![w] = <<>>]

\* The unit of work is dropped, and the call answered.
Refuse(w) == Answered(w) /\ Rollback(w) /\ UNCHANGED <<now, begun, judged>>

\* A name, a password and the marks of the cookie come from an address.  A
\* mark opens nothing: a device nobody was given is not kept, and finds
\* nothing.  The guess is right only for a name that is someone's.
Begin(w, op, n, a, marks, right) ==
  /\ pc[w] = "out" /\ begun < MaxBegun
  /\ begun' = begun + 1
  /\ Goto(w, "find")
  /\ call' = [call EXCEPT ![w] = [op |-> op, name |-> n, address |-> a, marks |-> marks,
                                  right |-> right, at |-> now, browser |-> None,
                                  locked |-> FALSE, doomed |-> {}]]
  /\ UNCHANGED <<storage, now, todo, judged>>

\* A browser that is kept for someone and not expired at `at`.
IsLiveBrowser(w, d, at) == Sees(w, d) # None /\ Sees(w, d).expires > at

\* The browsers that may be counted apart: of the very person to sign in, of
\* anyone to be left waiting, for no name is typed yet.
KnownBrowsers(w) ==
  LET q == call[w] IN
  {d \in q.marks : /\ IsLiveBrowser(w, d, q.at)
                   /\ q.op = "sign_in" => Sees(w, d).person = Person[q.name]}

FindKnownBrowser(w) ==
  /\ pc[w] = "find"
  /\ Goto(w, "admit")
  /\ \E d \in IF KnownBrowsers(w) = {} THEN {None} ELSE KnownBrowsers(w) :
       call' = [call EXCEPT ![w].browser = d]
  /\ UNCHANGED <<storage, now, todo, begun, judged>>

\* Where an admitted call goes on.
AfterAdmission(q) == IF q.op = "wait" THEN "wait" ELSE "lock"

\* The count is below its bound: the attempt is to be recorded.
Admit(w) ==
  LET q == call[w] IN
  /\ pc[w] = "admit" /\ ~IsUncounted(q)
  /\ CountedAt(w, AdmissionCounter(q)) < AdmissionBound(q)
  /\ GotoWith(w, "record", <<AdmissionCounter(q)>>)
  /\ UNCHANGED <<storage, now, call, begun, judged>>

\* An address unknown is not counted.
AdmitUncounted(w) ==
  /\ pc[w] = "admit" /\ IsUncounted(call[w])
  /\ Goto(w, AfterAdmission(call[w]))
  /\ UNCHANGED <<storage, now, call, todo, begun, judged>>

\* HashingBusy, or SignInRequestsTooFrequent.
RefuseAdmission(w) ==
  /\ pc[w] = "admit" /\ ~IsUncounted(call[w])
  /\ CountedAt(w, AdmissionCounter(call[w])) >= AdmissionBound(call[w])
  /\ Refuse(w)

RowToRecord(w) == <<Head(todo[w]), StartBucket(Head(todo[w]), call[w].at)>>

\* record_login_failure: one upsert adds to the bucket of the stamp, or opens
\* it, and holds its row until the unit of work ends.
RecordLoginFailure(w) ==
  LET x == RowToRecord(w) IN
  /\ pc[w] \in {"record", "fail"} /\ todo[w] # <<>>
  /\ WriteRow(w, x, Failures(cur[x]) + 1)
  /\ todo' = [todo EXCEPT ![w] = Tail(@)]
  /\ IF pc[w] = "record" THEN Goto(w, AfterAdmission(call[w])) ELSE pc' = pc
  /\ UNCHANGED <<now, call, begun, judged>>

\* The counters of the name are read, then the password of the person.
ReadLock(w) ==
  /\ pc[w] = "lock"
  /\ Goto(w, "close")
  /\ call' = [call EXCEPT ![w].locked = IsNameLocked(w)]
  /\ UNCHANGED <<storage, now, todo, begun, judged>>

\* The attempt is counted before anything is hashed; a locked name is
\* refused here.
CommitAdmission(w) ==
  /\ pc[w] = "close"
  /\ Commit(w)
  /\ IF call[w].locked THEN Answered(w) ELSE Goto(w, "hash") /\ UNCHANGED <<call, todo>>
  /\ UNCHANGED <<now, begun, judged>>

\* What is handed out under the counters C, in the bucket of the stamp.
Judge(w, C) ==
  judged' = [x \in CounterRows |->
               IF x[1] \in C /\ x[2] = StartBucket(x[1], call[w].at)
               THEN judged[x] + 1 ELSE judged[x]]

\* No transaction is held: the password is hashed, and is right or wrong.
HashPassword(w) ==
  LET q == call[w] IN
  /\ pc[w] = "hash"
  /\ Judge(w, {AttemptCounter(q)} \cap Counters)
  /\ IF q.right
     THEN GotoWith(w, "open", IF q.browser = None THEN <<>>
                              ELSE <<<<"recent", q.name, q.browser>>,
                                     <<"today", q.name, q.browser>>>>)
     ELSE GotoWith(w, "fail", FailureCounters(q))
  /\ UNCHANGED <<storage, now, call, begun>>

\* The failures that count against what locks this attempt: its own browser,
\* or everyone who is not a known browser.
StrangerCounters(q) ==
  {c \in Counters : \E i \in DOMAIN FailureCounters(q) : c = FailureCounters(q)[i]} \
    (IF q.browser # None THEN {<<"name_today", q.name, None>>} ELSE {})

\* The failure is counted, and only then told.
CommitFailure(w) ==
  /\ pc[w] = "fail" /\ todo[w] = <<>>
  /\ Commit(w)
  /\ Judge(w, StrangerCounters(call[w]))
  /\ Answered(w)
  /\ UNCHANGED <<now, begun>>

\* The rows a DELETE by digest removes: those committed when it runs.  It
\* waits for the ones another unit of work wrote.
RowsToForget(w) == {x \in CounterRows : x[1] = Head(todo[w]) /\ com[x] # None}

DeleteHeld(w, X) == WriteRows(w, [x \in X |-> None])

\* Mutant: a sign-in clears the name along with the browser.
ForgetNameToo(w) ==
  /\ pc[w] \in {"open", "unlock"} /\ todo[w] # <<>>
  /\ DeleteHeld(w, RowsToForget(w) \cup
                   {x \in CounterRows : x[1][1] = "name_today" /\ com[x] # None})
  /\ todo' = [todo EXCEPT ![w] = Tail(@)]
  /\ UNCHANGED <<now, pc, call, begun, judged>>

\* forget_login_failures, of the browser that proved the person, or of the
\* name an administrator unlocks.
ForgetLoginFailures(w) ==
  /\ pc[w] \in {"open", "unlock"} /\ todo[w] # <<>>
  /\ DeleteHeld(w, RowsToForget(w))
  /\ todo' = [todo EXCEPT ![w] = Tail(@)]
  /\ UNCHANGED <<now, pc, call, begun, judged>>

\* The browser keeps its device, or is given one nobody has.
DeviceGiven(w, d) ==
  IF call[w].browser # None THEN d = call[w].browser
  ELSE cur[d] = None /\ \A v \in Attempts \ {w} : pc[v] # "out" => d \notin call[v].marks

\* remember_browser, first statement: a browser kept for someone else keeps
\* its owner.
RememberBrowser(w) ==
  /\ pc[w] = "open" /\ todo[w] = <<>>
  /\ \E d \in Devices :
       /\ DeviceGiven(w, d)
       /\ IF cur[d] # None /\ cur[d].person # Person[call[w].name]
          THEN UNCHANGED storage
          ELSE WriteRow(w, d, [person |-> Person[call[w].name],
                               expires |-> now + MarkLifetime])
  /\ Goto(w, "evict")
  /\ UNCHANGED <<now, call, todo, begun, judged>>

\* remember_browser, second statement: past the latest few, none is kept.
\* Of two that expire together, which one is kept is not told apart.
EvictBrowsers(w) ==
  LET mine == {d \in Devices : Sees(w, d) # None /\ Sees(w, d).person = Person[call[w].name]}
  IN
  /\ pc[w] = "evict"
  /\ \E kept \in SUBSET mine :
       /\ Cardinality(kept) = IF Cardinality(mine) < MostBrowsersPerPerson
                              THEN Cardinality(mine) ELSE MostBrowsersPerPerson
       /\ \A d \in mine \ kept, k \in kept : Sees(w, k).expires >= Sees(w, d).expires
       /\ call' = [call EXCEPT ![w].doomed = mine \ kept]
  /\ Goto(w, "evicting")
  /\ UNCHANGED <<storage, now, todo, begun, judged>>

\* The same statement goes on: it waits for the rows another work wrote, and
\* deletes what it chose when it began, if it is still there.
DeleteEvicted(w) ==
  /\ pc[w] = "evicting"
  /\ \A d \in call[w].doomed : MayWrite(w, d)
  /\ DeleteHeld(w, {d \in call[w].doomed : cur[d] # None})
  /\ Goto(w, "opened")
  /\ UNCHANGED <<now, call, todo, begun, judged>>

\* The counters of the rows a work deletes count from nothing again.
Forgotten(w) ==
  judged' = [x \in CounterRows |-> IF writer[x] = w /\ cur[x] = None THEN 0 ELSE judged[x]]

\* The session is inserted with the event that tells it.
CommitSession(w) ==
  /\ pc[w] = "opened"
  /\ Commit(w)
  /\ Forgotten(w)
  /\ Answered(w)
  /\ UNCHANGED <<now, begun>>

\* The pending request is inserted in the work that counted it.
CommitWaiting(w) ==
  /\ pc[w] = "wait"
  /\ Commit(w)
  /\ Judge(w, {WaitingCounter(call[w])} \cap Counters)
  /\ Answered(w)
  /\ UNCHANGED <<now, begun>>

-----------------------------------------------------------------------------
(* An administrator gives a name back.                                     *)

BeginUnlock(w, n) ==
  /\ pc[w] = "out" /\ Person[n] # None /\ begun < MaxBegun
  /\ begun' = begun + 1
  /\ GotoWith(w, "unlock", <<<<"name", n, None>>, <<"name_today", n, None>>>>)
  /\ UNCHANGED <<storage, now, call, judged>>

CommitUnlock(w) ==
  /\ pc[w] = "unlock" /\ todo[w] = <<>>
  /\ Commit(w)
  /\ Forgotten(w)
  /\ Answered(w)
  /\ UNCHANGED <<now, begun>>

-----------------------------------------------------------------------------
(* Failures, time, retention.                                              *)

\* A call is dropped anywhere: nothing of its unit of work stays.
Fail(w) == pc[w] # "out" /\ Refuse(w)

Tick ==
  /\ now < LastInstant
  /\ now' = now + 1
  /\ UNCHANGED <<storage, pc, call, todo, begun, judged>>

\* A retention pass removes a bucket that no window reads.
PurgeCounter(x) ==
  /\ com[x] # None
  /\ x[2] * Length(x[1]) < now - CountersKept
  /\ DeleteRows({x})
  /\ UNCHANGED <<now, pc, call, todo, begun, judged>>

\* A retention pass removes a browser that expired.
PurgeBrowser(d) ==
  /\ com[d] # None /\ com[d].expires < now
  /\ DeleteRows({d})
  /\ UNCHANGED <<now, pc, call, todo, begun, judged>>

\* One step of a call that goes on.
Advance(w) ==
  \/ FindKnownBrowser(w) \/ Admit(w) \/ AdmitUncounted(w) \/ RefuseAdmission(w)
  \/ RecordLoginFailure(w) \/ ReadLock(w) \/ CommitAdmission(w) \/ HashPassword(w)
  \/ CommitFailure(w) \/ ForgetLoginFailures(w) \/ RememberBrowser(w) \/ EvictBrowsers(w)
  \/ DeleteEvicted(w) \/ CommitSession(w) \/ CommitWaiting(w) \/ CommitUnlock(w)

Next ==
  \/ \E w \in Attempts, op \in Operations, n \in Names, a \in Addresses \cup {None},
        marks \in SUBSET {d \in Devices : com[d] # None}, right \in Guesses :
       /\ right => Person[n] # None
       /\ Begin(w, op, n, a, marks, right)
  \/ \E w \in Administrators, n \in Names : BeginUnlock(w, n)
  \/ \E w \in Works : Advance(w) \/ Fail(w)
  \/ \E x \in CounterRows : PurgeCounter(x)
  \/ \E d \in Devices : PurgeBrowser(d)
  \/ Tick

Spec == Init /\ [][Next]_vars

-----------------------------------------------------------------------------
(* Properties.                                                             *)

\* What a window starting at bucket b hands out under counter c.
Given(c, b) ==
  MapThenSumSet(LAMBDA x : judged[<<c, x>>],
                {x \in BucketsOf(c) : b <= x /\ x <= b + IF IsLong(c) THEN LongWindowBuckets - 1 ELSE 1})

\* What w may know was handed out under c: a count has no end, and sees the
\* buckets that opened since its stamp.
GivenTo(w, c) ==
  MapThenSumSet(LAMBDA x : judged[<<c, x>>],
                {x \in BucketsOf(c) : x >= StartWindow(c, call[w].at)})

Bound(c) ==
  CASE c[1] = "both" -> MaxRecentFailures
    [] c[1] = "recent" -> MaxRecentFailures
    [] c[1] = "name" -> MaxRecentFailuresPerName
    [] c[1] = "name_today" -> MaxDailyFailures
    [] c[1] = "today" -> MaxDailyFailuresPerBrowser
    [] c[1] = "waiting" -> MaxPendingSignIns
    [] OTHER -> MaxRecentAttempts

\* Attempts that read a count together may all pass it, and no more than
\* those: in any window, whatever its place against the buckets, nobody is
\* given more hashes, told more wrong guesses or left more requests than the
\* bound, and one for every other attempt served at once.
GuessesAreBounded ==
  \A x \in CounterRows : judged[x] > 0 =>
    Given(x[1], x[2]) <= Bound(x[1]) + Cardinality(Attempts) - 1

\* Nothing is handed out that is not counted: every hash, every wrong guess
\* told and every request left waiting stands in its bucket as long as a
\* window reads it, however many write that bucket at once.
GivenIsCounted ==
  \A x \in CounterRows :
    judged[x] > 0 /\ x[2] >= StartWindow(x[1], now) => judged[x] <= Failures(com[x])

\* Nobody gives guesses back but an administrator: in the window, no sign-in
\* and no purge lowers what a name or an address is counted for.
GivesNoGuessBack ==
  \A x \in CounterRows :
    /\ x[1][1] \in {"name", "name_today", "both", "address"}
    /\ Failures(com'[x]) < Failures(com[x])
    /\ x[2] >= StartWindow(x[1], now)
    => /\ x[1][1] \in {"name", "name_today"}
       /\ \E w \in Administrators : pc[w] = "unlock" /\ pc'[w] = "out"

\* A browser the person signed in from is locked out by nothing but its own
\* failures since it last proved the person, whoever guesses from elsewhere.
LocksForItsOwn ==
  \A w \in Attempts :
    /\ pc[w] = "lock" /\ pc'[w] = "close" /\ call'[w].locked
    /\ call[w].browser # None
    => \E k \in {"recent", "today"} :
         LET c == <<k, call[w].name, call[w].browser>> IN GivenTo(w, c) >= Bound(c)

\* Each sign-in evicts past the bound what it sees: those that open together
\* may leave one browser more each, never a list that grows.
BrowsersAreBounded ==
  \A p \in {Person[n] : n \in Names} \ {None} :
    Cardinality({d \in Devices : com[d] # None /\ com[d].person = p})
      <= MostBrowsersPerPerson + Cardinality(Attempts) - 1

\* What is bounded stays bounded, guesses and browsers, whoever comes together,
\* and what was handed out is counted.
BoundsHold == GuessesAreBounded /\ GivenIsCounted /\ BrowsersAreBounded
=============================================================================
