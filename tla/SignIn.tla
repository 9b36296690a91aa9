------------------------------- MODULE SignIn -------------------------------
(***************************************************************************)
(* The authorization endpoint and the pages it leaves waiting              *)
(* (oidc/authorize.rs, consent/answer.rs, stores/codes.rs): a request of a *)
(* client is answered from the session of the browser, or waits until a    *)
(* person signs in on its page and, where they owe it, allows the client.  *)
(*                                                                         *)
(* There is one client.  A call is served once; what it makes is named by  *)
(* it: the request a call of Begins leaves waiting, the session a call of  *)
(* SignIns opens.  The proofs of a person are one step each: what happens  *)
(* inside is the business of Brake and SecondFactor.                       *)
(***************************************************************************)
EXTENDS UnitOfWork, FiniteSets

CONSTANTS Begins, SignIns, Answers,  \* the calls, by what they call
          People,
          Holds,      \* what each person owes after their password
          Sessions,   \* sessions opened before, by their person
          Asks,       \* what the client may ask in each call of Begins: scopes, what
                      \* prompt and max_age ask, and the person a hint names, or None
          Clients,    \* what the client may be when the behaviour starts
          Kept,       \* what each person allowed it by then, or None
          Meanwhile   \* what else happens, of "fail", "expire", "end",
                      \* "withdraw" and "change"

ASSUME SignInAssumption ==
  /\ Begins \cap SignIns = {} /\ Begins \cap Answers = {} /\ SignIns \cap Answers = {}
  /\ Holds \in [People -> SUBSET {"code", "key"}]
  /\ \A s \in DOMAIN Sessions : Sessions[s] \in People
  /\ DOMAIN Asks = Begins
  \* read_proof_asked refuses none beside another prompt.
  /\ \A c \in Begins : \A a \in Asks[c] :
       /\ a.hint \in People \cup {None}
       /\ a.proof \in [fresh : BOOLEAN, silent : BOOLEAN, consent : BOOLEAN]
       /\ a.proof.silent => ~a.proof.fresh /\ ~a.proof.consent

Calls == Begins \cup SignIns \cup Answers
AllSessions == DOMAIN Sessions \cup SignIns

\* What the rows of a request, a session and the client hold.
AskedScopes == {{}} \cup UNION {{a.scopes : a \in Asks[c]} : c \in Begins}
Proof == [fresh : BOOLEAN, silent : BOOLEAN, consent : BOOLEAN]
RequestRow == [scopes : AskedScopes, proof : Proof \cup {None}, hint : People \cup {None},
               first : People \cup {None}, key : People \cup {None},
               waitsIn : AllSessions \cup {None}]
SessionRow == [person : People, active : BOOLEAN, page : Begins \cup {None}]
ClientRow == [enabled : BOOLEAN, requires : BOOLEAN]

\* Each table has keys of its own.
ASSUME RowsAssumption ==
  /\ Works = Calls
  /\ Rows = Begins \cup AllSessions \cup People \cup {"client"}
  /\ Begins \cap AllSessions = {} /\ Begins \cap People = {} /\ AllSessions \cap People = {}
  /\ "client" \notin Begins \cup AllSessions \cup People
  /\ DOMAIN Sessions \cap SignIns = {}
  /\ Clients \subseteq ClientRow
  /\ None \notin Rows
  /\ None \notin RequestRow /\ None \notin SessionRow /\ None \notin ClientRow

VARIABLES pc,       \* the next step of each call
          mine,     \* what each call was asked, read and holds
          expired,  \* the requests that waited too long
          sent,     \* what clients were sent
          proved,   \* the passwords proven, each for a request
          since     \* what was allowed at any time since each call began

vars == <<storage, pc, mine, expired, sent, proved, since>>

Nothing == [page |-> None, proof |-> None, hint |-> None, scopes |-> {}, ticket |-> None,
            person |-> None, read |-> None, way |-> "none", required |-> FALSE]

Init ==
  /\ \E client \in Clients :
       StorageInit([x \in Rows |->
         CASE x = "client" -> client
           [] x \in People -> Kept[x]
           [] x \in DOMAIN Sessions -> [person |-> Sessions[x], active |-> TRUE, page |-> None]
           [] OTHER -> None])
  /\ pc = [c \in Calls |-> "idle"]
  /\ mine = [c \in Calls |-> Nothing]
  /\ expired = {}
  /\ sent = {}
  /\ proved = {}
  /\ since = [c \in Calls |-> {}]

-----------------------------------------------------------------------------
(* What a statement reads.                                                 *)

\* What the committed consents allow now.
Allowed == UNION {{<<p, s>> : s \in com[p]} : p \in {q \in People : com[q] # None}}

Serves(row) == row # None /\ row.enabled
Requires == com["client"] # None /\ com["client"].requires

\* read_pending_authorization, and the filter of every statement on a request.
IsWaiting(c, p) == Sees(c, p) # None /\ p \notin expired

IsActive(c, s) == Sees(c, s) # None /\ Sees(c, s).active

\* Mutant: a client that was allowed anything is asked nothing more.
ConsentOwedAtFirst(requires, kept, prompted, asked) == prompted \/ (requires /\ kept = None)

\* is_consent_owed
ConsentOwed(requires, kept, prompted, asked) ==
  prompted \/ (requires /\ (kept = None \/ ~(asked \subseteq kept)))

-----------------------------------------------------------------------------
(* Steps shared by the calls.                                              *)

Goto(c, to) == pc' = [pc EXCEPT ![c] = to]

Reads(c, from, to, ask) ==
  /\ pc[c] = from
  /\ Goto(c, to)
  /\ mine' = [mine EXCEPT ![c] = ask]
  /\ UNCHANGED <<storage, expired, sent, proved, since>>

Writes(c, from, to, x, v) ==
  /\ pc[c] = from
  /\ WriteRow(c, x, v)
  /\ Goto(c, to)
  /\ UNCHANGED <<expired, sent, proved, since>>

\* The unit of work is dropped and the call ends.
Drops(c, to) ==
  /\ Rollback(c)
  /\ Goto(c, to)
  /\ mine' = [mine EXCEPT ![c] = Nothing]
  /\ UNCHANGED <<expired, sent, proved, since>>

Commits(c, from, to) ==
  /\ pc[c] = from
  /\ Commit(c)
  /\ Goto(c, to)
  /\ UNCHANGED <<mine, expired, sent, proved, since>>

\* A call that begins, and what was allowed and required at that time.
Starts(c, to, ask) ==
  /\ pc[c] = "idle"
  /\ Goto(c, to)
  /\ mine' = [mine EXCEPT ![c] = [ask EXCEPT !.required = Requires]]
  /\ since' = [since EXCEPT ![c] = Allowed]
  /\ UNCHANGED <<expired, sent, proved>>

\* What the client of a request is sent when the call commits.
Sends(c, page, kind, session, asked) ==
  sent' = sent \cup {[by |-> c, page |-> page, kind |-> kind, session |-> session,
                      person |-> IF session = None THEN None ELSE Sees(c, session).person,
                      scopes |-> asked.scopes, hint |-> asked.hint, proof |-> asked.proof,
                      required |-> mine[c].required]}

-----------------------------------------------------------------------------
(* begin_authorization.                                                    *)

\* The sessions a browser may come back with.
Tickets == {s \in AllSessions : com[s] # None}

\* trust_request: the client is read first, and what it asks is checked
\* against it.
BeginAuthorization(c) ==
  /\ pc[c] = "idle"
  /\ \E a \in Asks[c], ticket \in Tickets \cup {None} :
       Starts(c, IF Serves(com["client"]) THEN "find" ELSE "refused",
              [Nothing EXCEPT !.scopes = a.scopes, !.proof = a.proof, !.hint = a.hint,
                              !.ticket = ticket, !.read = com["client"]])
  /\ UNCHANGED storage

\* find_answering_session, max_age and hold_session_to_hint: whether the
\* session of the browser answers for its person.
SessionAnswers(c) ==
  LET asks == mine[c] IN
    /\ ~asks.proof.fresh
    /\ asks.ticket # None /\ IsActive(c, asks.ticket)
    /\ asks.hint # None => com[asks.ticket].person = asks.hint

FindSession(c) ==
  LET answering == IF SessionAnswers(c) THEN mine[c].ticket ELSE None IN
    Reads(c, "find",
          IF answering # None THEN "judge"
          ELSE IF mine[c].proof.silent THEN "told" ELSE "keep",
          [mine[c] EXCEPT !.ticket = answering])

\* is_consent_owed_by: the consent is read now, the client was read before.
JudgeConsent(c) ==
  LET owner == com[mine[c].ticket].person
      owed == ConsentOwed(mine[c].read.requires, com[owner], mine[c].proof.consent,
                          mine[c].scopes)
  IN Reads(c, "judge",
           IF ~owed THEN "grant" ELSE IF mine[c].proof.silent THEN "told" ELSE "keep",
           mine[c])

\* leave_request_waiting, admitted: the request waits for a sign-in, or in the
\* session of the browser for a consent.
KeepPendingAuthorization(c) ==
  /\ pc[c] = "keep"
  /\ InsertAndCommit(c, c,
       [scopes |-> mine[c].scopes, proof |-> mine[c].proof, hint |-> mine[c].hint,
        first |-> None, key |-> None, waitsIn |-> mine[c].ticket])
  /\ Goto(c, "waiting")
  /\ UNCHANGED <<mine, expired, sent, proved, since>>

\* admit_pending_sign_in refused it.
RefusePending(c) == pc[c] = "keep" /\ Drops(c, "refused")

\* The session of the browser gives the code.
IssueFromSession(c) ==
  /\ pc[c] = "grant"
  /\ Commit(c)
  /\ Goto(c, "told")
  /\ Sends(c, None, "code", mine[c].ticket, mine[c])
  /\ UNCHANGED <<mine, expired, proved, since>>

-----------------------------------------------------------------------------
(* finish_sign_in: one form of the page of a request.                      *)

\* The request is read in a unit of work of its own.  Another browser, a
\* request gone or expired: all are answered alike.
ReadPending(c) ==
  /\ pc[c] = "idle" /\ c \in SignIns
  /\ \E page \in Begins, same \in BOOLEAN, way \in {"password", "code", "key"} :
       IF same /\ IsWaiting(c, page)
       THEN Starts(c, "prove", [Nothing EXCEPT !.page = page, !.way = way, !.read = com[page]])
       ELSE Starts(c, "expired", Nothing)
  /\ UNCHANGED storage

\* open_session, in its own unit of work.
Opens(c, p) ==
  /\ InsertAndCommit(c, c, [person |-> p, active |-> TRUE, page |-> mine[c].page])
  /\ Goto(c, "terms")
  /\ mine' = [mine EXCEPT ![c].person = p]

\* sign_in_with_password: a session, or the second factor the person owes.
ProvePassword(c) ==
  \E p \in People :
    /\ pc[c] = "prove" /\ mine[c].way = "password"
    /\ proved' = proved \cup {<<mine[c].page, p>>}
    /\ \/ Holds[p] = {} /\ Opens(c, p)
       \/ /\ Holds[p] # {}
          /\ Goto(c, "mark")
          /\ mine' = [mine EXCEPT ![c].person = p]
          /\ UNCHANGED storage
    /\ UNCHANGED <<expired, sent, since>>

\* finish_sign_in_with_code and finish_sign_in_with_key, for the person the
\* request waited for when it was read.
ProveFactor(c) ==
  LET p == mine[c].read.first IN
    /\ pc[c] = "prove" /\ p # None
    /\ mine[c].way \in Holds[p]
    /\ mine[c].way = "key" => mine[c].read.key = p
    /\ Opens(c, p)
    /\ UNCHANGED <<expired, sent, proved, since>>

\* A wrong answer leaves the request waiting; a code before any password, or
\* a key without a proof that was started, is answered as expired.
RefuseProof(c) ==
  /\ pc[c] = "prove"
  /\ Drops(c, IF \/ mine[c].way # "password" /\ mine[c].read.first = None
                 \/ mine[c].way = "key" /\ mine[c].read.key = None
              THEN "expired" ELSE "refused")

\* mark_first_factor: whoever proved a password last is asked what they owe.
MarkFirstFactor(c) ==
  LET page == mine[c].page
      p == mine[c].person
  IN /\ pc[c] = "mark"
     /\ \/ /\ IsWaiting(c, page)
           /\ Writes(c, "mark", "marked", page,
                     [cur[page] EXCEPT !.first = p,
                                       !.key = IF "key" \in Holds[p] THEN p ELSE None])
           /\ mine' = mine
        \/ MayWrite(c, page) /\ ~IsWaiting(c, page) /\ Drops(c, "expired")

CommitMark(c) == Commits(c, "marked", "asked")

HintedAtAnother(c, page) == page.hint # None /\ page.hint # mine[c].person

\* is_consent_owed_after_sign_in, of the request as it was first read: one
\* statement reads the client and the consent.
OwedAfterSignIn(c) ==
  LET asks == mine[c].read IN
    \/ asks.proof.consent
    \/ com["client"] = None
    \/ ConsentOwed(com["client"].requires, com[mine[c].person], FALSE, asks.scopes)

ReadTerms(c) ==
  Reads(c, "terms",
        IF ~HintedAtAnother(c, mine[c].read) /\ OwedAfterSignIn(c) THEN "owe" ELSE "take",
        mine[c])

\* mark_consent_owed: once, while the request waits in no session.
MarkConsentOwed(c) ==
  LET page == mine[c].page
      free == IsWaiting(c, page) /\ Sees(c, page).waitsIn = None
  IN /\ pc[c] = "owe" /\ MayWrite(c, page)
     /\ \/ free /\ Writes(c, "owe", "owing", page, [cur[page] EXCEPT !.waitsIn = c]) /\ mine' = mine
        \/ ~free /\ Reads(c, "owe", "orphan", mine[c])

CommitOwed(c) == Commits(c, "owing", "consent")

\* Mutant: the request is read, and removed only when the code is issued.
TakeRead(c, from, to, lost) ==
  LET page == mine[c].page IN
    /\ pc[c] = from
    /\ IF IsWaiting(c, page)
       THEN Reads(c, from, to, [mine[c] EXCEPT !.read = com[page]])
       ELSE Reads(c, from, lost, mine[c])

\* take_pending_authorization: one statement reads the request and removes it.
Take(c, from, to, lost) ==
  LET page == mine[c].page IN
    /\ pc[c] = from /\ MayWrite(c, page)
    /\ \/ /\ IsWaiting(c, page)
          /\ Writes(c, from, to, page, None)
          /\ mine' = [mine EXCEPT ![c].read = cur[page]]
       \/ ~IsWaiting(c, page) /\ Reads(c, from, lost, mine[c])

TakePending(c) == Take(c, "take", "issue", "orphan")

\* Mutant: the person a hint named is checked only where a consent is judged.
IssueCodeUnhinted(c) ==
  /\ pc[c] = "issue"
  /\ Commit(c)
  /\ Goto(c, "done")
  /\ Sends(c, mine[c].page, "code", c, mine[c].read)
  /\ UNCHANGED <<mine, expired, proved, since>>

\* Someone else than the person a hint named signed in for themselves.
IssueCode(c) ==
  /\ pc[c] = "issue"
  /\ Commit(c)
  /\ Goto(c, "done")
  /\ Sends(c, mine[c].page, IF HintedAtAnother(c, mine[c].read) THEN "login_required" ELSE "code",
           c, mine[c].read)
  /\ UNCHANGED <<mine, expired, proved, since>>

\* end_orphan_session: close_session matches an active session only.
EndOrphan(c) ==
  /\ pc[c] = "orphan" /\ MayWrite(c, c)
  /\ IF IsActive(c, c)
     THEN Writes(c, "orphan", "ending", c, [cur[c] EXCEPT !.active = FALSE]) /\ mine' = mine
     ELSE Drops(c, "expired")

CommitEnd(c) == Commits(c, "ending", "expired")

-----------------------------------------------------------------------------
(* answer_consent.                                                         *)

\* What a browser answers on the page of a consent.
BeginAnswer(c) ==
  /\ pc[c] = "idle" /\ c \in Answers
  /\ \E page \in Begins, ticket \in Tickets, way \in {"allow", "deny"} :
       Starts(c, "answer", [Nothing EXCEPT !.page = page, !.ticket = ticket, !.way = way])
  /\ UNCHANGED storage

\* Taken before it is checked.
TakeAnswered(c) == Take(c, "answer", "check", "expired")

WaitsHere(c) == mine[c].read.waitsIn = mine[c].ticket /\ IsActive(c, mine[c].ticket)

\* check_waiting_consent: from the browser of the request, in the session it
\* waits in.  A refusal abandons the unit of work, and the request waits again.
CheckWaiting(c) ==
  /\ pc[c] = "check"
  /\ \/ /\ WaitsHere(c)
        /\ Reads(c, "check", mine[c].way, [mine[c] EXCEPT !.person = com[mine[c].ticket].person])
     \/ Drops(c, "expired")

\* allow_client: a client that may no longer sign anyone in gets nothing.
ReadAllowed(c) ==
  /\ pc[c] = "allow"
  /\ IF Serves(com["client"])
     THEN Reads(c, "allow", IF com["client"].requires THEN "add" ELSE "give", mine[c])
     ELSE Drops(c, "refused")

\* add_consent: one statement writes the consent or widens it.
AddConsent(c) ==
  LET p == mine[c].person
      kept == IF cur[p] = None THEN {} ELSE cur[p]
  IN Writes(c, "add", "give", p, kept \cup mine[c].read.scopes) /\ mine' = mine

\* The code, the event and the commit.
GiveCode(c) ==
  /\ pc[c] = "give"
  /\ Commit(c)
  /\ Goto(c, "done")
  /\ Sends(c, mine[c].page, "code", mine[c].ticket, mine[c].read)
  /\ since' = [d \in Calls |-> since[d] \cup ({mine[c].person} \X mine[c].read.scopes)]
  /\ UNCHANGED <<mine, expired, proved>>

DenyClient(c) ==
  /\ pc[c] = "deny"
  /\ Commit(c)
  /\ Goto(c, "done")
  /\ Sends(c, mine[c].page, "access_denied", None, mine[c].read)
  /\ UNCHANGED <<mine, expired, proved, since>>

-----------------------------------------------------------------------------
(* What happens meanwhile.                                                 *)

Ended == {"told", "waiting", "asked", "consent", "done", "refused", "expired", "failed"}

\* A statement fails, or the node stops: the unit of work is gone, and with it
\* everything after the last commit.
Fail(c) == "fail" \in Meanwhile /\ pc[c] \notin Ended \cup {"idle"} /\ Drops(c, "failed")

Environment == UNCHANGED <<pc, mine, sent, proved, since>>

\* PENDING_LIFETIME has passed.
Expire(p) ==
  /\ "expire" \in Meanwhile /\ com[p] # None /\ p \notin expired
  /\ expired' = expired \cup {p}
  /\ Environment /\ UNCHANGED storage

\* The purge of the retention.
Purge(p) == p \in expired /\ com[p] # None /\ DeleteRows({p}) /\ Environment /\ UNCHANGED expired

\* A logout, or a factor set up since: the session answers no more.
EndSession(s) ==
  /\ "end" \in Meanwhile
  /\ com[s] # None /\ com[s].active /\ writer[s] = None
  /\ com' = [com EXCEPT ![s].active = FALSE]
  /\ cur' = [cur EXCEPT ![s].active = FALSE]
  /\ Environment /\ UNCHANGED <<writer, sharers, expired>>

\* The person withdraws what they allowed.
Withdraw(p) ==
  /\ "withdraw" \in Meanwhile
  /\ com[p] # None /\ DeleteRows({p}) /\ Environment /\ UNCHANGED expired

\* An administrator changes the client: it requires consent from now on, is
\* disabled, or is removed.
ChangeClient ==
  /\ "change" \in Meanwhile /\ com["client"] # None
  /\ \E v \in {None, [com["client"] EXCEPT !.enabled = FALSE],
               [com["client"] EXCEPT !.requires = TRUE]} :
       /\ com' = [com EXCEPT !["client"] = v]
       /\ cur' = [cur EXCEPT !["client"] = v]
  /\ Environment /\ UNCHANGED <<writer, sharers, expired>>

BeginStep(c) ==
  \/ BeginAuthorization(c) \/ FindSession(c) \/ JudgeConsent(c)
  \/ KeepPendingAuthorization(c) \/ RefusePending(c) \/ IssueFromSession(c)

SignInStep(c) ==
  \/ ReadPending(c) \/ ProvePassword(c) \/ ProveFactor(c) \/ RefuseProof(c)
  \/ MarkFirstFactor(c) \/ CommitMark(c) \/ ReadTerms(c) \/ MarkConsentOwed(c) \/ CommitOwed(c)
  \/ TakePending(c) \/ IssueCode(c) \/ EndOrphan(c) \/ CommitEnd(c)

AnswerStep(c) ==
  \/ BeginAnswer(c) \/ TakeAnswered(c) \/ CheckWaiting(c) \/ ReadAllowed(c)
  \/ AddConsent(c) \/ GiveCode(c) \/ DenyClient(c)

Next ==
  \/ \E c \in Begins : BeginStep(c)
  \/ \E c \in SignIns : SignInStep(c)
  \/ \E c \in Answers : AnswerStep(c)
  \/ \E c \in Calls : Fail(c)
  \/ \E p \in Begins : Expire(p) \/ Purge(p)
  \/ \E s \in AllSessions : EndSession(s)
  \/ \E p \in People : Withdraw(p)
  \/ ChangeClient

Spec == Init /\ [][Next]_vars

-----------------------------------------------------------------------------
(* Properties.                                                             *)

\* Of everything that reaches the page of one request (submissions of the form,
\* answers to the consent, together or one after the other), one decides: its
\* client is sent one answer (take_pending_authorization).
AnsweredOnce ==
  \A a, b \in sent : a.page # None /\ a.page = b.page => a = b

\* A request that waited and is gone was answered to its client or had expired:
\* a refused answer to its page leaves it waiting.
GoneIsAnswered ==
  [][\A p \in Begins :
       com[p] # None /\ com'[p] = None => p \in expired \/ \E a \in sent' : a.page = p]_vars

\* A submission that lost its request to another leaves no session behind
\* (end_orphan_session), however late it learned that it lost.
LoserKeepsNoSession ==
  \A c \in SignIns : pc[c] = "expired" /\ com[c] # None => ~com[c].active

Codes == {a \in sent : a.kind = "code"}

\* A code names the person a hint named, if it did.  Its session was opened on
\* the page of its request, or is the one the browser came with when it made
\* the request; and that person proved their password where it was opened,
\* whoever else typed theirs on the same page meanwhile.
CodeIsForWhoProved ==
  \A a \in Codes :
    /\ a.hint # None => a.person = a.hint
    /\ a.page # None => com[a.session].page = a.page \/ mine[a.page].ticket = a.session
    /\ a.session \in SignIns => <<com[a.session].page, a.person>> \in proved

\* A request that asks a sign-in now (prompt=login, max_age) gets its code for
\* a session opened on its own page, a consent in between or not.
FreshIsProvenAgain ==
  \A a \in Codes :
    a.proof.fresh => a.page # None /\ a.session \in SignIns /\ com[a.session].page = a.page

\* A client that required consent when the call began gets no scope the person
\* had not allowed at some time of that call, and prompt=consent always asks.
NoCodeUnallowed ==
  \A a \in Codes :
    /\ a.required => ({a.person} \X a.scopes) \subseteq since[a.by]
    /\ a.proof.consent => a.by \in Answers

\* A request is answered once and does not vanish unanswered, and who lost it
\* keeps nothing.
OneAnswer == [](AnsweredOnce /\ LoserKeepsNoSession) /\ GoneIsAnswered

\* A code is for who proved it, and where it was asked to be proved.
CodeIsProven == CodeIsForWhoProved /\ FreshIsProvenAgain
=============================================================================
