----------------------------- MODULE TokenGrants -----------------------------
(***************************************************************************)
(* What a client may obtain in the name of a person, and how it is taken   *)
(* back: authorization codes, families of refresh tokens, the consents and *)
(* the sessions they rest on, and the retention pass that forgets them.    *)
(*                                                                         *)
(* Each request is one call of an endpoint, served once: the statements of *)
(* its units of work are its steps, interleaved with those of every other  *)
(* request, and it may fail between any two (a lost link, a lock waited    *)
(* for too long, a crash of the node).  What a request mints is named by   *)
(* the request: the refresh token it writes, and the family it opens.      *)
(*                                                                         *)
(* Persons hold no second factor here: a live session answers for its      *)
(* person.                                                                 *)
(***************************************************************************)
EXTENDS UnitOfWork, Naturals, FiniteSets

CONSTANTS Requests,         \* the calls of the endpoints
          Codes,            \* authorization codes
          Sessions,         \* sessions, all opened at instant 0
          Persons, Clients, Scopes,
          PersonOf,         \* the person of each session
          Requiring,        \* the clients that require consent
          Issued,           \* the codes issued before the behaviour starts
          Consented,        \* the consents given before it starts
          Operations,       \* the endpoints each request may call
          CodeLifetime, SessionLifetime, RefreshLifetime, CodesKept,
          LastInstant       \* bound on the clock

Consents == Persons \X Clients
Kinds == {"authorize", "allow", "exchange", "rotate", "revoke", "logout", "withdraw"}

ASSUME RowsAssumption ==
  /\ Works = Requests
  /\ Rows = Codes \cup Requests \cup Sessions \cup Consents
  /\ Codes \cap (Requests \cup Sessions \cup Consents) = {}
  /\ Requests \cap (Sessions \cup Consents) = {}
  /\ Sessions \cap Consents = {}

ASSUME GrantAssumption ==
  /\ PersonOf \in [Sessions -> Persons]
  /\ Requiring \subseteq Clients
  /\ Issued \in [Codes -> [client : Clients, session : Sessions, scopes : SUBSET Scopes] \cup {None}]
  /\ Consented \in [Consents -> (SUBSET Scopes) \cup {None}]
  /\ Operations \in [Requests -> SUBSET Kinds]
  /\ {CodeLifetime, SessionLifetime, RefreshLifetime, CodesKept, LastInstant} \subseteq Nat

\* A refresh token outlives no session (12 hours, against 30 days), and a code
\* is kept as long as one after it expired.
ASSUME LifetimeAssumption ==
  SessionLifetime <= RefreshLifetime /\ SessionLifetime <= CodesKept

Steps == {"idle", "a_session", "a_consent", "a_issue",
          "x_spend", "x_mark", "x_spent", "x_subject", "x_consent", "x_bind", "x_answer",
          "r_spend", "r_lock", "r_read", "r_subject", "r_answer",
          "v_read", "l_read", "l_end", "w_delete", "t_start", "t_rows"}
Outcomes == {"granted", "refused", "failed", "over"}

VARIABLES now,     \* the clock of the node
          pc,      \* the next step of each request
          asked,   \* what each request asked
          family,  \* the family a request opens, carries on or takes back
          todo,    \* the tokens the revoking statement of a request still visits
          ended,   \* the tokens a request revoked
          told     \* the event a request appended to the audit chain

locals == <<pc, asked, family, todo, ended, told>>
vars == <<storage, now, locals>>

CodeRow == [client : Clients, session : Sessions, scopes : SUBSET Scopes, expires : Nat,
            spent : BOOLEAN, replayed : BOOLEAN, family : Requests \cup {None}]
TokenRow == [family : Requests, client : Clients, session : Sessions, expires : Nat,
             used : BOOLEAN, revoked : BOOLEAN]
SessionRow == [state : {"active", "ended"}, expires : Nat]
Grant == [client : Clients, session : Sessions, scopes : SUBSET Scopes]
Call == [op : Kinds, client : Clients \cup {None}, of : Rows, grant : Grant \cup {None},
         fits : BOOLEAN, at : Nat, dead : BOOLEAN]
Event == [kind : {"token_issued", "token_revoked", "session_ended",
                  "consent_withdrawn", "consent_granted"},
          family : Requests \cup {None}]

\* A row, a call and an event are something.
ASSUME SomeAssumption ==
  /\ None \notin CodeRow /\ None \notin TokenRow /\ None \notin SessionRow
  /\ None \notin Grant /\ None \notin Event /\ \A s \in SUBSET Scopes : s # None

NewCode(g, at) ==
  [client |-> g.client, session |-> g.session, scopes |-> g.scopes,
   expires |-> at + CodeLifetime, spent |-> FALSE, replayed |-> FALSE, family |-> None]

Init ==
  /\ StorageInit([x \in Rows |->
       CASE x \in Codes -> IF Issued[x] = None THEN None ELSE NewCode(Issued[x], 0)
         [] x \in Sessions -> [state |-> "active", expires |-> SessionLifetime]
         [] x \in Consents -> Consented[x]
         [] OTHER -> None])
  /\ now = 0
  /\ pc = [r \in Requests |-> "idle"]
  /\ asked = [r \in Requests |-> None]
  /\ family = [r \in Requests |-> None]
  /\ todo = [r \in Requests |-> {}]
  /\ ended = [r \in Requests |-> {}]
  /\ told = [r \in Requests |-> None]

-----------------------------------------------------------------------------
(* What a statement reads of the committed rows.                           *)

\* The session stands: active, and not expired.
IsLive(s) == com[s] # None /\ com[s].state = "active" /\ com[s].expires > now

\* Some token of the family of row is revoked.
HasRevokedKin(row) ==
  \E kin \in Requests : com[kin] # None /\ com[kin].family = row.family /\ com[kin].revoked

\* The row matches the WHERE of SPEND_TOKEN, its kin left aside.
MayBeSpent(row, k, at) ==
  row # None /\ row.client = k /\ ~row.used /\ ~row.revoked /\ row.expires > at

\* A rotation that presented t now, alone, would be answered with a token.
Spendable(t) ==
  /\ com[t] # None
  /\ MayBeSpent(com[t], com[t].client, now)
  /\ ~HasRevokedKin(com[t])
  /\ IsLive(com[t].session)

\* A code spent or replayed, past its expiry, or of a session that ended.
IsDeadCode(c) ==
  \/ com[c] = None
  \/ com[c].spent
  \/ com[c].expires <= now
  \/ ~IsLive(com[c].session)

\* What the person allowed the client covers what the client asks.
IsConsentOwed(allowed, k, scopes) ==
  k \in Requiring /\ (allowed = None \/ ~(scopes \subseteq allowed))

GrantOf(code) == [client |-> code.client, session |-> code.session, scopes |-> code.scopes]

\* The consent row a grant or a token rests on.
ConsentOf(g) == <<PersonOf[g.session], g.client>>

-----------------------------------------------------------------------------
(* The steps of a request.                                                 *)

Goto(r, to) == pc' = [pc EXCEPT ![r] = to]

Tells(r, kind, f) == told' = [told EXCEPT ![r] = [kind |-> kind, family |-> f]]

\* The unit of work is dropped, and the request answered with a refusal.
Refuse(r, outcome) ==
  /\ Goto(r, outcome)
  /\ Rollback(r)
  /\ UNCHANGED <<now, asked, family, todo, ended, told>>

\* A statement that only reads, and leads to the next one.
Read(r, to) ==
  /\ Goto(r, to)
  /\ UNCHANGED <<storage, now, asked, family, todo, ended, told>>

\* A statement that writes row x.
Update(r, to, x, v) ==
  /\ Goto(r, to)
  /\ WriteRow(r, x, v)
  /\ UNCHANGED <<now, asked, family, todo, ended, told>>

Begin(r, first, call) ==
  /\ call.op \in Operations[r]
  /\ pc[r] = "idle"
  /\ Goto(r, first)
  /\ asked' = [asked EXCEPT ![r] = call]
  /\ UNCHANGED <<storage, now, family, todo, ended, told>>

NewCall(op, k, of, grant, fits, dead) ==
  [op |-> op, client |-> k, of |-> of, grant |-> grant, fits |-> fits, at |-> now, dead |-> dead]

\* A call of the authorization endpoint, or the answer of a person to the
\* consent page, that would issue code c, which is drawn at random: nobody
\* had it before.
BeginAuthorize(r) ==
  \E op \in {"authorize", "allow"}, c \in Codes, g \in Grant :
    /\ com[c] = None /\ Issued[c] = None
    /\ \A q \in Requests : pc[q] # "idle" => asked[q].of # c
    /\ Begin(r, "a_session", NewCall(op, None, c, g, TRUE, FALSE))

\* Any code some answer carried may be presented, by any client.
\* fits: the redirect URI and the verifier are those bound to the code.
BeginExchange(r) ==
  \E c \in Codes, k \in Clients, fits \in BOOLEAN :
    /\ Issued[c] # None \/ \E q \in Requests : pc[q] = "granted" /\ asked[q].of = c
    /\ Begin(r, "x_spend", NewCall("exchange", k, c, None, fits, IsDeadCode(c)))

\* Any token some answer carried may come back, from any client.
\* fits: the scopes asked are among those of the token.
BeginRotate(r) ==
  \E t \in Requests, k \in Clients, fits \in BOOLEAN :
    /\ pc[t] = "granted" /\ family[t] # None
    /\ Begin(r, "r_spend", NewCall("rotate", k, t, None, fits,
                                   ~Spendable(t) \/ com[t].client # k))

BeginRevoke(r) ==
  \E t \in Requests, k \in Clients :
    /\ pc[t] = "granted" /\ family[t] # None
    /\ Begin(r, "v_read", NewCall("revoke", k, t, None, TRUE, FALSE))

BeginLogout(r) ==
  \E s \in Sessions : Begin(r, "l_read", NewCall("logout", None, s, None, TRUE, FALSE))

BeginWithdraw(r) ==
  \E x \in Consents : Begin(r, "w_delete", NewCall("withdraw", None, x, None, TRUE, FALSE))

-----------------------------------------------------------------------------
(* begin_authorization and answer_consent, as far as they issue a code.    *)

FindSession(r) ==
  /\ pc[r] = "a_session"
  /\ IF IsLive(asked[r].grant.session) THEN Read(r, "a_consent")
                                       ELSE Refuse(r, "refused")

\* A code is issued on a consent read without a lock.  What the person
\* answers on the page joins what they allowed before.
SettleConsent(r) ==
  /\ pc[r] = "a_consent"
  /\ LET g == asked[r].grant
         x == ConsentOf(g)
     IN IF asked[r].op = "authorize"
        THEN IF IsConsentOwed(Sees(r, x), g.client, g.scopes)
             THEN Refuse(r, "refused")
             ELSE Read(r, "a_issue")
        ELSE IF g.client \in Requiring
             THEN Update(r, "a_issue", x,
                         IF com[x] = None THEN g.scopes ELSE com[x] \cup g.scopes)
             ELSE Read(r, "a_issue")

IssueCode(r) ==
  /\ pc[r] = "a_issue"
  /\ Goto(r, "granted")
  /\ InsertAndCommit(r, asked[r].of, NewCode(asked[r].grant, now))
  /\ IF asked[r].op = "allow" THEN Tells(r, "consent_granted", None) ELSE UNCHANGED told
  /\ UNCHANGED <<now, asked, family, todo, ended>>

-----------------------------------------------------------------------------
(* exchange_code.                                                          *)

SpendAuthorizationCode(r) ==
  /\ pc[r] = "x_spend"
  /\ LET c == asked[r].of
     IN IF com[c] # None /\ ~com[c].spent /\ com[c].expires > asked[r].at
        THEN /\ Goto(r, "x_spent")
             /\ WriteRow(r, c, [com[c] EXCEPT !.spent = TRUE])
             /\ asked' = [asked EXCEPT ![r].grant = GrantOf(com[c])]
             /\ UNCHANGED <<now, family, todo, ended, told>>
        ELSE Read(r, "x_mark")

\* The first unit of work commits: the code is spent whatever follows.
CommitSpentCode(r) ==
  /\ pc[r] = "x_spent"
  /\ Commit(r)
  /\ IF asked[r].grant.client = asked[r].client /\ asked[r].fits
     THEN Goto(r, "x_subject")
     ELSE Goto(r, "refused")
  /\ UNCHANGED <<now, asked, family, todo, ended, told>>

ReadCodeSubject(r) ==
  /\ pc[r] = "x_subject"
  /\ IF IsLive(asked[r].grant.session) THEN Read(r, "x_consent")
                                       ELSE Refuse(r, "refused")

\* Mutant: the consent is read, and not held.
ReadConsent(r) ==
  /\ pc[r] = "x_consent"
  /\ IF IsConsentOwed(com[ConsentOf(asked[r].grant)], asked[r].grant.client, asked[r].grant.scopes)
     THEN Refuse(r, "refused") ELSE Read(r, "x_bind")

\* A consent is held until the commit: a withdrawal that comes meanwhile
\* waits, one that came first left nothing to hold.
HoldConsent(r) ==
  /\ pc[r] = "x_consent"
  /\ LET g == asked[r].grant
         x == ConsentOf(g)
     IN IF g.client \notin Requiring THEN Read(r, "x_bind")
        ELSE IF com[x] = None THEN Refuse(r, "refused")
        ELSE IF IsConsentOwed(com[x], g.client, g.scopes)
        THEN MayShare(r, x) /\ Refuse(r, "refused")
        ELSE /\ Goto(r, "x_bind")
             /\ HoldRow(r, x)
             /\ UNCHANGED <<now, asked, family, todo, ended, told>>

BindCodeFamily(r) ==
  /\ pc[r] = "x_bind"
  /\ LET c == asked[r].of
     IN IF com[c] # None /\ com[c].spent /\ ~com[c].replayed
        THEN /\ Goto(r, "x_answer")
             /\ WriteRow(r, c, [com[c] EXCEPT !.family = r])
             /\ family' = [family EXCEPT ![r] = r]
             /\ UNCHANGED <<now, asked, todo, ended, told>>
        ELSE Refuse(r, "refused")

\* Mutant: two columns of the row are swapped.
NewTokenSwapped(f, k, s) ==
  [family |-> f, client |-> s, session |-> k, used |-> FALSE, revoked |-> FALSE,
   expires |-> now + RefreshLifetime]

NewToken(f, k, s) ==
  [family |-> f, client |-> k, session |-> s, used |-> FALSE, revoked |-> FALSE,
   expires |-> IF now + RefreshLifetime < com[s].expires
               THEN now + RefreshLifetime ELSE com[s].expires]

\* The next refresh token of the family is written, and the work commits.
\* A session removed meanwhile refuses the token that names it.
IssueRefreshToken(r, f, k, s) ==
  IF com[s] = None THEN Refuse(r, "failed")
  ELSE /\ Goto(r, "granted")
       /\ InsertAndCommit(r, r, NewToken(f, k, s))
       /\ family' = [family EXCEPT ![r] = f]
       /\ IF asked[r].op = "exchange" THEN Tells(r, "token_issued", f) ELSE UNCHANGED told
       /\ UNCHANGED <<now, asked, todo, ended>>

AnswerExchange(r) ==
  /\ pc[r] = "x_answer"
  /\ LET g == asked[r].grant
     IN IssueRefreshToken(r, r, g.client, g.session)

\* Mutant: the replay is written down, and nothing is taken back.
MarkCodeReplayedOnly(r) ==
  /\ pc[r] = "x_mark"
  /\ LET c == asked[r].of
     IN IF com[c] # None /\ com[c].client = asked[r].client /\ com[c].spent /\ ~com[c].replayed
        THEN /\ Goto(r, "t_rows")
             /\ WriteRow(r, c, [com[c] EXCEPT !.replayed = TRUE])
             /\ UNCHANGED <<now, asked, family, todo, ended, told>>
        ELSE Refuse(r, "refused")

\* The code was spent before: what it obtained is taken back.
MarkCodeReplayed(r) ==
  /\ pc[r] = "x_mark"
  /\ LET c == asked[r].of
     IN IF com[c] # None /\ com[c].client = asked[r].client /\ com[c].spent /\ ~com[c].replayed
        THEN /\ Goto(r, IF com[c].family = None THEN "t_rows" ELSE "t_start")
             /\ WriteRow(r, c, [com[c] EXCEPT !.replayed = TRUE])
             /\ family' = [family EXCEPT ![r] = com[c].family]
             /\ UNCHANGED <<now, asked, todo, ended, told>>
        ELSE Refuse(r, "refused")

-----------------------------------------------------------------------------
(* rotate_refresh_token and revoke_token.                                  *)

\* Mutant: a token is spent whatever became of its family.
SpendRefreshTokenAlone(r) ==
  /\ pc[r] = "r_spend"
  /\ IF MayBeSpent(com[asked[r].of], asked[r].client, asked[r].at)
     THEN Read(r, "r_lock") ELSE Read(r, "r_read")

\* SPEND_TOKEN begins: what it reads of the kin stays as of here.
SpendRefreshToken(r) ==
  /\ pc[r] = "r_spend"
  /\ LET row == com[asked[r].of]
     IN IF MayBeSpent(row, asked[r].client, asked[r].at) /\ ~HasRevokedKin(row)
        THEN Read(r, "r_lock")
        ELSE Read(r, "r_read")

\* Mutant: what was read before the wait is taken for what is so after it.
LockRefreshTokenUnchecked(r) ==
  /\ pc[r] = "r_lock"
  /\ com[asked[r].of] # None
  /\ Update(r, "r_subject", asked[r].of, [com[asked[r].of] EXCEPT !.used = TRUE])

\* Mutant: the token is locked, and not marked used.
LockRefreshTokenUnmarked(r) ==
  /\ pc[r] = "r_lock"
  /\ LET t == asked[r].of
     IN /\ MayWrite(r, t)
        /\ IF MayBeSpent(com[t], asked[r].client, asked[r].at)
           THEN Update(r, "r_subject", t, com[t])
           ELSE Read(r, "r_read")

\* Mutant: the token is spent in a unit of work of its own, before the next
\* one is written.
LockRefreshTokenAndCommit(r) ==
  /\ pc[r] = "r_lock"
  /\ LET t == asked[r].of
     IN /\ MayWrite(r, t)
        /\ IF MayBeSpent(com[t], asked[r].client, asked[r].at)
           THEN /\ Goto(r, "r_subject")
                /\ InsertAndCommit(r, t, [com[t] EXCEPT !.used = TRUE])
                /\ UNCHANGED <<now, asked, family, todo, ended, told>>
           ELSE Read(r, "r_read")

\* It gets the lock of the row, and asks again of its newest version.
LockRefreshToken(r) ==
  /\ pc[r] = "r_lock"
  /\ LET t == asked[r].of
     IN /\ MayWrite(r, t)
        /\ IF MayBeSpent(com[t], asked[r].client, asked[r].at)
           THEN Update(r, "r_subject", t, [com[t] EXCEPT !.used = TRUE])
           ELSE Read(r, "r_read")

ReadTokenSubject(r) ==
  /\ pc[r] = "r_subject"
  /\ IF IsLive(cur[asked[r].of].session) /\ asked[r].fits
     THEN Read(r, "r_answer")
     ELSE Refuse(r, "refused")

AnswerRotation(r) ==
  /\ pc[r] = "r_answer"
  /\ LET row == cur[asked[r].of]
     IN IssueRefreshToken(r, row.family, row.client, row.session)

\* A token that comes back used is a token someone copied.  A family revoked
\* already is left as it is.
ReadReplayedToken(r) ==
  /\ pc[r] = "r_read"
  /\ LET row == com[asked[r].of]
     IN IF row # None /\ row.used /\ ~row.revoked /\ ~HasRevokedKin(row)
           /\ row.client = asked[r].client
        THEN /\ Goto(r, "t_start")
             /\ family' = [family EXCEPT ![r] = row.family]
             /\ UNCHANGED <<storage, now, asked, todo, ended, told>>
        ELSE Refuse(r, "refused")

RevokeToken(r) ==
  /\ pc[r] = "v_read"
  /\ LET row == com[asked[r].of]
     IN IF row # None /\ row.client = asked[r].client /\ ~row.revoked /\ ~HasRevokedKin(row)
        THEN /\ Goto(r, "t_start")
             /\ family' = [family EXCEPT ![r] = row.family]
             /\ UNCHANGED <<storage, now, asked, todo, ended, told>>
        ELSE Refuse(r, "over")

-----------------------------------------------------------------------------
(* confirm_logout and withdraw_consent.                                    *)

FindLiveSession(r) ==
  /\ pc[r] = "l_read"
  /\ IF IsLive(asked[r].of) THEN Read(r, "l_end") ELSE Refuse(r, "over")

EndSession(r) ==
  /\ pc[r] = "l_end"
  /\ LET s == asked[r].of
     IN IF com[s] # None /\ com[s].state = "active"
        THEN Update(r, "t_start", s, [com[s] EXCEPT !.state = "ended"])
        ELSE Refuse(r, "over")

DeleteConsent(r) ==
  /\ pc[r] = "w_delete"
  /\ LET x == asked[r].of
     IN IF com[x] # None THEN Update(r, "t_start", x, None)
                         ELSE Refuse(r, "refused")

-----------------------------------------------------------------------------
(* One statement revokes every token a request takes back: those it finds  *)
(* when it begins, one row lock at a time, asked again once locked.        *)

Targets(r, row) ==
  CASE asked[r].op = "logout" -> row.session = asked[r].of
    [] asked[r].op = "withdraw" -> ConsentOf(row) = asked[r].of
    [] OTHER -> row.family = family[r]

FindTokens(r) ==
  /\ pc[r] = "t_start"
  /\ Goto(r, "t_rows")
  /\ todo' = [todo EXCEPT ![r] =
       {t \in Requests : com[t] # None /\ ~com[t].revoked /\ Targets(r, com[t])}]
  /\ UNCHANGED <<storage, now, asked, family, ended, told>>

RevokeRow(r) ==
  \E t \in todo[r] :
    /\ pc[r] = "t_rows"
    /\ todo' = [todo EXCEPT ![r] = @ \ {t}]
    /\ MayWrite(r, t)
    /\ IF com[t] # None /\ ~com[t].revoked
       THEN /\ WriteRow(r, t, [com[t] EXCEPT !.revoked = TRUE])
            /\ ended' = [ended EXCEPT ![r] = @ \cup {t}]
       ELSE UNCHANGED <<storage, ended>>
    /\ UNCHANGED <<now, pc, asked, family, told>>

EventOf(op) == CASE op = "logout" -> "session_ended"
                 [] op = "withdraw" -> "consent_withdrawn"
                 [] OTHER -> "token_revoked"

\* Mutant: what was revoked is told to nobody.
CommitTakeBackQuietly(r) ==
  /\ pc[r] = "t_rows" /\ todo[r] = {}
  /\ Goto(r, IF asked[r].op \in {"exchange", "rotate"} THEN "refused" ELSE "over")
  /\ Commit(r)
  /\ UNCHANGED <<now, asked, family, todo, ended, told>>

\* The event comes last, and the work commits.
CommitTakeBack(r) ==
  /\ pc[r] = "t_rows" /\ todo[r] = {}
  /\ LET op == asked[r].op
     IN /\ Goto(r, IF op \in {"exchange", "rotate"} THEN "refused" ELSE "over")
        /\ Commit(r)
        /\ IF op \in {"logout", "withdraw"} \/ ended[r] # {}
           THEN Tells(r, EventOf(op), family[r]) ELSE UNCHANGED told
        /\ UNCHANGED <<now, asked, family, todo, ended>>

-----------------------------------------------------------------------------
(* Failure, time and retention.                                            *)

IsServed(r) == pc[r] \notin Outcomes \cup {"idle"}

\* A statement fails, the node crashes, the link is lost: the unit of work is
\* rolled back, and what the request committed before stays.
Fail(r) ==
  /\ IsServed(r)
  /\ pc' = [pc EXCEPT ![r] = "failed"]
  /\ todo' = [todo EXCEPT ![r] = {}]
  /\ ended' = [ended EXCEPT ![r] = {}]
  /\ Rollback(r)
  /\ UNCHANGED <<now, asked, family, told>>

\* The rows one of which the next statement of r must lock.
Awaited(r) ==
  CASE pc[r] \in {"x_spend", "x_mark", "x_bind", "r_lock", "l_end", "w_delete"} -> {asked[r].of}
    [] pc[r] \in {"a_consent", "x_consent"} -> {ConsentOf(asked[r].grant)}
    [] pc[r] = "t_rows" -> todo[r]
    [] OTHER -> {}

IsBlocked(r) ==
  /\ Awaited(r) # {}
  /\ \A x \in Awaited(r) : IF pc[r] = "x_consent" THEN ~MayShare(r, x) ELSE ~MayWrite(r, x)

\* Mutant: a row lock is waited for as long as it takes.
WaitOn(r) == FALSE

\* lock_timeout, or the deadlock detector: a wait for a row lock is bounded.
GiveUp(r) == IsBlocked(r) /\ Fail(r)

Tick ==
  /\ now < LastInstant
  /\ now' = now + 1
  /\ UNCHANGED <<storage, locals>>

\* Mutant: a code goes as soon as it expires.
PurgeCodeAtExpiry(c) ==
  /\ com[c] # None /\ com[c].expires <= now
  /\ DeleteRows({c})
  /\ UNCHANGED <<now, locals>>

PurgeCode(c) ==
  /\ com[c] # None /\ com[c].expires + CodesKept < now
  /\ DeleteRows({c})
  /\ UNCHANGED <<now, locals>>

\* Mutant: a revoked token goes at once.
PurgeRevokedToken(t) ==
  /\ com[t] # None /\ (com[t].revoked \/ com[t].expires < now)
  /\ DeleteRows({t})
  /\ UNCHANGED <<now, locals>>

PurgeToken(t) ==
  /\ com[t] # None /\ com[t].expires < now
  /\ DeleteRows({t})
  /\ UNCHANGED <<now, locals>>

\* A session that still has tokens waits for them to go.
PurgeSession(s) ==
  /\ com[s] # None /\ com[s].expires < now
  /\ \A t \in Requests : com[t] # None => com[t].session # s
  /\ DeleteRows({s})
  /\ UNCHANGED <<now, locals>>

-----------------------------------------------------------------------------

Start(r) ==
  \/ BeginAuthorize(r) \/ BeginExchange(r) \/ BeginRotate(r)
  \/ BeginRevoke(r) \/ BeginLogout(r) \/ BeginWithdraw(r)

Advance(r) ==
  \/ FindSession(r) \/ SettleConsent(r) \/ IssueCode(r)
  \/ SpendAuthorizationCode(r) \/ CommitSpentCode(r) \/ ReadCodeSubject(r) \/ HoldConsent(r)
  \/ BindCodeFamily(r) \/ AnswerExchange(r) \/ MarkCodeReplayed(r)
  \/ SpendRefreshToken(r) \/ LockRefreshToken(r) \/ ReadTokenSubject(r) \/ AnswerRotation(r)
  \/ ReadReplayedToken(r) \/ RevokeToken(r)
  \/ FindLiveSession(r) \/ EndSession(r) \/ DeleteConsent(r)
  \/ FindTokens(r) \/ RevokeRow(r) \/ CommitTakeBack(r)

Purge ==
  \/ \E c \in Codes : PurgeCode(c)
  \/ \E t \in Requests : PurgeToken(t)
  \/ \E s \in Sessions : PurgeSession(s)

Next ==
  \/ \E r \in Requests : Start(r) \/ Advance(r) \/ Fail(r)
  \/ Tick
  \/ Purge

Spec == Init /\ [][Next]_vars

\* A node serves what it was asked, and waits for no row for ever.
FairSpec ==
  Spec /\ \A r \in Requests : WF_vars(Advance(r)) /\ WF_vars(GiveUp(r))

-----------------------------------------------------------------------------
(* Properties.                                                             *)

AreRows(version) ==
  /\ DOMAIN version = Rows
  /\ \A c \in Codes : version[c] \in CodeRow \cup {None}
  /\ \A t \in Requests : version[t] \in TokenRow \cup {None}
  /\ \A s \in Sessions : version[s] \in SessionRow \cup {None}
  /\ \A x \in Consents : version[x] \in (SUBSET Scopes) \cup {None}

\* Every row holds a row of its table or nothing, in both versions, every
\* request is at a step of its handler, and its locals are of their kinds.
TypeOK ==
  /\ AreRows(com) /\ AreRows(cur)
  /\ writer \in [Rows -> Requests \cup {None}]
  /\ sharers \in [Rows -> SUBSET Requests]
  /\ now \in Nat
  /\ pc \in [Requests -> Steps \cup Outcomes]
  /\ asked \in [Requests -> Call \cup {None}]
  /\ family \in [Requests -> Requests \cup {None}]
  /\ todo \in [Requests -> SUBSET Requests]
  /\ ended \in [Requests -> SUBSET Requests]
  /\ told \in [Requests -> Event \cup {None}]

IsGranted(r, op) == pc[r] = "granted" /\ asked[r].op = op

\* Of all the exchanges of one code, and of all the rotations of one refresh
\* token, at most one is answered with tokens, however they interleave.
OneWinner ==
  \A op \in {"exchange", "rotate"} : \A q, r \in Requests :
    IsGranted(q, op) /\ IsGranted(r, op) /\ asked[q].of = asked[r].of => q = r

Family(f) == {t \in Requests : com[t] # None /\ com[t].family = f}

\* A grant has one token to carry it on: two tokens of one family are never
\* both good, so that a copy of either is noticed at its use.
OneSpendable ==
  \A t, u \in Requests : Spendable(t) /\ Spendable(u) /\ com[t].family = com[u].family => t = u

\* Once a code is known to be replayed, nothing of a family an exchange of it
\* opened can be spent: neither what the exchange wrote, before or after the
\* replay, nor what a rotation running meanwhile wrote after it.
ReplayTakesBack ==
  \A c \in Codes : com[c] # None /\ com[c].replayed =>
    \A t \in Requests : Spendable(t) => asked[com[t].family].of # c

\* As long as a person's consent is missing, no client that requires it holds
\* a token it could spend in their name, whatever was running when they
\* withdrew it.
WithdrawnHolds ==
  \A t \in Requests :
    Spendable(t) /\ com[t].client \in Requiring => com[ConsentOf(com[t])] # None

\* A family with nothing left to spend never has anything to spend again: no
\* late token, no purge and no rotation revives it.
NeverRevived ==
  [][\A f \in Requests :
       Family(f) # {} /\ (\A t \in Family(f) : ~Spendable(t))
         => (\A t \in Family(f) : ~Spendable(t))']_vars

\* A request that began when its code or its token was already dead (spent,
\* revoked, taken back, of an ended session, of another client) obtains nothing.
DeadObtainsNothing ==
  \A r \in Requests : pc[r] = "granted" => ~asked[r].dead

\* A token is marked used exactly when the next one of its family was written
\* in its place: a rotation that fails half way leaves the client its token.
UsedHasHeir ==
  \A t \in Requests : com[t] # None /\ com[t].used =>
    \E r \in Requests :
      IsGranted(r, "rotate") /\ asked[r].of = t /\ family[r] = com[t].family

\* Nothing is taken back in silence: a token revoked for everyone to see is
\* one an event of the chain accounts for.
NoSilentRevocation ==
  \A t \in Requests : com[t] # None /\ com[t].revoked =>
    \E r \in Requests : told[r] # None /\ t \in ended[r]

\* A code is not forgotten while what it obtained could still be taken back.
CodeKeptLongEnough ==
  \A r \in Requests : IsGranted(r, "exchange") /\ com[asked[r].of] = None =>
    \A t \in Family(r) : ~Spendable(t)

\* The comments of refresh.rs and revoke.rs: "A family revoked already is
\* written no more, however often its tokens come back", "Revoked already:
\* asking again writes nothing".  Of the rotations and revocations that find a
\* family to take back, one would tell it, and the others write nothing.
ToldOnce ==
  \A q, r \in Requests :
    /\ \A x \in {q, r} : /\ told[x] # None /\ told[x].kind = "token_revoked"
                         /\ asked[x].op \in {"rotate", "revoke"}
    /\ told[q].family = told[r].family
    => q = r

\* Every request is answered: no handler waits for a row for ever, those that
\* wait on each other included.
EveryRequestIsAnswered == \A r \in Requests : IsServed(r) ~> pc[r] \in Outcomes
=============================================================================
