# A verification project for saffui

saffui is an identity provider: one binary, one Postgres. This directory holds
TLA+ modules that model the parts of it where calls meet, the TLC
configurations that check them on small instances, and proofs of what is worth
knowing for every instance. `PROJECT.json` maps every definition to the lines
it models.

## 1. Inventory

The server is stateless between requests, up to two counters and a few workers
in memory: what is true of a realm is in Postgres, and a handler is a sequence
of statements in one or two *units of work* (`store/src/work.rs`), each a
transaction at READ COMMITTED with a bounded `lock_timeout`. Any number of nodes
serve the same database, so every interleaving of the statements of two handlers
can happen, and a handler may stop between any two.

| Component | State | Operations | Interacts through |
|---|---|---|---|
| Units of work, links | row versions, row locks; pooled sessions and their settings | borrow, begin, statement, commit, drop, recycle, probe | everything below runs in one |
| Authorization codes (`oidc/token.rs`, `stores/codes.rs`) | spent, replayed, family, expiry | issue, spend, bind family, mark replayed | a family of refresh tokens, a session |
| Refresh tokens (`oidc/refresh.rs`, `oidc/revoke.rs`, `stores/tokens.rs`) | used, revoked, family, expiry | insert, spend, read, revoke by family, by session, by client and person | codes, sessions, consents, the chain |
| Consents (`consent/`) | scopes a person allowed a client | read, hold, add, delete | codes (issue), tokens (exchange, withdrawal) |
| Sessions (`login/session.rs`) | active or ended, expiry, methods | open, read, end | tokens, second factors |
| Sign-in (`login/flow.rs`, `oidc/authorize.rs`) | pending requests | begin, password, second factor, consent page, take | sessions, codes, brake |
| Second factors (`login/enroll.rs`, `steps/`) | secrets, last step, attempts, keys | enroll, confirm, remove, verify, suspend | sessions, brake |
| Brake (`login/throttle.rs`) | counters in buckets of time, known browsers | admit, is locked, record, forget, unlock | sign-in, codes |
| Fair shares (`login/fairness.rs`, `authz/shares.rs`), hashers (`crypto/src/adapters/password.rs`) | counts under a mutex, free workers | ask, take, hash, drop | password hashing, questions of authorization |
| Relations and policies (`authz/`) | tuples, schemas, policies | write, remove, walk, weigh, decide | questions hold a share |
| Roles and groups (`authz/roles.rs`, `authz/grants.rs`) | roles, memberships, grants and their terms | create, delete, grant, revoke, read | tokens, introspection, policies |
| Administration, clients, keys, tenancy | realms, keys, clients, capabilities | provision, register, authenticate, guard, create | identify every caller |
| Audit chain (`audit/`, migration 0002) | events, head | append, verify | called last in every unit of work that changes something |
| Retention (`retention.rs`) | an advisory lock | purge expired rows in batches | removes rows under everyone |
| Migrations (`pgcore/`), node (`server/src/serve.rs`, `readiness.rs`) | history, advisory lock; starting, serving, draining | plan, apply, judge a schema; start, probe, drain, stop | nodes of two versions over one schema |
| Selective disclosure (`crypto/src/sd_jwt/`) | a token and its disclosures | conceal, present, bind, verify | none yet |
| HTTP API, command line, cryptography, generated schema | none that outlives a call | routing, parsing, signing, hashing | around all of it |

What is hard here, and hardly reached by a test: two statements of two
handlers in an order nobody wrote down; what a statement that *waited* for a
row sees once it has it (the row again, its snapshot of every other row not); a
call dropped at an await, its statement still queued or its hash still running;
a commit whose answer is lost; a crash between two units of work of one call; a
purge that removes the row another decision rests on; facts of one decision read
at different moments; locks taken in opposite orders; two nodes of different
versions. The list, with lines, is under `hazards` in `PROJECT.json`.

## 2. Modules

| Module | Models | Run |
|---|---|---|
| `UnitOfWork` | a transaction: what a statement sees, row locks, commit, rollback | through those that extend it |
| `TokenGrants` | codes, families of refresh tokens, consents, sessions, logout, withdrawal, their retention | `grants`, `answered`, `told_once` |
| `GrantLifecycle`, `GrantRefinement` | what the token endpoint promises of a grant, and the mapping to it | `answered` |
| `SignIn` | the authorization endpoint, its pending requests, sign-in and consent pages | `sign_in` |
| `SecondFactor` | codes, keys, their enrollment, the sessions they prove | `factors` |
| `Brake` | counters, locks, known browsers, unlock | `brake` |
| `FairShares`, `Hashers` | shares of the hashers and of the questions; the workers behind them | `hashers` |
| `Disclosures` | selective disclosure, as an algorithm and a protocol | `decided` |
| `RelationWalk` | the walk of relations, as an algorithm | `decided` |
| `Policies` | the weighing of policies, as an algorithm | `decided` |
| `Questions` | a question, over facts that change while it is asked | `decided` |
| `Definitions` | schemas, relations, policies and roles as they are written | `definitions` |
| `HeldRoles` | grants and memberships, what tokens and introspections say of them | `definitions` |
| `Administration` | realms, keys, clients, tokens of clients, the guard of the administration plane | `administration` |
| `AuditChain` | the chain of a realm, its one writer and its verification | `storage` |
| `Links` | the pooled sessions under units of work and probes | `storage` |
| `Migration`, `Rollout` | runs of `migrate`; a node above them | `nodes` |
| `RetentionPass` | the passes, their lock, budget, batches and report | `nodes` |
| `MC`*X* | the instances | |
| `TokenGrantsProofs`, `SignInProofs`, `SecondFactorProofs`, `AdministrationProofs`, `DefinitionsProofs`, `StorageProofs`, `HashersProofs`, `RolloutProofs` | theorems | TLAPS |

Composition: `TokenGrants`, `SignIn`, `SecondFactor`, `Brake`, `Definitions`,
`RetentionPass` and `AuditChain` extend `UnitOfWork` and differ in their rows and
calls; `Hashers` extends `FairShares`; `Rollout` extends `Migration`;
`GrantRefinement` maps `TokenGrants` onto `GrantLifecycle`.

Operators whose comment says *Mutant* are not part of a specification: each is
a plausible mistake in the definition that follows it, and the property it is
listed with in `PROJECT.json` is violated when it takes that definition's place.

### UnitOfWork

`com` is the committed version of each row and `cur` the newest, its writer's;
`writer` and `sharers` are the row locks of UPDATE/DELETE and of SELECT FOR
SHARE. A statement of `w` reads `Sees(w, x)`. `WriteRow` and `HoldRow` are
enabled only when the lock is free: a request that cannot get it simply waits.
An insert is invisible and blocks nobody until its commit, so an insert and the
commit that follows are one step (`InsertAndCommit`); the one insert that does
block, an upsert of a consent, is a `WriteRow`. The ROLLBACK of a dropped unit
of work is sent by a task the runtime spawns; here it happens as the request
ends, so a lock is never held by a request that ended.

### Links

What `UnitOfWork` takes for granted. A statement is sent, then awaited; a call
may be cancelled at any await and what it sent stays queued: the server runs the
queue of a session in order. `Recycled` is the pool's `ROLLBACK; RESET ALL`;
`TaskEnds` the task that rolls an abandoned unit back. "unheard" is what a caller
is told when the answer to its COMMIT is lost: a failure, after which the write
is kept or not. Each caller runs once. deadpool, tokio-postgres and Postgres are
modelled from how the code uses them.

### TokenGrants

One request is one call of an endpoint. `pc[r]` is the statement it runs next:

| Steps | Code |
|---|---|
| `a_session`, `a_consent`, `a_issue` | `begin_authorization`, and `answer_consent` once the page is answered |
| `x_spend`, `x_spent` | the first unit of work of `exchange_code` |
| `x_subject`, `x_consent`, `x_bind`, `x_answer` | the second one |
| `x_mark`, then `t_start`, `t_rows` | `take_back_what_a_code_obtained` |
| `r_spend`, `r_lock`, `r_subject`, `r_answer` | `rotate_refresh_token`; `SPEND_TOKEN` is two steps, its snapshot and its lock |
| `r_read`, then `t_*` | a token that comes back used |
| `v_read`, then `t_*` | `revoke_token` |
| `l_read`, `l_end`, then `t_*` | `confirm_logout`, `close_session` |
| `w_delete`, then `t_*` | `withdraw_consent` |
| `t_start`, `t_rows` | one UPDATE that revokes many rows: those it found, one lock at a time, each asked again |

A row that is not there is `None`. A refresh token is named by the request that
wrote it, and a family by the exchange that opened it, since each mints at
most one. `asked[r]` is what the request presented, `dead` whether it was dead
when the request began (history, read by properties only). `told[r]` is the
event the request appended, and `ended[r]` the tokens it revoked. `Fail` is a
failed statement, a lost link or a crash: the open unit of work is rolled back
and what was committed before stays. `GiveUp` is the failure Postgres
guarantees, that of a wait that lasts too long.

Left out, and why: the second factor a session may have to prove (a session
answers for its person as long as it is live; `SecondFactor` says when it is
proven); a person disabled, which no operation does; the content of signed
tokens; the client's authentication, which reads one row and refuses
(`Administration`). The pending request behind the consent page is `SignIn`'s:
here an `allow` is the step after it. An administrator's and a person's own withdrawal share
`withdraw_consent`; the model starts them at its first write. A session purged
between the reading and the writing of a token refuses the token
(`IssueRefreshToken`), as its foreign key does. Sessions are all opened at
instant 0, and the clock is the same on every node. A commit whose answer is
lost is a granted request the client does not know of: no property relies on
the client having it.

### SignIn

One client. A call of `Begins` is `begin_authorization`, one of `SignIns` a form
of a waiting page, one of `Answers` an answer to its consent page; the request
and the session a call makes are named by it. The proofs of a password, a code
and a key are one step each (`Brake` and `SecondFactor` open them up), and the
clock is read by the statement that uses it. A client changed or disabled after
its request began is not read again before the answer, as in the code. A crash
after a session is opened leaves an active session whose ticket nobody holds: it
expires by itself, and what `OneAnswer` says of a loser's session (`LoserKeepsNoSession`)
is of calls that were answered.

### SecondFactor

One person. A request is one call of `totp.rs`, `webauthn.rs` or `enroll.rs`, or
an administrator's removal; its statements are its steps. What an application or
a key shows is a value: a code is a secret and a time step, an answer a counter.
The use these steps make of the brake is abstracted: a call may be refused for
it at any time. The row of a key tells its counter, its last use and the
enrollment it is of (`created_at`). `RecordKeyUse` compares the first two only,
as the statement does; a key that is taken away and set up again counts anew.

### Brake

A row of the storage is a counter in a bucket, or a known browser. An attempt
stamps itself once. `IsNameLocked` reads all its counts in one step: they only
grow between its statements but for an unlock. A password too long and a busy
hasher are attempts dropped at that point. The eviction of browsers is one
statement in two steps: it chooses from what it sees when it begins, then waits
for the rows it chose. `judged` counts what was really
handed out, against which the counters are held.

### RelationWalk, Policies

Pure algorithms, run in one step on every input of the instance. The walk is
given the relations before and after a change that falls between two of its
reads, and its answer is held against a fixpoint (`Holds`) over what stood all
along and over what stood at all; the order of rows is some fixed one; a failed
storage gives no answer. In `Policies` a text is the set of its parts, roles and
groups are one set, and a verdict is held against every way of filling in the
facts that are missing.

### Definitions

Who may write which definition, under the lock of the row `definitions`. A group
is a role of the realm, as both are removed alike; clients are never deleted; a
policy's name is that of one client. A relation is labelled by how it came to be
kept. Relations kept behind the product's back, and a schema that does not open,
are there at the start or never, and may be there together: such relations are
`"slipped"` under a schema that opens, or none, that does not admit them, and
`"unsure"` under one that does not open, of which nobody knows what it admits.
A schema that admits one of the former removes it as it is written
(`NoneIsWoken`); of the latter the first schema that opens keeps those of a kind it
admits and removes the others (`UnsureIsSettled`). `OneDecider`
speaks of a schema that opens: of one that does not, nobody knows the types, and
a question refuses (`Questions`).

### Questions

One client, type and action. What the token says, its scopes and the client it was
minted for, is settled when the question begins. The steps are the statements of `decide`; a change
of the realm is one commit of another call, and keeps what the locks of the
definitions keep. The answer is held against a reference `Verdict` over all
realms made of facts that held at some moment of the question. They need not
have held at one instant, since each statement has a snapshot of its own: the
code does not promise more. The walk is one read, a policy has no undecided
condition (`RelationWalk` and `Policies` have them), and a share may be refused.

### HeldRoles

One person and the tokens of one client. Instants are finer than the seconds of
a token, and the clock is read before the statements. A write of one statement
is one step; a role deleted is not created again. Whether the session lives is
left to `TokenGrants`.

### Administration

A realm is named by the call that provisions it, a secret by the registration
that made it. The statements of a provisioning that nobody else can see are
merged; those that wait for a unique key are not. The expiry of a token is a
refusal that may always happen. Disabling a realm or a client and taking a
capability away are hands on the tables: the code reads these columns and has no
operation that writes them, so they are marked external.

### AuditChain

`EnsureHead` and `AppendEvent` are the two statements of
`saffui_append_audit_event` that lock; a unit of work may append several times
before it commits or is abandoned. A set of events *is whole* (`IsWhole`) when
its sequence numbers are 1 to n, each event hashes the one before, and the head
is the last. `BeginVerify` takes the snapshot, of events
and head together, and `VerifyPage` walks it page by page. `AlterEvent` and
`RemoveEvent` are hands on the table, not code. `Hash` is any operator; the
instance makes it injective, which is what a verification relies on.

### FairShares

One module for both kinds of shares, since both count a call under each key it
is held to and check and change all the counts under one mutex. A hash is held
to its realm and to the /48 of an IPv6 caller, and asks (`has_free_share`)
before its attempt is counted; a question is held to the node and its tenant,
and takes at once.

### Hashers

A call that holds its shares takes a worker or is refused; the hash runs on its
own thread. `DropCall` is a client that hangs up: the share goes with the call,
the worker with the hash. There is no await between share and worker, so no drop
there. `left` counts the hashes whose call is gone. The decoy hash is made once,
when a node starts (`wiring.rs:155`), before there are calls, and is left out.

### RetentionPass

A row is the instant it expires at. The clock that says what expired and the time
a pass spends are apart, a pass being short. A batch chooses its rows, waits for
them, and removes them asking again; it takes its rows at once, and a wait longer
than `statement_timeout` is a batch that fails. The lock of a pass is lost with
the session of its node; that a failover of the database lets two nodes hold it at
once, as `Migration` has it, is not modelled here. What the removals do to who
relies on the rows is in `TokenGrants` and `Brake`.

### Migration, Rollout

A migration is the name of its text, its version its place in the binary; two
binaries of one lineage share a prefix. `Failover` forgets the lock and cuts the
session or not. A missing or privileged role is `RefuseRunner`. In `Rollout`
whoever routes traffic is external: it asks for readiness at most `PollPeriod`
apart. `ProbePatience` bounds a whole answer, which in `probe.rs` is up to three
waits of `PROBE_PATIENCE` each: for a session, for its opening or recycling, for
the read. That `DrainDelay` exceeds the period and that bound is a property of a
deployment that `TrafficIsServed` needs; a node that is killed, and
the backlog of a listening socket, are not modelled. Nodes share nothing but the
schema, so the instance has one, over which a migration passes.

### Disclosures

A claim is a tree; a digest is the disclosure it is of, as a hash without
collisions makes it. The issuer conceals, the holder selects and binds, the
carrier loses, repeats, reorders or alters, the verifier reads. All refusals are
one value; decoys are a count. The names of hash algorithms, `typ`, `nbf`,
leeway and the issuer's signature are left out: the issuer's token arrives as it
was signed.

## 3. Runs

Every instance is explored whole, in seconds to about three minutes. A run asks one
question of the components it instantiates, and its properties are conjunctions
of named parts, each with a comment of its own where it is defined.

Two devices keep instances small without replacing a definition. Where all that
may happen together is too much, an MC module has *scenarios*
(`MCSecondFactor`, `MCSignIn`, `MCAdministration`): one is chosen at the start and
says which calls of the specification are explored with each other. Where
components share a run (`MCStorage`, `MCNodes`, `MCDecided`, `MCDefinitions`), or
one component is instantiated with several sizes (`MCBrake`), a
behaviour is one *part* of it, and the variables of the others stand still;
`Within` of `MCDefinitions` keeps a part to its own calls.

| Run | Instance | Shows |
|---|---|---|
| `grants` | 4 requests, 2 codes, a client that requires consent: calls that take back, or that rest on a consent, at one instant; 3 exchanges and rotations while the clock goes to 4 (code 1, session 2, codes kept 2, token 5) and rows are purged | `TypeOK`; of all exchanges of a code and of all rotations of a token one wins (`OneWinner`); two tokens of a family are never both good (`OneSpendable`); a replayed code leaves nothing good (`ReplayTakesBack`), nor does a withdrawn consent (`WithdrawnHolds`); what was dead when it was presented obtains nothing (`DeadObtainsNothing`); a token is marked used only with its heir (`UsedHasHeir`); every revoked token has its event (`NoSilentRevocation`); a code is kept as long as what it obtained (`CodeKeptLongEnough`); a dead family stays dead (`NeverRevived`) |
| `answered` | 4 requests whose endpoints are fixed: exchange, rotate, revoke, logout of one family | every step is one of `GrantLifecycle` or a stutter (`ImplementsLifecycle`); `EveryRequestIsAnswered`, also those that wait on each other |
| `told_once` | the instance of `grants` with one code, at one instant | a violation, below |
| `sign_in` | two forms and two answers sent together; two forms on two pages; every prompt and hint while a consent is withdrawn and the client changes | a request is answered once and its losers keep nothing (`OneAnswer`); a code is for who proved it on that page, again when asked (`CodeIsProven`), and says no more than was allowed (`NoCodeUnallowed`) |
| `factors` | codes typed together; an application replaced; a key and its copy; a key taken away and set up again while both answer; two enrollments from sessions of the password alone | no code, answer or start serves twice (`ServesOnce`); none is judged past a suspension, which only others lift (`SuspensionStands`); `UnprovenSessionsEnd` |
| `brake` | 2 attempts at once, in eight parts: 4 guesses from an address or nowhere; 4 sign-ins, right or wrong, from 3 browsers; requests left waiting; an unlock; 10 instants in which counters are purged; 5 guesses spread over the day of a name, 4 over that of a browser; browsers that expire | what is given past a bound, recent or of a day, is what was let in together and nothing given is uncounted (`EveryBoundHolds`); nothing is given back (`NoGuessGivenBack`); `BrowserAnswersForItself` |
| `administration` | 3 calls: realms raced for, clients that create clients, calls let through while rights are taken away | a realm is found whole or not at all (`RealmsAreWhole`); nobody ends with more than the operator gave, none is let through on a right it has not when it is read (`RightsAreHeld`) |
| `storage` | 2 units of work, 3 events, pages of 2, one alteration; 2 units of work of 2 realms and a probe over 2 sessions | `ChainIsWhole`, `VerdictIsTrue`; each unit of work runs in its own transaction, scope and settings, and is told what is kept (`UnitsAreApart`); verifications and transactions end (`EverythingEnds`) |
| `nodes` | 3 runs of 3 binaries, one of another lineage, 2 failovers; a node under a migration; 2 nodes that purge 4 tables, full or served | the history is one lineage, wholly applied (`HistoryStands`); no request reaches a node that refuses it (`TrafficIsServed`); nothing of use is purged, within budget (`PassesAreSafe`); runs, shutdowns and what is useless end (`EverythingEnds`) |
| `hashers` | 4 calls of 2 realms and one network, 4 workers | `SharesAreFair`, `WorkersAreAccountedFor`, `WorkersComeBack` |
| `decided` | claims nested three deep, 3 disclosures, 2 bindings; all sets of relations, changed at any read, and low bounds; pairs of policies over missing facts; a question, what its token says, and 2 changes | the verifier reads what was issued less what is withheld, once, and what was bound for it (`DisclosedAsIssued`); `WalkIsTrue`, `VerdictIsSure`, `DecidedOnWhatWas` |
| `definitions` | 4 writers of relations, policies and roles, over relations kept by other means and schemas that do not open; 2 roles, a group, 1 to 3 administrators | what is kept is what the schema admits, and none but what a schema that opens found of its kinds (`DefinitionsAgree`); no token or kept answer says a role past its end, none says a part, no grant is of what is gone (`RolesAreSaid`) |

Why the bounds are enough. Four requests are an exchange, a rotation and two
calls that race them: the smallest number at which a family has two tokens and
two handlers disagree about it, and every race the comments of the code speak
of has at most that many parties. A second code may be issued after a
withdrawal. The order of the lifetimes is that of the code: a code 1 minute, a
session 12 hours, a token 30 days at most and never past its session, codes kept
as long as a session. A page has two forms and two answers, the smallest number
at which each kind loses to each other. The bounds on guesses are 1 recent
failure, 2 in the day of a browser, 2 of a name and 3 in its day, where the code
has 5, 20, 50 and 100: the excess they may have is counted by
`Cardinality(Attempts)`, not by the bound. A short bucket is one instant and a
long one two; a window is two short buckets, as in the code, a day three long ones
(two where counters are purged), and retention two days. Two parts spread guesses
over two and three buckets of the day, never enough of them recent to lock: there
the bound of the day alone holds, and without either of its two checks
`EveryBoundHolds` is violated.
Budgets of a walk are set just above and just below what the instance needs. Two
sessions in a pool and three callers make one wait for a link another left.
Deadlock is not checked where calls are one-shot: when all are served, nothing is
left; `hashers` checks it. Symmetry is over calls that are alike (`grants`,
`brake`, `sign_in`, `administration`), where no liveness is checked.

Fairness. Of a call, that a node serves what it accepted (`WF` of its next step)
and that a wait for a row ends (`WF(GiveUp)`, or a step that fails): the runtime
polls every task, and every unit of work sets `lock_timeout` (`work.rs:64-70`),
besides Postgres's own deadlock detector. Of a migration, the same of its
session's `lock_timeout`. Of a link, that the server runs what is queued, that a
spawned task runs and that an idle transaction is ended (the settings of the
pool). Of a hash, that it ends. Of a pass, that the timer of a node ticks. Of a
rollout, that time passes and that readiness is asked. Nothing is assumed of
failures, of new requests or of changes made by others. In a run of several
parts each of these is stated of the part it belongs to. Liveness is checked in
`answered`, `storage`, `nodes` and `hashers`.

### Disagreements

`told_once` is a run whose property states what a comment says and which TLC
refutes; the quotation is under `findings`. "A family revoked already is written
no more" (`refresh.rs:71`, `revoke.rs:46`). Whether it is revoked is read before
its tokens are locked: with a rotation in flight two revocations both read it
live, and the second tells a second end, of the late token. No token is left good
by it.

Others, met while modelling and described here alone:

- "its own failures do not lock the name for anyone else"
  (`steps/password.rs:37`). They count in the day of the name, and a browser's
  own sign-ins clear its own counters: a stranger can be locked out for them.
- No factor "from a session the password alone opened, for a person who holds one
  already" (`enroll.rs:430`). What the person holds is read without a lock; of
  two enrollments at once the second breaks it. Each ends the other's session
  (`UnprovenSessionsEnd`), which bounds what it is worth.
- "Only it can answer" (`authorize.rs:647`). A form of the same page, by a person
  who owes no consent, still takes the request.
- "what the pass may remove is gone" (`retention.rs:54`). A row renewed while its
  batch waits makes a full batch come back short.
- "Refuses conditions that could never be decided" (`policy.rs:408`). An order
  against a text is admitted.
- "run no more than their share at once" (`steps/password.rs:104`). A dropped
  call gives its share back and its hash goes on; the workers still bound the
  whole.
- "So do those of a kind it admits anew, kept behind the product's back"
  (`relations/mod.rs:226`), of the relations a new schema removes. Not when the
  schema before it does not open: what it admitted is not known, and a relation of
  a kind the new one admits stays (`mod.rs:266-268`, and the test at
  `mod.rs:697`). `UnsureIsSettled` says what holds of them.
- "The facts are read as they are now, never from what the token says beyond who it
  is for" (`decide.rs:266`). The scopes of the token and the client it was minted
  for are facts as well (`decide.rs:108`, `decide.rs:131`), and a policy may permit
  or deny by them. `DecidedOnWhatWas` holds the verdict against what the token says
  and, of all else, against what was so while the question was asked.
- Claims that decide validity are not concealed (`conceal.rs:10`). One inside
  another (`cnf.jwk`, an element of `aud`) is.

## 4. Proofs

Every theorem holds for any requests, codes, tokens, sessions, persons, clients,
scopes, factors, realms, calls, keys, workers, links and events, and any lifetimes and bounds that the
assumptions below admit; TLC evaluates each assumption on the run of its module.

### Assumptions

- `NoneAssumption`, `RowsAssumption`, `GrantAssumption`, `ChainAssumption`,
  `WorkersAssumption`, `MigrationAssumption`, `RolloutAssumption`,
  `SignInAssumption`, `LinksAssumption`, `FactorAssumption`, `PartsAssumption`,
  `AdministrationAssumption`, `DefinitionsAssumption` and the `RowsAssumption` of `SignIn` and of
  `SecondFactor` (`PartsAssumption` is of `SecondFactor` and of `Definitions`): the kinds of the constants, and that the keys of the tables are apart, the sessions there at the
  start being none that a call opens (identifiers are fresh UUIDs).
- `SomeAssumption`: the absent value is no row, no event, no set of scopes. It is
  what `None` of an `Option` is to every `Some`.
- `LifetimeAssumption`: a session does not outlive a refresh token nor the time a
  code is kept. `SESSION_LIFETIME` is 12 hours (`login/session.rs:22`),
  `REFRESH_TOKEN_LIFETIME` 30 days (`tokens/mint.rs:188`), and a code is kept
  `SESSION_LIFETIME` past its expiry (`retention.rs:26`). `CodeIsKept` and
  `DeadIsRefused` need it: a shorter time would forget a code while what it
  obtained is good.
- `WrittenAssumption`: a schema that is written can be read back, as it was
  compiled first (`relations/mod.rs:237`), and a policy names a role by an identifier. A schema
  found at the start may be one that no longer opens.
- `SharesAssumption`: calls are finite, and a limit is at least one, as
  `HashingShares::new` makes it.

`VerdictsAreTrue` is stated under two more: `HashTellsApart`, what SHA-256 is
relied on for, without which an altered row could pass for the one it was; and
`NoneIsNoPosition`, that an empty head is no head.

### The token endpoint

`IndInv` (`TokenGrantsProofs`) is the first of eight inductive layers; each rests
on those before it, and TLC checked every one on the instance of `grants` before
it was proved. The run has one client: that what another client presents is dead is
shown by `DeadIsRefused` alone.

| Layer | Says | Why the next needs it |
|---|---|---|
| `IndInv` | `WritesKeep`: what is written and not committed leaves a code spent and keeps a token's mark of use. `StepFits`, `CallFits`: a step belongs to the call. `HoldFits`: who won a code or token has its row lock, or finds it spent, used or gone. `Unminted`: a token is not there before its request answers. `Apart`: no two hold the same | `WonOnce`, `TypeCorrect` |
| `LockInv` | who has the lock of a row wrote in it exactly what the step it is at says (a token marked used or revoked, a code spent, bound or replayed, a session ended, a consent deleted or allowed), and who must have a lock where it is has it | what each of the five statements that commit publishes is known to the field: `SpendsCode`, `IssuesCode`, `OpensFamily`, `CarriesOn`, `TakesBack` |
| `FamilyInv` | every token is of a family an exchange opened, with the client and the session of its first; a code names the family it opened and no other; of two tokens of a family one was used; nothing outlives a session, nor goes before it; a revoked token has an answered request that told of it | `OneIsSpendable`, `UsedIsCarriedOn`, `RevocationIsTold` |
| `ShareInv` | an exchange that writes for a client that requires consent holds it in share, so that nobody deletes it meanwhile | a withdrawal comes before or after the token, never beside it |
| `TakeInv` | `NoneEscapes`: the first token of a family that is being taken back is revoked, found, or locked already; `ReplayFits`, `ConsentFits`: the first token of a replayed code, or of a missing consent, is revoked. The first token stands for its family: no other is good once it is revoked, since a rotation refuses a family of which one is | `ReplayIsTakenBack`, `WithdrawalHolds` |
| `IssueInv` | a code that is being issued was not there at the start and no other call asks for it; a code that is held is there while a session lives | `CodeIsKept`, and that an issued code revives nothing |
| `DeadInv` | a call that began with something dead is at no step that wins, and what it was dead by still stands | `DeadIsRefused` |
| `MintInv` | a granted request keeps the family of what it was granted | the refinement, whose mapping reads it |

`CalmBut(r, X)` says what any storage step of `r` may do to the rows outside
`X`: leave alone what others write, make no spent code and no used token good
again, put no row where there was none. One lemma shows it for each operation of
a unit of work (`CalmWrite`, `CalmCommit`, `CalmRollback`, `CalmInsert`,
`CalmDelete`, `CalmHold`); `OthersFit` derives from it that what `IndInv` says of
every other request stands; `PlainStep` settles the steps that win nothing, and
the steps that begin, win or answer have lemmas of their own. The two that win
are the heart: the winner of a code or of a token finds the row neither spent
nor written by another, so by `HoldFits` nobody holds it. The later layers are
laid out alike: one lemma per operation of storage, one per kind of step, one
that puts them together (`LocksHold`, `FamiliesHold`, `SharesHold`,
`TakenBackHolds`, `IssuesHold`, `DeadHold`, `MintsHold`).

From them follow `OneIsSpendable`, `ReplayIsTakenBack`,
`WithdrawalHolds`, `UsedIsCarriedOn`, `RevocationIsTold`, `CodeIsKept`,
`DeadIsRefused` and the action property `RevivesNever`. A proof changed a
property: `ReplayTakesBack` spoke of the one family a code was bound to, and now
speaks of every family an exchange of that code opened.

`GrantsImplementLifecycle`: an initial state maps to an
initial state; a step that commits no token leaves every grant as it is or, as a
tick, a purge and a take-back do, closes some (`Close`); an exchange that answers
opens its grant or mints a token that is dead already (`Open`, `MintLate`); a
rotation that answers carries its grant on or mints late (`CarryOn`, `MintLate`).

### Sign-in

`SignInProofs` has two layers.

`IndInv` is of rows and locks. A request is there only once its call left it
waiting; who removed it and has not committed is the only one at a step of
`Taking`, and has its row lock; a form writes a session only to end its own, has none
before it opens one, and none that answers once it was told that it lost; a
request that was answered is gone and unlocked. A take finds the row with nobody else's write on
it, so of everything that reaches one page one call takes it, and what the commit
makes go is answered by the same commit: `RequestIsAnsweredOnce`. `Purge` removes
what expired only, and a refused answer rolls its take back.

`CodesInv` is of people. It follows three things from one call to the next
through the rows between them: a row of a request asks what its call asked and
names people who proved their password on its page, and a session it waits in
answers for the person it hinted at (`IsRequest`, `AnswersFor`); a session is of
the person who proved their password on its page (`OpenedInv`); what a call may
count on as allowed was allowed since it began (`HasAllowed`, `CallInv`,
`ConsentInv`). Once so, these stay so whatever another call does, as a session
stays whose it was and a request stays what was asked (`Grows`): one lemma per
operation of storage, then one per action. `CodesAreProven` and
`NothingIsGivenUnallowed` follow. The first covers what the run does not reach: a
third form that changes who proved the first factor while two others are between
their reads. The second says "at some time of the call":
a consent withdrawn between the read of the terms and the commit does not stop
the code, as the code reads without a lock.

### Second factors

`FactorInv` (`SecondFactorProofs`) has six layers.

| Layer | Says | For |
|---|---|---|
| `LockInv` | a row that is written and not committed is written by a request at a step that holds it | all below |
| `CodeInv` | a request that accepted a code holds the row of the application, with that secret and step in it; once it committed, every row of that secret is past the step. A secret is made once | a code serves once, for the secret it was judged against |
| `KeyInv` | a request whose answer was recorded holds the row of the key; once it committed, the row is of another enrollment or its counter and its last use have moved on | two answers do not serve on one reading |
| `StartInv` | a request that took a start removed it, and none makes it again | one key per start |
| `SessionInv` | a request about to commit a factor has ended, or finds ended, each session of the password alone but its own | `UnprovenSessionsAreEnded` |
| `AttemptsInv` | who judges a code holds the count, one above the committed; wrong codes in a row are counted; a full count was told; a key or a code clears only a count below the bound | `SuspensionsStand` |

`Moves` is a table of what a step of one request may do, by the rows it touches:
it turns to another step, puts a row it gets the lock of, commits, opens a session
or undoes what it wrote. `NextMoves` shows that every action is one of them, with
a lemma per operation of a unit of work beneath it; then one lemma per layer shows
that each kind of move keeps it (`MovesLock`, `MovesCode`, `MovesKeys`,
`MovesStarts`, `MovesSessions`, `MovesAttempts`). `FactorsServeOnceAlways`,
`UnprovenSessionsAreEnded` and the action property `SuspensionsStand` follow.

The proof corrected a property. `NoProofTwice` said that no counter of a key serves
twice; it cannot be proved, and is false, once the key is removed and enrolled
again, as its counter begins anew. It now speaks of one enrollment, the row tells
which it is of, and a scenario of `factors` has a key taken away and set up again
while answers to the former are being judged.

### Administration

`AdminInv` (`AdministrationProofs`): a realm is absent or whole (`IsWhole`) and
none of its clients holds more than its root (`IsRooted`); names are apart; a token
was given to a client of the realm it names (`TokenFits`). A provisioning has
written exactly what its step says, in a realm nobody else reaches
(`ProvisionFits`), so that what it commits is whole. A unique key that was
inserted and not committed is held by one call, which is at a step that writes,
and is not taken yet (`HoldFits`, `HasKey`): of two that want one name the second
waits for the end of the first, and is told that it is taken only after a commit.
An administrative call whose client still may what it requires was made while it
might (`AdminFits`, `MayStill`): rights are only ever taken away from a client that
is there, so the capabilities read when the call is let through are among those it
had when it was made, and those of the root. One lemma per action shows that each
keeps it, and `RealmsStayWhole` and `RightsStayHeld` follow.

### Definitions

`DefInv` (`DefinitionsProofs`) has three layers.

| Layer | Says |
|---|---|
| `LockInv` | who has a row is at a step that holds it, and wrote in it exactly what its call was asked: a schema, a relation or a policy where there was none, a removal of what was there |
| `ReadInv` | who is past the lock of the definitions has it, and what it checked since still holds: no policy is for the types of the schema it writes (`SchemaFits`), the schema kept admits its relation (`RelationFits`), the role of its policy is there and there is room for it (`PolicyFits`), no policy names the role it deletes (`RoleFits`) |
| `KeptInv` | what is committed agrees: relations with the schema and with the chain, policies with the schema, with the roles and with their bounds |

The second is the argument. Whoever could make a check false needs the lock as
well, and there is one lock; whoever needs none (a removal of a relation or of a
policy, the creation of a role) only takes away what a check may find missing or
adds what it may find, which `Shrinks` says and `OthersRead` uses. As in
`SecondFactorProofs`, `Moves` tells each step by the rows it touches. What a commit
makes of `KeptInv` has one lemma for each kind of call (`SchemaEnds`,
`RelationEnds`, `PolicyEnds`, `RoleEnds`, `RemovalEnds`). Relations kept behind the
product's back need invariants of their own: under a schema that opens, or none,
one is of no kind it admits, or a new one could admit it unremoved; one that was
found under a schema that does not open stays until one that opens is written, and
then is of a kind that one admits or gone (`UnsureIsSettled`).
`DefinitionsFit` and `DefinitionsStayAgreed` follow.

### Links

`StorageProofs`: `LinksInv` says of each session what may be queued in it, by who
has it. In the pool it is at most one statement of a caller that ended; a session
that is being recycled has that one, then a rollback and a reset; a caller past
its recycling has what its own step sent and nothing else, in a transaction it
opened itself. So what a cancelled call left runs before the rollback of the next
borrower and never inside its transaction. A commit left behind is of a caller that was told
nothing, and its transaction still holds all that caller sent and nothing else
(`IsLeft`): it is kept whole or lost whole, whenever it runs. `OthersStand` shows
that a step leaves alone every session but its own; `HolderMoves`, `HolderLeaves`
and `ServerGoesOn` reduce an action to its session and its caller, with one lemma
for each action above them; `KeptJoins` settles what a commit adds.
`UnitsStayApart` follows.

### Shares and hashers

`HashersProofs`: `CountsAreHolders` is inductive with `TypeOK`: taking adds one
holder to each key of the call, giving back removes one that was counted, so the
saturating subtraction never saturates. `NoKeyBeyondItsShare`,
`RefusalsHaveACause` and `SharesStayFair` follow. Free workers,
hashes waited for and hashes left add up to `Workers`
(`WorkersStayAccountedFor`); every step of `Hashers` is one of `FairShares` or
leaves the shares alone (`HashersImplementShares`), so the shares stay fair there
too (`HashersStayFair`).

### The audit chain

`StorageProofs`: what the server wrote is one chain that ends at the committed
head, and what is committed is that chain but for the rows altered; with the rows
inserted by the one unit of work that has the lock of the head it is one chain up
to the newest head (`ChainFits`). An append extends it, a commit publishes it, a
rollback leaves it (`ChainStaysWhole`). What is behind a verification is whole,
page by page, so its verdict is what is so (`VerdictsAreTrue`).

### Migrations and nodes

`RolloutProofs`: a run that applies upon `n` migrations shares them with the
schema, one that wrote a version down wrote the one after the last, and no two
have (`MigrationInv`). A plan that finds no trouble found a prefix of its binary;
the key of the history keeps two runs from writing one version; a commit carries
the schema on by one. Nothing of it uses the lock, as the comments of `lock.rs`
want it (`HistoryStaysOneLineage`). Since the schema only grows, a node seen out
of its window stays out of it, and requests go to it only by an answer given
before (`NodesInv`). `TrafficStaysServed` is stated under `DrainIsLonger`: the
drain delay exceeds the period of the polls and what a whole probe may take, which is
what the delay is for (`serve.rs:21`) and what an operator sets; then a node that
drains was asked before its signal or says it is not ready (`DrainInv`), and has
nobody sending to it when its data plane stops.

### What TLC alone shows

Liveness, in every module: out of the prover's reach. `Disclosures`,
`RelationWalk` and what uses them: their answers are recursive over data, and a theorem may not reach a RECURSIVE operator. `Brake`:
its bounds add up counters over buckets with a fold, which takes an induction over
the set. `Policies` and `Questions` are
checked beside them in `decided`. And, so far, the safety of `RetentionPass`
and `HeldRoles`.

## 5. Plan

Modelled and checked: everything of section 1 but what follows.

To prove next: `NoGuessGivenBack` of `Brake`, which needs no sum; and, with a lemma
on sums over disjoint sets of buckets, `EveryBoundHolds`.

### Not modelled

- *Cryptography* but for selective disclosure: ciphers, signatures, envelopes,
  X.509, revocation lists, legacy password hashes, and the JOSE code under
  `crypto/src/jose`, which is taken over from another library. Pure
  computation over bytes, which a model would only restate, and by far the
  largest part of the source that no definition is mapped to, with the tests, the
  contract suite under `testkit/` and the generated schema.
- *HTTP endpoints, the command line, configuration*: extraction, routing and
  rendering around the operations modelled; no state between calls.
- *The SQL builder and the parser of schema text*: translations; the first is
  checked by the database, and a schema is here what it compiles to.
- *Directory*: the creation of a person is one insert under a unique name, like
  that of a client in `Administration`. *Lists* are single reads.
