# Verification of SentinelLog-AI

TLA+ models of the backend (`src/backend/app`), checked with TLC, and theorems
about them, proved with TLAPS. The code is the reference; every definition that
models code is listed with its source lines in `PROJECT.json` ("map").

## The system

SentinelLog-AI takes log lines from tenants over HTTP, has a local classifier
judge them, has suspicious ones explained by a remote language model or a local
heuristic, and keeps the result in PostgreSQL for a dashboard. It is one asyncio
process (FastAPI, SQLAlchemy async); concurrency comes from the event loop's
coroutines, from the queue's worker tasks, and from the transactions they run
side by side in the database.

| Component | State | Operations | Hard behaviour | Correct when |
|---|---|---|---|---|
| Ingestion queue (`modules/log/queue.py`) | next ticket number, FIFO queue, item per ticket with an event, four counters, worker tasks | `initialize`, `start`, `stop`, `enqueue_and_wait`, `enqueue_async`, `_worker_loop`, `get_metrics` | workers interleave at every await; a client gives up while its entry goes on; cancellation in the middle of a commit; the counter is rebuilt from the database after a restart | an entry is in one place, counters add up, FIFO, every entry taken is finished and its waiter woken |
| Triage pipeline and log store (`modules/log/service.py`, `repository.py`, `models.py`) | tables `log_records`, `log_explainability` | `process_log_entry`: classify, decide, insert, explain, commit, roll back | failure between two flushes; lost connection during a commit | acknowledged means stored; record and explanation together or not at all; stored once |
| Log endpoints (`modules/log/api.py`) | none | ingest, async ingest, batch, status, metrics, summary, lists | reads mix memory and database | a tenant is never told two outcomes for a ticket |
| Triage decision (`aiModel/service.py`, `llmSservices/service.py`, the decision in `log/service.py`) | none | `predict_log`, decision, `explain_log` with fallback | classifier missing or unsure, remote engine failing | nothing suspicious stays unexplained or counts as safe |
| Sessions and tokens (`modules/auth/service.py`, `repository.py`, `api.py`) | `auth_session`, `refresh_token`, password hashes | login with rehash, refresh with rotation and replay detection, logout, logout-all, change-password | each request is a sequence of transactions at READ COMMITTED, interleaved with others; row locks taken in different orders; answers lost after a commit | one usable token per session; a revocation that was confirmed holds |
| Accounts (`modules/organization`, `modules/admin`) | organizations, admins | register, profile update, create/delete admin, delete organization | check-then-insert against unique indexes, foreign keys of admins and logs | unique e-mail, deletion leaves nothing dangling |
| Principals and permissions (`auth/dependencies.py`, `permissions.py`) | none | resolve token to principal, role guards | the account may go away between token and use | only active sessions of present accounts get in |
| Security primitives (`core/security.py`) | none | Argon2 hashing, JWT | none (libraries) | |
| Infrastructure (`core/config.py`, `database.py`, `rate_limiter.py`, `health.py`) | engine, limiter | | none of its own | |
| Migrations (`alembic/env.py`, `alembic/versions`) | committed revision, tables | upgrade, downgrade, each one transaction | a revision refused or a command interrupted half way; a backend registering, deleting and storing meanwhile | at the head no log is without an owner; a command does all or nothing |
| Front end (`src/frontend/app.js`) | access token per tab and in localStorage, the view, what is shown | sign in, sign out, reload, poll, refresh, submit | calls that nobody cancels, answered in any order, after the tab changed hands; tabs that share localStorage | signed in exactly while a token is held, only a refusal signs out, the page catches up with its account |

How they interact: an endpoint resolves the principal (auth), hands log entries
to the queue (a call, then an await on the item's event or a ticket returned at
once), workers call the triage service with a database session of their own, and
the dashboard reads counters from memory and totals from the tables, every five
seconds from each open tab. Accounts own logs by foreign key and sessions without
one. Migrations run from outside, beside a backend or without one.

The hazards, each at its line, are in `PROJECT.json`.

## Modules

| Module | Models |
|---|---|
| `LogQueue` | queue, workers, clients, transaction of each entry, deletion of a tenant, startup, shutdown, process death and restart |
| `LogQueueProperties` | its properties and the inductive invariant `QueueInv` |
| `IngestContract` | the abstract specification: what ingestion promises a client |
| `LogQueueProofs`, `LogQueueWorkProofs` | theorems about `LogQueue`: what is stored and answered; that work is neither lost nor done twice |
| `AuthSession` | sessions, refresh tokens and password changes under concurrent requests |
| `AuthSessionProperties` | its properties, the inductive invariant `AuthInv`, the claims not kept |
| `SessionContract` | the abstract specification: what sessions promise, without transactions, locks or chains of tokens |
| `AuthSessionProofs`, `AuthSessionContractProofs` | theorems about `AuthSession`: rotation, revocation, passwords; the contract and who waits for whom |
| `Triage`, `TriageProofs` | the decision for one entry, with its properties; theorems about them |
| `Account` | organizations, admins, permissions, and the log rows that refer to an organization, with the properties and the inductive invariant `AccountInv` |
| `AccountProofs` | theorems about `Account` |
| `AtomicMigrations` | the abstract specification: a migration command takes place in one step or not at all |
| `Migrations`, `MigrationsProofs` | the chain of schema revisions beside a live backend, with its properties; theorems about it |
| `Dashboard`, `DashboardProofs` | the tabs of the front end and their calls, with its properties; theorems about it |
| `MCLogQueue`, `MCAuthSession`, `MCTriage`, `MCAccount`, `MCMigrations`, `MCDashboard` | instances for TLC |

`LogQueue` leaves open whether an entry is explained; `Triage` says when it is.
`AuthSession` stands alone: sessions share nothing with ingestion but the
account. Accounts and ingestion meet twice. In `Account` a queued entry is a
request that carries its tenant and stores a row later (`Ingest`, `InsertLog`);
there the account's own operations are in detail. In `LogQueue` a tenant may leave
at any time (`DeleteTenant`) and takes its rows along; there queue, workers and
answers are in detail, and `IngestContract` says what a client may rely on
although its tenant goes away. In `Dashboard` the server is external: it accepts a
token or not, and its data changes.

### LogQueue and the code

* A step is what runs between two awaits that really suspend. Taking a number
  and queueing the entry is one step (`Enqueue`): the lock is never contended
  because nothing suspends inside it, and the queue is unbounded. A worker
  suspends at `queue.get`, at each database round trip (`InsertRecord`,
  `ExplainRecord`, `Commit`) and when the session closes (`Complete`, `Fail`).
  Classifier and remote call are synchronous and so part of `Dequeue`.
* `items` is `_items`, with the asyncio event as a field; `worker[w].pc` is the
  await the task is at. `logRecords` and `explainability` hold committed rows
  only; what a transaction flushed is in `worker[w].explained` until then.
* `Commit` publishes record and explanation together. `CommitFails`, a cancelled
  commit and `ProcessDies` leave open whether the rows got stored: a client of a
  database cannot tell.
* A worker cancelled at an await runs its `finally`: the counter is lowered and
  the event set, but the item stays PROCESSING (queue.py:259-266), which
  `enqueue_and_wait` reports as a failure.
* `WaitTimeout` answers the client and changes nothing else; it may come at any
  time while the client waits, also just as the outcome is there.
* `Startup` reads the highest stored number, or fails to and starts from 1, as
  `initialize` does when the query raises. `synced` is a history variable: it says
  whether this life started with all stored numbers known (a read that fails on an
  empty table leaves nothing unknown).
* `ProcessDies` is possible in every state but "down". `Stop` is the lifespan's
  shutdown; requests come in only while the process is "up".
* `StatusOf(n, o)` is the queue status endpoint: memory first, then the table.
* `DeleteTenant` is the DELETE of an organization. It waits for transactions that
  hold its row by a foreign key (`HoldsTenant`), the cascade takes rows and
  explanations, and what is queued stays queued: its INSERT then violates the
  foreign key, which is a failed statement like any other. The in-memory items of
  the tenant stay, too.

### AuthSession and the code

* A request is a coroutine with its own database session; a step is one database
  round trip. PostgreSQL runs at READ COMMITTED: a statement sees what was
  committed when it starts (`UpdateSessions`, `UpdateTokens` fix `want`), locks
  the rows it found one at a time in any order (`LockRow`), and checks the
  predicate again on a row it waited for. Rows are written only under their
  locks, so a transaction's writes are applied at its commit (`RevokeCommit`,
  `Rotate`). The KEY SHARE locks of foreign keys do not conflict with the updates
  of `revoked_at` and are left out.
* `End` closes the transaction and releases its locks. After a success `op`,
  `ids`, `before` and `done` keep what the request was about until its slot is
  used again; the properties read them.
* `Abandon` stands for every way a request dies after it began: lost connection,
  failed statement, crash, an answer that does not arrive. `BreakDeadlock` is the
  database choosing a victim among requests that wait for each other.
* A request refused before it changes anything, `/me`, and `reset-password` (a
  stub) change no state and are stuttering steps.
* `ChangePassword` verifies against the account as it was loaded at
  authentication; the second SELECT of the same database session returns the same
  object from the identity map.
* No code ever clears `is_active`; an account leaves `present` by being deleted.
  Sessions have no foreign key to it and stay.
* `openedWith`, `chosen` and `before` are history variables.
* `Contract` maps these tables to `SessionContract`: the current token of a session
  is the open end of its chain (`OpenTokens`), a token is presented from the moment
  the request comes in until it is rotated (`Presented`), a new one is fresh from
  its commit until it is sent (`Fresh`), and a request is about those sessions,
  live when it came in, that it has to revoke or refresh (`About`). `LockToken`,
  the checks, `SelectSessions` and every row lock are then stuttering steps,
  `Rotate` and `RevokeCommit` the only ones that replace or revoke.

### Triage and the code

A text is the set of keyword groups it contains; one word stands for each way
the severity indicators and the heuristic's rules can see a text differently.
The heuristic reads the raw line in place of the content when there is one
(`EffectiveText`); the level it is told is UNKNOWN when the classifier was unsure
(`EffectiveLevel`). The classes are those of the data set the model is trained
on, INFO and WARN. The score is abstracted to whether its margin is large enough.

### Account and the code

* Every operation writes with one statement and commits at once, so a write is
  one step. PostgreSQL checks unique indexes and foreign keys in it and lets it
  wait for a transaction that may conflict, so the constraints are guards of the
  write, and `Refused` is the IntegrityError (a 500) or the missing row (a 404).
* Between authentication and write the tables may change: `MayManage` is checked
  when the request comes in, the constraints when it writes. Registration's
  look-up (`AddressTaken`, `AddressFree`) is a step of its own.
* The ORM relationship says `cascade="all, delete-orphan"`, but a bulk DELETE does
  not go through it. What decides is the foreign keys: those of the logs have ON
  DELETE CASCADE, that of admins has nothing, so admins hold up the deletion
  (the docstrings at services.py:65 and api.py:96 promise a cascade to admins; the
  repository's gap report lists it).
* An e-mail address is a mailbox and whether it is spelled in lower case.
  Registration and admin creation lower it, the profile update does not.
* A request that ended keeps its call only when it confirmed a deletion
  (`DeletionIsFinal` reads it). Keys are UUIDs, so none is generated twice (`used`).
* Sessions are in `AuthSession`; in `Account` a caller is authenticated while its
  row is there. The names, phones and password of an organization, and an admin's
  name and employee number, are left out: nothing tells them apart.

### Migrations and the code

* `env.py` opens one transaction around all revisions of a command, so `job` goes
  through them while `version` and the tables stay as they are until `Commit`. An
  error in a revision (`Refuse`) and an interruption (`Interrupt`) end the command
  without a trace. The two empty revisions count as part of the first.
* What others see of a command under way are its locks. `Touched` is the set of
  revisions whose tables it has altered; a table it created is invisible to
  others anyway, and one it altered or dropped keeps everybody out
  (`LogsLocked`, `SessionsLocked`). A foreign key to `organization` keeps writers off
  that table (`AccountsLocked`).
* `RequireOwner` has no error branch: the code raises when rows without an owner
  are left after the UPDATE, but the tables are locked since `AddColumns`.
  `NoneUnowned` says so in the guard; a state in which it failed would be a
  deadlock, which the run would report.
* Releases from before the last revision stored logs without an owner
  (`StoreLegacyLog`). Columns, indexes and the offline mode are left out.

### Dashboard and the code

* A call is a chain of `await`s in `app.js`. A load sends two fetches with the
  token the tab holds when it starts (`StartLoad`), and handles them together when
  both are in (`Promise.all`): either is a 401 (`LoadRefused`), both are fine
  (`Render`), anything else leaves the page alone (`LoadFails`). Nothing but
  leaving the page cancels a call, so that several are under way at a time, from
  before and after a sign-out.
* `call` has a slot per call under way; their number is a bound. A step that starts
  a call needs a free slot.
* Of an answer the model keeps for which token it was given and whether it is still
  what the server would answer (`NewData` makes it outdated); of the page, which
  account each part is current for.
* Signing out does not tell the server: the token stays accepted until `Expire`,
  which stands for everything that ends it.
* `Reload` leaves a page and opens it again, so a tab that is closed for good is
  not in the model.
* The explanation panel, reading of files and the drawing are left out.

## Runs

| Run | Shows | Bounds |
|---|---|---|
| `ingest_safety` | tickets, counters, answers and rows stay consistent through failed statements, ambiguous commits, cancellation, crashes, startups that cannot read the counter and the deletion of tenants; `LogQueue` implements `IngestContract` | 3 requests (a batch of two, one of them blank, and a single one of another tenant), both tenants may leave, 2 workers (the code's default), 3 tickets, 3 lives |
| `ingest_liveness` | every queued entry finishes while the process is up, a taken entry's waiter is answered, shutdown ends | the same, 1 life, one tenant may leave |
| `auth_safety` | single use of tokens, confirmed revocations hold; `AuthSession` implements `SessionContract` | 2 requests at a time (slots are reused), 2 sessions, 3 tokens, 1 account with an outdated hash |
| `auth_liveness` | every request ends whatever the others lock | 2 requests, 2 sessions, 2 tokens |
| `triage` | nothing but sure INFO without an indicator stays unexplained or counts as safe | texts of at most two of six words, each with or without a raw line, on or off a data node |
| `account_safety` | deletions leave nothing behind and are final, tenants do not change each other | 2 requests at a time, 2 organizations, 2 admins, 1 log, 2 mailboxes in two spellings, 2 phones |
| `migrations` | logs get the only organization there is as owner or the command is undone; `Migrations` implements `AtomicMigrations` | the whole chain, 2 organizations, 2 logs |
| `dashboard` | late answers do not take a tab apart; it notices a refused token and catches up with its account's data | 1 tab, 2 accounts with a token each, 2 calls under way |
| `old_password_session`, `rehash_undoes_change`, `signin_lost`, `fresh_install` | a claim of a doc, a comment or a message that the code does not keep | just large enough for the counterexample |

Why the bounds are enough. Two workers and a batch of two beside a single entry
let entries overtake each other in every way the queue allows; three lives let a
number be lost, reused and looked up after the reuse. Two requests suffice for
every pairwise conflict of rotation, replay, logout and change-password, since
each of them locks at most two kinds of rows; a third token gives a chain with a
predecessor and a successor, which a revocation that misses the successor needs.
`RoomFor` is the bound on primary keys: a request that inserts rows starts only
while keys are left for it. `MaxTicket` and `MaxLives` bound the queue. Bounded
requests and lives end, so these runs have `CHECK_DEADLOCK FALSE`; that nothing
gets stuck in between is what the liveness runs show. One password is enough in
`auth_safety`, where no property reads it; the violation runs use two.

In `account_safety` two mailboxes and two phones are needed for two admins of
different organizations to exist at the same time; every key is used once, so the
second organization can register with the first one's address after its deletion,
but no third one can.

Two organizations are what the last revision tells from one and from none; with
two logs one can be there before the revision and the other come after it.
`migrations` and `dashboard` check for deadlock: a command can always be given,
and a page always be reloaded.

Two calls let a load overtake a load, a sign-in or a submission; with two accounts
the tab changes hands between them. One tab keeps the liveness check small. Two
tabs that share localStorage are covered by the theorems, which hold for any
number of tabs and calls.

Symmetry is used for workers, requests, sessions, tokens, accounts, addresses,
organizations and logs in the runs without temporal operators other than
`[][A]_vars`.

### What the properties say

Ingestion: `TicketInOnePlace`, `MetricsConserved`, `ServedInOrder` (queue and
workers), `AckDurable`, `StoredOnce`, `ExplanationAtomic` (transactions),
`DeletedLeaveNothing` (an entry that was queued when its tenant left leaves no
row), `NumbersAheadOfDb`, `CompletedStaysCompleted` (restarts; both name the one
exception, a startup that failed to read the stored numbers, `~synced`),
`WaiterSeesOwnOutcome` (no lost or early wake-up), `KeepsContract` (refinement),
`TicketFinishes`, `TakenWaiterAnswered`, `StopCompletes` (liveness).

Sessions: `OneOpenToken` (rotation is single-use), `LiveWhenAsked` (no new
credentials for a session that was revoked when the request came in),
`RefusalRevokes` (a reported replay has revoked the family),
`AllSessionsRevoked` (a confirmed logout-all or change reached every session the
account had), `KeepsSessionContract` (refinement: a session has one current token,
replaced in one step by presenting it; a request revokes in one step, everything it
was about and nothing of another account), `OnlyRevocationsGetStuck` (what can
deadlock at all), `EveryRequestEnds`.

Triage: `OnlyRoutineUnexplained`, `IndicatorsAreNeverSafe`, `SureWarningsAreHigh`.

Accounts: `NoDanglingRows` (an admin created or a log stored for a caller that was
authenticated before its organization was deleted), `DeletionIsFinal` (what a
confirmed deletion removed stays away), `TenantsApart` (who changes an
organization's row and admins).

Migrations: `OwnedAtHead` (every log belongs to an organization that exists, whatever the backend
did during the command), `OwnerUnambiguous` (a log is given an
owner only if there is no other organization at the moment the ownership takes
effect; it does not say that the log was always that organization's: a downgrade
forgets owners, and once the others are deleted going up again merges the logs), `MigratesInOneStep` (refinement: whatever revisions, locks and
interruptions a command consists of, it looks like one step or none, beside a
backend that goes on; that an upgrade loses no log follows, as `UpgradesKeepLogs`).

Dashboard: `StoredIsHeld` (a sign-out leaves no token that a
reload would sign in with), `OnlyRefusalSignsOut` (a tab is signed out by a click, a
reload or a load of its own that was refused; the refused token may be an older one
than the tab holds by then), `RefusalIsNoticed` and
`DisplayCatchesUp` (liveness, provided loads get their answers from some time on).

### Findings

* A login that verified the old password opens its session after change-password
  selected the sessions to revoke (`OldPasswordSessionsRevoked`).
* A login that rehashes an outdated hash can write the old password over a change
  (`ChosenPasswordStays`).
* An organization that changes its e-mail to one with capital letters is not found
  at sign-in (`SignInFindsAccount`).
* `alembic upgrade head` is refused on a new database: the last revision wants
  exactly one organization, whether or not there are logs to give it
  (`RefusedForLegacyLogs`).

Read in the code, without a run of their own:

* A process whose startup query fails numbers from 1 (log/queue.py:74, against "synced
  with persistent database state across restarts", log/README.md:86). Entries that
  get a stored number collide with its row and fail, and until the next restart the
  status endpoint answers for them instead of the stored entries. The two properties
  about numbers name this exception; `AckDurable` and the others hold without it.
* A ticket that was lost in a crash before its row was stored is handed out again:
  numbering resumes after the highest stored number (log/queue.py:71).
* Shutdown cancels the workers and drops queued entries (log/queue.py:89, against
  log/README.md:87).
* A revocation misses the successor of a token that is being rotated
  (auth/repository.py:209). It does no harm: every check reads the session, which
  is what `LiveWhenAsked` says.
* The batch endpoint returns although an entry whose wait timed out is still in
  work (log/api.py:98, against its docstring).
* The pending and processing figures of the tenant's summary count all tenants
  (log/api.py:134, against log/schemas.py:181), and its failed figure counts rows of
  status FAILED, which no code stores.
* In the explanation panel the answer that comes last wins, whichever was asked
  for last (frontend/app.js:86).

### Fairness

`LogQueue` assumes weak fairness of each worker's steps, of a cancelled worker's
clean-up, of `stop` and of a woken client: the event loop runs every ready
coroutine, and the database answers or fails. Nothing makes a client call, a
timer fire, or the process die or restart. `AuthSession` assumes weak fairness
of a request's own steps and of deadlock detection, and strong fairness of
getting a row lock: PostgreSQL queues the waiters of a row, so one that can have
it again and again is served. `Dashboard` assumes weak fairness of each call, which
the browser ends one way or the other, and strong fairness of the timer: an interval
timer of an open page goes on firing, and only the bound on calls, which the browser
does not have, puts a load off. No click, no expiry and no new data is assumed. That
loads are answered in the end is a premise of the two properties (`LoadsEnd`), not
an assumption: with a server that is out of reach the page cannot notice anything.
`Migrations` has no liveness: nobody has to give a command.

## Proofs

The theorems hold for every value of the constants; what the constants must
satisfy is in the named assumptions of each module (`ConstantsAssumption`,
`LogsAssumption`), which TLC evaluates in the runs. All modules but `TriageProofs`
follow the same scheme: the initial states satisfy the inductive invariant, each
action preserves it (one lemma per action, resting on lemmas that say what the
building blocks of actions do), and it implies the properties. The inductive
invariants were checked with TLC on the instances above before they were proved; the
runs check only what they are for.

`LogQueueProofs`: `QueueInvariant`, `TypeCorrect`, `AcknowledgedIsDurable`,
`NeverStoredTwice`, `ExplanationsAreAtomic`, `DeletedStayGone`, `ContractKept`,
`TicketsStayAhead`, `CompletedIsFinal`.
"Acknowledged means stored" is not inductive: the row is stored when a worker
commits, the client is told when its coroutine wakes, and in between nothing but
the item's status connects the two. `QueueInv` adds that connection: an item
belongs to the request that holds its ticket (`ItemsMatchTickets`), so does a row
(`RowsMatchTickets`), a COMPLETED item is stored (`CompletedAreStored`), a waiter
has its item (`WaitersHaveItems`), and a worker's position says what its
transaction did (`WorkersConsistent`), which needs that no two workers hold one
item (`OneWorkerPerItem`, `QueueConsistent`). A ticket may be reused after a
crash; that does not break `RowsMatchTickets`, since only unstored tickets are
given out or the insert fails. That a startup fails to read the stored
numbers is allowed in all of them; `TicketsStayAhead` and `CompletedIsFinal` say what
is left then: `CompletedIsFinal` rests on the former in lives that know the numbers
(`synced`), and in the others shows that taking a ticket is the only step that can
take an answer back (`GivenOutAgain`). `ContractKept` shows that every step of
`LogQueue` is a step of `IngestContract` or changes none of its variables.

`LogQueueWorkProofs`: `WorkInvariant`, `NothingLostOrServedTwice`,
`CountersAreRight`, `FirstComeFirstServed`, `NoWakeUpLost`, for any number of
workers. `QueueInv` says that what is in the queue or with a worker is an item of
the right status; `WorkInv` adds the converse: a QUEUED item is in the queue
(`QueuedAreWaiting`), a PROCESSING one is with a worker while the process is up
(`ProcessingAreHeld`), an event is set exactly when the status is final
(`EventsAreFinal`), and the counter of entries in work is the cardinality of the
busy workers (`CountersAgree`), so that `max(0, ...)` never cuts anything off. Each
step moves at most one item; a few lemmas say what such a move does to the sets.

`AuthSessionProofs`: `AuthInvariant`, `AuthTypeCorrect`, `RotationIsSingleUse`,
`RefreshNeedsLiveSession`, `ReplayRevokes`, `LogoutAllIsComplete`, for any number
of requests, accounts, sessions and tokens. `AuthInv` consists of what is true of
the tables alone (`RowsExist`, `LocksExclude`, `OneOpenToken`) and of what is true
of one request at its step (`RequestAt`). The argument is that of two-phase
locking by hand: a step of one request keeps `RequestAt` of every other
(`UntouchedKeeps`), since rows only appear, keep their session and stay revoked,
and since the one thing that could change under a request, whether its token was
consumed, is protected by the row lock it holds (`HoldsItsToken`). A revocation
keeps an account of its sessions: each one is revoked, locked, or still to be
locked (`RevocationCovers`), so at its commit all are revoked; a session revoked
by somebody else in the meantime is in the first group. `BeforeIsCovered` ties
that set to the sessions the account had when the request came in.

`UpToDatePasswordsStay`, there too, is the part of `ChosenPasswordStays` that is
true: an account whose hash has current parameters keeps the password its owner
chose. The invariant `PasswordInv` adds that such a hash never becomes outdated and
that no request is about to rehash it. The claim needs its condition, as the run
`rehash_undoes_change` shows.

`AuthSessionContractProofs`: `SessionInvariant`, `SessionContractKept`,
`AccountsDoNotWait`, `StuckRequestsRevoke`. The mapping reads a request's account,
sessions and token at every step, so `AuthInv` has to be strengthened by what makes
them hang together (`ActsForOne`): the sessions a request names belong to its
account, the rows it wants or holds are those sessions, their tokens, or the token
it refreshes, and it holds rows only between a lock and its commit. A step then maps
as follows: `Begin` is `Ask`, `OpenSession` is `Open`, `Rotate` is `Rotate`, where
`HoldsItsToken` says that the token presented is still the current one and
`OneOpenToken` that its successor is the only one afterwards; `Deliver` and
`Reload` are `Grant`; `RevokeCommit` is `Confirm` of the sessions it holds, which by
`RevocationCovers` and `BeforeIsCovered` are all it was about that are not revoked
yet; everything that ends without success is `Fail`. `AccountsDoNotWait` follows from
`ActsForOne`, since every row has one account. So does `StuckRequestsRevoke`: a
refresh holds nothing while it waits for its token, so whoever is waited for is a
revocation that waits itself; if it waits for another one, these are two, of one
account. The only deadlocks the database has to break are between them.
`WaitsWithinAccount` is about two accounts, and `auth_safety` has one; it was checked
once with two accounts, two sessions and three tokens, which takes too long for a
run that is repeated.

`TriageProofs`: `TriageTypeCorrect`, `UnexplainedIsRoutine`, `IndicatorsCount`, `WarningsStayHigh`, for
texts with any combination of keywords.

`AccountProofs`: `AccountInvariant`, `AccountTypeCorrect`, `NothingDangles`,
`DeletedForGood`, `TenantsStayApart`, for any number of requests, organizations,
admins, logs and addresses. One lemma (`MoveKeeps`) says what a step must do for
`AccountInv` to hold afterwards; each action is shown to do it. That deletions are
final needs two facts the property does not mention: keys are not used twice
(`KeysAreUsed`), and nothing is inserted for an organization that is gone
(`NoDanglingRows`); that tenants stay apart needs that a request which manages an
organization was made by it (`WellFormed`). `NormalizedAccountsAreFound` is the part
of `SignInFindsAccount` that is true: an admin, and an organization whose stored
address is in lower case, is found by that address, and nobody else is. `AddressInv`
adds that no two organizations and no two admins have one address, and that admins
and pending registrations have theirs in lower case; only the profile update can
break the condition (run `signin_lost`).

`MigrationsProofs`: `MigrationInvariant`, `MigrationsTypeCorrect`, `HeadOwnsLogs`,
`OwnerIsTheOnlyOne`, `CommandsAreAtomic`, `UpgradesKeepLogs`, for any number of
organizations and logs. `OwnedAtHead` is not inductive: the owner is looked up
some steps before the commit. `MigrationInv` adds where a command is
(`JobConsistent`): once it has found an owner, that is the only organization until
the commit, because the locks keep registration and deletion out; and what rows
there can be below the head (`RowsFitVersion`). `CommandsAreAtomic` shows that each
step is one of `AtomicMigrations` or a stutter: a revision changes nothing others
see, `Commit` is `Do` with the owner `JobConsistent` knows to be the only
organization by then, `Refuse` and `Interrupt` are `GiveUp`.

`DashboardProofs`: `DashboardInvariant`, `DashboardTypeCorrect`, `ViewFollowsToken`,
`StoredTokenIsHeld`, `ErrorsSignNobodyOut`, for any number of tabs, accounts and
calls. The last needs that a 401 which has not reached the page yet was given to a
token that is not accepted by the time it does (`RefusedTokensStayRefused`), which
holds because no token becomes accepted a second time.

Only model-checked: liveness, which is out of the prover's reach (`TicketFinishes`,
`TakenWaiterAnswered`, `StopCompletes`, `EveryRequestEnds`, `RefusalIsNoticed`,
`DisplayCatchesUp`). Every safety property of a passing run, the three refinements
among them, is proved as well. Three more
formulas were checked with TLC before they were proved: `SessionInv`, with
`WaitsWithinAccount`, on two accounts and three tokens (2 million states);
`ChosenPasswordKept` on two accounts of which one is up to date;
`FoundByNormalizedAddress` on the bounds of `account_safety`.

## Not modelled

* Argon2, JWT, rate limiting, configuration, health checks, the engine: libraries
  and settings; the models contain what they decide.
* Lists and single-record queries: read-only.
* Wording of prompts and explanations, feature extraction, scores, sanitising of
  texts: data that no property tells apart.
* Time: that the blocking remote call (up to 10 s) holds up the event loop is a
  matter of latency. `_items` is never pruned; memory is not modelled.
* The helpers of `permissions.py`, `get_current_admin` and `update_admin`: no
  endpoint calls them.
* Of the front end: the explanation panel, the conversion of uploaded files, the
  drawing, and tabs that are closed for good.
* Of the migrations: columns and indexes, and the offline mode, which prints SQL.

## Plan

1. `LogQueue`, its contract, `AuthSession`, `Triage`, `Account`: done, with the
   runs and proofs above.
2. Ingestion while a tenant goes away, seen by the contract; the migrations; the
   dashboard; the theorems about the queue's work; the contracts of sessions and
   migrations with their refinement proofs: done.
3. An account deleted while one of its sessions is refreshed and its profile
   changed, as one composition of `Account` and `AuthSession`.
4. `SessionContract` on its own: what a client can conclude from it, such as that a
   token that was replaced is never current again, proved there once.
5. The explanation panel, if the front end comes to tie an answer to its request.
