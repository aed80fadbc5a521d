# Hatcheck, verified

TLA+ models of Hatcheck (an inventory of lab hardware with custody records: a
server and its web client), TLC configurations that check them on small instances, and
TLAPS proofs for instances of any size. Paths below are relative to the
repository's `src/` directory, where the TypeScript sources are.

## 1. The system

One server process (Bun, Hono) answers an HTTP API under `/api/v1` and keeps
everything in one relational store, SQLite or PostgreSQL. Handlers are
asynchronous: every `await` of a store call is a place where another request of
the same process runs, and several processes may share one PostgreSQL database.

| Component | State | Operations | What is hard | What must hold |
|---|---|---|---|---|
| Connection gate (`db/connection-gate.ts`) | `tail`, a promise | `run(work)` | calls queue on a chain of promises; work may throw | first come, first served, one at a time, never stuck |
| Units of work (`db/store.*.ts`: `transaction`, the proxy) | connection, savepoints, application lock | `transaction`, every store call | nested units, calls beside a unit, escaped stores, crash, two processes | all or nothing, no call joins a foreign unit, prechecks stay true, every call answered |
| Middleware `atomicMutation` | the request's store | one unit per mutating request | response decided before COMMIT; Hono turns exceptions into responses | failed requests write nothing, successes last |
| Custody (`modules/custody/service.ts`) | `custody_events`, `assets.status` | check out, check in | guards are read in other calls than the write | deployed if and only if held; ledger numbered, alternating, append-only |
| Assets (`modules/assets/service.ts`) | `assets` | create, update, delete, list, export | update and delete race custody; delete cascades | as above; the audit record of a delete keeps the ledger; reports agree with themselves |
| Audit (`store.appendAudit`) | `audit_log` | append | belongs to the same unit as the change | exactly one truthful record per change |
| Documents (`modules/documents/service.ts`) | `documents`, `document_revisions` | create, revise, publish, archive, read | edits take minutes and hold no lock; reads take two calls | no lost update, readers see approved texts only, history retained |
| Dashboard (`server/routes/dashboard.ts`) | none | counters | several calls | the sum of the counters is the total |
| Locations (`modules/locations/service.ts`) | `locations` | create, update, delete, placing an asset | concurrent moves and kind changes | a forest of three levels, a path of names leads to one location |
| CSV imports (`modules/imports/service.ts`) | `import_jobs`, `import_rows` | import, dry run | one unit per row, failures between rows, the same file twice, locations read once | counters, rows, assets and trail agree; a dry run foretells |
| Exceptions (`modules/exceptions/service.ts`) | `exceptions` | resolve, dismiss | two reviewers; a conflict that comes back | decisions are final, a conflict is open once |
| Accounts, sessions, OIDC (`server/routes/users.ts`, `auth.ts`, `server/oidc.ts`) | `users`, `sessions` | login, logout, change, reset, deactivate | revocation races login; two administrators | one active administrator at least; a revoked credential opens nothing |
| Bootstrap, admin recovery | `users` | start-up | several processes start | one first administrator |
| Rate limiter (`server/middleware/rate-limit.ts`) | map of windows | admit | window edges, full map, clock set back | an allowance per window; the contract stated in `auth.ts` is stricter, section 6 |
| Lifecycle (`server/lifecycle.ts`) | timer, sweep, shutdown | sweep, stop | deadline races draining | the database is closed once and last |
| Ids (`db/id.ts`) | `lastMs`, `seq` | next id | bursts, clock rollback | ids grow |
| Web client (`web/src`) | state of the page on display, requests on their way | load, page, decide, import, check out, edit, sign in | answers late or out of order, state captured by closures, effects that run again, sessions that expire | what shows is current, what is committed was reviewed, nothing loads for ever |

Interaction: a request passes the middlewares, of which `atomicMutation` opens a
unit (`store.transaction`), then its handler calls a service, which awaits store
calls on the unit's store. Every store call passes the gate of the store it is
made on; a unit occupies the gate of its parent store until it ends, and a root
unit takes the application lock before its work starts. Imports are the
exception: they run outside the middleware and open one unit per row. Reads run
on the root store, or, for the export and the dashboard, in a unit.

The web client calls the same API. Its pages are React components: what they show
follows from state that handlers set, and an effect runs after a render in which
what it depends on has changed. Between the click and the answer everything else
may happen: other clicks, other answers, other people.

Not modelled, and why:

* parsing and formatting: CSV and single cells, the text of exports, the OpenAPI
  description. They are functions of text without state;
* configuration and wiring, migrations and seed data (they run once, before the
  server accepts requests; a process that is configured to skip the bootstrap,
  `HATCHECK_SKIP_BOOTSTRAP`, relies on another one having done it), backup scripts (file copies around a stopped server),
  deployment descriptions;
* plain reads (search, filters, paging, history listings): they are steps that
  change nothing. Those that take several calls are modelled (`AssetReports`,
  `Documents`, the last calls of `Custody`);
* adding and removing interfaces of an asset, and identity keys beyond a
  pre-check that may refuse (in `Imports` they are modelled in full);
* the other pages of the web client. Assets, locations, imports and audit load
  their lists as the exceptions page does; document pages are clients of
  `Documents`.

## 2. Modules

| Module | Models | Extends / instantiates |
|---|---|---|
| `FifoMutex` | specification: a lock granted in order of arrival | |
| `ConnectionGate` | `ConnectionGate.run`: links of a chain of promises | refines `FifoMutex` |
| `UnitOfWork` | `transaction`, nested units, plain calls, processes, crashes | uses queues for gates, as `ConnectionGate` is shown to be |
| `AssetStore` | store calls on assets, custody events and audit records, as operators on the store state | |
| `AtomicCustody` | specification: each request is one atomic operation with its audit record, or nothing | `AssetStore` |
| `Custody` | custody and asset requests as chains of awaited store calls, in and outside the middleware's unit | `AssetStore`; refines `AtomicCustody` |
| `AssetReports` | asset list, CSV export, dashboard beside the requests | `Custody` |
| `Documents` | the document studio: changes in units, reads of two calls, clients that know what they have read | |
| `Accounts` | users, sessions, login, single sign-on, changes of users, first administrator, recovery, expiry | |
| `Locations` | the hierarchy of locations and the placement of assets | |
| `Imports` | CSV imports, row by row, the exceptions they raise, and the decisions on these | |
| `RateLimiter` | the limit on login attempts | |
| `TimeOrderedIds` | ids of rows | |
| `Lifecycle` | sweep of sessions, draining, deadline, closing the store | uses a queue for the gate, as `ConnectionGate` is shown to be |
| `Process` | one server process: clock, limiter, ids, lifecycle together | `RateLimiter`, `TimeOrderedIds`, `Lifecycle` |
| `Browser` | what pages share: the session cookie, a bound on clicks | |
| `ExceptionsPage` | the list of exceptions and its dialog | `Browser` |
| `ImportPage` | the form of an import: text, file, dry run, commit | |
| `AssetPage` | an asset, its custody history and its dialogs | `Browser` |
| `WebClient` | router, guard of the session, and the three pages | the three pages |
| `*Proofs` | theorems, section 5 | the module of that name; `CustodyProofs` also `AssetReports`, `UnitOfWorkProofs` also `ConnectionGate` |
| `MC*` | definitions for TLC: symmetry, the tree of calls, files, request bodies, parts of a state space | the module of that name; `MCUnitOfWork` also `ConnectionGate` |

How the models correspond to the code:

* **Store calls are atomic steps; `await` is an interleaving point.** A service
  function becomes one action per store call; the code between two calls is part
  of the action of the earlier one. `pc`/`step` says which call comes next, and
  what the function remembers between calls is in `input`, `outcome`, `req`.
* **Units.** `db` is what is committed, `work` what the open unit sees. `Commit`
  publishes `work`, `Discard` forgets it: an error response
  (`ResponseRollback`), an exception, a failed COMMIT or a crash. One unit is
  open at a time; this is what `UnitOfWork` shows of the lock and the gates.
* **`Direct` callers** (in `Custody`) hand the services the root store, as the
  repository's tests and scripts do: every store call is then a unit of its own,
  in one process. In the server, mutations go through `atomicMutation`. With
  such callers present the guards inside the store calls alone must keep the
  ledger right, which is what the run `custody_direct` asks.
* **Data.** Asset rows keep status and location; identity keys and interfaces are
  a pre-check that may refuse. An event keeps its type, number and, as ghost
  fields, the row before and after (`from`, `to`) and the request that wrote it
  (`by`). A document revision's text is abstracted to its author. What a client
  knows is a pair of history variables: `seen`, the texts it has read, and
  `told`, the revisions it was told are the latest (`Expected` then follows
  `DocumentDetail.tsx`: a save sends the latest revision the page knows, and the
  publish button is off unless the page shows that revision).
* **Accounts.** A handler runs inside the unit that the middleware opened
  before authentication, so it is one step on `work`; `Commit` or `Abort` ends the
  unit and sets the cookie, or the response is lost. Passwords are version numbers
  and a session remembers, as history, the credential it was opened with. On
  PostgreSQL the start takes an advisory lock (`db/initialize.ts`); the model
  does not use it, so starting processes interleave more than they do.
* **Locations.** A request reads and checks, writes, and commits in three steps:
  the write is where the database checks its constraints a second time.
* **Imports.** Rows arrive parsed: identity keys and a reference to a location;
  a file is its own hash. The start (which reads the locations), the job, each
  row and the end of the job are steps; a row is one step because it is one unit,
  with its failure (the unit rolls back, the run is thrown) and the death of the
  process as alternatives. The second match of `processRow`, after a unique violation, is
  unreachable here for that reason. A unit whose COMMIT fails is taken as not
  committed. Decisions read the exception in one step and write in another.
  The cap of 100,000 rows on what an import reads at once is not modelled.
* **The process.** Time has a part that really passes and a part by which the
  clock was set back; the limiter sees the difference. Every store call, the
  closing call as well, passes the gate (SQLite), so a sweep that is queued when
  the deadline passes still ends before the store closes. `server.stop` is
  external and taken not to fail.
* **The web client.** An effect is a step of its own after the step that changed
  its dependencies; running it cancels the load before it, whose answer still
  arrives. A request captures what its closure captured. Controls are enabled
  by the last render, so that a second click can precede it. Other people's
  changes are taken to hit the page on display, which is where they matter;
  reads asked for by a page that was left are counted in `late`, for they can
  only end the session. The edit dialog sends the status even while an asset is
  deployed, which the server refuses. The comparison of the report's hash with
  the reviewed one after a commit (`Import.tsx:138`) is left out: the server
  hashes the text it was sent, so the two differ only if the text did.
* **Assumptions.** The work of a unit uses the store it was given and awaits the
  nested units it starts, as all callers in the repository do (a unit that called
  the root store would wait for itself; `db/store.ts` states the rule). `Undo` in
  `UnitOfWork` covers both engines: in SQLite a caller may catch an error of a
  plain call and commit, with postgres.js a failed query fails the unit; the
  model allows both outcomes. A page of `AssetReports` holds every match.

## 3. Runs

| Run | Instance | Asks |
|---|---|---|
| `custody_direct` | 1 asset, 1 location, two direct callers and one behind the middleware; 3.3 million states | do the guards inside the store calls keep status and ledger coupled, ledgers well formed and custody audit records truthful? |
| `asset_units` | 1 asset, 1 location, three requests behind the middleware, a reader; 1.0 million states | are requests all or nothing, durable, audited exactly once, serializable (`ImplementsAtomicCustody`)? do export and dashboard agree with themselves? |
| `list_torn` | 2 assets, two requests, a reader; **violation** | is the total of the asset list consistent with its page, as a comment in `assets/service.ts` says? No: see section 6 |
| `units` | 2 processes; a unit with a plain call and units nested two deep, a plain call beside it, a unit in the other process; or 4 calls at a gate; 283 thousand states | all or nothing at every depth, no joining, prechecks hold, every call answered; is the chain of promises a FIFO lock that always comes free? |
| `documents` | 1 document, 3 revisions, 5 committed changes, a technician, an administrator, a reader; 1.1 million states | no lost update, approved texts only, reads find their revision, unbroken audit records, history retained |
| `accounts` | 2 users, 2 browsers, 2 starting processes, 2 tokens, 2 passwords a user, 2 ticks; 1.6 million states | does an administrator remain? does a session end with its credential? is a browser told what is committed? is every change on record, with somebody entitled to it? |
| `locations` | 4 locations, 2 names, 1 asset, a technician and an administrator; 0.9 million states | a forest of three levels, paths that identify, truthful audit records |
| `imports` | 2 imports, 2 reviewers, 3 files of up to two rows, 2 steps of other requests, 1 failure or crash; 0.9 million states | honest counters after any failure, one open exception per conflict, no conflict silently repeated, final decisions, a dry run that foretells |
| `import_aborts` | the same without failures; **violation** | do failed rows never abort a run, as two comments say? No: see section 6 |
| `process` | 4 requests of 3 clients, directly or through a proxy, windows of 2 ticks and 2 attempts in 3 ticks of time, a map of 2, a clock set back by 1, 3 ids; 1.2 million states | is the limit kept, do ids increase, is the store closed after the work, does a shutdown end? |
| `login_burst` | one client, 4 attempts, windows of 2 ticks and 2 attempts, a clock that is right; **violation** | are there at most as many attempts as allowed in any stretch as long as a window, as `auth.ts` promises? No: see section 6 |
| `web` | 2 exceptions on pages of one, 2 texts and 2 revisions of the form, 2 assets with 2 changes each, one session that expires | is what shows current, was what is committed reviewed, does the latest input win, does every page settle? |

Why the bounds are enough to be worth running. Interference in `Custody` is per
asset: no operation reads a second asset, so one asset with three requests has
every overlap of two writers and a third that completes between their calls;
`list_torn` alone needs a second asset. A request carries one operation;
sequences come from different requests. The initial stores hold every row with an empty ledger, or
no row, so a request may meet a retired or a missing asset at once and a held one
after another request. In `units` two processes are what the application lock is
for, and two nested units are as deep as the repository goes (a location change
nests two savepoints in the unit of its request). Three
revisions and two competing authors are needed for a lost update; five changes
allow create, two revisions, a publication and an archiving. Beyond these bounds
the safety properties rest on the proofs.

Two users are what a change of the last administrator takes, two browsers what it
takes for a session to be opened while another request ends it. Four locations
are three levels and a sibling. Two imports of one file are needed for a repeated
conflict; two rows, for a row that depends on the one before; two changes by
others, for a conflict of two assets. The limiter's window is two ticks long
and admits two attempts, and time is for two windows of a client: four attempts make a burst of
three within two ticks, across the edge of two windows, which is the most that
`AdmissionBounded` allows (with `2 * MaxAttempts - 2` in its place TLC finds the
burst), and a third attempt in a window is refused. Its map has room for two of
the three clients. `MCProcess` lets only two requests come once ids are drawn,
so that bursts of logins and bursts of ids are explored beside each other.
Requests are alike, and so are clients that were never
admitted: `NextRequest` and `NextClient` let the first of them come. On the
exceptions page two clicks can each start a load
before an answer arrives, and a decision can empty the last page.

Bounds are named constants. `MaxRevision` and `MaxChanges` (`Documents`) cut what
clients ask for; `MaxTime`, `MaxTokens`, `MaxPass` (`Accounts`) clock, sessions
opened and password changes; `MaxOthers`, `MaxFaults` (`Imports`) steps of others
and failures; `CallsOfRequest`, `Calling` (`Lifecycle`) store calls of a request and the requests
that make them (the others are like the start of a single sign-on, which redirects);
`Drawing` (`MCProcess`) the requests beside ids;
`MaxElapsed`, `MaxSetBack`, `MaxIds` (`Process`) time, setting back, ids;
`MaxClicks`, `MaxRevision`, `MaxChanges`, `MaxSessions`, `FirstPages`,
`FirstAssets` (`Browser`, `ImportPage`, `AssetPage`, `WebClient`) what the user and
other people do and where the user starts. `MaxAttempts`, `MaxEntries`, `MaxSeq` and
`TTL` are parameters of the code, set small so that they are reached.

Deadlock is checked where a stop would be an error. It is not in `imports` and
`import_aborts`, `process` and `login_burst`, and `web`: runs end, the process exits, and users
whose clicks are used up do nothing more; liveness says there what must happen.

Each property has a mutant, a copy of one action with a plausible fault (`Mut*`,
next to the definition it replaces), with which TLC finds the property violated.

## 4. Fairness

Safety runs assume none. Three runs check liveness:

* `units`, of a gate: weak fairness of starting, settling and answering each call.
  The event loop runs every continuation that is ready, and the drivers settle
  each operation with a result or an error. The units and the gate are two systems
  in one run (`MCSpec`): a behaviour is one of the units or one of a gate, and each
  has its own fairness.
* `units`, of the units: weak fairness of a call's progress once it is at the head of its
  gate, of the return or exception of a unit's work, of COMMIT or ROLLBACK, and
  of `Begin` once the application lock is free. The last one says that the
  database grants a row lock to a waiter; every unit ends, and calls are finitely
  many in the model, so no stronger assumption is needed. Nothing is assumed of
  clients (no fairness of `Issue`) nor of crashes.
* `process`: weak fairness of the call at the head of the gate, of the timer of
  the deadline, and of the steps of the shutdown, which are continuations of the
  event loop. Requests may stay unanswered for ever: the deadline is there for
  them.
* `web`: weak fairness of the effects React runs after a render, of the requests
  of lists and assets (they are served and answered, or fail), and of the event
  that leaves for the login. Nothing is assumed of the user.

## 5. Proofs

TLAPS checks the following for every value of the constants, from the named
assumptions in the modules (sentinel values are distinct from the data, direct
callers are requests, roles are disjoint, bounds are naturals). Some theorems need
more, as hypotheses of their own: that no caller is direct (`Direct = {}`, which
is how the server runs: the mutating routes are behind `atomicMutation`) and that
assets are finitely many (`IsFiniteSet(Assets)`, for reports that count them).
The first is needed, not a convenience: a caller without a unit deletes an asset, and
with it the ledger, in one call and writes the record that keeps the ledger in the
next, and between the two nothing tells of a check-out that succeeded before.
The second is true of any table.
Together the theorems state every safety property, action property and refinement that
a passing run checks.

**`CustodyProofs`** has six parts.

1. *Store calls.* `Sound` is a property of a store state (types, status coupled
   with the ledger, ledgers well formed), and lemmas show that every store call
   preserves it. This is where the argument about the code lies: the guard in
   `appendCustodyEvent` and in `updateAsset` is evaluated on the state that is
   written, so stale pre-checks are harmless.
2. *Invariants*: `TypeCorrect`, `CouplingAlwaysHolds` (deployed if and only if
   held), `LedgersAlwaysWellFormed`, `DeploysOnlyFromStock`. The first three
   follow from one inductive invariant: types, `Sound(db)` and `Sound(work)`,
   `FreshIds` (an id reserved for a create has no row, no events) and
   `UpdatesChecked` (what an update is about to write has passed its pre-check).
   `DeploysOnlyFromStock` also needs that a unit has written the row and ledger
   at most once when it commits, as one valid step from what is committed.
3. *Atomicity*, with `Direct = {}`: `RequestsAreAtomic`, `Spec` implements
   `AtomicCustody`. The invariant says, for the open unit and each step of its
   request, which single operation on `db` has produced `work`; `Commit` is the
   step that performs it, every other step stutters, errors answer without
   effect. From the same invariant `HistoryIsKept` (committed ledgers and audit
   trails only grow, a ledger goes only with its asset) and `ChangesAreAudited`
   (each committed change comes with exactly one record, which tells it
   truthfully): what a unit commits is one operation and its record
   (`RecordedTells`), or nothing.
4. *Reports*: `ReportsAgree`. `ReportInv` says that what a report has read so
   far is what the database still holds, which is true because nobody commits
   while the reader owns the unit; the counts then add up because the statuses
   partition the assets.
5. *Audit*: `CustodyAuditsAreTrue`, for direct callers as well. A caller
   without a unit learns the number of its event in one call and writes the record
   in another; `Told` says that what was learned stays true until the asset is
   deleted, and that the id of a deleted asset is never given again.
6. *Durability*, with `Direct = {}`: `SuccessEndures`, and
   `ReportsLeaveRequestsAlone`, which carries parts 3 and 6 over to requests with
   readers beside them. `DurableInv` says of each request that the store has
   either nothing of it or exactly one record and the event this names, which
   `KeptLedger` finds in the ledger or, after a deletion, in the record of that.

**`UnitOfWorkProofs`**, part 1, the gate: `GateTypeCorrect`, `ChainStaysInOrder`
(a call waits for exactly the one before it, and works only when all earlier ones
have settled), `OneAtATime`, `GateImplementsFifoMutex` (safety part). Part 2,
the units, for any tree of calls, any depth and any processes:
`UnitsAreAllOrNothing`, `ChecksHoldUntilCommit`, `CallsStayOutOfUnits`. The
inductive invariant adds to the properties what each connection holds (the writes
that succeeded in units not yet ended), what each savepoint holds (the same
without the unit's own writes), and that the units that work are nested in one
another: a gate admits one call at a time within a process, the lock one root
unit at a time among processes. The units around a call (`Enclosing`) are the
least set that holds its parent and is closed under parents: a definition
without recursion, whose closure is all that the proofs use.

**`DocumentsProofs`**: the four invariants of the run `documents`, type correctness and
`HistoryIsRetained`. The inductive invariant has three parts besides types:
`UnitInv`, that the uncommitted document is the committed one with exactly the
writes made so far and that the compare-and-set still holds of what is committed;
`FetchInv`, that the second call of a read will find the revision the first one
named, and that it is approved if a reader asked; `DocInv`, which describes a
committed document (texts 1 to latest exist, published at most latest, audit
chain unbroken, each author knew of the revision before). None of the properties
is inductive without `UnitInv`: it carries what was checked at one call to the
commit several calls later.

**`LocationsProofs`**: `LocationsAreAForest`, `PathsAreUnique`,
`ChangesAreRecorded`, `TypeCorrect`. The forest is not inductive as such. `TreeInv`
says that a parent exists and has a smaller rank and that siblings have different
names; `Planned` says of the open unit that what its request is about to write
keeps this true of the committed rows, which is where the unit's exclusion is
used: nobody commits between its checks and its COMMIT. That paths have at most
three names follows from three ranks.

**`ImportsProofs`**: `ProgressIsHonest`, `ConflictsOpenOnce`, `DecisionsStand`,
`DryRunsForetell`, `CollisionsAreAsked`, `TypeCorrect`, for any files, runs,
failures and requests of others. `Progress` relates, for each run, its phase, the
counters in memory, those of the job and the rows: memory advances only after
the unit of a row, so it is never ahead of what is committed. That a row adds one
to one counter is a fact about cardinalities (`OneMoreRow`), by the library's
theorems on finite sets. `DryInv` says that while nobody writes, what a finished or
running dry run has told is the verdict (`Foretold`) on the row, the locations
and the identities there are, and that once a commit of the same file has begun,
it is the verdict on what that commit has not created itself. `OwnRowsDoNotMatter`
closes the argument: a row that does not clash with an earlier row of its file
cannot match an asset that such a row has created.

**`AccountsProofs`**: `AnAdminRemains`, `SessionsEndWithCredential`,
`ChangesOnRecord`, `BrowsersAreToldWhatIsCommitted`, `TypeCorrect`. `Sound` is a
property of a store state (an administrator is active if there are users,
sessions belong to users whose credential they were opened with) that holds of
`db` and `work` and that every handler preserves; `StartInv` says what a starting
process knows. `RecordInv` adds, for the open unit, that tokens are unique and
fresh, that every difference between `work` and `db` is explained by a record in
`work`, that sessions which ended are recorded or expired, and that the reply to
be sent is true of `work`.

**`ProcessProofs`**: `StoreClosesAfterWork` (invariant: the gate serves in order
and the closing call is never followed by a sweep), `IdsAlwaysIncrease`, and
`AdmissionsAreBounded`, for any number of requests, clients and ids and any
setting back of the clock. The limiter counts in memory what the property counts
in history: a window's counter is at least the number of its admissions, and the
windows of one client follow each other by their length in time that really
passes, because a clock that is set back only keeps a window open for longer.
A stretch as long as a window therefore meets two windows at most, and if it
meets two, it lies after the attempt that opened the first (`Opened`: that
attempt was admitted), which gives twice the allowance less one.

**`WebClientProofs`**: `CurrentIsShown`, `ReviewedIsCommitted`, `LastInputIsKept`.
The three pages have an invariant each (`ListInv`, `ImportInv`, `AssetInv`),
which every step of their page keeps and leaving the page establishes anew;
`WInv`, their conjunction, is the invariant of the browser. They speak of what is
on its way: an answer counts only if its effect was not cancelled, then it was
asked for by the last effect; and if no reload is due (the nonces agree), it was
given after everything that the page was told of. For the import a revision is the
witness: a run that carries the form's revision carries its text.

Not proved, because it is out of the prover's reach, and left to TLC: liveness under
fairness (it needs ENABLED), that is `EveryCallServed`, `EveryCallAnswered`,
`StopEnds` and `PageSettles`. Induction over data is out of reach, too; no module
has a RECURSIVE operator, and the inductions that the proofs need are over steps.
The properties of `list_torn`, `import_aborts` and `login_burst` are false, which
their runs show.

## 6. Findings

`list_torn`: `listAssets` reads its page and counts the matches in two calls on
the root store (`modules/assets/service.ts:415-419`). The comment says "Same
filters, so total stays consistent with the page contents"; a mutation that
commits between the calls leaves a total that does not fit the page. The lists of
exceptions and locations are read in the same way under the same comment
(`modules/exceptions/service.ts:65`, `modules/locations/service.ts:417`). The export
and the dashboard open a unit for the same reason and do not have the problem.

`import_aborts`: an import reads all locations once
(`modules/imports/service.ts:747`). If one is deleted while the rows run, the
insert of a row that refers to it violates the foreign key; `processRow` rethrows
everything but a unique violation (line 688), so the run ends failed and the
rows after it are never processed. The comments at `modules/imports/service.ts:16`
and `server/routes/imports.ts:40` say that failed rows never abort the run.

`login_burst`: "Contract: max 10 login attempts per 60s per client IP"
(`server/routes/auth.ts:99`). The limiter counts in fixed windows that begin with
an attempt (`server/middleware/rate-limit.ts:37-47`), so one attempt that opens a
window, nine at its end and ten when the next one begins are all let through, the
last 19 of them within a few milliseconds. In the run, with two attempts per window, three pass within its length; the clock is right
and the client comes directly. What the limiter does keep is `AdmissionBounded`:
its allowance per window, and in any 60 seconds at most 19.

## 7. What is left

1. Interfaces of assets and identity keys in `Custody`, and the edit dialog that
   overwrites what somebody else has edited since.
2. The other pages of the web client.
3. A COMMIT of an import whose answer is lost although it took effect (`Imports`
   takes it as not committed).
