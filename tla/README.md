# Verification of psychs-platform

TLA+ models of the durable parts of psychs-platform and of its two front ends,
the TLC runs that check them on small instances, and TLAPS proofs of what holds
for every instance.
Paths are relative to the repository root (`src/`).

| Module | What it is |
| --- | --- |
| `JobQueue` | the durable PostgreSQL job queue: API handlers and polling workers |
| `JobLifecycle` | the abstract specification `JobQueue` implements: what a caller may rely on |
| `JobQueue_proofs` | TLAPS proofs about `JobQueue` |
| `JobQueueRefinement` | TLAPS proof that `JobQueue` implements `JobLifecycle` |
| `DomainTrust` | domain challenges, verification by request and by worker, sources |
| `DomainLifecycle` | the abstract specification `DomainTrust` implements: trust without locks |
| `DomainTrust_proofs` | TLAPS proofs about `DomainTrust`, the refinement among them |
| `DailyCapture` | the scheduler of daily source captures |
| `CaptureSchedule` | the abstract specification `DailyCapture` implements: one scheduler |
| `DailyCapture_proofs` | TLAPS proofs about `DailyCapture`, the refinement among them |
| `EvidenceLedger` | observed evidence: ingestion, insertion by jobs, retention |
| `EvidenceStore` | the abstract specification `EvidenceLedger` implements: no locks, no waiting |
| `EvidenceLedger_proofs` | TLAPS proofs about `EvidenceLedger`, the refinement among them |
| `Session` | the browser session: tokens, the gate, requests with a token |
| `Workspace` | the production page: projects, selection, loads, commands |
| `VerificationPanel`, `CollectionPanel`, `SnapshotPanel` | the panels of the selected project |
| `Console` | their composition: what mounts, unmounts and reloads what |
| `Console_proofs` | TLAPS proofs about `Console` |
| `ApiClient` | the operations of the demonstration client and how a request ends |
| `Handlers` | how the handlers, buttons and effects of a page are written down |
| `IntelligencePages`, `PlatformPages`, `AdministrationPages` | the 27 pages that send requests |
| `DemoApp` | the demonstration application: navigation, brands, audit, suspended handlers |
| `DemoPages_proofs` | TLAPS proofs that every page keeps to the rules `DemoApp` relies on |
| `DemoApp_proofs` | TLAPS proofs about `DemoApp` |
| `MC*` | constants for TLC: job types, limits, tenants, symmetry, what the user does |

Run `tlc -config X.cfg MC<module>` for a configuration and `tlapm M.tla` for the
proofs. `PROJECT.json` names, for every definition, the lines it models.

## 1. Inventory

The repository holds a production control plane under `/api/v2`, a
demonstration bridge under `/api/v1` that keeps its state in memory, and a React
front end with two applications, of which `main.tsx` starts one: the production
console over `/api/v2` and the demonstration over `/api/v1`. The control plane is a FastAPI application and a separate worker
process, both stateless and replicated; what they share is PostgreSQL (rows,
row locks, advisory locks, row-level security) and Redis (rate limits). They never call each other: the API inserts rows that workers poll for.

| Component | State | Operations | Correct when |
| --- | --- | --- | --- |
| Durable job queue (`v2/worker.py`, `v2/routes.py`, migration 0004) | `jobs`, `job_attempts`, `job_dead_letters`; per worker the claimed job | enqueue ×3, cancel, reap, claim, execute, complete, fail | no attempt beyond the limit, a stale worker changes nothing, cancelled work is not retried, prompts are scrubbed exactly at the end, the history is complete, every job ends |
| Domain trust (`v2/routes.py`, `v2/worker.py`, `v2/domain_verification.py`) | challenges, `projects.domain_verification_status`, `authoritative_sources.verification_status`, an advisory lock per project | rotate, verify (request), verify (job), register a source | sources are trusted exactly with their project, trust is proven by DNS, every change is as good as done at once |
| Daily captures (migration 0011, `worker.main`) | policies, `source_snapshot` jobs, an advisory lock | schedule, change policy, capture now | quota per tenant and day, one scheduled capture of a source at a time, nobody is starved |
| Evidence collection, snapshot capture (`worker.execute_*`, `provider_collection.py`, `source_snapshot.py`) | `evidence_observations`, `source_snapshots` | call the provider or fetch, insert the result | one result per job (in `JobQueue`); the choice of the snapshot context is not modelled |
| Evidence ingestion (`v2/routes.py`) | `evidence_observations` with its two unique indexes, an advisory lock per key and per provider request | ingest | nothing is observed twice, a repeated key returns the first answer, a conflicting one is refused |
| Retention (migrations 0007, 0010, `worker.main`) | `evidence_observations`, `source_snapshots`, receipts | purge a batch | only expired rows go, each is counted in one receipt, none is left for ever |
| Rate limiting (`v2/rate_limit.py`) | Redis counters with a TTL | consume | at most the limit in a window, every window ends |
| Identity and token revocation (`v2/auth.py`, `v2/dependencies.py`) | `revoked_access_tokens` | authenticate, revoke | a revoked token is never accepted again |
| Circuit breaker (`perception/circuit_breaker.py`) | state, failure count, opened_at | allow, record success or failure | an open circuit admits nobody before its timeout |
| Legacy task queue, routing cache, audit vault, sessions, billing | Python objects | `/api/v1` | demonstration only |
| Browser session (`auth/oidc.ts`, `auth/AuthGate.tsx`, `services/v2Api.ts`) | the stored user, the gate's user, the requests under way | start, renew, expire, sign in and out, request, remove the user after a 401 | only the user in storage sees the application, it never starts with an expired token, a rejected token is not sent again |
| Project workspace (`ProductionApp.tsx`) | list, selection, `loadGeneration`, the records shown, one alert | select, load, create a project, register a source, change a policy | what is shown belongs to the selection and never gets older, what was selected is loaded or an alert says why not |
| Domain verification panel | challenge, result, `busy` | create a challenge, check DNS, refresh the list | one call at a time, the badge is true |
| Evidence collection panel | the job followed, its timer | submit, poll, report the completion | one report per job, what was collected comes on the screen |
| Source snapshots panel | history, the capture followed, the body shown | capture, poll with retries, list, inspect | the end of a capture is seen, the body shown is the one asked for |
| Demonstration application (`App.tsx`) | tab, brand, dashboard, audit | navigate, switch brands, hydrate, audit, publish | the audit ends, the page is up |
| Demonstration pages (27 components) | a report, one flag per kind of handler | load, command, refresh | no flag outlives its handlers, a flagged button sends once at a time, a quiet page has a report, and of the chosen brand where it follows one |
| Telemetry, health probes, tenant isolation policies | none of their own, or enforced by PostgreSQL | | |

Where the components meet: a job of type `domain_verification` is executed by a
worker of the queue and changes domain trust; domain trust decides which sources
the scheduler captures; the scheduler inserts jobs; a collection job inserts into
the evidence that collectors ingest, without their advisory locks. The modules cut at these
seams: `DomainTrust` lets an enqueued job be executed at any time and any number
of times, also by a stale worker, which is more than `JobQueue` allows;
`DailyCapture` lets a queued capture settle at any time, and a source be verified
at any time; a job of `EvidenceLedger` inserts whenever its provider answers, and
again after a crash. So each is checked against all that its neighbours may do.
The console sees the API only through answers: its modules hold the few facts of
the API an answer is read from (how many records a project has, its policy, the
status of a job) and let workers change them at any time.

Hard behaviours: workers that crash, or stall beyond their lease and come back;
a result row and the job's status that commit together while the claim has
committed before; cancellation racing everything; two replicas of every worker;
DNS asked between reading and writing; advisory locks that some writers do not
take; database privileges that refuse a statement the code issues. In the front
ends: handlers that are cut at every `await`, resume in another render, for another
project, brand or page, and in any order; requests that fail at each of them; effects
that run again; tokens that are renewed, rejected and removed meanwhile.
`PROJECT.json` lists them under `hazards`, each at its line; section 5 has those
that no model covers.

## 2. The models and the code

### JobQueue

One action is one committed transaction, or one step between two of them.

| Code | Actions |
| --- | --- |
| the three enqueue handlers | `Enqueue` |
| `cancel_job` | `CancelJob` |
| `_reap_exhausted_leases`, a transaction of its own | `ReapExhaustedLeases` |
| `claim_next_job` | `ClaimNextJob` = `Claim`, `ClaimCancelled` or nothing to do |
| `execute_*` | `ReuseRecorded` or `CallProvider`, then `InsertResult` |
| `complete_job` | `CompleteJob`, inside `ReuseRecorded`, `CommitResult`, `CommitVerification` |
| `fail_job` | `FailJob`, inside `FailPermanently`, `FailTransiently`, `InsertResult` |
| a worker process dies | `Crash` |
| `now()` passes `lease_expires_at`, `available_at` | `LeaseExpires`, `BackoffElapses` |

* *Transactions.* psycopg opens a transaction at the first bare `SELECT` of an
  execution; the later `connection.transaction()` blocks are savepoints, and the
  whole commits when `run_once` leaves its `with` block. The result row and the
  status written after it therefore commit together (`CommitResult`). Between the
  insert and the commit the worker holds the row of the job `FOR KEY SHARE`
  through the foreign key: `SKIP LOCKED` passes over it, `FOR UPDATE` of a cancel
  request waits, a second insert waits on the unique index, but another worker's
  `UPDATE` of the status does not. This is `Locked`, the phase `writing`.
* *Clock.* A lease may expire and a backoff may elapse at any moment; a worker
  may be slower than any lease. A bug that needs particular delays is covered, a
  property about durations is not.
* *Priorities* order the claims; ties, broken by `available_at` and `created_at`,
  are open.
* *Cancelling* names the columns its statement sets (`CancelColumns`) and the
  columns the API's database role may update (`ApiUpdateGrant`, from
  `database/migrate.py`): PostgreSQL refuses the whole statement otherwise.
  SQLAlchemy sends it at commit, which the pinned FastAPI (0.141.1) runs after the
  response is sent, so the caller is told the job is cancelled.
* `cancel_result` records how the last cancel request of a job ended; no code
  reads it.
* Left out: `audit_events`, response bodies, correlation ids, the retention purge
  of terminal jobs, a crash of a worker that holds nothing.

`JobLifecycle` is the promise to a caller: a job is absent, pending, active or
settled; attempts are counted and limited; withdrawn work is not begun or
postponed; a result is recorded once. `Lifecycle` in `JobQueue` maps `queued` and
`retry_wait` to pending and `running` to active.

### DomainTrust

One project. Everyone who changes trust takes the advisory lock
`{tenant}:{project}:domain-verification` until commit, except the worker's expiry
(`worker.py:430`), and each request or execution is cut where it waits for the
lock and where it asks DNS.

| Code | Actions |
| --- | --- |
| `create_domain_verification_challenge` | `Arrive`, `LockForRotation`, `RotateChallenge` |
| `create_authoritative_source` | `Arrive`, `LockForSource`, `CreateSource` |
| `verify_domain_verification_challenge` | `BeginVerify`, `Resolve`, `FinishVerify` |
| `enqueue_domain_verification_job` | `EnqueueJob` |
| `execute_domain_verification` | `BeginExecution`, `Resolve`, `WriteVerified`; `ExpireChallenge`; `EndExecution` |
| an error, a lost connection | `Abort`, `EndExecution` |
| outside the code | `Publish` (the domain's TXT records), `Lapse` (the deadline) |

* The request reads the challenge twice, the second time `FOR UPDATE`. The
  session already holds the row, and SQLAlchemy does not overwrite attributes of a
  loaded instance without `populate_existing`, so the second test of `status`
  sees the first value: `FinishVerify` tests nothing.
* `WriteVerified` takes and releases the lock in one step: the worker does not
  wait on anything while it holds it.
* `proven` records the challenges whose token a resolver has returned; no code
  reads it.
* Left out: the ten-second throttle and the check counters, the audit rows, the
  idempotency of enqueueing.

`DomainLifecycle` is the promise: a challenge is issued in place of the pending ones,
expires, is shown by DNS, and is verified once; a project is trusted by a token of one
of its challenges, and its own sources with it; a source is born with the standing its
project has at that moment. It has no lock, no session and no answer that comes late,
so `ImplementsDomainLifecycle` says that what a request or job read before it waited
is as good as read when it commits. It allows two things on purpose, because the code
does them: an expired challenge may still be verified, and a token that was rotated
while the worker asked DNS confirms the project (`Confirm`).

### DailyCapture

A pass of `schedule_daily_source_snapshots` is cut where it fixes its day
(`BeginPass`), where it takes the lock, selects and inserts (`InsertBatch`, or
`GiveUp`), and where it commits (`CommitBatch`, or `AbortPass`). `Eligible`,
`Position`, `Remaining` and `Selections` are the CTEs of its query: sources
numbered within their tenant, as many as the quota has left, ordered by that
number and cut at the batch size. The order of two tenants with the same number
is open. Policy changes, captures by hand, verifications and settlements happen at
any time between. Every tenant is active: the test of `tenant.status`
(`0011_daily_source_captures.py:51`) is left out. `manual` stands for the policy `on_collection` too, as both
keep the scheduler out and let a request in.

`CaptureSchedule` is the promise: sources are scheduled together, for a day that has
come, verified ones only, each for the first time that day and with no other scheduled
capture under way, within the quota of each tenant. `ImplementsSchedule` says that the
passes of all replicas are steps of that one scheduler, taken when they commit.

### EvidenceLedger

The evidence of one project. A request is cut where it waits: for the advisory
lock of its idempotency key, for the one of its provider request, and at the
insertion, which waits while a row with the same unique key is inserted or
deleted by a transaction that has not committed.

| Code | Actions |
| --- | --- |
| `create_evidence_observation` | `Arrive`, `LockKey`, `LockProviderRequest`, `Insert` or `InsertRefused`, `Created`, `Commit` |
| the insertion of `execute_evidence_collection` | `Collect`, `Insert` or `InsertRefused`, `Commit`, `Retry` |
| `purge_expired_evidence` (a `SECURITY DEFINER` function) | `Purge`, `CommitPurge`, `AbortPurge` |
| a process or connection dies | `Lose` |
| `now()` passes `retention_expires_at` | `Expire` |

* *Locks* are not a variable: a request holds the lock of its key in the phases
  `KeyedPhases`, and that of its provider request in `CheckedPhases`, since both
  are advisory locks of the transaction.
* *The response precedes the commit*, as everywhere in this API (see *Cancelling*
  above); what is lost in between has been acknowledged (`Lose` from `answered`).
* *Lookups* see the last committed version of a row, one under deletion included.
* *Contents* stand for the request hash. It covers the provider request id, so a
  content determines it. A job hashes its own id and uses it as its key.
* `about` records the row an answer was made from; no code reads it.
* Left out: the rate limit and the 24-hour check before the first lock, the audit
  rows except for their number, other projects, several executions of one job at
  a time (that is `JobQueue`), and the same passes over `source_snapshots`.

`EvidenceStore` is the promise: a request is submitted, and is acknowledged when
nothing retained or acknowledged is the same (key or provider request), repeated from
what is retained, or refused because of what a job brought; it gets one answer; what is
retained was acknowledged and is the same as nothing else retained; rows are deleted and
counted together. `Standing` maps the phases to idle, open, closed and lost, which hides
both locks, the insertion and the batches. `ImplementsStore` is thus that a request takes
effect at one instant, or at two when it is acknowledged and then retained, a job and a
pass when they commit. What it does not promise is that a 201 survives: a request
may be dropped after it (`Drop`).

### The production console: Session, Workspace, the panels, Console

A handler is cut at its awaits. One action sends the request, another is the API's
part, and the answer runs the rest with the values its closure captured. So a
record of `loads`, `replies`, `creating`, `adding`, `updating`, `calls`, `lists` or
`details` is a suspended call together with its closure.

| Code | Actions |
| --- | --- |
| `initializeSession`, the events of `UserManager`, `request` | `SessionEstablished`, `Renewed`, `TokenExpired`, `AccessTokenExpired`, `RequestSent`, `RequestAnswered`, `RequestRejected` |
| `loadSources` | `BeginLoad` in its callers; `LoadAnswered`, `LoadApplied`, `LoadFailed` |
| the effect on `selectedProjectId` | `LoadSelected`, after which the panels are mounted anew (`SelectionEffects`) |
| `handleProjectCreated`, `addSource`, `updateSnapshotPolicy` | `SubmitProject` ... `ProjectCreated`, `SubmitSource` ... `SourceFormFreed`, `ChoosePolicy` ... `PolicyUpdated` |
| `DomainVerificationPanel`, `refreshVerifiedProject` | `StartVerification`, `CheckDns`, `DnsChecked`, `DnsAnswered`, `ListRead`, `ListReplaced`, `PanelReset` |
| `EvidenceCollectionPanel` | `SubmitCollection`, `CollectionQueued`, `CollectionPoll`, `CollectionPolled`, `CollectionPollFailed`, `CollectionCompleted` |
| `SourceSnapshotsPanel` | `CaptureSource` ... `CaptureCompleted`, `HistoryRead`, `HistoryListed`, `Inspect`, `DetailArrives` |

* *Expiry* is two events: the clock passes `expires_at` (`TokenExpired`, what
  `user.expired` reads) and oidc-client-ts says so (`AccessTokenExpired`). Between them
  the page is mounted with an expired token, with which no request is sent.
  `GateFollowsSession` therefore does not claim that the application has a valid token:
  it says that the application is mounted for the user in storage, that it never starts
  with an expired token, and that no event gives it one in place of another.
* *Generations.* `active` is `activeProjectRef.current` and `generation` is
  `loadGeneration.current`; both differ from what is rendered until effects run. A
  load that has been superseded is not aborted: its promise still resolves, and
  the handler that awaits it goes on (`Settled`).
* *Keys.* The collection panel and the snapshot scope are keyed by what they show,
  so that their state and closures end with the selection (`CollectionUnmounted`,
  `ScopeUnmounted`). The verification panel has no key: an effect resets two of its
  four parts (`PanelReset`) and its calls go on.
* *Unmounting.* When the gate closes everything is unmounted; React ignores what
  suspended handlers set afterwards, so they are dropped. What their requests do
  to the API after that is left out.
* *Data.* `rev` counts the sources and observations of a project: it tells an older
  answer from a newer one. `policy` is the policy of the first source.
* *The alert.* `error` names the project whose load or command failed, or the list of
  projects (`ProjectsUnavailable`). `SelectionLoads` is about the first load of a selection: older
  records count as loaded, so it says nothing of the alert of a failed reload, which
  `updateSnapshotPolicy` hides at once (`setError(null)`, `ProductionApp.tsx:124`).
* Left out: the second run of effects under `StrictMode`, the texts of alerts, the
  panel's list of sources (captures of sources that are not `verified` are begun too,
  which the page does not offer),
  a project that `ProjectCreated` and a refreshed list both add (the list is a set),
  repeating a submission whose answer was lost.

### The demonstration: Handlers, the pages, DemoApp

All 27 pages are written alike, and so they are modelled as data. A handler is a
list of steps; a step is the set of operations awaited together (`Promise.all`) and
what becomes of the answers, with the flags it raises first: replaced report (`Show`), report for a chosen row
(`Pick`), report of the platform's own brand (`ShowOwn`), `{...report}` of the render the handler began in (`Mark`), a state variable
of its own (`Fill`), or nothing (`Await`). A page is its handlers, its buttons with
the flags that disable them, its spinner, and its effects. `DemoApp` interprets
them: `Click`, `StepAnswered`, `HandlerDone`, `HandlerFailed` are the same four
actions for every handler; `SelectTab`, `ChangeBrand`, `SwitchBrand`, `PromoteBrand`,
`TriggerAudit` and `Publish` are those of `App.tsx`.

* *Reports.* Of a report the model keeps the brand it was asked for: one of `Brands`,
  `"all"` if the request names none, `"picked"` if the user chose the row. What a page
  prints without a report or beside it is left out: several have figures in the source
  for that case (`|| 91.7`, `MultiModelDisputeTribunalStudio.tsx:184`;
  `KnowledgeGraphSyncStudio.tsx:214`) or at all times (`AlgorithmIndexWatchStudio.tsx:228`),
  so no property says that what is shown was measured.
* *Following the brand.* A page whose effect depends on `activeBrand` names its load in
  `brand`; only of these does `QuietPageIsCurrent` say of which brand they are.
  The others are not of the chosen brand: the causal attribution page asks for
  `'Psychs'` whatever is chosen (`CausalAttributionStudio.tsx:29`).
* *Failures.* `requestAuthenticated` throws or answers; the literals that `api.ts`
  hands it are not used. A failure ends the handler: it lowers the
  flags it raised (`finally`) and leaves the rest.
* *Flags.* A step raises its flags once, when it begins; another handler's `finally` may
  lower them before it ends. `FlagsArePending` is one half of what flags are for: none
  is up for nothing. `SubmittedOnce` is the other: none comes down too early to keep its
  button from sending a second time. It speaks of the page that is mounted: leaving a
  page and coming back gives it new flags, while a request of before may be under way.
* *Leaving a page* drops its handlers, except that those which end in
  `refreshOperationsData` still reach the application (`LeftBehind`; they all have
  two steps, which `NamesOK` in `DemoPages_proofs` states and is proved).
* *No error boundary.* `report!` after a failed first load unmounts everything
  (`Blank`) until the browser reloads.
* *History variables.* No code reads `loadFailed` (a load of this page failed before it
  brought a report) or `crossed` (the brand changed under a handler of this page, or a
  handler that spreads `{...report}` began on a former brand's). They mark what the
  code does not promise: after the first a page may be without a report, blank or behind
  its spinner for ever; after the second it may show another brand's.
* Left out: the lists of the operations pages, the audit's progress bar and stream (of
  its six timers the last lowers the flag), the key's status, the approval modal,
  the palette's query, the tour's position, levers, animations, the HTML dossier
  (a `fetch` outside the client), and operations of `api.ts` that no page calls.

## 3. Runs

| Run | Instance | Distinct states | Shows |
| --- | --- | --- | --- |
| `job_queue` | 2 workers; a collection and a verification, 2 attempts each, fair | 67 104 | `TypeOK`, `LeaseFencing`, `PayloadLifetime`, `AttemptHistory`, `SuccessIsRecorded`, `ImplementsLifecycle`, `EverySubmittedJobSettles` |
| `cancel_refused` | one snapshot job | violation | `CancelNeverFails` does not hold |
| `stored_failure` | one snapshot job | violation | `DeadLetterStoredNothing` does not hold |
| `domain_trust` | 2 challenges, an own and a foreign source, 2 requests, 1 worker, fair | 942 852 | `TypeOK`, `SourcesFollowProject`, `TrustIsProven`, `ImplementsDomainLifecycle`, `EveryRequestEnds` |
| `expired_then_verified` | as `domain_trust` | violation | `ExpiryIsFinal` does not hold |
| `daily_capture` | 2 sources of a tenant, quota 1, 2 replicas, 2 days | 30 420 (symmetric) | `TypeOK`, `QuotaPerDay`, `ImplementsSchedule` |
| `daily_capture_liveness` | 3 sources, 2 tenants, batch 1, quota 1, fair | 184 896 | `EveryDailySourceIsServed` |
| `evidence_ledger` | 2 requests, a job, 2 passes of one row, 2 keys, a content with a provider request and one without, fair | 16 014 | `TypeOK`, `ObservedOnce`, `ReceiptsReconcile`, `ImplementsStore`, `EveryRequestEnds`, `ExpiredIsDeleted` |
| `reused_key` | 3 requests, another content of the same provider request, no job | violation | `KeyNamesOneContent` does not hold |
| `console` | 2 projects, 2 jobs of each kind, 2 tokens, 2 bodies, fair | 198 484 | `TypeOK`, `GateFollowsSession`, `RejectedIsNotResent`, `OneVerificationCall`, `RefreshedOncePerJob`, `DetailIsWanted`, `ShownNeverRegresses`, `SelectionStays`, `SelectionLoads`, `SourceFormIsFreed`, `CollectedIsShown`, `CaptureEndIsSeen` |
| `badge` | 2 projects | violation | `BadgeIsTrue` does not hold |
| `demo` | all 27 pages, 2 brands, 2 suspended handlers, fair | 75 450 | `TypeOK`, `FlagsArePending`, `SubmittedOnce`, `QuietPageIsCurrent`, `PageIsUp`, `AuditEnds` |

**Why the bounds suffice.** Two workers are enough for a stale one and its
successor, and a job of two attempts has a first, a repeated and a final one. Two
job types cover both kinds (`Recorded` or not), their different priorities the
order of claims. Two challenges are a rotation; two requests and a worker are
every pair of actors that meet on the lock. A quota of one under two sources is
reached; a batch of one under three sources makes a pass leave some out; two
days are a midnight. In `EvidenceLedger` two requests, a job and two passes are
every pair that meets on a lock or a row: requests of one key, of one provider
request under two keys, a request and a job, and passes that overlap with each
other and with an insertion. Of the control plane nothing is cut off by a guard:
every instance is finite because attempts, challenges, sources and days are.
`LastDay` bounds the days.

In `Console` two projects are the one left and the one entered, two jobs the one
followed and its successor. `MaxGeneration` stops the user, not the page: what is
under way when it is reached still ends, so that liveness is not true for want
of steps. `MaxRev`, `MaxTokens`, `MaxInFlight` and `MaxDetails` bound records, tokens,
requests of one token and inspections; two of each are an older and a newer one. In
each behaviour the user works with one part of the page (`focus` in `MCConsole`) besides
selecting projects: the parts share the loads and the alert, and each of them begins
loads. The proofs need none of these bounds.

In `DemoApp` two handlers may be suspended at once (`Ids`): a handler and one that
overlaps it, fails beside it or outlives it. Users go from page to page by way of
the overview, since a page that is left takes its state along. Pages that send
nothing are all like the overview, and are left out of `Tabs`, but for the optimizer.
Two handlers are enough to break each of the properties (a load and the one it overlaps,
a button's handler and the one whose `finally` comes first); the proofs have no bound.

**Fairness.** A worker takes its next step or dies: `main` polls for ever, and
each provider, fetcher and resolver has a timeout. Leases and backoffs run out. In
`DomainTrust` a request that has the lock goes on (weak fairness, `Abort` among
the ways to end), and one that waits for it gets it (strong fairness), because
PostgreSQL queues the waiters of an advisory lock; nothing obliges clients, the
domain owner or workers. In `DailyCapture` a replica begins passes, and of a
replica's passes that could insert or commit not all are lost (strong fairness).
Nothing is assumed of policies, settlements or the clock. In `EvidenceLedger` who
has inserted goes on or dies, who waits for a lock or a row gets it (strong
fairness, again PostgreSQL's queue), workers repeat their passes and not all
passes of a worker are lost. A waiting request is not assumed to die, so a
circle of waiters would be found.

In `Console` requests are answered or fail (`fetch` ends one way or the other), React
runs effects, timers fire (weak fairness), and of the polls of a capture not all fail
transiently (strong fairness of `CapturePolled`): for the page repeats them
for ever and promises nothing without an answer. Nothing is assumed of the user, nor of
collections, whose polls stop at the first error. In `DemoApp` a suspended handler
resumes (`Resumes`): weak fairness, with its enabling condition written out, which TLC
evaluates faster than `ENABLED`.

**Deadlock** is checked in every run but the console's, where a user who has
reached `MaxGeneration` may leave the page with nothing to do.

### Where code and documents disagree

* *Cancelling a queued collection or capture is refused* (`cancel_refused`).
  `cancel_job` empties the payload, a column the API's role may not update. A
  running job is cancelled without touching it, which is what the tests exercise.
* *A dead-lettered capture can have its snapshot stored* (`stored_failure`). A
  worker slower than its lease commits the snapshot; its successor, already past
  the deduplication query, hits the unique index, and that is a permanent failure.
* *An expired challenge can be verified* (`expired_then_verified`). The worker
  expires it without the advisory lock and the request re-reads its own copy.
* *A key can be accepted again with other content* (`reused_key`). A request
  answered from the observation of its provider request leaves no trace of its
  key, so the next content under that key is new, while the runbook says `409`
  (`docs/runbooks/evidence-collector.md:54`).
* *The badge Verified can be shown for a project that is not* (`badge`). The answer of
  a check begun for the project just left sets the result of the panel, which the
  next project inherits (`ProductionApp.tsx:65` says the contrary of completion callbacks).

Known behaviour that no document contradicts: a cancelled job whose last lease runs out is
dead-lettered, since the reaper does not look at the request; a project can be
verified by a challenge that was rotated while the worker asked DNS; a load under way
when a policy is saved brings the former policy back; a collection whose poll fails
once is not followed any more; on a page of the demonstration the answer for the former
brand may come last and stay, and `{...report}` undoes an answer that came meanwhile; the
dashboard's first load asks for 'Psychs' and, answered late, fills the dashboard of
another brand (`App.tsx:267`); a first load that fails leaves a page blank
(`AlgorithmIndexWatchStudio.tsx:118`) or behind its spinner; and a page that is left and
entered again offers the button whose request is still under way
(`CryptoShreddingPanel.tsx:12`).
The models have each of these steps.

## 4. Proofs

Every theorem is stated for the specification of the module without fairness, any
sets, and any values of the constants that these assumptions allow:

| Module | Assumptions |
| --- | --- |
| `JobQueue` | every job has a type, a priority and a positive attempt limit; `NoWorker` is no worker, `NoJob` no job |
| `DomainTrust` | own sources are sources; no actor is both a request and a worker; `None` is neither an actor nor a challenge |
| `DailyCapture` | finitely many sources, each with a tenant and a place in an injective order; quota and batch are naturals |
| `Session`, `Workspace`, `SnapshotPanel` | the bounds are naturals, `MaxRev` a positive one; `None` is no project; the default policy is a policy |
| `EvidenceLedger` | a content has a provider request id or `NoId`, which is none; a job is neither a request, a key nor a content; the batch is positive |
| `DemoApp` | the first brand is a brand; `None` is neither a report nor a suspended handler |

The text of each is in the module; TLC evaluates it in every run.

**JobQueue.** *Type correctness* carries one fact more than `TypeOK`: a busy
worker has a job (`BusyHasJob`). The lemmas of the second part reduce `Next` to
what the invariants can see (`StepCases`): a step enqueues, cancels, reaps,
claims, ends an attempt that holds its lease, or is quiet (`QuietStep`). `QueueInv` is
inductive: `LeaseFencing`, `PayloadLifetime`, and `WantedInv`, which adds to
`WaitingIsWanted` that a job not yet submitted carries no cancel request.
`AttemptHistory` speaks about the set of rows and is not inductive
either; `JobHistory` says for every single row of `job_attempts` how it must
look, above all that the running attempt has no outcome yet and that no row is
numbered beyond `attempt_count`; a claim then adds rows with a fresh number, and an
ending adds the one outcome its attempt lacks.
`HistoryImplies` returns to the property. `SuccessIsRecorded` follows from the
two ways an attempt can succeed. `JobQueueRefinement` shows that each of the six
kinds of step is a step of `JobLifecycle` or leaves its state alone: the reaper by
`HistoryInv` (attempts never exceed the limit), a claim of withdrawn work by
`WantedInv` (it was running), an ending or a result recorded late by `StartedInv`
(who is busy with a job has begun an attempt of it). `EndIsFinal` and
`CancellationIsHeeded` are what a caller takes from it, in terms of the rows: a job that
ended is never touched again, and after a cancellation is recorded no attempt begins,
succeeds or is postponed. `PromisesStep` shows both for each of the six kinds of step.

**DomainTrust.** `LockInv`: an actor's phase is one of the locked ones exactly when
it holds the lock, so at most one is. `KnownInv`: what the holder of the lock has
read is still true, except that the worker may expire, without the lock, the
challenge under check; and a match was an answer of DNS.
With these the steps fall into four groups (`StepCases`), preparing, rotating, registering and
verifying, and only the last three touch trust; `AloneUnderLock` says that no
other actor relies on what they change. For the refinement one more fact is needed,
`IssuedInv`: what is under check was given out. Then an answer of DNS is `Show` or
nothing, a rotation `Issue`, a registration `Register` (by `KnownInv` the standing read
under the lock is that of the project), a worker's write `Verify` or `Confirm`, and the
end of a request `Verify` or `ExpirePending`; everything else is invisible.

**DailyCapture.** `PositionsDiffer`: no two eligible sources of a tenant have the
same number, so any set of them numbered up to `n` has at most `n` members
(`ShareBound`), and a selection fits into what the quota has left
(`SelectionWithinQuota`). `BatchInv` keeps that true from the insert to the
commit, since nobody else inserts a scheduled job while the lock is held, and
`Alone` is `OneScheduledAtATime` in the form the step needs. For the refinement,
`PickedInv` says that what is selected is still verified, of a day that has come, and
without a capture for it when the pass commits: then a commit is `Schedule` of its
batch, and `ON CONFLICT DO NOTHING` has nothing to do.

**EvidenceLedger.** `DraftInv`: who is under way has a row to insert, a job one of
its own. `LockInv`: two requests in locked phases differ in their key, or in their
provider request. `LookupInv`: what a lock holder looked up and did not find is
still not there, except for rows of jobs, which take no lock. `PendingInv`: an uncommitted
row clashes neither with a committed nor with another uncommitted one. `ObservedOnce`
follows from it at the commit, `OnlyJobsCollide` from `LookupInv` at the refusal,
and `ReceiptsReconcile` from the disjoint batches and the cardinality of a finite
ledger. The refinement adds `AnswerInv`: a request is answered once, and has its 201
exactly while its row waits for the commit. With it each action is one of the store
(`Created` is `Acknowledge` by `PendingInv`, `Commit` is `Retain`, a lookup that finds
something `Repeat`, `InsertRefused` is `Refuse` by `LookupInv`, `CommitPurge` is
`Delete`) or leaves what can be seen alone.

**Console.** A view lemma per part (`SessionView`, `VerificationView`,
`CollectionView`, `SnapshotView`, `PageView`) reduces the sixteen disjuncts of `Next` to the steps of
that part, its unmounting, or nothing, so that each part has an inductive invariant of
its own. `SessionIInv`: the user the gate was given is the stored one, and rejected
tokens are old ones, so that neither a renewal nor a sign-in can bring one back.
`VerificationIInv`: `busy` is up for exactly one call. `CollectionIInv`: a job the panel has not
reported has refreshed nothing. `SnapshotIInv`: a capture is requested or followed, never
both, and the answer with the last number is of the snapshot wanted. For the loads two
invariants are needed. `PageIInv` is type correctness together with what makes it
inductive: nothing is selected before the list is in, effects never run ahead of the
selection, and whoever begins a load has a project. `LoadIInv` is the argument of
`loadGeneration`: no load bears a number yet to come; the current number belongs to one
load, of the active project; and its answer has at least what is shown of that project,
because records only grow and everything shown was read earlier. `LoadView` says that
whatever the page does, a load is begun with a new number, moves, or is left alone, and
`ShownNeverRegresses` and `SelectionStays` follow from `LoadIInv` for each of these.

**Demonstration.** The pages are data, so the proof has two parts. `DemoPages_proofs`
states what the application's invariants rest on of a page (`PageOK`), and proves it page
by page (`EveryPageOK`): the names it uses are its handlers or the application's
(`NamesOK`); its steps raise no flag of the application (`HandlerOK`); its load displays
a report at its first step and lowers the flags the page begins with, and if the page
follows the brand, whatever any of its handlers shows of an answer was asked for the
brand it was begun for or picked (`LoadOK`, which is false of the attribution page,
had it such an effect); if it trusts its report, it is behind its spinner while the
load's first step takes (`ViewOK`); and a button that only a flag guards has one that its
handler raises at once and no other handler raises or lowers (`GuardsOK`).
`DemoApp_proofs` uses nothing else about a page, so a new page needs only its own rule
proved. `DemoIInv` is inductive. `CallOK`: a suspended handler is at one of its steps and
belongs to the page that is mounted. `Held` is `FlagsArePending`. `Solo` adds to
`SubmittedOnce` that while a guarded handler runs the flags of its own are up: another
handler that ends cannot lower them by `GuardsOK` (`LowersApart`), so its button is
disabled (`ClickOK`). `QuietPageIsCurrent` and `PageIsUp` are not inductive, since both
speak about the moment when nothing is under way. `Awake` says what leads there as long
as no load has failed: a page without a report has a load at its first step, and if it
trusts its report, nothing but loads, with the spinner's flag up. `Following` says it for
the brand, as long as none crossed: every handler of the page works for the chosen brand
and on no other's report, and what is not current has a load at its first step.
`ShownOK` is where the answers meet these, `GivesWay` keeps all three when a handler goes
on or ends, and one lemma per action (`ClickOK`, `StepAnsweredOK`, ...) keeps `DemoIInv`. A
page that was left keeps only what `LeftBehind` says, which reaches the application and
not the page (`DetachedOK`).

Also proved, and not repeated in the runs: `WaitingIsWanted`, `EndIsFinal` and
`CancellationIsHeeded` (which `ImplementsLifecycle` implies), `EventKeysAreFresh` (no
insertion into `job_attempts` hits its unique key), `RotationIsFinal` (which
`ImplementsDomainLifecycle` implies), `OneScheduledAtATime` (`ImplementsSchedule`),
`OnlyJobsCollide` (`ImplementsStore`), `Immutable` (nothing is deleted before its
retention runs out), and `OneCaptureAtATime`.

**Only model-checked.** The liveness properties: `EverySubmittedJobSettles`,
`EveryDailySourceIsServed`, `ExpiredIsDeleted`, the two `EveryRequestEnds`, `SelectionLoads`,
`SourceFormIsFreed`, `CollectedIsShown`, `CaptureEndIsSeen` and `AuditEnds`, since
liveness under fairness needs `ENABLED`, which the prover does not support. Every other
property of a passing run is also a theorem.
The five disagreements of section 3 are counterexamples and have nothing to prove.
No module uses a recursive definition.

## 5. Not modelled

* *Audit rows, metrics, logging, response bodies*: written beside the state
  changes and never read by them.
* *Rate limiting*: one Lua script, atomic in Redis; its question is one of time.
* *Retention of snapshots*: the function of migration 0010 is that of 0007 for
  another table; what a missing snapshot means to a collection is in the plan.
* *Row-level security and roles*: enforced by PostgreSQL. One consequence is
  modelled, the columns the API may update.
* *Identity and step-up*: signature and claim checks of one request.
* *Readiness*: a comparison with the schema revision. Read beside the migrations
  it looks stale: `database.py:12` names `0009_domain_trust`, and the migrations
  continue to 0012.
* *The content of evidence and snapshots*: what a provider answered, how a page is
  fetched and parsed, which snapshots accompany a prompt.
* *Durations*: backoff, leases, quotas of ten seconds, retention periods.
* *Demonstration bridge and analytics engines*: formulas over request bodies
  and in-memory objects; see the plan for the parts with state.
* *Presentation*: components that send no requests, sample data, type declarations,
  texts, layout; and what section 2 names as left out of the two front ends.
* *Hazards seen and not modelled*, beside those of `PROJECT.json`: the backoff counts from the
  start of the transaction and can be over when the call fails (`worker.py:372`); the rate
  limit is charged before the idempotency key is looked up (`routes.py:786`), and its window
  admits twice the limit around its boundary (`rate_limit.py:15`); the half-open circuit breaker
  counts results of earlier calls (`circuit_breaker.py:58`); a late 401 removes the user who
  has signed in again (`v2Api.ts:31`); the history fetched on mounting may overwrite a newer one
  (`SourceSnapshotsPanel.tsx:99`); two quick changes of the brand may leave the dashboard of
  the first (`App.tsx:192`); the palette's selection becomes `NaN` when nothing matches
  (`CommandPalette.tsx:610`); the HTML dossier is fetched without the token and without a
  look at the status (`SOC2ComplianceStudio.tsx:103`).

## 6. Plan

Done, in this order: the queue with its lifecycle and refinement, domain trust, daily
captures, the evidence ledger, the production console, the demonstration; then the proofs
of every invariant and action property the runs check, and the refinements of
`JobLifecycle`, `DomainLifecycle`, `EvidenceStore` and `CaptureSchedule`. Open:

1. `RateLimit`, `TokenRevocation` and `RetryTiming`, which need a clock.
2. `CircuitBreaker` (`perception/circuit_breaker.py`) and the demonstration bridge where it
   keeps state: task queue, routing cache, audit vault, webhook dispatcher, session vault.
3. The choice of the snapshots a prompt is collected with, and retention beside it.
4. A module composing `JobQueue` with the captures of `DailyCapture`, and one composing
   `Console` with `JobQueue` in place of its abstract workers.
