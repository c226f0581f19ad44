------------------------------ MODULE JobQueue ------------------------------
(***************************************************************************)
(* The durable PostgreSQL job queue of the /api/v2 control plane: the rows *)
(* of `jobs`, `job_attempts` and `job_dead_letters`, the API handlers that *)
(* enqueue and cancel, and the polling workers that reap, claim, execute,  *)
(* complete and fail (backend/app/v2/worker.py, routes.py).                *)
(*                                                                         *)
(* One action is one committed transaction, or one step between two of     *)
(* them.  psycopg opens a transaction at the first bare SELECT of an       *)
(* execution and commits it when run_once leaves its `with` block, so the  *)
(* result row a worker inserts and the status it then writes commit        *)
(* together (Commit), while the claim before them committed on its own.    *)
(* Wall clock is abstracted: a lease may expire, and a backoff may elapse, *)
(* at any moment.                                                          *)
(***************************************************************************)
EXTENDS Integers, FiniteSets

CONSTANTS
  Jobs,         \* identities of the rows of `jobs`
  Workers,      \* worker identities (PSYCHS_WORKER_ID, or hostname:pid)
  JobType,      \* [Jobs -> JobTypes]
  Priority,     \* [Jobs -> Nat]: 35 snapshot, 40 evidence, 50 domain
  MaxAttempts,  \* [Jobs -> Nat \ {0}]: 3 or 5 in the routes
  NoWorker,     \* NULL lease_owner
  NoJob         \* a worker that holds no claimed job

RecordedTypes == {"evidence_collection", "source_snapshot"}
JobTypes == RecordedTypes \cup {"domain_verification"}

ASSUME JobTypeAssumption == JobType \in [Jobs -> JobTypes]
ASSUME PriorityAssumption == Priority \in [Jobs -> Nat]
ASSUME MaxAttemptsAssumption == MaxAttempts \in [Jobs -> Nat \ {0}]
ASSUME NullAssumption == NoWorker \notin Workers /\ NoJob \notin Jobs

VARIABLES
  status,                  \* jobs.status, "absent" before the row exists
  attempt_count,           \* jobs.attempt_count
  cancellation_requested,  \* jobs.cancellation_requested_at IS NOT NULL
  available,               \* jobs.available_at <= now()
  lease_owner,             \* jobs.lease_owner
  lease_expired,           \* jobs.lease_expires_at <= now()
  payload,                 \* jobs.payload still holds the prompt or source id
  job_attempts,            \* per job, the <<attempt_number, outcome>> rows
  job_dead_letters,        \* jobs with a row in job_dead_letters
  recorded,                \* jobs with a committed observation or snapshot
  cancel_result,           \* per job, how the last cancel request's transaction ended
  phase,                   \* where each worker is in run_once
  job,                     \* the ClaimedJob each worker holds
  attempt                  \* ClaimedJob.attempt_count of that claim

row == <<status, attempt_count, cancellation_requested, available,
         lease_owner, lease_expired, payload>>
history == <<job_attempts, job_dead_letters>>
local == <<phase, job, attempt>>
vars == <<row, history, recorded, cancel_result, local>>

TERMINAL_STATUSES == {"succeeded", "dead_letter", "cancelled"}
WaitingStatuses == {"queued", "retry_wait"}
Statuses == TERMINAL_STATUSES \cup WaitingStatuses \cup {"absent", "running"}
Outcomes == TERMINAL_STATUSES \cup {"running", "retry"}
Phases == {"idle", "polling", "claimed", "calling", "writing"}

\* The columns of `jobs` the API's database role may UPDATE.
ApiUpdateGrant ==
  {"status", "cancellation_requested_at", "completed_at", "updated_at"}

\* Job types whose payload is scrubbed and whose result is a unique row.
Recorded(j) == JobType[j] \in RecordedTypes

Terminal(j) == status[j] \in TERMINAL_STATUSES

\* A worker between its INSERT of the result and its commit holds FOR KEY
\* SHARE on the jobs row (the foreign key) and the unique index entry.
Locked(j) == \E w \in Workers : phase[w] = "writing" /\ job[w] = j

\* Variant: the update looks only at the status.
AnyLease(w) == status[job[w]] = "running"

\* complete_job and fail_job update WHERE status='running' AND lease_owner=me.
HoldsLease(w) == status[job[w]] = "running" /\ lease_owner[job[w]] = w

Init ==
  /\ status = [j \in Jobs |-> "absent"]
  /\ attempt_count = [j \in Jobs |-> 0]
  /\ cancellation_requested = [j \in Jobs |-> FALSE]
  /\ available = [j \in Jobs |-> FALSE]
  /\ lease_owner = [j \in Jobs |-> NoWorker]
  /\ lease_expired = [j \in Jobs |-> FALSE]
  /\ payload = [j \in Jobs |-> FALSE]
  /\ job_attempts = [j \in Jobs |-> {}]
  /\ job_dead_letters = {}
  /\ recorded = {}
  /\ cancel_result = [j \in Jobs |-> "none"]
  /\ phase = [w \in Workers |-> "idle"]
  /\ job = [w \in Workers |-> NoJob]
  /\ attempt = [w \in Workers |-> 0]

-----------------------------------------------------------------------------
(* The API *)

\* The three enqueue handlers: a fresh idempotency key inserts the row, a
\* replayed one returns the existing row and changes nothing.
Enqueue(j) ==
  /\ status[j] = "absent"
  /\ status' = [status EXCEPT ![j] = "queued"]
  /\ available' = [available EXCEPT ![j] = TRUE]
  /\ payload' = [payload EXCEPT ![j] = TRUE]
  /\ UNCHANGED <<attempt_count, cancellation_requested, lease_owner,
                 lease_expired, history, recorded, cancel_result, local>>

\* The columns the UPDATE of a cancel request sets.
CancelColumns(j) ==
  {"cancellation_requested_at", "updated_at"}
    \cup (IF status[j] \in WaitingStatuses THEN {"status", "completed_at"} ELSE {})
    \cup (IF status[j] \in WaitingStatuses /\ Recorded(j) THEN {"payload"} ELSE {})

\* Variant: the early return for a job that already ended is missing.
CancellableAlways(j) == status[j] # "absent"

Cancellable(j) == status[j] \in WaitingStatuses \cup {"running"}

\* cancel_job: SELECT ... FOR UPDATE waits for a Locked row; a terminal job is
\* returned as it is; PostgreSQL refuses the whole UPDATE, and the request's
\* transaction rolls back, when it names a column outside the grant.
CancelJob(j) ==
  /\ Cancellable(j)
  /\ ~ Locked(j)
  /\ \/ /\ CancelColumns(j) \subseteq ApiUpdateGrant
        /\ cancellation_requested' = [cancellation_requested EXCEPT ![j] = TRUE]
        /\ status' = [status EXCEPT ![j] =
                        IF @ \in WaitingStatuses THEN "cancelled" ELSE @]
        /\ payload' = [payload EXCEPT ![j] =
                         @ /\ ~(status[j] \in WaitingStatuses /\ Recorded(j))]
        /\ cancel_result' = [cancel_result EXCEPT ![j] = "committed"]
     \/ /\ ~(CancelColumns(j) \subseteq ApiUpdateGrant)
        /\ cancel_result' = [cancel_result EXCEPT ![j] = "refused"]
        /\ UNCHANGED <<status, cancellation_requested, payload>>
  /\ UNCHANGED <<attempt_count, available, lease_owner, lease_expired,
                 history, recorded, local>>

-----------------------------------------------------------------------------
(* The worker: one poll is run_once, claim_next_job and then one execution *)

\* Every _record_event inserts <<attempt_number, outcome>> for the job.
RecordEvent(j, n, outcome) ==
  job_attempts' = [job_attempts EXCEPT ![j] = @ \cup {<<n, outcome>>}]

Idle(w) ==
  /\ phase' = [phase EXCEPT ![w] = "idle"]
  /\ job' = [job EXCEPT ![w] = NoJob]
  /\ attempt' = [attempt EXCEPT ![w] = 0]

\* Variant: the final attempt counts as one more to come.
ExhaustedTooLate ==
  {j \in Jobs : /\ status[j] = "running" /\ lease_expired[j]
                /\ attempt_count[j] > MaxAttempts[j]
                /\ ~ Locked(j)}

Exhausted ==
  {j \in Jobs : /\ status[j] = "running" /\ lease_expired[j]
                /\ attempt_count[j] >= MaxAttempts[j]
                /\ ~ Locked(j)}

\* _reap_exhausted_leases, a transaction of its own before the claim: every
\* expired final attempt is dead-lettered, whatever its cancellation flag.
ReapExhaustedLeases(w) ==
  /\ phase[w] = "idle"
  /\ status' = [j \in Jobs |-> IF j \in Exhausted THEN "dead_letter" ELSE status[j]]
  /\ payload' = [j \in Jobs |-> payload[j] /\ ~(j \in Exhausted /\ Recorded(j))]
  /\ lease_owner' = [j \in Jobs |-> IF j \in Exhausted THEN NoWorker ELSE lease_owner[j]]
  /\ lease_expired' = [j \in Jobs |-> lease_expired[j] /\ j \notin Exhausted]
  /\ job_attempts' = [j \in Jobs |->
       job_attempts[j] \cup IF j \in Exhausted
                            THEN {<<attempt_count[j], "dead_letter">>} ELSE {}]
  /\ job_dead_letters' = job_dead_letters \cup Exhausted
  /\ phase' = [phase EXCEPT ![w] = "polling"]
  /\ UNCHANGED <<attempt_count, cancellation_requested, available, recorded,
                 cancel_result, job, attempt>>

\* Variant: one attempt too many.
CandidateOnceMore(j) ==
  /\ attempt_count[j] <= MaxAttempts[j]
  /\ \/ status[j] \in WaitingStatuses /\ available[j]
     \/ status[j] = "running" /\ lease_expired[j]

Candidate(j) ==
  /\ attempt_count[j] < MaxAttempts[j]
  /\ \/ status[j] \in WaitingStatuses /\ available[j]
     \/ status[j] = "running" /\ lease_expired[j]

Claimable == {j \in Jobs : Candidate(j) /\ ~ Locked(j)}

\* ORDER BY priority DESC ... FOR UPDATE SKIP LOCKED LIMIT 1; ties, which the
\* code breaks by available_at and created_at, are left open.
NextInLine == {j \in Claimable : \A k \in Claimable : Priority[k] <= Priority[j]}

NextAttempt(j) == attempt_count[j] + 1

\* claim_next_job's claim: take the lease and start the next attempt.
Claim(w, j) ==
  /\ ~ cancellation_requested[j]
  /\ status' = [status EXCEPT ![j] = "running"]
  /\ attempt_count' = [attempt_count EXCEPT ![j] = NextAttempt(j)]
  /\ lease_owner' = [lease_owner EXCEPT ![j] = w]
  /\ lease_expired' = [lease_expired EXCEPT ![j] = FALSE]
  /\ RecordEvent(j, NextAttempt(j), "running")
  /\ phase' = [phase EXCEPT ![w] = "claimed"]
  /\ job' = [job EXCEPT ![w] = j]
  /\ attempt' = [attempt EXCEPT ![w] = NextAttempt(j)]
  /\ UNCHANGED payload

\* The same statement when cancellation was requested: the job ends here.
ClaimCancelled(w, j) ==
  /\ cancellation_requested[j]
  /\ status' = [status EXCEPT ![j] = "cancelled"]
  /\ lease_owner' = [lease_owner EXCEPT ![j] = NoWorker]
  /\ lease_expired' = [lease_expired EXCEPT ![j] = FALSE]
  /\ payload' = [payload EXCEPT ![j] = @ /\ ~ Recorded(j)]
  /\ IF attempt_count[j] > 0 THEN RecordEvent(j, attempt_count[j], "cancelled")
                             ELSE UNCHANGED job_attempts
  /\ Idle(w)
  /\ UNCHANGED attempt_count

ClaimNextJob(w) ==
  /\ phase[w] = "polling"
  /\ \/ \E j \in NextInLine : Claim(w, j) \/ ClaimCancelled(w, j)
     \/ /\ Claimable = {}
        /\ Idle(w)
        /\ UNCHANGED <<status, attempt_count, lease_owner, lease_expired,
                       payload, job_attempts>>
  /\ UNCHANGED <<cancellation_requested, available, job_dead_letters,
                 recorded, cancel_result>>

\* What completion makes of a job: cancelled if that was requested meanwhile.
Outcome(j, otherwise) == IF cancellation_requested[j] THEN "cancelled" ELSE otherwise

EndAttempt(w, outcome, scrub) ==
  LET j == job[w] IN
  /\ status' = [status EXCEPT ![j] = outcome]
  /\ payload' = [payload EXCEPT ![j] = @ /\ ~(Recorded(j) /\ scrub)]
  /\ lease_owner' = [lease_owner EXCEPT ![j] = NoWorker]
  /\ lease_expired' = [lease_expired EXCEPT ![j] = FALSE]

LostLease(w) ==
  /\ ~ HoldsLease(w)
  /\ UNCHANGED <<row, history>>

\* complete_job; a worker that lost its lease updates no row and says so.
CompleteJob(w) ==
  LET j == job[w]
      outcome == Outcome(j, "succeeded")
  IN \/ /\ HoldsLease(w)
        /\ EndAttempt(w, outcome, TRUE)
        /\ RecordEvent(j, attempt[w], outcome)
        /\ UNCHANGED <<attempt_count, cancellation_requested, available,
                       job_dead_letters>>
     \/ LostLease(w)

ShouldRetry(w, retryable) == retryable /\ attempt[w] < MaxAttempts[job[w]]

\* Variant: the outcome of the attempt is stored as the status of the job.
FailureStatusAsEvent(w, retryable) ==
  Outcome(job[w], IF ShouldRetry(w, retryable) THEN "retry" ELSE "dead_letter")

FailureStatus(w, retryable) ==
  Outcome(job[w], IF ShouldRetry(w, retryable) THEN "retry_wait" ELSE "dead_letter")

\* Variant: the prompt of a job cancelled instead of retried is kept.
ScrubsUnlessRetryable(w, retryable) == ~ ShouldRetry(w, retryable)

ScrubsOnFailure(w, retryable) ==
  cancellation_requested[job[w]] \/ ~ ShouldRetry(w, retryable)

\* fail_job: another attempt after a backoff while attempts remain, else a
\* dead letter; a requested cancellation wins over both.
FailJob(w, retryable) ==
  LET j == job[w]
      outcome == FailureStatus(w, retryable)
  IN \/ /\ HoldsLease(w)
        /\ EndAttempt(w, outcome, ScrubsOnFailure(w, retryable))
        /\ available' = [available EXCEPT ![j] = @ /\ outcome # "retry_wait"]
        /\ RecordEvent(j, attempt[w], IF outcome = "retry_wait" THEN "retry" ELSE outcome)
        /\ job_dead_letters' = IF outcome = "dead_letter"
                               THEN job_dead_letters \cup {j} ELSE job_dead_letters
        /\ UNCHANGED <<attempt_count, cancellation_requested>>
     \/ LostLease(w)

\* Variant: an earlier attempt is trusted to have stored its result.
RecordedByRetry(w) == Recorded(job[w]) /\ attempt[w] > 1

AlreadyRecorded(w) == Recorded(job[w]) /\ job[w] \in recorded

\* execute_*: the deduplication SELECT finds the result of an earlier attempt,
\* and the job completes without calling the provider.
ReuseRecorded(w) ==
  /\ phase[w] = "claimed"
  /\ AlreadyRecorded(w)
  /\ CompleteJob(w)
  /\ Idle(w)
  /\ UNCHANGED <<recorded, cancel_result>>

\* execute_*: nothing recorded yet; the provider, fetcher or resolver is called.
CallProvider(w) ==
  /\ phase[w] = "claimed"
  /\ ~ AlreadyRecorded(w)
  /\ phase' = [phase EXCEPT ![w] = "calling"]
  /\ UNCHANGED <<row, history, recorded, cancel_result, job, attempt>>

\* Any exception but RetryableJobError: the feature is disabled, the payload is
\* invalid, the source is withdrawn, or the provider refuses for good.
FailPermanently(w) ==
  /\ phase[w] \in {"claimed", "calling"}
  /\ FailJob(w, FALSE)
  /\ Idle(w)
  /\ UNCHANGED <<recorded, cancel_result>>

\* RetryableJobError: a timeout, a 5xx, a TXT record that does not match yet.
FailTransiently(w) ==
  /\ phase[w] = "calling"
  /\ FailJob(w, TRUE)
  /\ Idle(w)
  /\ UNCHANGED <<recorded, cancel_result>>

\* The INSERT of the observation or snapshot.  It waits for another worker's
\* uncommitted INSERT for the same job, and its unique index refuses a second
\* row: run_once then fails the job for good.
InsertResult(w) ==
  /\ phase[w] = "calling"
  /\ Recorded(job[w])
  /\ ~ Locked(job[w])
  /\ \/ /\ job[w] \notin recorded
        /\ phase' = [phase EXCEPT ![w] = "writing"]
        /\ UNCHANGED <<row, history, job, attempt>>
     \/ /\ job[w] \in recorded
        /\ FailJob(w, FALSE)
        /\ Idle(w)
  /\ UNCHANGED <<recorded, cancel_result>>

\* complete_job and the commit of the transaction that inserted the result.
CommitResult(w) ==
  /\ phase[w] = "writing"
  /\ recorded' = recorded \cup {job[w]}
  /\ CompleteJob(w)
  /\ Idle(w)
  /\ UNCHANGED cancel_result

\* A verified domain is written idempotently, without a row of its own; an
\* already verified or an expired challenge completes without a DNS call.
CommitVerification(w) ==
  /\ phase[w] \in {"claimed", "calling"}
  /\ ~ Recorded(job[w])
  /\ CompleteJob(w)
  /\ Idle(w)
  /\ UNCHANGED <<recorded, cancel_result>>

\* The process or its connection dies holding a claim: everything since the
\* claim rolls back, the claim itself stays until its lease expires.
Crash(w) ==
  /\ phase[w] \in {"claimed", "calling", "writing"}
  /\ Idle(w)
  /\ UNCHANGED <<row, history, recorded, cancel_result>>

-----------------------------------------------------------------------------
(* Time *)

LeaseExpires(j) ==
  /\ status[j] = "running" /\ ~ lease_expired[j]
  /\ lease_expired' = [lease_expired EXCEPT ![j] = TRUE]
  /\ UNCHANGED <<status, attempt_count, cancellation_requested, available,
                 lease_owner, payload, history, recorded, cancel_result, local>>

BackoffElapses(j) ==
  /\ status[j] = "retry_wait" /\ ~ available[j]
  /\ available' = [available EXCEPT ![j] = TRUE]
  /\ UNCHANGED <<status, attempt_count, cancellation_requested, lease_owner,
                 lease_expired, payload, history, recorded, cancel_result, local>>

WorkerStep(w) ==
  \/ ReapExhaustedLeases(w) \/ ClaimNextJob(w)
  \/ ReuseRecorded(w) \/ CallProvider(w)
  \/ FailPermanently(w) \/ FailTransiently(w)
  \/ InsertResult(w) \/ CommitResult(w) \/ CommitVerification(w)

Next ==
  \/ \E j \in Jobs : Enqueue(j) \/ CancelJob(j) \/ LeaseExpires(j) \/ BackoffElapses(j)
  \/ \E w \in Workers : WorkerStep(w) \/ Crash(w)

\* main() polls for ever, and every resolver and provider call has a timeout, so
\* a worker that claimed a job goes on or dies; time passes.
Fairness ==
  /\ \A w \in Workers : WF_vars(WorkerStep(w) \/ Crash(w))
  /\ \A j \in Jobs : WF_vars(LeaseExpires(j)) /\ WF_vars(BackoffElapses(j))

Spec == Init /\ [][Next]_vars
FairSpec == Spec /\ Fairness

-----------------------------------------------------------------------------
(* Properties *)

\* Every variable has its type.
TypeOK ==
  /\ status \in [Jobs -> Statuses]
  /\ attempt_count \in [Jobs -> Nat]
  /\ cancellation_requested \in [Jobs -> BOOLEAN]
  /\ available \in [Jobs -> BOOLEAN]
  /\ lease_owner \in [Jobs -> Workers \cup {NoWorker}]
  /\ lease_expired \in [Jobs -> BOOLEAN]
  /\ payload \in [Jobs -> BOOLEAN]
  /\ job_attempts \in [Jobs -> SUBSET (Nat \X Outcomes)]
  /\ job_dead_letters \in SUBSET Jobs
  /\ recorded \in SUBSET Jobs
  /\ cancel_result \in [Jobs -> {"none", "committed", "refused"}]
  /\ phase \in [Workers -> Phases]
  /\ job \in [Workers -> Jobs \cup {NoJob}]
  /\ attempt \in [Workers -> Nat]

\* lease_owner alone fences stale workers: complete_job and fail_job never look
\* at attempt_count, so whoever they let through must be running the job's
\* current attempt, not one that was reclaimed in between.
LeaseFencing ==
  \A w \in Workers :
    phase[w] \in {"claimed", "calling", "writing"} /\ HoldsLease(w)
      => attempt[w] = attempt_count[job[w]]

\* The prompt or source id is there exactly as long as an attempt may still
\* need it: five statements in three files scrub it, and none too early.
PayloadLifetime ==
  \A j \in Jobs :
    Recorded(j) /\ status[j] # "absent" => (payload[j] <=> ~ Terminal(j))

\* A job that waits is a job nobody cancelled: fail_job and cancel_job both turn
\* it into "cancelled" at once, so no retry of withdrawn work is ever scheduled.
WaitingIsWanted ==
  \A j \in Jobs : status[j] \in WaitingStatuses => ~ cancellation_requested[j]

\* job_attempts tells the whole story of a job: attempts are numbered from one
\* up to attempt_count and never beyond the limit, none has two outcomes, and a
\* job dead-lettered or succeeded says so in the row of its last attempt, with a
\* dead-letter row exactly for the former.
AttemptHistory ==
  \A j \in Jobs :
    /\ attempt_count[j] <= MaxAttempts[j]
    /\ {n \in 1..MaxAttempts[j] : <<n, "running">> \in job_attempts[j]} = 1..attempt_count[j]
    /\ \A e, f \in job_attempts[j] :
         e[1] = f[1] /\ e[2] # "running" /\ f[2] # "running" => e = f
    /\ \A o \in {"succeeded", "dead_letter"} :
         status[j] = o <=> <<attempt_count[j], o>> \in job_attempts[j]
    /\ j \in job_dead_letters <=> status[j] = "dead_letter"

\* A succeeded collection or capture has its observation or snapshot row.
SuccessIsRecorded ==
  \A j \in Jobs : status[j] = "succeeded" /\ Recorded(j) => j \in recorded

\* Every insert into job_attempts is of a new key: uq_job_attempt_event would
\* otherwise raise inside the claim or the completion and roll it back, and the
\* same job would block every later poll of every worker.
EventKeysAreFresh ==
  [][\A j \in Jobs :
       /\ job_attempts[j] \subseteq job_attempts'[j]
       /\ (lease_owner[j] # NoWorker /\ lease_owner'[j] = NoWorker)
            \/ attempt_count'[j] # attempt_count[j]
          => job_attempts'[j] # job_attempts[j]]_vars

\* The lifecycle sees queued and retry_wait as pending and running as active.
LifecycleState(s) ==
  CASE s \in WaitingStatuses -> "pending"
    [] s = "running" -> "active"
    [] OTHER -> s

Lifecycle == INSTANCE JobLifecycle WITH
  state <- [j \in Jobs |-> LifecycleState(status[j])],
  attempts <- attempt_count,
  withdrawn <- cancellation_requested,
  results <- recorded

\* The queue keeps the lifecycle it promises for every job (JobLifecycle): work
\* begins only while it is wanted and has attempts left, ends in one way that
\* never changes again, and puts its result on record once.
ImplementsLifecycle == Lifecycle!LifecycleSpec

\* What a caller has seen is final: a job that ended is never begun, ended or
\* dead-lettered again, and a result on record stays there.
EndIsFinal ==
  [][/\ \A j \in Jobs : Terminal(j) =>
          status'[j] = status[j] /\ attempt_count'[j] = attempt_count[j]
     /\ recorded \subseteq recorded']_vars

\* A cancellation that was recorded stays and is heeded: no further attempt, no
\* success and no wait for a retry, only the end of the attempt under way.
CancellationIsHeeded ==
  [][\A j \in Jobs : cancellation_requested[j] =>
       /\ cancellation_requested'[j]
       /\ attempt_count'[j] = attempt_count[j]
       /\ status'[j] \in {status[j], "cancelled", "dead_letter"}]_vars

\* A submitted job reaches a terminal status, through any crash, stall, failure
\* or cancellation, as long as the workers keep polling.
EverySubmittedJobSettles ==
  \A j \in Jobs : status[j] = "queued" ~> Terminal(j)

\* "durable jobs with ... cancellation": a cancel request is never refused.
CancelNeverFails == \A j \in Jobs : cancel_result[j] # "refused"

\* A dead-lettered job has no observation or snapshot to its name: the failure
\* an operator is told to correct and resubmit did not store a result.
DeadLetterStoredNothing == job_dead_letters \cap recorded = {}
=============================================================================
