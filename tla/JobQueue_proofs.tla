--------------------------- MODULE JobQueue_proofs ---------------------------
(***************************************************************************)
(* Proofs about JobQueue for any sets of jobs and workers, any job types,  *)
(* priorities and attempt limits.                                          *)
(***************************************************************************)
EXTENDS JobQueue, TLAPS

\* A worker that is past its claim holds a job.
Busy(w) == phase[w] \in {"claimed", "calling", "writing"}

BusyHasJob == \A w \in Workers : Busy(w) => job[w] \in Jobs

-----------------------------------------------------------------------------
(* Type correctness *)

TypeInv == TypeOK /\ BusyHasJob

LEMMA InitTypeInv == Init => TypeInv
  BY DEF Init, TypeInv, TypeOK, BusyHasJob, Busy, Statuses, TERMINAL_STATUSES,
         WaitingStatuses, Phases

LEMMA RecordEventTypes ==
  ASSUME job_attempts \in [Jobs -> SUBSET (Nat \X Outcomes)],
         NEW j \in Jobs, NEW n \in Nat, NEW o \in Outcomes,
         RecordEvent(j, n, o)
  PROVE  job_attempts' \in [Jobs -> SUBSET (Nat \X Outcomes)]
  <1> DEFINE e == <<n, o>>
  <1>1. e \in Nat \X Outcomes
    OBVIOUS
  <1>2. job_attempts[j] \cup {e} \in SUBSET (Nat \X Outcomes)
    BY <1>1
  <1> QED
    BY <1>2 DEF RecordEvent

\* The status an attempt leaves behind, and the row types it preserves.
LEMMA EndAttemptTypes ==
  ASSUME TypeOK, NEW w \in Workers, job[w] \in Jobs,
         NEW outcome \in Statuses, NEW scrub \in BOOLEAN,
         EndAttempt(w, outcome, scrub)
  PROVE  /\ status' \in [Jobs -> Statuses]
         /\ lease_owner' \in [Jobs -> Workers \cup {NoWorker}]
         /\ lease_expired' \in [Jobs -> BOOLEAN]
         /\ payload' \in [Jobs -> BOOLEAN]
  BY DEF TypeOK, EndAttempt

LEMMA OutcomeTypes ==
  ASSUME NEW j, NEW s \in {"succeeded", "retry_wait", "dead_letter"}
  PROVE  /\ Outcome(j, s) \in {s, "cancelled"}
         /\ Outcome(j, s) \in Statuses
         /\ s # "retry_wait" => Outcome(j, s) \in Outcomes
  BY DEF Outcome, Statuses, Outcomes, TERMINAL_STATUSES, WaitingStatuses

\* The part of TypeOK that ending an attempt can disturb.
RowTypes ==
  /\ status \in [Jobs -> Statuses]
  /\ attempt_count \in [Jobs -> Nat]
  /\ cancellation_requested \in [Jobs -> BOOLEAN]
  /\ available \in [Jobs -> BOOLEAN]
  /\ lease_owner \in [Jobs -> Workers \cup {NoWorker}]
  /\ lease_expired \in [Jobs -> BOOLEAN]
  /\ payload \in [Jobs -> BOOLEAN]
  /\ job_attempts \in [Jobs -> SUBSET (Nat \X Outcomes)]
  /\ job_dead_letters \in SUBSET Jobs

LEMMA CompleteJobTypes ==
  ASSUME TypeInv, NEW w \in Workers, Busy(w), CompleteJob(w)
  PROVE  RowTypes'
  <1>1. job[w] \in Jobs /\ attempt[w] \in Nat /\ TypeOK
    BY DEF TypeInv, BusyHasJob, TypeOK
  <1> DEFINE outcome == Outcome(job[w], "succeeded")
  <1>2. outcome \in Statuses /\ outcome \in Outcomes
    BY OutcomeTypes
  <1> HIDE DEF outcome
  <1>3. CASE LostLease(w)
    BY <1>1, <1>3 DEF LostLease, row, history, TypeOK, RowTypes
  <1>4. CASE ~ LostLease(w)
    <2>1. /\ EndAttempt(w, outcome, TRUE)
          /\ RecordEvent(job[w], attempt[w], outcome)
          /\ UNCHANGED <<attempt_count, cancellation_requested, available,
                         job_dead_letters>>
      BY <1>4 DEF CompleteJob, outcome
    <2>2. job_attempts' \in [Jobs -> SUBSET (Nat \X Outcomes)]
      BY <1>1, <1>2, <2>1, RecordEventTypes DEF TypeOK
    <2> QED
      BY <1>1, <1>2, <2>1, <2>2, EndAttemptTypes DEF RowTypes, TypeOK
  <1> QED
    BY <1>3, <1>4

LEMMA FailJobTypes ==
  ASSUME TypeInv, NEW w \in Workers, Busy(w), NEW retryable \in BOOLEAN,
         FailJob(w, retryable)
  PROVE  RowTypes'
  <1>1. job[w] \in Jobs /\ attempt[w] \in Nat /\ TypeOK
    BY DEF TypeInv, BusyHasJob, TypeOK
  <1> DEFINE outcome == FailureStatus(w, retryable)
             event == IF outcome = "retry_wait" THEN "retry" ELSE outcome
             scrub == ScrubsOnFailure(w, retryable)
  <1>2. outcome \in {"retry_wait", "dead_letter", "cancelled"}
    BY DEF FailureStatus, Outcome
  <1>3. outcome \in Statuses /\ event \in Outcomes
    BY <1>2 DEF Statuses, Outcomes, TERMINAL_STATUSES, WaitingStatuses
  <1>4. scrub \in BOOLEAN
    BY <1>1 DEF ScrubsOnFailure, TypeOK
  <1>5. CASE LostLease(w)
    BY <1>1, <1>5 DEF LostLease, row, history, TypeOK, RowTypes
  <1>6. CASE ~ LostLease(w)
    <2>1. /\ EndAttempt(w, outcome, scrub)
          /\ available' = [available EXCEPT ![job[w]] = @ /\ outcome # "retry_wait"]
          /\ RecordEvent(job[w], attempt[w], event)
          /\ job_dead_letters' = IF outcome = "dead_letter"
                                 THEN job_dead_letters \cup {job[w]} ELSE job_dead_letters
          /\ UNCHANGED <<attempt_count, cancellation_requested>>
      BY <1>6 DEF FailJob
    <2> HIDE DEF outcome, event, scrub
    <2>2. job_attempts' \in [Jobs -> SUBSET (Nat \X Outcomes)]
      BY <1>1, <1>3, <2>1, RecordEventTypes DEF TypeOK
    <2>3. job_dead_letters' \in SUBSET Jobs
      BY <1>1, <2>1 DEF TypeOK
    <2>4. available' \in [Jobs -> BOOLEAN]
      BY <1>1, <2>1 DEF TypeOK
    <2> QED
      BY <1>1, <1>3, <1>4, <2>1, <2>2, <2>3, <2>4, EndAttemptTypes DEF RowTypes, TypeOK
  <1> QED
    BY <1>5, <1>6

LEMMA IdleTypes ==
  ASSUME TypeInv, NEW w \in Workers, Idle(w)
  PROVE  /\ phase' \in [Workers -> Phases]
         /\ job' \in [Workers -> Jobs \cup {NoJob}]
         /\ attempt' \in [Workers -> Nat]
         /\ \A v \in Workers : phase'[v] \in {"claimed", "calling", "writing"}
                                 => job'[v] \in Jobs
  BY DEF TypeInv, TypeOK, BusyHasJob, Busy, Idle, Phases
\* Any way to end an execution keeps the invariant.
LEMMA EndingTypes ==
  ASSUME TypeInv, NEW w \in Workers, Busy(w),
         CompleteJob(w) \/ FailJob(w, TRUE) \/ FailJob(w, FALSE),
         Idle(w), recorded' \in SUBSET Jobs, UNCHANGED cancel_result
  PROVE  TypeInv'
  <1>1. RowTypes'
    BY CompleteJobTypes, FailJobTypes
  <1> QED
    BY <1>1, IdleTypes DEF TypeInv, TypeOK, RowTypes, BusyHasJob, Busy

LEMMA ReapTypes ==
  ASSUME TypeInv, NEW w \in Workers, ReapExhaustedLeases(w)
  PROVE  TypeInv'
  <1> USE DEF TypeInv, TypeOK
  <1>1. \A j \in Jobs : job_attempts'[j] \in SUBSET (Nat \X Outcomes)
    <2> TAKE j \in Jobs
    <2>1. <<attempt_count[j], "dead_letter">> \in Nat \X Outcomes
      BY DEF Outcomes, TERMINAL_STATUSES
    <2> QED
      BY <2>1 DEF ReapExhaustedLeases
  <1>2. job_attempts' \in [Jobs -> SUBSET (Nat \X Outcomes)]
    BY <1>1 DEF ReapExhaustedLeases
  <1>3. Exhausted \in SUBSET Jobs
    BY DEF Exhausted
  <1>4. status' \in [Jobs -> Statuses] /\ lease_owner' \in [Jobs -> Workers \cup {NoWorker}]
    BY DEF ReapExhaustedLeases, Statuses, TERMINAL_STATUSES
  <1>5. lease_expired' \in [Jobs -> BOOLEAN] /\ payload' \in [Jobs -> BOOLEAN]
    BY DEF ReapExhaustedLeases
  <1>6. phase' \in [Workers -> Phases] /\ BusyHasJob'
    BY DEF ReapExhaustedLeases, Phases, BusyHasJob, Busy
  <1> QED
    BY <1>2, <1>3, <1>4, <1>5, <1>6 DEF ReapExhaustedLeases

LEMMA ClaimTypes ==
  ASSUME TypeInv, NEW w \in Workers, ClaimNextJob(w)
  PROVE  TypeInv'
  <1> USE DEF TypeInv, TypeOK
  <1>1. ASSUME NEW j \in Jobs, Claim(w, j)
        PROVE  TypeInv'
    <2>1. NextAttempt(j) \in Nat /\ "running" \in Outcomes /\ "running" \in Statuses
      BY DEF NextAttempt, Outcomes, Statuses
    <2>2. job_attempts' \in [Jobs -> SUBSET (Nat \X Outcomes)]
      BY <1>1, <2>1, RecordEventTypes DEF Claim
    <2> QED
      BY <1>1, <2>1, <2>2 DEF Claim, ClaimNextJob, Phases, BusyHasJob, Busy
  <1>2. ASSUME NEW j \in Jobs, ClaimCancelled(w, j)
        PROVE  TypeInv'
    <2>1. "cancelled" \in Outcomes /\ "cancelled" \in Statuses
      BY DEF Outcomes, Statuses, TERMINAL_STATUSES
    <2>2. job_attempts' \in [Jobs -> SUBSET (Nat \X Outcomes)]
      BY <1>2, <2>1, RecordEventTypes DEF ClaimCancelled
    <2> QED
      BY <1>2, <2>1, <2>2, IdleTypes DEF ClaimCancelled, ClaimNextJob, BusyHasJob, Busy
  <1>3. CASE /\ Idle(w)
             /\ UNCHANGED <<status, attempt_count, lease_owner, lease_expired,
                            payload, job_attempts>>
    BY <1>3, IdleTypes DEF ClaimNextJob, BusyHasJob, Busy
  <1> QED
    BY <1>1, <1>2, <1>3 DEF ClaimNextJob, NextInLine, Claimable

LEMMA ApiTypes ==
  ASSUME TypeInv, NEW j \in Jobs,
         Enqueue(j) \/ CancelJob(j) \/ LeaseExpires(j) \/ BackoffElapses(j)
  PROVE  TypeInv'
  <1> USE DEF TypeInv, TypeOK, BusyHasJob, Busy, local, history, row
  <1>1. CASE Enqueue(j)
    BY <1>1 DEF Enqueue, Statuses, WaitingStatuses
  <1>2. CASE CancelJob(j)
    BY <1>2 DEF CancelJob, Statuses, TERMINAL_STATUSES
  <1>3. CASE LeaseExpires(j)
    BY <1>3 DEF LeaseExpires
  <1>4. CASE BackoffElapses(j)
    BY <1>4 DEF BackoffElapses
  <1> QED
    BY <1>1, <1>2, <1>3, <1>4

LEMMA WorkerTypes ==
  ASSUME TypeInv, NEW w \in Workers, WorkerStep(w) \/ Crash(w)
  PROVE  TypeInv'
  <1>1. CASE ReapExhaustedLeases(w)
    BY <1>1, ReapTypes
  <1>2. CASE ClaimNextJob(w)
    BY <1>2, ClaimTypes
  <1>3. CASE ReuseRecorded(w)
    BY <1>3, EndingTypes DEF ReuseRecorded, Busy, TypeInv, TypeOK
  <1>4. CASE CallProvider(w)
    BY <1>4 DEF CallProvider, TypeInv, TypeOK, BusyHasJob, Busy, Phases, row, history
  <1>5. CASE FailPermanently(w)
    BY <1>5, EndingTypes DEF FailPermanently, Busy, TypeInv, TypeOK
  <1>6. CASE FailTransiently(w)
    BY <1>6, EndingTypes DEF FailTransiently, Busy, TypeInv, TypeOK
  <1>7. CASE InsertResult(w)
    <2>1. CASE job[w] \in recorded
      BY <1>7, <2>1, EndingTypes DEF InsertResult, Busy, TypeInv, TypeOK
    <2>2. CASE job[w] \notin recorded
      BY <1>7, <2>2 DEF InsertResult, TypeInv, TypeOK, BusyHasJob, Busy, Phases, row, history
    <2> QED
      BY <2>1, <2>2
  <1>8. CASE CommitResult(w)
    <2>1. job[w] \in Jobs
      BY <1>8 DEF CommitResult, TypeInv, BusyHasJob, Busy
    <2> QED
      BY <1>8, <2>1, EndingTypes DEF CommitResult, Busy, TypeInv, TypeOK
  <1>9. CASE CommitVerification(w)
    BY <1>9, EndingTypes DEF CommitVerification, Busy, TypeInv, TypeOK
  <1>10. CASE Crash(w)
    BY <1>10, IdleTypes DEF Crash, TypeInv, TypeOK, BusyHasJob, Busy, row, history
  <1> QED
    BY <1>1, <1>2, <1>3, <1>4, <1>5, <1>6, <1>7, <1>8, <1>9, <1>10 DEF WorkerStep

LEMMA TypeInvStep == TypeInv /\ [Next]_vars => TypeInv'
  <1> SUFFICES ASSUME TypeInv, [Next]_vars PROVE TypeInv'
    OBVIOUS
  <1>1. CASE UNCHANGED vars
    BY <1>1 DEF vars, row, history, local, TypeInv, TypeOK, BusyHasJob, Busy
  <1>2. CASE Next
    BY <1>2, ApiTypes, WorkerTypes DEF Next
  <1> QED
    BY <1>1, <1>2

\* Every variable keeps its type, and a busy worker holds a job, for any sets of
\* jobs and workers.
THEOREM TypeCorrect == Spec => [](TypeOK /\ BusyHasJob)
  <1>1. Init => TypeInv
    BY InitTypeInv
  <1>2. TypeInv /\ [Next]_vars => TypeInv'
    BY TypeInvStep
  <1>3. TypeInv => TypeOK /\ BusyHasJob
    BY DEF TypeInv
  <1> QED
    BY <1>1, <1>2, <1>3, PTL DEF Spec

-----------------------------------------------------------------------------
(* The steps of the queue, as the invariants see them *)

\* An attempt that still holds its lease ends its job with status s.
Ends(w, s) ==
  LET j == job[w] IN
  /\ HoldsLease(w)
  /\ s = "cancelled" <=> cancellation_requested[j]
  /\ s = "retry_wait" => attempt[w] < MaxAttempts[j]
  /\ status' = [status EXCEPT ![j] = s]
  /\ lease_owner' = [lease_owner EXCEPT ![j] = NoWorker]
  /\ payload' = [payload EXCEPT ![j] = @ /\ ~(Recorded(j) /\ s # "retry_wait")]
  /\ job_attempts' = [job_attempts EXCEPT ![j] =
       @ \cup {<<attempt[w], IF s = "retry_wait" THEN "retry" ELSE s>>}]
  /\ job_dead_letters' = IF s = "dead_letter" THEN job_dead_letters \cup {j}
                                              ELSE job_dead_letters
  /\ UNCHANGED <<attempt_count, cancellation_requested>>

Endings == {"succeeded", "retry_wait", "dead_letter", "cancelled"}

\* The part of the state an attempt without its lease never touches.
watched == <<status, attempt_count, cancellation_requested, lease_owner,
             payload, history>>

\* Workers that are busy after the step were busy with the same claim before.
NoNewClaim ==
  \A w \in Workers : Busy(w)' => Busy(w) /\ job'[w] = job[w] /\ attempt'[w] = attempt[w]

\* An attempt that makes its job succeed has its result on record.
SuccessRecorded(w) ==
  HoldsLease(w) /\ status'[job[w]] = "succeeded" /\ Recorded(job[w]) => job[w] \in recorded'

\* A result is put on record by a worker that holds a claim.
RecordsByClaim ==
  \/ recorded' = recorded
  \/ \E w \in Workers : Busy(w) /\ recorded' = recorded \cup {job[w]}

LEMMA EndingCases ==
  ASSUME TypeInv, NEW w \in Workers, Busy(w),
         CompleteJob(w) \/ FailJob(w, TRUE) \/ FailJob(w, FALSE)
  PROVE  \/ UNCHANGED watched
         \/ \E s \in Endings : Ends(w, s) /\ (CompleteJob(w) => s # "retry_wait")
  <1>1. job[w] \in Jobs /\ cancellation_requested[job[w]] \in BOOLEAN
    BY DEF TypeInv, TypeOK, BusyHasJob
  <1>2. CASE LostLease(w)
    BY <1>2 DEF LostLease, watched, row, history
  <1>3. CASE CompleteJob(w) /\ ~ LostLease(w)
    <2> DEFINE s == Outcome(job[w], "succeeded")
    <2>1. s \in Endings /\ s # "retry_wait" /\ s # "dead_letter"
      BY DEF Outcome, Endings
    <2>2. s = "cancelled" <=> cancellation_requested[job[w]]
      BY <1>1 DEF Outcome
    <2>3. /\ HoldsLease(w) /\ EndAttempt(w, s, TRUE)
          /\ RecordEvent(job[w], attempt[w], s)
          /\ UNCHANGED <<attempt_count, cancellation_requested, job_dead_letters>>
      BY <1>3 DEF CompleteJob
    <2> HIDE DEF s
    <2>4. Ends(w, s)
      BY <2>1, <2>2, <2>3 DEF Ends, EndAttempt, RecordEvent
    <2> QED
      BY <2>1, <2>4
  <1>4. ASSUME NEW retryable \in BOOLEAN, FailJob(w, retryable),
               ~ CompleteJob(w), ~ LostLease(w)
        PROVE  \E s \in Endings : Ends(w, s)
    <2> DEFINE s == FailureStatus(w, retryable)
               scrub == ScrubsOnFailure(w, retryable)
    <2>1. s \in Endings
      BY DEF FailureStatus, Outcome, Endings
    <2>2. s = "cancelled" <=> cancellation_requested[job[w]]
      BY <1>1 DEF FailureStatus, Outcome
    <2>3. scrub <=> s # "retry_wait"
      BY <1>1 DEF ScrubsOnFailure, FailureStatus, Outcome
    <2>4. s = "retry_wait" => attempt[w] < MaxAttempts[job[w]]
      BY DEF FailureStatus, Outcome, ShouldRetry
    <2>5. /\ HoldsLease(w) /\ EndAttempt(w, s, scrub)
          /\ RecordEvent(job[w], attempt[w], IF s = "retry_wait" THEN "retry" ELSE s)
          /\ job_dead_letters' = IF s = "dead_letter"
                                 THEN job_dead_letters \cup {job[w]} ELSE job_dead_letters
          /\ UNCHANGED <<attempt_count, cancellation_requested>>
      BY <1>4 DEF FailJob
    <2> HIDE DEF s, scrub
    <2>6. Ends(w, s)
      BY <2>2, <2>3, <2>4, <2>5 DEF Ends, EndAttempt, RecordEvent
    <2> QED
      BY <2>1, <2>6
  <1> QED
    BY <1>2, <1>3, <1>4

\* Every step is one of six kinds.
ClaimStep(w, j) ==
  /\ phase[w] = "polling" /\ Candidate(j)
  /\ Claim(w, j) \/ ClaimCancelled(w, j)
  /\ UNCHANGED <<cancellation_requested, job_dead_letters, recorded>>

EndStep(w) ==
  /\ Busy(w) /\ NoNewClaim /\ SuccessRecorded(w)
  /\ \E s \in Endings :
       /\ Ends(w, s)
       /\ \/ recorded' = recorded
          \/ s # "retry_wait" /\ recorded' = recorded \cup {job[w]}

QuietStep == UNCHANGED watched /\ NoNewClaim /\ RecordsByClaim

LEMMA EndingStep ==
  ASSUME TypeInv, NEW w \in Workers, Busy(w), Idle(w),
         CompleteJob(w) \/ FailJob(w, TRUE) \/ FailJob(w, FALSE),
         \/ recorded' = recorded
         \/ CompleteJob(w) /\ recorded' = recorded \cup {job[w]},
         SuccessRecorded(w)
  PROVE  EndStep(w) \/ QuietStep
  <1>1. NoNewClaim
    BY DEF Idle, NoNewClaim, Busy, TypeInv, TypeOK
  <1> QED
    BY <1>1, EndingCases DEF EndStep, QuietStep, RecordsByClaim

\* A failure is no success.
LEMMA FailureRecordsNothing ==
  ASSUME TypeInv, NEW w \in Workers, Busy(w), NEW retryable \in BOOLEAN, FailJob(w, retryable)
  PROVE  SuccessRecorded(w)
  <1>1. job[w] \in Jobs
    BY DEF TypeInv, BusyHasJob
  <1>2. FailureStatus(w, retryable) # "succeeded"
    BY DEF FailureStatus, Outcome
  <1> QED
    BY <1>1, <1>2 DEF FailJob, LostLease, EndAttempt, SuccessRecorded, TypeInv, TypeOK

LEMMA StepCases ==
  ASSUME TypeInv, [Next]_vars
  PROVE  \/ \E j \in Jobs : Enqueue(j) \/ CancelJob(j)
         \/ \E w \in Workers : ReapExhaustedLeases(w)
         \/ \E w \in Workers, j \in Jobs : ClaimStep(w, j)
         \/ \E w \in Workers : EndStep(w)
         \/ QuietStep
  <1>1. CASE UNCHANGED vars
    BY <1>1 DEF vars, row, history, local, watched, QuietStep, NoNewClaim,
                RecordsByClaim, Busy
  <1>2. ASSUME NEW j \in Jobs, LeaseExpires(j) \/ BackoffElapses(j)
        PROVE  QuietStep
    BY <1>2 DEF LeaseExpires, BackoffElapses, row, history, local, watched,
                QuietStep, NoNewClaim, RecordsByClaim, Busy
  <1>3. ASSUME NEW w \in Workers, ClaimNextJob(w)
        PROVE  (\E j \in Jobs : ClaimStep(w, j)) \/ QuietStep
    <2>1. CASE \E j \in NextInLine : Claim(w, j) \/ ClaimCancelled(w, j)
      BY <1>3, <2>1 DEF ClaimNextJob, NextInLine, Claimable, ClaimStep
    <2>2. CASE ~ \E j \in NextInLine : Claim(w, j) \/ ClaimCancelled(w, j)
      BY <1>3, <2>2 DEF ClaimNextJob, Idle, QuietStep, watched, history,
           NoNewClaim, RecordsByClaim, Busy, TypeInv, TypeOK
    <2> QED
      BY <2>1, <2>2
  <1>4. ASSUME NEW w \in Workers, CallProvider(w) \/ Crash(w)
        PROVE  QuietStep
    BY <1>4 DEF CallProvider, Crash, Idle, QuietStep, watched, row, history,
                NoNewClaim, RecordsByClaim, Busy, TypeInv, TypeOK
  <1>5. ASSUME NEW w \in Workers,
               ReuseRecorded(w) \/ FailPermanently(w) \/ FailTransiently(w)
                 \/ CommitVerification(w)
        PROVE  EndStep(w) \/ QuietStep
    <2>1. Busy(w) /\ Idle(w) /\ recorded' = recorded
      BY <1>5 DEF ReuseRecorded, FailPermanently, FailTransiently,
                  CommitVerification, Busy
    <2>2. CompleteJob(w) \/ FailJob(w, TRUE) \/ FailJob(w, FALSE)
      BY <1>5 DEF ReuseRecorded, FailPermanently, FailTransiently, CommitVerification
    <2>3. SuccessRecorded(w)
      <3>1. CASE FailPermanently(w) \/ FailTransiently(w)
        BY <2>1, <3>1, FailureRecordsNothing DEF FailPermanently, FailTransiently
      <3>2. CASE ReuseRecorded(w) \/ CommitVerification(w)
        BY <3>2 DEF ReuseRecorded, CommitVerification, AlreadyRecorded, SuccessRecorded
      <3> QED
        BY <1>5, <3>1, <3>2
    <2> QED
      BY <2>1, <2>2, <2>3, EndingStep
  <1>6. ASSUME NEW w \in Workers, InsertResult(w)
        PROVE  EndStep(w) \/ QuietStep
    <2>1. CASE job[w] \in recorded
      <3>1. Busy(w) /\ FailJob(w, FALSE)
        BY <1>6, <2>1 DEF InsertResult, Busy
      <3> QED
        BY <1>6, <2>1, <3>1, EndingStep, FailureRecordsNothing DEF InsertResult
    <2>2. CASE job[w] \notin recorded
      BY <1>6, <2>2 DEF InsertResult, QuietStep, watched, row, history,
           NoNewClaim, RecordsByClaim, Busy, TypeInv, TypeOK
    <2> QED
      BY <2>1, <2>2
  <1>7. ASSUME NEW w \in Workers, CommitResult(w)
        PROVE  EndStep(w) \/ QuietStep
    BY <1>7, EndingStep DEF CommitResult, Busy, SuccessRecorded
  <1> QED
    BY <1>1, <1>2, <1>3, <1>4, <1>5, <1>6, <1>7 DEF Next, WorkerStep

-----------------------------------------------------------------------------
(* Leases, cancellation and payloads *)

\* Work nobody started, or that waits to be started again, is not withdrawn.
WantedInv ==
  \A j \in Jobs : status[j] \in WaitingStatuses \cup {"absent"}
                   => ~ cancellation_requested[j]

QueueInv == TypeInv /\ LeaseFencing /\ WantedInv /\ PayloadLifetime

LEMMA InitQueueInv == Init => QueueInv
  <1> SUFFICES ASSUME Init PROVE QueueInv
    OBVIOUS
  <1>1. TypeInv
    BY InitTypeInv
  <1>2. LeaseFencing /\ WantedInv /\ PayloadLifetime
    BY DEF Init, LeaseFencing, WantedInv, PayloadLifetime
  <1> QED
    BY <1>1, <1>2 DEF QueueInv

\* Reclaiming a job changes its owner, so the worker that lost it is fenced off.
LEMMA FencingStep ==
  ASSUME TypeInv, LeaseFencing, [Next]_vars
  PROVE  LeaseFencing'
  <1> USE DEF TypeInv, TypeOK, BusyHasJob, LeaseFencing, HoldsLease, Busy
  <1>1. ASSUME NEW j \in Jobs, Enqueue(j) \/ CancelJob(j)
        PROVE  LeaseFencing'
    <2>1. UNCHANGED <<phase, job, attempt, attempt_count, lease_owner>>
      BY <1>1 DEF Enqueue, CancelJob, local
    <2>2. \A k \in Jobs : status'[k] = "running" => status[k] = "running"
      BY <1>1 DEF Enqueue, CancelJob
    <2> QED
      BY <2>1, <2>2
  <1>2. ASSUME NEW w \in Workers, ReapExhaustedLeases(w)
        PROVE  LeaseFencing'
    BY <1>2 DEF ReapExhaustedLeases
  <1>3. ASSUME NEW w \in Workers, NEW j \in Jobs, ClaimStep(w, j)
        PROVE  LeaseFencing'
    <2>1. CASE Claim(w, j)
      BY <1>3, <2>1 DEF ClaimStep, Claim, NextAttempt
    <2>2. CASE ClaimCancelled(w, j)
      BY <1>3, <2>2 DEF ClaimStep, ClaimCancelled, Idle
    <2> QED
      BY <1>3, <2>1, <2>2 DEF ClaimStep
  <1>4. ASSUME NEW w \in Workers, EndStep(w)
        PROVE  LeaseFencing'
    BY <1>4, NullAssumption DEF EndStep, Ends, NoNewClaim
  <1>5. CASE QuietStep
    BY <1>5 DEF QuietStep, watched, NoNewClaim
  <1> QED
    BY <1>1, <1>2, <1>3, <1>4, <1>5, StepCases

LEMMA WantedStep ==
  ASSUME TypeInv, WantedInv, [Next]_vars
  PROVE  WantedInv'
  <1> USE DEF TypeInv, TypeOK, BusyHasJob, WantedInv, WaitingStatuses
  <1>1. ASSUME NEW j \in Jobs, Enqueue(j) \/ CancelJob(j)
        PROVE  WantedInv'
    BY <1>1 DEF Enqueue, CancelJob, Cancellable
  <1>2. ASSUME NEW w \in Workers, ReapExhaustedLeases(w)
        PROVE  WantedInv'
    BY <1>2 DEF ReapExhaustedLeases
  <1>3. ASSUME NEW w \in Workers, NEW j \in Jobs, ClaimStep(w, j)
        PROVE  WantedInv'
    BY <1>3 DEF ClaimStep, Claim, ClaimCancelled
  <1>4. ASSUME NEW w \in Workers, EndStep(w)
        PROVE  WantedInv'
    BY <1>4 DEF EndStep, Ends, Endings
  <1>5. CASE QuietStep
    BY <1>5 DEF QuietStep, watched
  <1> QED
    BY <1>1, <1>2, <1>3, <1>4, <1>5, StepCases

LEMMA PayloadStep ==
  ASSUME TypeInv, PayloadLifetime, [Next]_vars
  PROVE  PayloadLifetime'
  <1> USE DEF TypeInv, TypeOK, BusyHasJob, PayloadLifetime, Terminal,
              TERMINAL_STATUSES, WaitingStatuses
  <1>1. ASSUME NEW j \in Jobs, Enqueue(j) \/ CancelJob(j)
        PROVE  PayloadLifetime'
    <2> USE DEF Recorded
    <2>1. CASE Enqueue(j)
      BY <2>1 DEF Enqueue
    <2>2. CASE CancelJob(j)
      BY <2>2 DEF CancelJob, Cancellable
    <2> QED
      BY <1>1, <2>1, <2>2
  <1>2. ASSUME NEW w \in Workers, ReapExhaustedLeases(w)
        PROVE  PayloadLifetime'
    BY <1>2 DEF ReapExhaustedLeases, Exhausted, Recorded
  <1>3. ASSUME NEW w \in Workers, NEW j \in Jobs, ClaimStep(w, j)
        PROVE  PayloadLifetime'
    BY <1>3 DEF ClaimStep, Claim, ClaimCancelled, Candidate, Recorded
  <1>4. ASSUME NEW w \in Workers, EndStep(w)
        PROVE  PayloadLifetime'
    <2> DEFINE k == job[w]
    <2>1. PICK s \in Endings : Ends(w, s)
      BY <1>4 DEF EndStep
    <2>2. k \in Jobs /\ status[k] = "running"
      BY <1>4, <2>1 DEF EndStep, Ends, HoldsLease
    <2>3. /\ status' = [status EXCEPT ![k] = s]
          /\ payload' = [payload EXCEPT ![k] = @ /\ ~(Recorded(k) /\ s # "retry_wait")]
      BY <2>1 DEF Ends
    <2>4. s # "absent" /\ (s \in TERMINAL_STATUSES <=> s # "retry_wait")
      BY DEF Endings
    <2> HIDE DEF k
    <2>5. Recorded(k) => (payload'[k] <=> s = "retry_wait")
      BY <2>2, <2>3
    <2>6. ASSUME NEW i \in Jobs, i # k
          PROVE  status'[i] = status[i] /\ payload'[i] = payload[i]
      BY <2>2, <2>3, <2>6
    <2>7. Recorded(k) /\ status'[k] # "absent"
            => (payload'[k] <=> status'[k] \notin TERMINAL_STATUSES)
      BY <2>2, <2>3, <2>4, <2>5
    <2> QED
      BY <2>6, <2>7 DEF Recorded
  <1>5. CASE QuietStep
    BY <1>5 DEF QuietStep, watched, Recorded
  <1> QED
    BY <1>1, <1>2, <1>3, <1>4, <1>5, StepCases

LEMMA QueueInvStep == QueueInv /\ [Next]_vars => QueueInv'
  BY TypeInvStep, FencingStep, WantedStep, PayloadStep DEF QueueInv

LEMMA QueueInvariant == Spec => []QueueInv
  BY InitQueueInv, QueueInvStep, PTL DEF Spec

\* A completion or failure that the lease check lets through belongs to the
\* job's current attempt, however often the job was reclaimed.
THEOREM FencedByOwner == Spec => []LeaseFencing
  <1>1. QueueInv => LeaseFencing
    BY DEF QueueInv
  <1> QED
    BY <1>1, QueueInvariant, PTL

\* No cancelled work is ever waiting for another attempt.
THEOREM WaitingJobsAreWanted == Spec => []WaitingIsWanted
  <1>1. QueueInv => WaitingIsWanted
    BY DEF QueueInv, WantedInv, WaitingIsWanted
  <1> QED
    BY <1>1, QueueInvariant, PTL

\* A prompt is kept while an attempt may need it and removed once none can.
THEOREM PayloadsAreScrubbed == Spec => []PayloadLifetime
  <1>1. QueueInv => PayloadLifetime
    BY DEF QueueInv
  <1> QED
    BY <1>1, QueueInvariant, PTL

-----------------------------------------------------------------------------
(* The attempt history *)

Endpoints == Outcomes \ {"running"}

\* AttemptHistory row by row, and what makes it inductive: the attempt that is
\* running has no outcome yet, and no row is numbered beyond attempt_count.
JobHistory(j) ==
  /\ attempt_count[j] <= MaxAttempts[j]
  /\ \A n \in Nat : <<n, "running">> \in job_attempts[j] <=> n \in 1..attempt_count[j]
  /\ \A n \in Nat, o \in Outcomes :
       <<n, o>> \in job_attempts[j] => n \in 1..attempt_count[j]
  /\ \A n \in Nat, o, p \in Endpoints :
       <<n, o>> \in job_attempts[j] /\ <<n, p>> \in job_attempts[j] => o = p
  /\ status[j] = "running" =>
       /\ attempt_count[j] > 0
       /\ \A o \in Endpoints : <<attempt_count[j], o>> \notin job_attempts[j]
  /\ \A o \in {"succeeded", "dead_letter"} :
       status[j] = o <=> <<attempt_count[j], o>> \in job_attempts[j]
  /\ j \in job_dead_letters <=> status[j] = "dead_letter"

HistoryInv == \A j \in Jobs : JobHistory(j)

\* A job keeps its history while nothing happens to it, or while its status only
\* moves between two that no attempt row speaks of.
LEMMA HistoryKept ==
  ASSUME TypeInv, NEW j \in Jobs, JobHistory(j),
         attempt_count'[j] = attempt_count[j], job_attempts'[j] = job_attempts[j],
         j \in job_dead_letters' <=> j \in job_dead_letters,
         \/ status'[j] = status[j]
         \/ /\ status[j] \in {"absent", "queued", "retry_wait"}
            /\ status'[j] \in {"queued", "cancelled"}
  PROVE  JobHistory(j)'
  BY DEF JobHistory

\* The running attempt of a job gets its one outcome.
LEMMA HistoryEnded ==
  ASSUME TypeInv, NEW j \in Jobs, JobHistory(j), status[j] = "running",
         NEW s \in Endings,
         status'[j] = s, attempt_count'[j] = attempt_count[j],
         job_attempts'[j] = job_attempts[j]
           \cup {<<attempt_count[j], IF s = "retry_wait" THEN "retry" ELSE s>>},
         j \in job_dead_letters' <=> s = "dead_letter"
  PROVE  JobHistory(j)'
  <1> DEFINE event == IF s = "retry_wait" THEN "retry" ELSE s
  <1>1. event \in Endpoints /\ event # "running"
    BY DEF Endings, Endpoints, Outcomes, TERMINAL_STATUSES
  <1>2. \A o \in {"succeeded", "dead_letter"} : s = o <=> event = o
    BY DEF Endings
  <1>3. s # "running"
    BY DEF Endings
  <1>4. attempt_count[j] \in Nat
    BY DEF TypeInv, TypeOK
  <1> HIDE DEF event
  <1>5. job_attempts'[j] = job_attempts[j] \cup {<<attempt_count[j], event>>}
    BY DEF event
  <1>6. /\ {"succeeded", "dead_letter"} \subseteq Endpoints
        /\ Endpoints \subseteq Outcomes /\ "running" \notin Endpoints
    BY DEF Endpoints, Outcomes, TERMINAL_STATUSES
  <1>7. \A n \in Nat : <<n, "running">> \in job_attempts'[j]
                        <=> <<n, "running">> \in job_attempts[j]
    BY <1>1, <1>5
  <1>8. \A n \in Nat, o \in Endpoints :
          <<n, o>> \in job_attempts'[j]
            <=> <<n, o>> \in job_attempts[j] \/ (n = attempt_count[j] /\ o = event)
    BY <1>5
  <1>9. \A o \in Endpoints : <<attempt_count[j], o>> \in job_attempts'[j] <=> o = event
    BY <1>4, <1>8 DEF JobHistory
  <1>10. \A n \in Nat, o, p \in Endpoints :
           <<n, o>> \in job_attempts'[j] /\ <<n, p>> \in job_attempts'[j] => o = p
    BY <1>8, <1>9 DEF JobHistory
  <1>11. \A n \in Nat, o \in Outcomes :
           <<n, o>> \in job_attempts'[j] => n \in 1..attempt_count[j]
    BY <1>4, <1>5 DEF JobHistory
  <1>12. \A o \in {"succeeded", "dead_letter"} :
           status'[j] = o <=> <<attempt_count[j], o>> \in job_attempts'[j]
    BY <1>2, <1>6, <1>9
  <1> QED
    BY <1>3, <1>7, <1>10, <1>11, <1>12 DEF JobHistory

\* The next attempt starts.
LEMMA HistoryClaimed ==
  ASSUME TypeInv, NEW j \in Jobs, JobHistory(j),
         status[j] \in {"queued", "retry_wait", "running"},
         attempt_count[j] < MaxAttempts[j],
         status'[j] = "running", attempt_count'[j] = attempt_count[j] + 1,
         job_attempts'[j] = job_attempts[j] \cup {<<attempt_count[j] + 1, "running">>},
         job_dead_letters' = job_dead_letters
  PROVE  JobHistory(j)'
  <1> DEFINE n1 == attempt_count[j] + 1
  <1>1. attempt_count[j] \in Nat /\ MaxAttempts[j] \in Nat /\ n1 \in Nat
    BY MaxAttemptsAssumption DEF TypeInv, TypeOK
  <1>2. \A n \in Nat : <<n, "running">> \in job_attempts'[j]
                        <=> <<n, "running">> \in job_attempts[j] \/ n = n1
    OBVIOUS
  <1>3. \A n \in Nat, o \in Endpoints :
          <<n, o>> \in job_attempts'[j] <=> <<n, o>> \in job_attempts[j]
    BY DEF Endpoints
  <1>4. \A o \in Outcomes : <<n1, o>> \notin job_attempts[j]
    BY <1>1 DEF JobHistory
  <1>5. \A n \in Nat : n \in 1..n1 <=> n \in 1..attempt_count[j] \/ n = n1
    BY <1>1
  <1>6. \A n \in Nat : <<n, "running">> \in job_attempts'[j] <=> n \in 1..n1
    BY <1>2, <1>5 DEF JobHistory
  <1>7. \A n \in Nat, o \in Outcomes : <<n, o>> \in job_attempts'[j] => n \in 1..n1
    BY <1>1, <1>5 DEF JobHistory
  <1>8. \A o \in Endpoints : <<n1, o>> \notin job_attempts'[j]
    BY <1>1, <1>3, <1>4 DEF Endpoints
  <1>9. {"succeeded", "dead_letter"} \subseteq Endpoints
    BY DEF Endpoints, Outcomes, TERMINAL_STATUSES
  <1>10. j \notin job_dead_letters'
    BY DEF JobHistory
  <1>11. n1 <= MaxAttempts[j] /\ n1 > 0
    BY <1>1
  <1>12. \A n \in Nat, o, p \in Endpoints :
           <<n, o>> \in job_attempts'[j] /\ <<n, p>> \in job_attempts'[j] => o = p
    BY <1>3 DEF JobHistory
  <1> HIDE DEF n1
  <1>13. attempt_count'[j] = n1
    BY DEF n1
  <1> QED
    BY <1>6, <1>7, <1>8, <1>9, <1>10, <1>11, <1>12, <1>13 DEF JobHistory

LEMMA HistoryStep ==
  ASSUME QueueInv, HistoryInv, [Next]_vars
  PROVE  HistoryInv'
  <1> USE DEF QueueInv
  <1>1. TypeInv /\ \A j \in Jobs : JobHistory(j)
    BY DEF HistoryInv
  <1> SUFFICES ASSUME NEW k \in Jobs PROVE JobHistory(k)'
    BY DEF HistoryInv
  <1>2. ASSUME NEW j \in Jobs, Enqueue(j) \/ CancelJob(j)
        PROVE  JobHistory(k)'
    <2>1. UNCHANGED <<attempt_count, job_attempts, job_dead_letters>>
      BY <1>2 DEF Enqueue, CancelJob, history
    <2>2. \/ status'[k] = status[k]
          \/ /\ status[k] \in {"absent", "queued", "retry_wait"}
             /\ status'[k] \in {"queued", "cancelled"}
      BY <1>2 DEF Enqueue, CancelJob, WaitingStatuses, TypeInv, TypeOK
    <2> QED
      BY <1>1, <2>1, <2>2, HistoryKept
  <1>3. ASSUME NEW w \in Workers, ReapExhaustedLeases(w)
        PROVE  JobHistory(k)'
    <2>1. attempt_count'[k] = attempt_count[k]
      BY <1>3 DEF ReapExhaustedLeases
    <2>2. CASE k \in Exhausted
      <3>1. /\ status[k] = "running" /\ status'[k] = "dead_letter"
            /\ job_attempts'[k] = job_attempts[k] \cup {<<attempt_count[k], "dead_letter">>}
            /\ k \in job_dead_letters'
        BY <1>3, <2>2 DEF ReapExhaustedLeases, Exhausted
      <3>2. "dead_letter" \in Endings
        BY DEF Endings
      <3> QED
        BY <1>1, <2>1, <3>1, <3>2, HistoryEnded
    <2>3. CASE k \notin Exhausted
      <3>1. /\ status'[k] = status[k] /\ job_attempts'[k] = job_attempts[k]
            /\ k \in job_dead_letters' <=> k \in job_dead_letters
        BY <1>3, <2>3 DEF ReapExhaustedLeases, TypeInv, TypeOK
      <3> QED
        BY <1>1, <2>1, <3>1, HistoryKept
    <2> QED
      BY <2>2, <2>3
  <1>4. ASSUME NEW w \in Workers, NEW j \in Jobs, ClaimStep(w, j)
        PROVE  JobHistory(k)'
    <2>1. CASE k # j
      <3>1. /\ status'[k] = status[k] /\ attempt_count'[k] = attempt_count[k]
            /\ job_attempts'[k] = job_attempts[k]
            /\ job_dead_letters' = job_dead_letters
        BY <1>4, <2>1 DEF ClaimStep, Claim, ClaimCancelled, RecordEvent, TypeInv, TypeOK
      <3> QED
        BY <1>1, <3>1, HistoryKept
    <2>2. CASE k = j /\ Claim(w, j)
      <3>1. /\ status[k] \in {"queued", "retry_wait", "running"}
            /\ attempt_count[k] < MaxAttempts[k]
            /\ status'[k] = "running" /\ attempt_count'[k] = attempt_count[k] + 1
            /\ job_attempts'[k] = job_attempts[k] \cup {<<attempt_count[k] + 1, "running">>}
            /\ job_dead_letters' = job_dead_letters
        BY <1>4, <2>2 DEF ClaimStep, Claim, Candidate, RecordEvent, NextAttempt,
                          WaitingStatuses, TypeInv, TypeOK
      <3> QED
        BY <1>1, <3>1, HistoryClaimed
    <2>3. CASE k = j /\ ClaimCancelled(w, j)
      <3>1. status[k] = "running"
        BY <1>4, <2>3 DEF ClaimStep, ClaimCancelled, Candidate, WantedInv, WaitingStatuses
      <3>2. attempt_count[k] > 0 /\ k \notin job_dead_letters
        BY <1>1, <3>1 DEF JobHistory
      <3>3. /\ status'[k] = "cancelled" /\ attempt_count'[k] = attempt_count[k]
            /\ job_attempts'[k] = job_attempts[k] \cup {<<attempt_count[k], "cancelled">>}
            /\ job_dead_letters' = job_dead_letters
        BY <1>4, <2>3, <3>2 DEF ClaimStep, ClaimCancelled, RecordEvent, TypeInv, TypeOK
      <3>4. "cancelled" \in Endings
        BY DEF Endings
      <3> QED
        BY <1>1, <3>1, <3>2, <3>3, <3>4, HistoryEnded
    <2> QED
      BY <1>4, <2>1, <2>2, <2>3 DEF ClaimStep
  <1>5. ASSUME NEW w \in Workers, EndStep(w)
        PROVE  JobHistory(k)'
    <2>1. PICK s \in Endings : Ends(w, s)
      BY <1>5 DEF EndStep
    <2>2. /\ job[w] \in Jobs /\ status[job[w]] = "running"
          /\ attempt[w] = attempt_count[job[w]]
      BY <1>5, <2>1 DEF EndStep, Ends, HoldsLease, LeaseFencing, Busy, TypeInv, BusyHasJob
    <2>3. attempt_count'[k] = attempt_count[k]
      BY <2>1 DEF Ends
    <2>4. CASE k = job[w]
      <3>1. /\ status'[k] = s
            /\ job_attempts'[k] = job_attempts[k]
                 \cup {<<attempt_count[k], IF s = "retry_wait" THEN "retry" ELSE s>>}
        BY <2>1, <2>2, <2>4 DEF Ends, TypeInv, TypeOK
      <3>2. k \in job_dead_letters' <=> s = "dead_letter"
        BY <1>1, <2>1, <2>2, <2>4 DEF Ends, JobHistory
      <3> QED
        BY <1>1, <2>2, <2>3, <2>4, <3>1, <3>2, HistoryEnded
    <2>5. CASE k # job[w]
      <3>1. /\ status'[k] = status[k] /\ job_attempts'[k] = job_attempts[k]
            /\ k \in job_dead_letters' <=> k \in job_dead_letters
        BY <2>1, <2>2, <2>5 DEF Ends, TypeInv, TypeOK
      <3> QED
        BY <1>1, <2>3, <3>1, HistoryKept
    <2> QED
      BY <2>4, <2>5
  <1>6. CASE QuietStep
    BY <1>1, <1>6, HistoryKept DEF QuietStep, watched, history
  <1> QED
    BY <1>1, <1>2, <1>3, <1>4, <1>5, <1>6, StepCases

LEMMA InitHistoryInv == Init => HistoryInv
  <1> SUFFICES ASSUME Init, NEW j \in Jobs PROVE JobHistory(j)
    BY DEF HistoryInv
  <1> QED
    BY MaxAttemptsAssumption DEF Init, JobHistory

LEMMA HistoryInvariant == Spec => [](QueueInv /\ HistoryInv)
  <1>1. Init => QueueInv /\ HistoryInv
    BY InitQueueInv, InitHistoryInv
  <1>2. QueueInv /\ HistoryInv /\ [Next]_vars => (QueueInv /\ HistoryInv)'
    BY QueueInvStep, HistoryStep
  <1> QED
    BY <1>1, <1>2, PTL DEF Spec

\* What the row-by-row invariant says of the whole history.
LEMMA HistoryImplies ==
  ASSUME TypeInv, HistoryInv
  PROVE  AttemptHistory
  <1> SUFFICES ASSUME NEW j \in Jobs
               PROVE
    /\ attempt_count[j] <= MaxAttempts[j]
    /\ {n \in 1..MaxAttempts[j] : <<n, "running">> \in job_attempts[j]} = 1..attempt_count[j]
    /\ \A e, f \in job_attempts[j] :
         e[1] = f[1] /\ e[2] # "running" /\ f[2] # "running" => e = f
    /\ \A o \in {"succeeded", "dead_letter"} :
         status[j] = o <=> <<attempt_count[j], o>> \in job_attempts[j]
    /\ j \in job_dead_letters <=> status[j] = "dead_letter"
    BY DEF AttemptHistory
  <1>1. JobHistory(j)
    BY DEF HistoryInv
  <1>2. /\ attempt_count[j] \in Nat /\ MaxAttempts[j] \in Nat
        /\ job_attempts[j] \subseteq Nat \X Outcomes
    BY MaxAttemptsAssumption DEF TypeInv, TypeOK
  <1>3. {n \in 1..MaxAttempts[j] : <<n, "running">> \in job_attempts[j]} = 1..attempt_count[j]
    BY <1>1, <1>2 DEF JobHistory
  <1>4. ASSUME NEW e \in job_attempts[j], NEW f \in job_attempts[j],
               e[1] = f[1], e[2] # "running", f[2] # "running"
        PROVE  e = f
    <2>1. /\ e[1] \in Nat /\ e[2] \in Endpoints /\ e = <<e[1], e[2]>>
          /\ f[2] \in Endpoints /\ f = <<f[1], f[2]>>
      BY <1>2, <1>4 DEF Endpoints
    <2> QED
      BY <1>1, <1>4, <2>1 DEF JobHistory
  <1> QED
    BY <1>1, <1>3, <1>4 DEF JobHistory

\* The attempt rows of every job are complete, bounded, unambiguous and agree
\* with its status and with the dead letters.
THEOREM HistoryIsComplete == Spec => []AttemptHistory
  <1>1. QueueInv /\ HistoryInv => AttemptHistory
    BY HistoryImplies DEF QueueInv
  <1> QED
    BY <1>1, HistoryInvariant, PTL

\* No insert into job_attempts ever repeats a key, so the unique constraint on
\* the history never rolls a claim or a completion back.
THEOREM EventsNeverCollide == Spec => EventKeysAreFresh
  <1> DEFINE Fresh(k) ==
        /\ job_attempts[k] \subseteq job_attempts'[k]
        /\ (lease_owner[k] # NoWorker /\ lease_owner'[k] = NoWorker)
             \/ attempt_count'[k] # attempt_count[k]
           => job_attempts'[k] # job_attempts[k]
  <1>1. ASSUME QueueInv, HistoryInv, [Next]_vars, NEW k \in Jobs
        PROVE  Fresh(k)
    <2> USE DEF QueueInv
    <2>1. TypeInv /\ JobHistory(k) /\ attempt_count[k] \in Nat
      BY <1>1 DEF HistoryInv, TypeInv, TypeOK
    <2>2. ASSUME status[k] = "running"
          PROVE  \A o \in Endpoints : <<attempt_count[k], o>> \notin job_attempts[k]
      BY <2>1, <2>2 DEF JobHistory
    <2>3. ASSUME NEW j \in Jobs, Enqueue(j) \/ CancelJob(j)
          PROVE  Fresh(k)
      BY <2>3 DEF Enqueue, CancelJob, history
    <2>4. ASSUME NEW w \in Workers, ReapExhaustedLeases(w)
          PROVE  Fresh(k)
      <3>1. CASE k \in Exhausted
        <4>1. status[k] = "running" /\ "dead_letter" \in Endpoints
          BY <3>1 DEF Exhausted, Endpoints, Outcomes, TERMINAL_STATUSES
        <4>2. job_attempts'[k] = job_attempts[k] \cup {<<attempt_count[k], "dead_letter">>}
          BY <2>4, <3>1 DEF ReapExhaustedLeases
        <4> QED
          BY <2>2, <4>1, <4>2
      <3>2. CASE k \notin Exhausted
        BY <2>1, <2>4, <3>2 DEF ReapExhaustedLeases, TypeInv, TypeOK
      <3> QED
        BY <3>1, <3>2
    <2>5. ASSUME NEW w \in Workers, NEW j \in Jobs, ClaimStep(w, j)
          PROVE  Fresh(k)
      <3>1. CASE k # j
        BY <2>1, <2>5, <3>1 DEF ClaimStep, Claim, ClaimCancelled, RecordEvent, TypeInv, TypeOK
      <3>2. CASE k = j /\ Claim(w, j)
        <4>1. job_attempts'[k] = job_attempts[k] \cup {<<attempt_count[k] + 1, "running">>}
          BY <2>1, <3>2 DEF Claim, RecordEvent, NextAttempt, TypeInv, TypeOK
        <4>2. <<attempt_count[k] + 1, "running">> \notin job_attempts[k]
          BY <2>1 DEF JobHistory
        <4> QED
          BY <4>1, <4>2
      <3>3. CASE k = j /\ ClaimCancelled(w, j)
        <4>1. status[k] = "running"
          BY <1>1, <2>5, <3>3 DEF ClaimStep, ClaimCancelled, Candidate, WantedInv, WaitingStatuses
        <4>2. attempt_count[k] > 0 /\ "cancelled" \in Endpoints
          BY <2>1, <4>1 DEF JobHistory, Endpoints, Outcomes, TERMINAL_STATUSES
        <4>3. job_attempts'[k] = job_attempts[k] \cup {<<attempt_count[k], "cancelled">>}
          BY <2>1, <3>3, <4>2 DEF ClaimCancelled, RecordEvent, TypeInv, TypeOK
        <4> QED
          BY <2>2, <4>1, <4>2, <4>3
      <3> QED
        BY <2>5, <3>1, <3>2, <3>3 DEF ClaimStep
    <2>6. ASSUME NEW w \in Workers, EndStep(w)
          PROVE  Fresh(k)
      <3>1. PICK s \in Endings : Ends(w, s)
        BY <2>6 DEF EndStep
      <3>2. /\ job[w] \in Jobs /\ status[job[w]] = "running"
            /\ attempt[w] = attempt_count[job[w]]
        BY <1>1, <2>6, <3>1 DEF EndStep, Ends, HoldsLease, LeaseFencing, Busy, TypeInv, BusyHasJob
      <3>3. CASE k # job[w]
        BY <2>1, <3>1, <3>2, <3>3 DEF Ends, TypeInv, TypeOK
      <3>4. CASE k = job[w]
        <4> DEFINE event == IF s = "retry_wait" THEN "retry" ELSE s
        <4>1. event \in Endpoints
          BY DEF Endings, Endpoints, Outcomes, TERMINAL_STATUSES
        <4>2. job_attempts'[k] = job_attempts[k] \cup {<<attempt_count[k], event>>}
          BY <2>1, <3>1, <3>2, <3>4 DEF Ends, TypeInv, TypeOK
        <4> HIDE DEF event
        <4> QED
          BY <2>2, <3>2, <3>4, <4>1, <4>2
      <3> QED
        BY <3>3, <3>4
    <2>7. CASE QuietStep
      BY <2>7 DEF QuietStep, watched, history
    <2> QED
      BY <1>1, <2>3, <2>4, <2>5, <2>6, <2>7, StepCases
  <1>2. QueueInv /\ HistoryInv /\ [Next]_vars =>
          [\A j \in Jobs :
             /\ job_attempts[j] \subseteq job_attempts'[j]
             /\ (lease_owner[j] # NoWorker /\ lease_owner'[j] = NoWorker)
                  \/ attempt_count'[j] # attempt_count[j]
                => job_attempts'[j] # job_attempts[j]]_vars
    BY <1>1
  <1> QED
    BY <1>2, HistoryInvariant, PTL DEF Spec, EventKeysAreFresh

-----------------------------------------------------------------------------
(* Results *)

LEMMA RecordedStep ==
  ASSUME TypeInv, SuccessIsRecorded, [Next]_vars
  PROVE  SuccessIsRecorded'
  <1> USE DEF TypeInv, TypeOK, BusyHasJob, SuccessIsRecorded, Recorded
  <1>1. ASSUME NEW j \in Jobs, Enqueue(j) \/ CancelJob(j)
        PROVE  SuccessIsRecorded'
    BY <1>1 DEF Enqueue, CancelJob
  <1>2. ASSUME NEW w \in Workers, ReapExhaustedLeases(w)
        PROVE  SuccessIsRecorded'
    BY <1>2 DEF ReapExhaustedLeases
  <1>3. ASSUME NEW w \in Workers, NEW j \in Jobs, ClaimStep(w, j)
        PROVE  SuccessIsRecorded'
    BY <1>3 DEF ClaimStep, Claim, ClaimCancelled
  <1>4. ASSUME NEW w \in Workers, EndStep(w)
        PROVE  SuccessIsRecorded'
    <2>1. PICK s \in Endings : Ends(w, s)
      BY <1>4 DEF EndStep
    <2>2. \A j \in Jobs : j # job[w] => status'[j] = status[j]
      BY <2>1 DEF Ends
    <2>3. recorded \subseteq recorded'
      BY <1>4 DEF EndStep
    <2>4. status'[job[w]] = "succeeded" /\ Recorded(job[w]) => job[w] \in recorded'
      BY <1>4, <2>1 DEF EndStep, Ends, SuccessRecorded
    <2> QED
      BY <2>2, <2>3, <2>4
  <1>5. CASE QuietStep
    BY <1>5 DEF QuietStep, watched, RecordsByClaim
  <1> QED
    BY <1>1, <1>2, <1>3, <1>4, <1>5, StepCases

\* A succeeded collection or capture has its result, whichever attempt stored it.
THEOREM SuccessesAreRecorded == Spec => []SuccessIsRecorded
  <1>1. Init => SuccessIsRecorded
    BY DEF Init, SuccessIsRecorded
  <1>2. TypeInv /\ SuccessIsRecorded /\ [Next]_vars => SuccessIsRecorded'
    BY RecordedStep
  <1> QED
    BY <1>1, <1>2, InitTypeInv, TypeInvStep, PTL DEF Spec

-----------------------------------------------------------------------------
(* What a caller has seen stays true *)

LEMMA ResultsStay ==
  ASSUME TypeInv, [Next]_vars
  PROVE  recorded \subseteq recorded'
  BY StepCases DEF Enqueue, CancelJob, ReapExhaustedLeases, ClaimStep, EndStep, QuietStep,
                   RecordsByClaim

\* A step touches no job that has ended, and takes a withdrawn one to its end only.
LEMMA PromisesStep ==
  ASSUME TypeInv, WantedInv, [Next]_vars, NEW j \in Jobs
  PROVE  /\ Terminal(j) => status'[j] = status[j] /\ attempt_count'[j] = attempt_count[j]
         /\ cancellation_requested[j] =>
              /\ cancellation_requested'[j]
              /\ attempt_count'[j] = attempt_count[j]
              /\ status'[j] \in {status[j], "cancelled", "dead_letter"}
  <1> USE DEF TypeInv, TypeOK, Terminal, TERMINAL_STATUSES, WaitingStatuses
  <1>1. ASSUME NEW k \in Jobs, Enqueue(k)
        PROVE  /\ status[j] # "absent" => status'[j] = status[j]
               /\ UNCHANGED <<attempt_count, cancellation_requested>>
    BY <1>1 DEF Enqueue
  <1>2. ASSUME NEW k \in Jobs, CancelJob(k)
        PROVE  /\ status'[j] = status[j] \/ status[j] \in WaitingStatuses
               /\ cancellation_requested[j] => cancellation_requested'[j]
               /\ UNCHANGED attempt_count
    BY <1>2 DEF CancelJob
  <1>3. ASSUME NEW w \in Workers, ReapExhaustedLeases(w)
        PROVE  /\ \/ status'[j] = status[j]
                  \/ status[j] = "running" /\ status'[j] = "dead_letter"
               /\ UNCHANGED <<attempt_count, cancellation_requested>>
    <2>1. j \in Exhausted => status[j] = "running"
      BY DEF Exhausted
    <2> QED
      BY <1>3, <2>1 DEF ReapExhaustedLeases
  <1>4. ASSUME NEW w \in Workers, NEW k \in Jobs, ClaimStep(w, k)
        PROVE  /\ \/ status'[j] = status[j] /\ attempt_count'[j] = attempt_count[j]
                  \/ status[j] \in WaitingStatuses \cup {"running"} /\ ~ cancellation_requested[j]
                  \/ /\ status[j] \in WaitingStatuses \cup {"running"}
                     /\ status'[j] = "cancelled" /\ attempt_count'[j] = attempt_count[j]
               /\ UNCHANGED cancellation_requested
    <2>1. status[k] \in WaitingStatuses \cup {"running"}
      BY <1>4 DEF ClaimStep, Candidate
    <2>2. CASE j = k
      BY <1>4, <2>1, <2>2 DEF ClaimStep, Claim, ClaimCancelled
    <2>3. CASE j # k
      BY <1>4, <2>3 DEF ClaimStep, Claim, ClaimCancelled
    <2> QED
      BY <2>2, <2>3
  <1>5. ASSUME NEW w \in Workers, EndStep(w)
        PROVE  /\ \/ status'[j] = status[j]
                  \/ /\ status[j] = "running"
                     /\ cancellation_requested[j] => status'[j] \in {"cancelled", "dead_letter"}
               /\ UNCHANGED <<attempt_count, cancellation_requested>>
    BY <1>5 DEF EndStep, Ends, HoldsLease, Endings
  <1>6. CASE QuietStep
    BY <1>6 DEF QuietStep, watched
  <1>7. cancellation_requested[j] => status[j] \notin WaitingStatuses \cup {"absent"}
    BY DEF WantedInv
  <1> QED
    BY <1>1, <1>2, <1>3, <1>4, <1>5, <1>6, <1>7, StepCases

\* No job that has ended is touched again and no result leaves the record, whatever
\* late answers, reapers and cancellations come after.
THEOREM EndsAreFinal == Spec => EndIsFinal
  <1>1. QueueInv /\ [Next]_vars =>
          [/\ \A j \in Jobs : Terminal(j) =>
                status'[j] = status[j] /\ attempt_count'[j] = attempt_count[j]
           /\ recorded \subseteq recorded']_vars
    BY ResultsStay, PromisesStep DEF QueueInv
  <1> QED
    BY <1>1, QueueInvariant, PTL DEF Spec, EndIsFinal

\* Once a cancellation is recorded no attempt begins and none succeeds.
THEOREM CancellationsAreHeeded == Spec => CancellationIsHeeded
  <1>1. QueueInv /\ [Next]_vars =>
          [\A j \in Jobs : cancellation_requested[j] =>
             /\ cancellation_requested'[j]
             /\ attempt_count'[j] = attempt_count[j]
             /\ status'[j] \in {status[j], "cancelled", "dead_letter"}]_vars
    BY PromisesStep DEF QueueInv
  <1> QED
    BY <1>1, QueueInvariant, PTL DEF Spec, CancellationIsHeeded
=============================================================================
