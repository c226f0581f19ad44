------------------------- MODULE JobQueueRefinement -------------------------
(***************************************************************************)
(* JobQueue implements JobLifecycle, for any jobs, workers and limits.     *)
(***************************************************************************)
EXTENDS JobQueue_proofs

\* The attempt a worker is busy with has been counted.
StartedInv == \A w \in Workers : Busy(w) => attempt_count[job[w]] > 0

LEMMA StartedStep ==
  ASSUME TypeInv, StartedInv, [Next]_vars
  PROVE  StartedInv'
  <1> USE DEF TypeInv, TypeOK, BusyHasJob, StartedInv, Busy
  <1>1. ASSUME NEW j \in Jobs, Enqueue(j) \/ CancelJob(j)
        PROVE  StartedInv'
    BY <1>1 DEF Enqueue, CancelJob, local
  <1>2. ASSUME NEW w \in Workers, ReapExhaustedLeases(w)
        PROVE  StartedInv'
    BY <1>2 DEF ReapExhaustedLeases
  <1>3. ASSUME NEW w \in Workers, NEW j \in Jobs, ClaimStep(w, j)
        PROVE  StartedInv'
    <2>1. CASE Claim(w, j)
      BY <1>3, <2>1 DEF ClaimStep, Claim, NextAttempt
    <2>2. CASE ClaimCancelled(w, j)
      BY <1>3, <2>2 DEF ClaimStep, ClaimCancelled, Idle
    <2> QED
      BY <1>3, <2>1, <2>2 DEF ClaimStep
  <1>4. ASSUME NEW w \in Workers, EndStep(w)
        PROVE  StartedInv'
    BY <1>4 DEF EndStep, Ends, NoNewClaim
  <1>5. CASE QuietStep
    BY <1>5 DEF QuietStep, watched, NoNewClaim
  <1> QED
    BY <1>1, <1>2, <1>3, <1>4, <1>5, StepCases

-----------------------------------------------------------------------------
(* The refinement mapping *)

LEMMA StateOf ==
  /\ LifecycleState("queued") = "pending" /\ LifecycleState("retry_wait") = "pending"
  /\ LifecycleState("running") = "active" /\ LifecycleState("absent") = "absent"
  /\ \A s \in TERMINAL_STATUSES : LifecycleState(s) = s
  BY DEF LifecycleState, WaitingStatuses, TERMINAL_STATUSES

LEMMA InitRefines == Init => Lifecycle!Start
  BY StateOf DEF Init, Lifecycle!Start

LEMMA EnqueueRefines ==
  ASSUME TypeInv, NEW j \in Jobs, Enqueue(j)
  PROVE  Lifecycle!Submit(j)
  BY StateOf DEF Enqueue, Lifecycle!Submit, TypeInv, TypeOK

LEMMA CancelRefines ==
  ASSUME TypeInv, NEW j \in Jobs, CancelJob(j)
  PROVE  Lifecycle!Withdraw(j) \/ UNCHANGED Lifecycle!lifecycle
  <1> USE DEF TypeInv, TypeOK
  <1>1. UNCHANGED <<attempt_count, recorded>>
    BY DEF CancelJob
  <1>2. CASE CancelColumns(j) \subseteq ApiUpdateGrant
    <2>1. /\ cancellation_requested' = [cancellation_requested EXCEPT ![j] = TRUE]
          /\ status' = [status EXCEPT ![j] =
                          IF @ \in WaitingStatuses THEN "cancelled" ELSE @]
      BY <1>2 DEF CancelJob
    <2>2. status[j] \in WaitingStatuses \cup {"running"}
      BY DEF CancelJob, Cancellable
    <2>3. /\ LifecycleState(status[j]) \in {"pending", "active"}
          /\ LifecycleState(status'[j])
               = IF LifecycleState(status[j]) = "pending" THEN "cancelled"
                                                         ELSE LifecycleState(status[j])
      BY <2>1, <2>2, StateOf DEF WaitingStatuses, TERMINAL_STATUSES
    <2> QED
      BY <1>1, <2>1, <2>3 DEF Lifecycle!Withdraw
  <1>3. CASE ~ (CancelColumns(j) \subseteq ApiUpdateGrant)
    BY <1>1, <1>3 DEF CancelJob, Lifecycle!lifecycle
  <1> QED
    BY <1>2, <1>3

LEMMA ReapRefines ==
  ASSUME TypeInv, HistoryInv, NEW w \in Workers, ReapExhaustedLeases(w)
  PROVE  Lifecycle!Abandon(Exhausted)
  <1> USE DEF TypeInv, TypeOK
  <1>1. ASSUME NEW j \in Exhausted
        PROVE  j \in Jobs /\ status[j] = "running" /\ attempt_count[j] = MaxAttempts[j]
    <2>1. j \in Jobs /\ status[j] = "running" /\ attempt_count[j] >= MaxAttempts[j]
      BY DEF Exhausted
    <2>2. attempt_count[j] <= MaxAttempts[j]
      BY <2>1 DEF HistoryInv, JobHistory
    <2>3. MaxAttempts[j] \in Nat /\ attempt_count[j] \in Nat
      BY <2>1, MaxAttemptsAssumption
    <2> QED
      BY <2>1, <2>2, <2>3
  <1>2. \A j \in Jobs :
          LifecycleState(status'[j])
            = IF j \in Exhausted THEN "dead_letter" ELSE LifecycleState(status[j])
    BY StateOf DEF ReapExhaustedLeases, TERMINAL_STATUSES
  <1> QED
    BY <1>1, <1>2, StateOf DEF ReapExhaustedLeases, Lifecycle!Abandon

\* A claim begins an attempt; the claim of withdrawn work can only be that of a
\* running job, as waiting ones are wanted, and settles it.
LEMMA ClaimRefines ==
  ASSUME TypeInv, WantedInv, NEW w \in Workers, NEW j \in Jobs, ClaimStep(w, j)
  PROVE  \/ Lifecycle!Begin(j)
         \/ Lifecycle!Settle(j, "cancelled") /\ UNCHANGED recorded
  <1> USE DEF TypeInv, TypeOK
  <1>1. /\ attempt_count[j] < MaxAttempts[j]
        /\ status[j] \in WaitingStatuses \cup {"running"}
        /\ UNCHANGED <<cancellation_requested, recorded>>
    BY DEF ClaimStep, Candidate
  <1>2. LifecycleState(status[j]) \in {"pending", "active"}
    BY <1>1, StateOf DEF WaitingStatuses
  <1>3. CASE Claim(w, j)
    BY <1>1, <1>2, <1>3, StateOf DEF Claim, NextAttempt, Lifecycle!Begin
  <1>4. CASE ClaimCancelled(w, j)
    <2>1. status[j] = "running" /\ cancellation_requested[j]
      BY <1>1, <1>4 DEF ClaimCancelled, WantedInv
    <2>2. status' = [status EXCEPT ![j] = "cancelled"] /\ UNCHANGED attempt_count
      BY <1>4 DEF ClaimCancelled
    <2> QED
      BY <1>1, <2>1, <2>2, StateOf DEF Lifecycle!Settle, TERMINAL_STATUSES
  <1> QED
    BY <1>3, <1>4 DEF ClaimStep

\* An attempt that ends holds its lease, so it is the current one.
LEMMA EndRefines ==
  ASSUME TypeInv, StartedInv, LeaseFencing, NEW w \in Workers, EndStep(w)
  PROVE  Lifecycle!Step(job[w])
  <1> USE DEF TypeInv, TypeOK
  <1> DEFINE j == job[w]
  <1>1. PICK s \in Endings :
          /\ Ends(w, s)
          /\ \/ recorded' = recorded
             \/ s # "retry_wait" /\ recorded' = recorded \cup {j}
    BY DEF EndStep
  <1>2. /\ j \in Jobs /\ attempt_count[j] > 0 /\ Busy(w)
        /\ status[j] = "running" /\ attempt[w] = attempt_count[j]
    BY <1>1 DEF EndStep, Ends, HoldsLease, BusyHasJob, StartedInv, LeaseFencing, Busy
  <1>3. /\ s = "cancelled" <=> cancellation_requested[j]
        /\ s = "retry_wait" => attempt_count[j] < MaxAttempts[j]
        /\ status' = [status EXCEPT ![j] = s]
        /\ UNCHANGED <<attempt_count, cancellation_requested>>
    BY <1>1, <1>2 DEF Ends
  <1> HIDE DEF j
  <1>4. CASE s = "retry_wait"
    <2>1. recorded' = recorded /\ ~ cancellation_requested[j]
      BY <1>1, <1>3, <1>4
    <2>2. Lifecycle!Postpone(j)
      BY <1>2, <1>3, <1>4, <2>1, StateOf DEF Lifecycle!Postpone
    <2> QED
      BY <2>2 DEF Lifecycle!Step, j
  <1>5. CASE s # "retry_wait"
    <2>1. s \in Lifecycle!Settled /\ s \in TERMINAL_STATUSES
      BY <1>5 DEF Endings, Lifecycle!Settled, TERMINAL_STATUSES
    <2>2. Lifecycle!Settle(j, s)
      BY <1>2, <1>3, <2>1, StateOf DEF Lifecycle!Settle
    <2>3. Lifecycle!Record(j) \/ UNCHANGED recorded
      BY <1>1, <1>2 DEF Lifecycle!Record, j
    <2> QED
      BY <2>1, <2>2, <2>3 DEF Lifecycle!Step, j
  <1> QED
    BY <1>4, <1>5

LEMMA QuietRefines ==
  ASSUME TypeInv, StartedInv, QuietStep
  PROVE  (\E j \in Jobs : Lifecycle!Step(j)) \/ UNCHANGED Lifecycle!lifecycle
  <1>1. UNCHANGED <<status, attempt_count, cancellation_requested>>
    BY DEF QuietStep, watched
  <1>2. CASE recorded' = recorded
    BY <1>1, <1>2 DEF Lifecycle!lifecycle
  <1>3. CASE recorded' # recorded
    <2>1. PICK w \in Workers : Busy(w) /\ recorded' = recorded \cup {job[w]}
      BY <1>3 DEF QuietStep, RecordsByClaim
    <2>2. job[w] \in Jobs /\ attempt_count[job[w]] > 0 /\ job[w] \notin recorded
      BY <1>3, <2>1 DEF TypeInv, BusyHasJob, StartedInv
    <2>3. Lifecycle!Record(job[w])
      BY <2>1, <2>2 DEF Lifecycle!Record
    <2> QED
      BY <1>1, <2>2, <2>3 DEF Lifecycle!Step
  <1> QED
    BY <1>2, <1>3

LEMMA StepRefines ==
  ASSUME QueueInv, HistoryInv, StartedInv, [Next]_vars
  PROVE  [Lifecycle!LifecycleNext]_(Lifecycle!lifecycle)
  <1> USE DEF QueueInv
  <1>1. ASSUME NEW j \in Jobs, Enqueue(j) \/ CancelJob(j)
        PROVE  [Lifecycle!LifecycleNext]_(Lifecycle!lifecycle)
    BY <1>1, EnqueueRefines, CancelRefines DEF Lifecycle!LifecycleNext, Lifecycle!Step
  <1>2. ASSUME NEW w \in Workers, ReapExhaustedLeases(w)
        PROVE  Lifecycle!LifecycleNext
    <2>1. Exhausted \in SUBSET Jobs
      BY DEF Exhausted
    <2> QED
      BY <1>2, <2>1, ReapRefines DEF Lifecycle!LifecycleNext
  <1>3. ASSUME NEW w \in Workers, NEW j \in Jobs, ClaimStep(w, j)
        PROVE  Lifecycle!LifecycleNext
    BY <1>3, ClaimRefines DEF Lifecycle!LifecycleNext, Lifecycle!Step, Lifecycle!Settled
  <1>4. ASSUME NEW w \in Workers, EndStep(w)
        PROVE  Lifecycle!LifecycleNext
    <2>1. job[w] \in Jobs
      BY <1>4 DEF EndStep, TypeInv, BusyHasJob
    <2> QED
      BY <1>4, <2>1, EndRefines DEF Lifecycle!LifecycleNext
  <1>5. CASE QuietStep
    BY <1>5, QuietRefines DEF Lifecycle!LifecycleNext
  <1> QED
    BY <1>1, <1>2, <1>3, <1>4, <1>5, StepCases

\* The queue keeps the lifecycle it promises for every job: every transaction
\* is a step of the lifecycle or invisible to it.
THEOREM QueueImplementsLifecycle == Spec => ImplementsLifecycle
  <1>1. Init => StartedInv
    BY DEF Init, StartedInv, Busy
  <1>2. QueueInv /\ StartedInv /\ [Next]_vars => StartedInv'
    BY StartedStep DEF QueueInv
  <1>3. QueueInv /\ HistoryInv /\ StartedInv /\ [Next]_vars
          => [Lifecycle!LifecycleNext]_(Lifecycle!lifecycle)
    BY StepRefines
  <1> QED
    BY <1>1, <1>2, <1>3, InitRefines, HistoryInvariant, PTL
       DEF Spec, ImplementsLifecycle, Lifecycle!LifecycleSpec
=============================================================================
