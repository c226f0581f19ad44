---------------------------- MODULE JobLifecycle ----------------------------
(***************************************************************************)
(* What the durable queue promises about one job each, without workers,    *)
(* leases, locks, histories or crashes: the lifecycle a caller of the jobs *)
(* API may rely on, for the jobs of the CONSTANT Jobs.                     *)
(***************************************************************************)
EXTENDS Integers

CONSTANTS
  Jobs,
  MaxAttempts  \* [Jobs -> Nat \ {0}]

VARIABLES
  state,      \* "absent", "pending", "active" or one of Settled
  attempts,   \* attempts started so far
  withdrawn,  \* the caller asked for cancellation and was heard
  results     \* jobs whose result is on record, once and for good

lifecycle == <<state, attempts, withdrawn, results>>

Settled == {"succeeded", "dead_letter", "cancelled"}

Start ==
  /\ state = [j \in Jobs |-> "absent"]
  /\ attempts = [j \in Jobs |-> 0]
  /\ withdrawn = [j \in Jobs |-> FALSE]
  /\ results = {}

Submit(j) ==
  /\ state[j] = "absent"
  /\ state' = [state EXCEPT ![j] = "pending"]
  /\ UNCHANGED <<attempts, withdrawn, results>>

\* A first, a repeated or a taken-over attempt; never of withdrawn work.
Begin(j) ==
  /\ state[j] \in {"pending", "active"}
  /\ ~ withdrawn[j]
  /\ attempts[j] < MaxAttempts[j]
  /\ state' = [state EXCEPT ![j] = "active"]
  /\ attempts' = [attempts EXCEPT ![j] = @ + 1]
  /\ UNCHANGED <<withdrawn, results>>

\* A failed attempt is repeated only if it was not the last and nobody withdrew.
Postpone(j) ==
  /\ state[j] = "active"
  /\ ~ withdrawn[j]
  /\ attempts[j] < MaxAttempts[j]
  /\ state' = [state EXCEPT ![j] = "pending"]
  /\ UNCHANGED <<attempts, withdrawn, results>>

\* Pending work is cancelled at once, active work is marked.
Withdraw(j) ==
  /\ state[j] \in {"pending", "active"}
  /\ withdrawn' = [withdrawn EXCEPT ![j] = TRUE]
  /\ state' = [state EXCEPT ![j] = IF @ = "pending" THEN "cancelled" ELSE @]
  /\ UNCHANGED <<attempts, results>>

\* An attempt ends the job.  Withdrawn work never succeeds and is dead-lettered
\* only when its last attempt was abandoned.
Settle(j, outcome) ==
  /\ state[j] = "active"
  /\ outcome = "cancelled" <=> withdrawn[j] /\ outcome # "dead_letter"
  /\ withdrawn[j] /\ outcome = "dead_letter" => attempts[j] = MaxAttempts[j]
  /\ state' = [state EXCEPT ![j] = outcome]
  /\ UNCHANGED <<attempts, withdrawn>>

\* Abandoned last attempts are dead-lettered together.
Abandon(lost) ==
  /\ \A j \in lost : state[j] = "active" /\ attempts[j] = MaxAttempts[j]
  /\ state' = [j \in Jobs |-> IF j \in lost THEN "dead_letter" ELSE state[j]]
  /\ UNCHANGED <<attempts, withdrawn, results>>

\* A result is put on record once, by the attempt that ends the job or by one
\* that was taken over in the meantime.
Record(j) ==
  /\ j \notin results
  /\ attempts[j] > 0
  /\ results' = results \cup {j}

Step(j) ==
  \/ Submit(j) \/ Begin(j) \/ Postpone(j) \/ Withdraw(j)
  \/ \E outcome \in Settled :
       Settle(j, outcome) /\ (Record(j) \/ UNCHANGED results)
  \/ Record(j) /\ UNCHANGED <<state, attempts, withdrawn>>

LifecycleNext == (\E j \in Jobs : Step(j)) \/ (\E lost \in SUBSET Jobs : Abandon(lost))

LifecycleSpec == Start /\ [][LifecycleNext]_lifecycle
=============================================================================
