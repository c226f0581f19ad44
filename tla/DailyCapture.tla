---------------------------- MODULE DailyCapture ----------------------------
(***************************************************************************)
(* Daily capture of authoritative sources: the SQL function                *)
(* schedule_daily_source_snapshots (migration 0011), which every worker    *)
(* replica calls once a minute, next to the API requests that change a     *)
(* source's policy or ask for a capture by hand (routes.py).               *)
(*                                                                         *)
(* A pass fixes its UTC day, takes an advisory lock or gives up, selects   *)
(* and inserts from the rows committed at that moment, and commits.  What  *)
(* becomes of a queued capture is JobQueue's business: here it is active   *)
(* until it settles, whatever the outcome.                                 *)
(***************************************************************************)
EXTENDS Integers, FiniteSets, FiniteSetsExt

CONSTANTS
  Sources,   \* identities of rows of authoritative_sources
  Tenants,
  Tenant,    \* [Sources -> Tenants]
  Age,       \* [Sources -> Nat]: their order by created_at and id
  Replicas,  \* worker processes
  Quota,     \* scheduled captures per tenant and day: 30
  Batch,     \* insertions per pass: 100
  LastDay    \* bound: the last UTC day considered

ASSUME SourcesAssumption == IsFiniteSet(Sources)
ASSUME TenantAssumption == Tenant \in [Sources -> Tenants] /\ Age \in [Sources -> Nat]
ASSUME OrderAssumption ==
  \A s, u \in Sources : Tenant[s] = Tenant[u] /\ Age[s] = Age[u] => s = u
ASSUME LimitsAssumption == Quota \in Nat /\ Batch \in Nat \ {0} /\ LastDay \in Nat \ {0}

Days == 1..LastDay

\* The trigger of a capture: the day it is scheduled for, or a request.
Manual == 0
Triggers == {Manual} \cup Days

VARIABLES
  policy,    \* authoritative_sources.snapshot_policy
  verified,  \* the verified sources, whose projects are verified as well
  capture,   \* [Sources \X Triggers -> ...]: the committed source_snapshot jobs
  today,     \* the UTC day on the clock
  lock,      \* the scheduler's advisory lock is held
  phase,     \* where each replica is in its pass
  day,       \* v_day of that pass
  batch      \* the sources it has inserted captures for, not yet committed

vars == <<policy, verified, capture, today, lock, phase, day, batch>>

\* "manual" stands for 'on_collection' too: both allow captures by hand only.
Policies == {"disabled", "manual", "daily"}

Init ==
  /\ policy = [s \in Sources |-> "manual"]
  /\ verified = {}
  /\ capture = [k \in Sources \X Triggers |-> "absent"]
  /\ today = 1
  /\ lock = FALSE
  /\ phase = [r \in Replicas |-> "idle"]
  /\ day = [r \in Replicas |-> 0]
  /\ batch = [r \in Replicas |-> {}]

Active(s) == \E k \in Triggers : capture[<<s, k>>] = "active"

Scheduled(t, d) == {s \in Sources : Tenant[s] = t /\ capture[<<s, d>>] # "absent"}

-----------------------------------------------------------------------------
(* The rest of the system *)

\* update_source_snapshot_policy
UpdatePolicy(s) ==
  /\ \E p \in Policies : policy' = [policy EXCEPT ![s] = p]
  /\ UNCHANGED <<verified, capture, today, lock, phase, day, batch>>

\* A project is verified, and its source with it (DomainTrust).
Verify(s) ==
  /\ verified' = verified \cup {s}
  /\ UNCHANGED <<policy, capture, today, lock, phase, day, batch>>

\* enqueue_source_snapshot_job, which does not look for an active capture: one
\* trigger stands for all the captures by hand of a source.
CaptureNow(s) ==
  /\ s \in verified /\ policy[s] # "disabled"
  /\ capture[<<s, Manual>>] # "active"
  /\ capture' = [capture EXCEPT ![<<s, Manual>>] = "active"]
  /\ UNCHANGED <<policy, verified, today, lock, phase, day, batch>>

\* A job reaches a terminal status.
Settle(s, k) ==
  /\ capture[<<s, k>>] = "active"
  /\ capture' = [capture EXCEPT ![<<s, k>>] = "settled"]
  /\ UNCHANGED <<policy, verified, today, lock, phase, day, batch>>

Midnight ==
  /\ today < LastDay
  /\ today' = today + 1
  /\ UNCHANGED <<policy, verified, capture, lock, phase, day, batch>>

-----------------------------------------------------------------------------
(* The scheduler *)

\* The rows of the CTE `eligible`.  Its condition on the tenant's status is left
\* out: every tenant is active.
Eligible(d) ==
  {s \in verified : policy[s] = "daily" /\ capture[<<s, d>>] = "absent" /\ ~ Active(s)}

\* tenant_position: the place among the tenant's eligible sources.
Position(s, d) ==
  Cardinality({u \in Eligible(d) : Tenant[u] = Tenant[s] /\ Age[u] <= Age[s]})

\* Variant: the quota of a pass, not of the day.
RemainingPerPass(t, d) == Quota

Remaining(t, d) == Quota - Cardinality(Scheduled(t, d))

Admitted(d) == {s \in Eligible(d) : Position(s, d) <= Remaining(Tenant[s], d)}

\* Variant: the limit is applied before the sources are filtered.
LimitedFirst(d) ==
  {{s \in Admitted(d) : Cardinality({u \in Sources : Age[u] <= Age[s]}) <= Batch}}

\* ORDER BY tenant_position, ... LIMIT p_batch_limit: the tenants in turn.  The
\* order of tenants in one position is left open.
Selections(d) ==
  {S \in SUBSET Admitted(d) :
     /\ Cardinality(S) = Min({Batch, Cardinality(Admitted(d))})
     /\ \A s \in S, u \in Admitted(d) \ S : Position(s, d) <= Position(u, d)}

\* DECLARE v_day: the day is read before the lock is tried.
BeginPass(r) ==
  /\ phase[r] = "idle"
  /\ phase' = [phase EXCEPT ![r] = "declared"]
  /\ day' = [day EXCEPT ![r] = today]
  /\ UNCHANGED <<policy, verified, capture, today, lock, batch>>

EndPass(r) ==
  /\ phase' = [phase EXCEPT ![r] = "idle"]
  /\ day' = [day EXCEPT ![r] = 0]
  /\ batch' = [batch EXCEPT ![r] = {}]

\* pg_try_advisory_xact_lock fails: the pass returns 0.
GiveUp(r) ==
  /\ phase[r] = "declared" /\ lock
  /\ EndPass(r)
  /\ UNCHANGED <<policy, verified, capture, today, lock>>

\* Variant: replicas do not exclude each other.
Unserialized == UNCHANGED lock

Serialized == ~ lock /\ lock' = TRUE

\* The insertion, invisible to the others until it commits.
InsertBatch(r) ==
  /\ phase[r] = "declared"
  /\ Serialized
  /\ phase' = [phase EXCEPT ![r] = "inserted"]
  /\ \E S \in Selections(day[r]) : batch' = [batch EXCEPT ![r] = S]
  /\ UNCHANGED <<policy, verified, capture, today, day>>

\* ON CONFLICT DO NOTHING: a key that exists already keeps its row.
CommitBatch(r) ==
  /\ phase[r] = "inserted"
  /\ capture' = [k \in Sources \X Triggers |->
       IF k[1] \in batch[r] /\ k[2] = day[r] /\ capture[k] = "absent"
       THEN "active" ELSE capture[k]]
  /\ lock' = FALSE
  /\ EndPass(r)
  /\ UNCHANGED <<policy, verified, today>>

\* A lost connection or a crash rolls the pass back and frees the lock.
AbortPass(r) ==
  /\ phase[r] # "idle"
  /\ lock' = (lock /\ phase[r] # "inserted")
  /\ EndPass(r)
  /\ UNCHANGED <<policy, verified, capture, today>>

Pass(r) == BeginPass(r) \/ GiveUp(r) \/ InsertBatch(r) \/ CommitBatch(r)

Next ==
  \/ \E s \in Sources : UpdatePolicy(s) \/ Verify(s) \/ CaptureNow(s)
  \/ \E s \in Sources, k \in Triggers : Settle(s, k)
  \/ Midnight
  \/ \E r \in Replicas : Pass(r) \/ AbortPass(r)

\* Workers poll every minute, and not every pass of a replica that could take
\* the lock, insert or commit is lost on the way.
Fairness ==
  \A r \in Replicas :
    /\ WF_vars(BeginPass(r) \/ GiveUp(r))
    /\ SF_vars(InsertBatch(r)) /\ SF_vars(CommitBatch(r))

Spec == Init /\ [][Next]_vars
FairSpec == Spec /\ Fairness

-----------------------------------------------------------------------------
(* Properties *)

\* Every variable has its type, and the lock is held while rows are pending.
TypeOK ==
  /\ policy \in [Sources -> Policies]
  /\ verified \subseteq Sources
  /\ capture \in [Sources \X Triggers -> {"absent", "active", "settled"}]
  /\ today \in Days
  /\ lock \in BOOLEAN
  /\ phase \in [Replicas -> {"idle", "declared", "inserted"}]
  /\ day \in [Replicas -> {0} \cup Days]
  /\ batch \in [Replicas -> SUBSET Sources]
  /\ lock <=> \E r \in Replicas : phase[r] = "inserted"

\* No tenant gets more scheduled captures on a day than its quota, although
\* replicas overlap, passes are repeated and policies change between them.
QuotaPerDay ==
  \A t \in Tenants, d \in Days : Cardinality(Scheduled(t, d)) <= Quota

\* A source has at most one scheduled capture under way, even around midnight
\* when two replicas schedule for different days.
OneScheduledAtATime ==
  \A s \in Sources : Cardinality({d \in Days : capture[<<s, d>>] = "active"}) <= 1

Schedule == INSTANCE CaptureSchedule WITH clock <- today, trusted <- verified, taken <- capture

\* A pass takes effect at one instant, when it commits: whatever other replicas, the
\* clock and policies do meanwhile, its selection is still right then.
ImplementsSchedule == Schedule!ScheduleSpec

\* A verified daily source with nothing under way is captured today unless its
\* tenant's quota is spent, however small a pass is and whatever other tenants
\* ask for.
EveryDailySourceIsServed ==
  \A s \in Sources, d \in Days :
    (today = d /\ policy[s] = "daily" /\ s \in verified) ~>
      \/ today # d \/ policy[s] # "daily"
      \/ capture[<<s, d>>] # "absent" \/ Active(s)
      \/ Cardinality(Scheduled(Tenant[s], d)) >= Quota
=============================================================================
