------------------------ MODULE DailyCapture_proofs ------------------------
(***************************************************************************)
(* Proofs about DailyCapture for any finite set of sources and any         *)
(* tenants, replicas, quota, batch size and number of days.                *)
(***************************************************************************)
EXTENDS DailyCapture, FiniteSetTheorems, FunctionTheorems, TLAPS

-----------------------------------------------------------------------------
(* Type correctness *)

\* One pass at a time is between its insertion and its commit, and a pass that
\* has begun has a day.
PassInv ==
  /\ \A r, q \in Replicas : phase[r] = "inserted" /\ phase[q] = "inserted" => r = q
  /\ \A r \in Replicas : phase[r] # "idle" => day[r] \in Days

TypeInv == TypeOK /\ PassInv

LEMMA InitTypeInv == Init => TypeInv
  <1> SUFFICES ASSUME Init PROVE TypeInv
    OBVIOUS
  <1>1. today \in Days
    BY LimitsAssumption DEF Init, Days
  <1>2. lock <=> \E r \in Replicas : phase[r] = "inserted"
    BY DEF Init
  <1> QED
    BY <1>1, <1>2 DEF Init, TypeInv, TypeOK, PassInv, Policies

\* A replica that ends its pass leaves the others alone.
LEMMA EndPassTypes ==
  ASSUME TypeInv, NEW r \in Replicas, EndPass(r)
  PROVE  /\ phase' \in [Replicas -> {"idle", "declared", "inserted"}]
         /\ day' \in [Replicas -> {0} \cup Days]
         /\ batch' \in [Replicas -> SUBSET Sources]
         /\ \A q \in Replicas :
              IF q = r THEN phase'[q] = "idle"
                       ELSE phase'[q] = phase[q] /\ day'[q] = day[q] /\ batch'[q] = batch[q]
  BY DEF TypeInv, TypeOK, EndPass

LEMMA SelectionTypes ==
  ASSUME NEW d, NEW S \in Selections(d)
  PROVE  S \subseteq Admitted(d) /\ S \subseteq Eligible(d) /\ S \subseteq verified
  BY DEF Selections, Admitted, Eligible

LEMMA WorldTypes ==
  ASSUME TypeInv, NEW s \in Sources,
         \/ UpdatePolicy(s) \/ Verify(s) \/ CaptureNow(s) \/ Midnight
         \/ \E k \in Triggers : Settle(s, k)
  PROVE  TypeInv'
  <1> USE DEF TypeInv, TypeOK, PassInv
  <1>1. CASE UpdatePolicy(s)
    BY <1>1 DEF UpdatePolicy
  <1>2. CASE Verify(s)
    BY <1>2 DEF Verify
  <1>3. CASE CaptureNow(s)
    BY <1>3 DEF CaptureNow
  <1>4. CASE Midnight
    BY <1>4, LimitsAssumption DEF Midnight, Days
  <1>5. ASSUME NEW k \in Triggers, Settle(s, k)
        PROVE  TypeInv'
    BY <1>5 DEF Settle
  <1> QED
    BY <1>1, <1>2, <1>3, <1>4, <1>5

LEMMA PassTypes ==
  ASSUME TypeInv, NEW r \in Replicas, Pass(r) \/ AbortPass(r)
  PROVE  TypeInv'
  <1> USE DEF TypeInv, TypeOK, PassInv
  <1>1. CASE BeginPass(r)
    BY <1>1 DEF BeginPass
  <1>2. CASE GiveUp(r)
    BY <1>2, EndPassTypes DEF GiveUp
  <1>3. CASE InsertBatch(r)
    <2>1. PICK S \in Selections(day[r]) : batch' = [batch EXCEPT ![r] = S]
      BY <1>3 DEF InsertBatch
    <2>2. S \in SUBSET Sources
      BY SelectionTypes
    <2>3. batch' \in [Replicas -> SUBSET Sources]
      BY <2>1, <2>2
    <2>4. \A q \in Replicas : phase'[q] = IF q = r THEN "inserted" ELSE phase[q]
      BY <1>3 DEF InsertBatch
    <2>5. lock' /\ \A q \in Replicas : phase[q] # "inserted"
      BY <1>3 DEF InsertBatch, Serialized
    <2> QED
      BY <1>3, <2>3, <2>4, <2>5 DEF InsertBatch, Serialized
  <1>4. CASE CommitBatch(r)
    <2>1. capture' \in [Sources \X Triggers -> {"absent", "active", "settled"}]
      BY <1>4 DEF CommitBatch
    <2>2. EndPass(r) /\ lock' = FALSE /\ UNCHANGED <<policy, verified, today>>
      BY <1>4 DEF CommitBatch
    <2>3. \A q \in Replicas : phase'[q] # "inserted"
      <3>1. \A q \in Replicas : q # r => phase[q] # "inserted"
        BY <1>4 DEF CommitBatch
      <3> QED
        BY <2>2, <3>1, EndPassTypes
    <2>4. \A q \in Replicas : phase'[q] # "idle" => day'[q] \in Days
      BY <2>2, EndPassTypes
    <2> QED
      BY <2>1, <2>2, <2>3, <2>4, EndPassTypes
  <1>5. CASE AbortPass(r)
    BY <1>5, EndPassTypes DEF AbortPass
  <1> QED
    BY <1>1, <1>2, <1>3, <1>4, <1>5 DEF Pass

LEMMA TypeInvStep == TypeInv /\ [Next]_vars => TypeInv'
  <1> SUFFICES ASSUME TypeInv, [Next]_vars PROVE TypeInv'
    OBVIOUS
  <1>1. CASE UNCHANGED vars
    BY <1>1 DEF vars, TypeInv, TypeOK, PassInv
  <1>2. CASE Midnight
    BY <1>2, LimitsAssumption DEF Midnight, TypeInv, TypeOK, PassInv, Days
  <1>3. CASE Next /\ ~ Midnight
    BY <1>3, WorldTypes, PassTypes DEF Next
  <1> QED
    BY <1>1, <1>2, <1>3

\* Every variable keeps its type, and the scheduler's lock is held exactly while
\* one pass has uncommitted captures.
THEOREM TypeCorrect == Spec => []TypeOK
  <1>1. TypeInv => TypeOK
    BY DEF TypeInv
  <1> QED
    BY <1>1, InitTypeInv, TypeInvStep, PTL DEF Spec

-----------------------------------------------------------------------------
(* Positions within a tenant *)

LEMMA EligibleFinite ==
  ASSUME TypeInv, NEW d, NEW S \in SUBSET Eligible(d)
  PROVE  IsFiniteSet(S) /\ Cardinality(S) \in Nat
  <1>1. S \in SUBSET Sources
    BY DEF Eligible, TypeInv, TypeOK
  <1> QED
    BY <1>1, SourcesAssumption, FS_Subset, FS_CardinalityType

\* Two eligible sources of a tenant have different positions.
LEMMA PositionsDiffer ==
  ASSUME TypeInv, NEW d, NEW s \in Eligible(d), NEW u \in Eligible(d),
         Tenant[s] = Tenant[u], Position(s, d) = Position(u, d)
  PROVE  s = u
  <1> DEFINE upto(x) == {v \in Eligible(d) : Tenant[v] = Tenant[x] /\ Age[v] <= Age[x]}
  <1>1. /\ s \in Sources /\ u \in Sources /\ Eligible(d) \subseteq Sources
        /\ \A v \in Sources : Age[v] \in Nat
    BY TenantAssumption DEF Eligible, TypeInv, TypeOK
  <1>2. /\ IsFiniteSet(upto(s)) /\ IsFiniteSet(upto(u))
        /\ Cardinality(upto(s)) = Cardinality(upto(u))
    BY EligibleFinite DEF Position
  <1>3. s \in upto(s) /\ u \in upto(u)
    BY <1>1
  <1>4. CASE Age[s] <= Age[u]
    <2>1. upto(s) \in SUBSET upto(u)
      BY <1>1, <1>4
    <2>2. upto(u) = upto(s)
      BY <1>2, <2>1, FS_Subset
    <2>3. u \in upto(s)
      BY <1>3, <2>2
    <2>4. Age[s] = Age[u]
      BY <1>1, <1>4, <2>3
    <2> QED
      BY <1>1, <2>4, OrderAssumption
  <1>5. CASE Age[u] <= Age[s]
    <2>1. upto(u) \in SUBSET upto(s)
      BY <1>1, <1>5
    <2>2. upto(s) = upto(u)
      BY <1>2, <2>1, FS_Subset
    <2>3. s \in upto(u)
      BY <1>3, <2>2
    <2>4. Age[s] = Age[u]
      BY <1>1, <1>5, <2>3
    <2> QED
      BY <1>1, <2>4, OrderAssumption
  <1> QED
    BY <1>1, <1>4, <1>5

LEMMA PositionType ==
  ASSUME TypeInv, NEW d, NEW s \in Eligible(d)
  PROVE  Position(s, d) \in Nat \ {0}
  <1> DEFINE upto == {v \in Eligible(d) : Tenant[v] = Tenant[s] /\ Age[v] <= Age[s]}
  <1>1. s \in Sources /\ Age[s] \in Nat
    BY TenantAssumption DEF Eligible, TypeInv, TypeOK
  <1>2. s \in upto
    BY <1>1
  <1>3. IsFiniteSet(upto) /\ Cardinality(upto) \in Nat
    BY EligibleFinite
  <1>4. Cardinality(upto) # 0
    BY <1>2, <1>3, FS_EmptySet
  <1> QED
    BY <1>3, <1>4 DEF Position

\* The sources of a tenant that one pass may admit.
Share(S, t) == {s \in S : Tenant[s] = t}

\* So many of a tenant's sources have a position within n, at most, as n.
LEMMA ShareBound ==
  ASSUME TypeInv, NEW d, NEW t, NEW n \in Nat, NEW A \in SUBSET Eligible(d),
         \A s \in A : Tenant[s] = t /\ Position(s, d) <= n
  PROVE  Cardinality(A) <= n
  <1> DEFINE f == [s \in A |-> Position(s, d)]
  <1>1. \A s \in A : Position(s, d) \in 1..n
    BY PositionType
  <1>2. \A s, u \in A : f[s] = f[u] => s = u
    BY PositionsDiffer
  <1>3. f \in Injection(A, 1..n)
    BY <1>1, <1>2 DEF Injection, IsInjective
  <1>4. IsFiniteSet(1..n) /\ Cardinality(1..n) = n
    BY FS_Interval
  <1> QED
    BY <1>3, <1>4, FS_Injection

-----------------------------------------------------------------------------
(* The quota, and one scheduled capture at a time *)

\* Uncommitted captures are within the quota and of sources without a scheduled
\* capture under way: nobody else adds either before they are committed.
BatchInv ==
  \A r \in Replicas : phase[r] = "inserted" =>
    /\ \A s \in batch[r], d \in Days : capture[<<s, d>>] # "active"
    /\ \A t \in Tenants :
         Cardinality(Scheduled(t, day[r]) \cup Share(batch[r], t)) <= Quota

\* OneScheduledAtATime without cardinalities.
Alone ==
  \A s \in Sources, d, e \in Days :
    capture[<<s, d>>] = "active" /\ capture[<<s, e>>] = "active" => d = e

CaptureInv == TypeInv /\ BatchInv /\ QuotaPerDay /\ Alone

LEMMA AloneIsOne ==
  ASSUME Alone
  PROVE  OneScheduledAtATime
  <1> SUFFICES ASSUME NEW s \in Sources
               PROVE  Cardinality({d \in Days : capture[<<s, d>>] = "active"}) <= 1
    BY DEF OneScheduledAtATime
  <1> DEFINE D == {d \in Days : capture[<<s, d>>] = "active"}
  <1>1. \A d, e \in D : d = e
    BY DEF Alone
  <1> HIDE DEF D
  <1>2. ASSUME D = {} PROVE Cardinality(D) <= 1
    BY <1>2, FS_EmptySet
  <1>3. ASSUME D # {} PROVE Cardinality(D) <= 1
    <2>1. PICK d \in D : TRUE
      BY <1>3
    <2>2. D = {d}
      BY <1>1, <2>1
    <2>3. Cardinality(D) = 1
      BY <2>2, FS_Singleton
    <2> QED
      BY <2>3
  <1>4. Cardinality(D) <= 1
    BY <1>2, <1>3
  <1> QED
    BY <1>4 DEF D

LEMMA ScheduledFinite ==
  ASSUME NEW t, NEW d
  PROVE  IsFiniteSet(Scheduled(t, d)) /\ Cardinality(Scheduled(t, d)) \in Nat
  <1>1. Scheduled(t, d) \in SUBSET Sources
    BY DEF Scheduled
  <1> QED
    BY <1>1, SourcesAssumption, FS_Subset, FS_CardinalityType

LEMMA InitCaptureInv == Init => CaptureInv
  <1> SUFFICES ASSUME Init PROVE CaptureInv
    OBVIOUS
  <1>1. \A t, d : d \in Days => Scheduled(t, d) = {}
    BY DEF Init, Scheduled, Triggers
  <1>2. QuotaPerDay
    BY <1>1, LimitsAssumption, FS_EmptySet DEF QuotaPerDay
  <1>3. BatchInv
    BY DEF Init, BatchInv
  <1>4. Alone
    BY DEF Init, Alone, Triggers
  <1> QED
    BY <1>2, <1>3, <1>4, InitTypeInv DEF CaptureInv

\* A pass selects no more of a tenant's sources than its quota has left.
LEMMA SelectionWithinQuota ==
  ASSUME CaptureInv, NEW d \in Days, NEW S \in Selections(d), NEW t \in Tenants
  PROVE  Cardinality(Scheduled(t, d) \cup Share(S, t)) <= Quota
  <1> DEFINE A == Share(S, t)
             n == Quota - Cardinality(Scheduled(t, d))
  <1>1. TypeInv /\ Cardinality(Scheduled(t, d)) <= Quota /\ Quota \in Nat
    BY LimitsAssumption DEF CaptureInv, QuotaPerDay
  <1>2. n \in Nat
    BY <1>1, ScheduledFinite
  <1>3. /\ A \in SUBSET Eligible(d)
        /\ \A s \in A : Tenant[s] = t /\ Position(s, d) <= n
    BY SelectionTypes DEF Share, Admitted, Remaining
  <1> HIDE DEF n, A
  <1>4. Cardinality(A) <= n
    BY <1>1, <1>2, <1>3, ShareBound
  <1>5. IsFiniteSet(A) /\ Cardinality(A) \in Nat
    BY <1>1, <1>3, EligibleFinite
  <1>6. IsFiniteSet(Scheduled(t, d) \cap A) /\ Cardinality(Scheduled(t, d) \cap A) \in Nat
    BY <1>5, FS_Subset, FS_CardinalityType
  <1>7. Cardinality(Scheduled(t, d) \cup A)
          = Cardinality(Scheduled(t, d)) + Cardinality(A) - Cardinality(Scheduled(t, d) \cap A)
    BY <1>5, ScheduledFinite, FS_Union
  <1> QED
    BY <1>1, <1>4, <1>5, <1>6, <1>7, ScheduledFinite DEF n, A

\* Nothing becomes scheduled, or active again under a day, unless a pass commits.
NoCommit ==
  /\ \A k \in Sources \X Days :
       /\ capture'[k] = "absent" <=> capture[k] = "absent"
       /\ capture'[k] = "active" => capture[k] = "active"
  /\ \A r \in Replicas : phase'[r] = "inserted" =>
       \/ phase[r] = "inserted" /\ day'[r] = day[r] /\ batch'[r] = batch[r]
       \/ /\ phase[r] = "declared" /\ day'[r] = day[r]
          /\ batch'[r] \in Selections(day[r])

LEMMA StepCases ==
  ASSUME TypeInv, [Next]_vars
  PROVE  NoCommit \/ \E r \in Replicas : CommitBatch(r)
  <1> USE DEF TypeInv, TypeOK
  <1>0. Manual \notin Days /\ Days \subseteq Triggers
    BY LimitsAssumption DEF Manual, Days, Triggers
  <1>1. CASE UNCHANGED vars
    BY <1>1 DEF vars, NoCommit
  <1>2. ASSUME NEW s \in Sources, UpdatePolicy(s) \/ Verify(s) \/ Midnight
        PROVE  NoCommit
    BY <1>2 DEF UpdatePolicy, Verify, Midnight, NoCommit
  <1>3. CASE Midnight
    BY <1>3 DEF Midnight, NoCommit
  <1>4. ASSUME NEW s \in Sources, CaptureNow(s)
        PROVE  NoCommit
    BY <1>0, <1>4 DEF CaptureNow, NoCommit
  <1>5. ASSUME NEW s \in Sources, NEW k \in Triggers, Settle(s, k)
        PROVE  NoCommit
    <2>1. \A j \in Sources \X Triggers :
            capture'[j] = IF j = <<s, k>> THEN "settled" ELSE capture[j]
      BY <1>5 DEF Settle
    <2>2. capture[<<s, k>>] = "active"
      BY <1>5 DEF Settle
    <2> QED
      BY <1>0, <1>5, <2>1, <2>2 DEF Settle, NoCommit
  <1>6. ASSUME NEW r \in Replicas, BeginPass(r)
        PROVE  NoCommit
    BY <1>6 DEF BeginPass, NoCommit
  <1>7. ASSUME NEW r \in Replicas, GiveUp(r) \/ AbortPass(r)
        PROVE  NoCommit
    <2>1. EndPass(r) /\ capture' = capture
      BY <1>7 DEF GiveUp, AbortPass
    <2> QED
      BY <2>1, EndPassTypes DEF NoCommit
  <1>8. ASSUME NEW r \in Replicas, InsertBatch(r)
        PROVE  NoCommit
    BY <1>8 DEF InsertBatch, NoCommit
  <1> QED
    BY <1>1, <1>2, <1>3, <1>4, <1>5, <1>6, <1>7, <1>8 DEF Next, Pass

LEMMA NoCommitKeeps ==
  ASSUME CaptureInv, TypeInv', NoCommit
  PROVE  CaptureInv'
  <1> USE DEF CaptureInv
  <1> DEFINE After(t, d) == {s \in Sources : Tenant[s] = t /\ capture'[<<s, d>>] # "absent"}
  <1>1. \A t \in Tenants, d \in Days : After(t, d) = Scheduled(t, d)
    BY DEF NoCommit, Scheduled
  <1>2. QuotaPerDay'
    BY <1>1 DEF QuotaPerDay, Scheduled
  <1>3. Alone'
    BY DEF NoCommit, Alone
  <1>4. ASSUME NEW r \in Replicas, phase'[r] = "inserted"
        PROVE  /\ \A s \in batch'[r], d \in Days : capture'[<<s, d>>] # "active"
               /\ \A t \in Tenants :
                    Cardinality(After(t, day[r]) \cup Share(batch'[r], t)) <= Quota
    <2> HIDE DEF After
    <2>1. CASE phase[r] = "inserted" /\ day'[r] = day[r] /\ batch'[r] = batch[r]
      <3>1. day[r] \in Days /\ batch[r] \subseteq Sources
        BY <2>1 DEF TypeInv, TypeOK, PassInv
      <3>2. \A s \in batch'[r], d \in Days : capture'[<<s, d>>] # "active"
        BY <2>1, <3>1 DEF BatchInv, NoCommit
      <3>3. \A t \in Tenants :
              Cardinality(After(t, day[r]) \cup Share(batch'[r], t)) <= Quota
        BY <1>1, <2>1, <3>1 DEF BatchInv
      <3> QED
        BY <3>2, <3>3
    <2>2. CASE phase[r] = "declared" /\ batch'[r] \in Selections(day[r])
      <3>1. day[r] \in Days
        BY <2>2 DEF TypeInv, PassInv
      <3>2. \A s \in batch'[r], d \in Days : s \in Sources /\ capture[<<s, d>>] # "active"
        <4>1. batch'[r] \subseteq Eligible(day[r])
          BY <2>2, SelectionTypes
        <4>2. verified \subseteq Sources
          BY DEF TypeInv, TypeOK
        <4> QED
          BY <4>1, <4>2 DEF Eligible, Active, Triggers
      <3>3. \A s \in batch'[r], d \in Days : capture'[<<s, d>>] # "active"
        BY <3>2 DEF NoCommit
      <3>4. \A t \in Tenants :
              Cardinality(After(t, day[r]) \cup Share(batch'[r], t)) <= Quota
        BY <1>1, <2>2, <3>1, SelectionWithinQuota
      <3> QED
        BY <3>3, <3>4
    <2> QED
      BY <1>4, <2>1, <2>2 DEF NoCommit
  <1>5. BatchInv'
    <2>1. \A r \in Replicas : phase'[r] = "inserted" => day'[r] = day[r]
      BY DEF NoCommit
    <2> QED
      BY <1>4, <2>1 DEF BatchInv, Scheduled, Share
  <1> QED
    BY <1>2, <1>3, <1>5

LEMMA CommitKeeps ==
  ASSUME CaptureInv, TypeInv', NEW r \in Replicas, CommitBatch(r)
  PROVE  CaptureInv'
  <1> USE DEF CaptureInv
  <1>0. /\ phase[r] = "inserted" /\ day[r] \in Days
        /\ batch[r] \subseteq Sources /\ Days \subseteq Triggers
    BY DEF CommitBatch, TypeInv, TypeOK, PassInv, Triggers
  <1>1. \A s \in Sources, d \in Days :
          capture'[<<s, d>>] = IF s \in batch[r] /\ d = day[r] /\ capture[<<s, d>>] = "absent"
                               THEN "active" ELSE capture[<<s, d>>]
    BY <1>0 DEF CommitBatch
  <1>2. BatchInv'
    <2>1. \A q \in Replicas : phase'[q] # "inserted"
      BY <1>0, EndPassTypes DEF CommitBatch, TypeInv, PassInv
    <2> QED
      BY <2>1 DEF BatchInv
  <1>3. QuotaPerDay'
    <2> DEFINE After(t, d) == {s \in Sources : Tenant[s] = t /\ capture'[<<s, d>>] # "absent"}
    <2> SUFFICES ASSUME NEW t \in Tenants, NEW d \in Days
                 PROVE  Cardinality(After(t, d)) <= Quota
      BY DEF QuotaPerDay, Scheduled
    <2>1. CASE d # day[r]
      <3>1. After(t, d) = Scheduled(t, d)
        BY <1>1, <2>1 DEF Scheduled
      <3> QED
        BY <3>1 DEF QuotaPerDay
    <2>2. CASE d = day[r]
      <3>1. After(t, d) = Scheduled(t, d) \cup Share(batch[r], t)
        BY <1>0, <1>1, <2>2 DEF Scheduled, Share
      <3> QED
        BY <1>0, <2>2, <3>1 DEF BatchInv
    <2> QED
      BY <2>1, <2>2
  <1>4. Alone'
    <2> SUFFICES ASSUME NEW s \in Sources, NEW d \in Days, NEW e \in Days,
                        capture'[<<s, d>>] = "active", capture'[<<s, e>>] = "active"
                 PROVE  d = e
      BY DEF Alone
    <2>1. CASE s \in batch[r]
      <3>1. capture[<<s, d>>] # "active" /\ capture[<<s, e>>] # "active"
        BY <1>0, <2>1 DEF BatchInv
      <3> QED
        BY <1>1, <3>1
    <2>2. CASE s \notin batch[r]
      BY <1>1, <2>2 DEF Alone
    <2> QED
      BY <2>1, <2>2
  <1> QED
    BY <1>2, <1>3, <1>4

LEMMA CaptureInvStep == CaptureInv /\ [Next]_vars => CaptureInv'
  <1> SUFFICES ASSUME CaptureInv, [Next]_vars PROVE CaptureInv'
    OBVIOUS
  <1>1. TypeInv'
    BY TypeInvStep DEF CaptureInv
  <1> QED
    BY <1>1, StepCases, NoCommitKeeps, CommitKeeps DEF CaptureInv

\* No tenant gets more scheduled captures on a day than its quota.
THEOREM QuotaIsKept == Spec => []QuotaPerDay
  <1>1. CaptureInv => QuotaPerDay
    BY DEF CaptureInv
  <1> QED
    BY <1>1, InitCaptureInv, CaptureInvStep, PTL DEF Spec

\* A source has at most one scheduled capture under way, whatever the days.
THEOREM OneAtATime == Spec => []OneScheduledAtATime
  <1>1. CaptureInv => OneScheduledAtATime
    BY AloneIsOne DEF CaptureInv
  <1> QED
    BY <1>1, InitCaptureInv, CaptureInvStep, PTL DEF Spec

-----------------------------------------------------------------------------
(* The schedule implemented *)

\* What a pass has selected stays selectable until it commits: verified, of a day
\* that has come, and without a capture for it.
PickedInv ==
  \A r \in Replicas :
    /\ phase[r] # "idle" => day[r] <= today
    /\ phase[r] = "inserted" =>
         \A s \in batch[r] : s \in verified /\ capture[<<s, day[r]>>] = "absent"

\* The day, and who is verified, only grow; only a selection and a commit matter to it.
LEMMA PickedStep ==
  ASSUME TypeInv, PickedInv, [Next]_vars
  PROVE  PickedInv'
  <1> USE DEF TypeInv, TypeOK
  <1>1. today' >= today /\ verified \subseteq verified'
    <2>1. CASE UNCHANGED <<today, verified>>
      BY <2>1 DEF Days
    <2>2. CASE Midnight
      BY <2>2 DEF Midnight, Days
    <2>3. ASSUME NEW s \in Sources, Verify(s)
          PROVE  today' >= today /\ verified \subseteq verified'
      BY <2>3 DEF Verify, Days
    <2> QED
      BY <2>1, <2>2, <2>3
         DEF Next, UpdatePolicy, CaptureNow, Settle, Pass, BeginPass, GiveUp, InsertBatch,
             CommitBatch, AbortPass, vars
  <1>2. \A r \in Replicas : phase'[r] # "idle" =>
          day'[r] = today \/ (phase[r] # "idle" /\ day'[r] = day[r])
    <2>1. ASSUME NEW r \in Replicas, EndPass(r)
          PROVE  \A q \in Replicas : phase'[q] # "idle" => phase[q] # "idle" /\ day'[q] = day[q]
      BY <2>1, EndPassTypes
    <2>2. ASSUME NEW r \in Replicas, BeginPass(r)
          PROVE  \A q \in Replicas : phase'[q] # "idle" =>
                   day'[q] = today \/ (phase[q] # "idle" /\ day'[q] = day[q])
      BY <2>2 DEF BeginPass
    <2>3. ASSUME NEW r \in Replicas, InsertBatch(r)
          PROVE  \A q \in Replicas : phase'[q] # "idle" => phase[q] # "idle" /\ day'[q] = day[q]
      BY <2>3 DEF InsertBatch
    <2>4. CASE UNCHANGED <<phase, day>>
      BY <2>4
    <2> QED
      BY <2>1, <2>2, <2>3, <2>4
         DEF Next, UpdatePolicy, Verify, CaptureNow, Settle, Midnight, Pass, GiveUp, CommitBatch,
             AbortPass, vars
  <1>3. \A r \in Replicas : phase'[r] # "idle" => day'[r] <= today'
    <2>1. \A r \in Replicas : day[r] \in Nat /\ today \in Nat /\ day'[r] \in Nat /\ today' \in Nat
      BY TypeInvStep DEF Days
    <2> QED
      BY <1>1, <1>2, <2>1 DEF PickedInv
  <1>4. CASE NoCommit
    <2> SUFFICES ASSUME NEW r \in Replicas, phase'[r] = "inserted", NEW s \in batch'[r]
                 PROVE  s \in verified' /\ capture'[<<s, day'[r]>>] = "absent"
      BY <1>3 DEF PickedInv
    <2>1. s \in verified /\ s \in Sources /\ day'[r] = day[r] /\ day[r] \in Days
          /\ capture[<<s, day[r]>>] = "absent"
      <3>1. CASE phase[r] = "inserted" /\ day'[r] = day[r] /\ batch'[r] = batch[r]
        BY <3>1 DEF PickedInv, PassInv
      <3>2. CASE phase[r] = "declared" /\ day'[r] = day[r] /\ batch'[r] \in Selections(day[r])
        BY <3>2, SelectionTypes DEF Eligible, PassInv
      <3> QED
        BY <1>4, <3>1, <3>2 DEF NoCommit
    <2> QED
      BY <1>1, <1>4, <2>1 DEF NoCommit
  <1>5. ASSUME NEW r \in Replicas, CommitBatch(r)
        PROVE  PickedInv'
    <2>1. \A q \in Replicas : phase'[q] # "inserted"
      BY <1>5, EndPassTypes DEF CommitBatch, PassInv
    <2> QED
      BY <1>3, <2>1 DEF PickedInv
  <1> QED
    BY <1>4, <1>5, StepCases

\* What no step of the schedule is needed for.
Unseen == UNCHANGED <<today, verified, capture>>

\* The two modules mean the same days and triggers.
LEMMA DaysAgree == Schedule!Days = Days /\ Schedule!Triggers = Triggers /\ Manual = Schedule!ByHand
  BY DEF Schedule!Days, Schedule!Triggers, Schedule!ByHand, Days, Triggers, Manual

\* A commit finds nothing under its keys, whatever was committed since it selected:
\* ON CONFLICT DO NOTHING never leaves a selected source out.
LEMMA CommitRefines ==
  ASSUME CaptureInv, PickedInv, NEW r \in Replicas, CommitBatch(r)
  PROVE  Schedule!Schedule(batch[r], day[r])
  <1> USE DEF CaptureInv, TypeInv, TypeOK
  <1> DEFINE S == batch[r]
             d == day[r]
  <1>1. phase[r] = "inserted" /\ S \subseteq Sources /\ d \in Days /\ d <= today
    BY DEF CommitBatch, PassInv, PickedInv
  <1>2. \A s \in S : /\ capture[<<s, d>>] = "absent"
                     /\ \A e \in Schedule!Days : capture[<<s, e>>] # "active"
    BY <1>1, DaysAgree DEF PickedInv, BatchInv
  <1>3. ASSUME NEW t \in Tenants
        PROVE  Schedule!Cardinality({s \in Sources : Tenant[s] = t
                                       /\ (capture[<<s, d>>] # "absent" \/ s \in S)}) <= Quota
    <2> DEFINE T == {s \in Sources : Tenant[s] = t /\ (capture[<<s, d>>] # "absent" \/ s \in S)}
    <2>1. T = Scheduled(t, d) \cup Share(S, t)
      BY <1>1 DEF Scheduled, Share
    <2>2. Cardinality(T) <= Quota
      BY <1>1, <2>1 DEF BatchInv
    <2> HIDE DEF T
    <2>3. Schedule!Cardinality(T) = Cardinality(T)
      BY DEF Cardinality, Schedule!Cardinality
    <2> QED
      BY <2>2, <2>3 DEF T
  <1>4. capture' = [k \in Sources \X Schedule!Triggers |->
                      IF k[1] \in S /\ k[2] = d THEN "active" ELSE capture[k]]
    <2>1. \A k \in Sources \X Triggers : k[1] \in S /\ k[2] = d => capture[k] = "absent"
      <3> SUFFICES ASSUME NEW s \in Sources, NEW j \in Triggers, s \in S, j = d
                   PROVE  capture[<<s, j>>] = "absent"
        OBVIOUS
      <3> QED
        BY <1>2
    <2> HIDE DEF S, d
    <2> QED
      BY <2>1, DaysAgree DEF CommitBatch, S, d
  <1>5. UNCHANGED <<today, verified>>
    BY DEF CommitBatch
  <1> HIDE DEF S, d
  <1>6. Schedule!Schedule(S, d)
    BY <1>1, <1>2, <1>3, <1>4, <1>5 DEF Schedule!Schedule
  <1> QED
    BY <1>6 DEF S, d

\* What happens around the scheduler is a step of the schedule each.
LEMMA WorldRefines ==
  ASSUME TypeInv, NEW s \in Sources,
         \/ UpdatePolicy(s) \/ Verify(s) \/ CaptureNow(s)
         \/ \E k \in Triggers : Settle(s, k)
  PROVE  Schedule!ScheduleNext \/ Unseen
  <1>1. CASE UpdatePolicy(s)
    BY <1>1 DEF UpdatePolicy, Unseen
  <1>2. CASE Verify(s)
    BY <1>2 DEF Verify, Schedule!Trust, Schedule!ScheduleNext
  <1>3. CASE CaptureNow(s)
    BY <1>3, DaysAgree DEF CaptureNow, Schedule!Take, Schedule!ScheduleNext
  <1>4. ASSUME NEW k \in Triggers, Settle(s, k)
        PROVE  Schedule!ScheduleNext
    <2>1. Schedule!Finish(s, k)
      BY <1>4 DEF Settle, Schedule!Finish
    <2> QED
      BY <2>1, DaysAgree DEF Schedule!ScheduleNext
  <1> QED
    BY <1>1, <1>2, <1>3, <1>4

\* Every step is one of the schedule, or invisible to it.
LEMMA ScheduleStep ==
  ASSUME CaptureInv, PickedInv, [Next]_vars
  PROVE  Schedule!ScheduleNext \/ Unseen
  <1> USE DEF CaptureInv
  <1>1. ASSUME NEW r \in Replicas, CommitBatch(r)
        PROVE  Schedule!ScheduleNext
    <2>1. batch[r] \subseteq verified /\ day[r] \in Schedule!Days
      BY <1>1, DaysAgree DEF CommitBatch, PickedInv, TypeInv, PassInv
    <2> QED
      BY <1>1, <2>1, CommitRefines DEF Schedule!ScheduleNext
  <1>2. ASSUME NEW r \in Replicas, BeginPass(r) \/ GiveUp(r) \/ InsertBatch(r) \/ AbortPass(r)
        PROVE  Unseen
    BY <1>2 DEF BeginPass, GiveUp, InsertBatch, AbortPass, Unseen
  <1>3. CASE Midnight
    BY <1>3 DEF Midnight, Schedule!NextDay, Schedule!ScheduleNext
  <1>4. CASE UNCHANGED vars
    BY <1>4 DEF vars, Unseen
  <1> QED
    BY <1>1, <1>2, <1>3, <1>4, WorldRefines DEF Next, Pass

\* The passes of any number of replicas behave as the steps of one scheduler
\* (schedule_daily_source_snapshots, migration 0011).
THEOREM PassesImplementSchedule == Spec => ImplementsSchedule
  <1>1. Init => PickedInv
    BY DEF Init, PickedInv
  <1>2. Init => Schedule!Start
    BY DaysAgree DEF Init, Schedule!Start
  <1>3. CaptureInv /\ PickedInv /\ [Next]_vars => PickedInv'
    BY PickedStep DEF CaptureInv
  <1>4. CaptureInv /\ PickedInv /\ [Next]_vars => [Schedule!ScheduleNext]_(Schedule!schedule)
    BY ScheduleStep DEF Unseen, Schedule!schedule
  <1> QED
    BY <1>1, <1>2, <1>3, <1>4, InitCaptureInv, CaptureInvStep, PTL
       DEF Spec, ImplementsSchedule, Schedule!ScheduleSpec
=============================================================================
