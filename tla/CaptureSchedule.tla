-------------------------- MODULE CaptureSchedule --------------------------
(***************************************************************************)
(* What a tenant may rely on about the captures of its sources: as if each *)
(* pass of a scheduler were one step, and there were only one scheduler.   *)
(***************************************************************************)
EXTENDS Integers, FiniteSets

CONSTANTS Sources, Tenants, Tenant, Quota, LastDay

VARIABLES
  clock,    \* the UTC day
  trusted,  \* verified sources
  taken     \* of each source and trigger, day or hand: "absent", "active" or "settled"

schedule == <<clock, trusted, taken>>

Days == 1..LastDay
ByHand == 0
Triggers == {ByHand} \cup Days

Start ==
  /\ clock = 1
  /\ trusted = {}
  /\ taken = [k \in Sources \X Triggers |-> "absent"]

NextDay ==
  /\ clock < LastDay
  /\ clock' = clock + 1
  /\ UNCHANGED <<trusted, taken>>

Trust(s) ==
  /\ trusted' = trusted \cup {s}
  /\ UNCHANGED <<clock, taken>>

Take(s) ==
  /\ s \in trusted
  /\ taken' = [taken EXCEPT ![<<s, ByHand>>] = "active"]
  /\ UNCHANGED <<clock, trusted>>

Finish(s, k) ==
  /\ taken[<<s, k>>] = "active"
  /\ taken' = [taken EXCEPT ![<<s, k>>] = "settled"]
  /\ UNCHANGED <<clock, trusted>>

\* A day has come, its captures are each the first of their source for it and the
\* only scheduled one under way, and they are within the quota of their tenant.
Schedule(S, d) ==
  /\ d <= clock
  /\ \A s \in S : taken[<<s, d>>] = "absent" /\ \A e \in Days : taken[<<s, e>>] # "active"
  /\ \A t \in Tenants :
       Cardinality({s \in Sources : Tenant[s] = t /\ (taken[<<s, d>>] # "absent" \/ s \in S)})
         <= Quota
  /\ taken' = [k \in Sources \X Triggers |->
                 IF k[1] \in S /\ k[2] = d THEN "active" ELSE taken[k]]
  /\ UNCHANGED <<clock, trusted>>

ScheduleNext ==
  \/ NextDay
  \/ \E s \in Sources : Trust(s) \/ Take(s) \/ \E k \in Triggers : Finish(s, k)
  \/ \E S \in SUBSET trusted, d \in Days : Schedule(S, d)

ScheduleSpec == Start /\ [][ScheduleNext]_schedule
=============================================================================
