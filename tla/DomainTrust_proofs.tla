------------------------- MODULE DomainTrust_proofs -------------------------
(***************************************************************************)
(* Proofs about DomainTrust for any sets of challenges, sources, requests  *)
(* and workers.                                                            *)
(***************************************************************************)
EXTENDS DomainTrust, TLAPS

CheckPhases == {"resolving", "matched", "unmatched", "late"}

\* The lock is with the one request that is past acquiring it; workers take it
\* for a single step.
LockInv ==
  /\ \A r \in Requests : phase[r] \in LockedPhases <=> lock = r
  /\ \A w \in Workers : phase[w] \in {"idle", "resolving", "matched", "unmatched"}

TypeInv == TypeOK /\ LockInv

LEMMA PhaseSets ==
  /\ CheckPhases \subseteq LockedPhases
  /\ "idle" \notin WaitingPhases \cup LockedPhases
  /\ WaitingPhases \cap LockedPhases = {}
  BY DEF CheckPhases, WaitingPhases, LockedPhases

-----------------------------------------------------------------------------
(* Type correctness and mutual exclusion *)

LEMMA InitTypeInv == Init => TypeInv
  BY ActorsAssumption, PhaseSets
     DEF Init, TypeInv, TypeOK, LockInv, ChallengeStatuses, Actors

\* The variables the actors do not have to themselves.
SharedTypes ==
  /\ challenge \in [Challenges -> ChallengeStatuses]
  /\ lapsed \subseteq Challenges
  /\ enqueued \subseteq Challenges
  /\ project_verified \in BOOLEAN
  /\ source \in [Sources -> {"absent", "unverified", "verified"}]
  /\ dns \subseteq Challenges
  /\ proven \subseteq Challenges

\* An actor that ends is idle, has nothing in hand and does not hold the lock.
LEMMA FinishTypes ==
  ASSUME TypeInv, NEW a \in Actors, Finish(a), SharedTypes'
  PROVE  TypeInv'
  <1> USE DEF TypeInv, TypeOK, LockInv
  <1>1. /\ lock' \in Requests \cup {None}
        /\ phase' \in [Actors -> {"idle"} \cup WaitingPhases \cup LockedPhases]
        /\ subject' \in [Actors -> Challenges \cup {None}]
    BY DEF Finish
  <1>2. \A b \in Actors : phase'[b] = IF b = a THEN "idle" ELSE phase[b]
    BY DEF Finish
  <1>3. \A b \in Actors : subject'[b] = IF b = a THEN None ELSE subject[b]
    BY DEF Finish
  <1>4. \A b \in Actors : subject'[b] # None <=> phase'[b] \in CheckPhases
    BY <1>2, <1>3 DEF CheckPhases
  <1>5. \A r \in Requests : phase'[r] \in LockedPhases <=> lock' = r
    <2> TAKE r \in Requests
    <2>1. CASE r = a
      BY <1>2, <2>1, PhaseSets, ActorsAssumption DEF Finish, Actors
    <2>2. CASE r # a
      BY <1>2, <2>2, ActorsAssumption DEF Finish, Actors
    <2> QED
      BY <2>1, <2>2
  <1>6. \A w \in Workers : phase'[w] \in {"idle", "resolving", "matched", "unmatched"}
    BY <1>2 DEF Actors
  <1> QED
    BY <1>1, <1>4, <1>5, <1>6 DEF SharedTypes, CheckPhases

LEMMA PromoteTypes ==
  ASSUME TypeInv
  PROVE  Promote \in [Sources -> {"absent", "unverified", "verified"}]
  BY DEF Promote, TypeInv, TypeOK

\* A request that gets the lock is the only one beyond it.
LEMMA AcquireTypes ==
  ASSUME TypeInv, NEW r \in Requests, Acquire(r), NEW p \in LockedPhases,
         phase' = [phase EXCEPT ![r] = p],
         NEW c \in Challenges \cup {None},
         c # None <=> p \in CheckPhases,
         subject' = [subject EXCEPT ![r] = c],
         SharedTypes'
  PROVE  TypeInv'
  <1> USE DEF TypeInv, TypeOK, LockInv
  <1>1. /\ lock' \in Requests \cup {None}
        /\ phase' \in [Actors -> {"idle"} \cup WaitingPhases \cup LockedPhases]
        /\ subject' \in [Actors -> Challenges \cup {None}]
    BY DEF Acquire
  <1>2. r \in Actors /\ \A b \in Actors : phase'[b] = IF b = r THEN p ELSE phase[b]
    BY DEF Actors
  <1>3. \A b \in Actors : subject'[b] = IF b = r THEN c ELSE subject[b]
    OBVIOUS
  <1>4. \A b \in Actors : subject'[b] # None <=> phase'[b] \in CheckPhases
    BY <1>2, <1>3 DEF CheckPhases
  <1>5. \A q \in Requests : phase'[q] \in LockedPhases <=> lock' = q
    BY <1>2, ActorsAssumption DEF Acquire, Actors
  <1>6. \A w \in Workers : phase'[w] \in {"idle", "resolving", "matched", "unmatched"}
    BY <1>2, ActorsAssumption DEF Actors
  <1> QED
    BY <1>1, <1>4, <1>5, <1>6 DEF SharedTypes, CheckPhases

LEMMA RequestTypes ==
  ASSUME TypeInv, NEW r \in Requests, Arrive(r) \/ GetsLock(r) \/ Settles(r)
  PROVE  TypeInv'
  <1> USE DEF TypeInv, TypeOK
  <1>0. r \in Actors /\ phase[r] \in {"idle"} \cup WaitingPhases \cup LockedPhases
    BY DEF Actors
  <1>1. CASE Arrive(r)
    BY <1>0, <1>1, PhaseSets, ActorsAssumption
       DEF Arrive, trust, LockInv, WaitingPhases, LockedPhases, Actors
  <1>2. CASE LockForRotation(r)
    <2>1. subject[r] = None
      BY <1>0, <1>2 DEF LockForRotation
    <2>2. subject' = [subject EXCEPT ![r] = None]
      BY <1>2, <2>1 DEF LockForRotation
    <2> QED
      BY <1>2, <2>2, AcquireTypes DEF LockForRotation, LockedPhases, CheckPhases, SharedTypes, trust
  <1>3. CASE LockForSource(r)
    <2>1. subject[r] = None
      BY <1>0, <1>3 DEF LockForSource
    <2>2. subject' = [subject EXCEPT ![r] = None]
      BY <1>3, <2>1 DEF LockForSource
    <2> QED
      BY <1>3, <2>2, AcquireTypes DEF LockForSource, LockedPhases, CheckPhases, SharedTypes, trust
  <1>4. CASE RotateChallenge(r)
    BY <1>0, <1>4, FinishTypes DEF RotateChallenge, SharedTypes, ChallengeStatuses
  <1>5. CASE CreateSource(r)
    BY <1>0, <1>5, FinishTypes DEF CreateSource, SharedTypes
  <1>6. CASE FinishVerify(r)
    <2>1. subject[r] \in Challenges
      BY <1>0, <1>6 DEF FinishVerify
    <2> QED
      BY <1>0, <1>6, <2>1, FinishTypes, PromoteTypes
         DEF FinishVerify, SharedTypes, ChallengeStatuses, trust
  <1>7. CASE Abort(r)
    BY <1>0, <1>7, FinishTypes DEF Abort, SharedTypes, trust
  <1>8. CASE Resolve(r)
    BY <1>0, <1>8, ActorsAssumption
       DEF Resolve, SharedTypes, trust, LockInv, LockedPhases, CheckPhases, Actors
  <1> QED
    BY <1>1, <1>2, <1>3, <1>4, <1>5, <1>6, <1>7, <1>8 DEF GetsLock, Settles

LEMMA BeginVerifyTypes ==
  ASSUME TypeInv, NEW r \in Requests, NEW c \in Challenges, BeginVerify(r, c)
  PROVE  TypeInv'
  <1> DEFINE p == IF c \in lapsed THEN "late" ELSE "resolving"
  <1>1. p \in LockedPhases /\ p \in CheckPhases /\ c # None
    BY ActorsAssumption DEF LockedPhases, CheckPhases
  <1>2. phase' = [phase EXCEPT ![r] = p]
    BY DEF BeginVerify
  <1> QED
    BY <1>1, <1>2, AcquireTypes DEF BeginVerify, SharedTypes, trust, TypeInv, TypeOK

LEMMA WorkerTypes ==
  ASSUME TypeInv, NEW w \in Workers,
         Executes(w) \/ \E c \in Challenges : BeginExecution(w, c) \/ ExpireChallenge(w, c)
  PROVE  TypeInv'
  <1> USE DEF TypeInv, TypeOK
  <1>0. w \in Actors
    BY DEF Actors
  <1>1. CASE Resolve(w)
    BY <1>0, <1>1, ActorsAssumption
       DEF Resolve, trust, LockInv, LockedPhases, Actors
  <1>2. CASE WriteVerified(w)
    <2>1. subject[w] \in Challenges
      BY <1>0, <1>2 DEF WriteVerified
    <2> QED
      BY <1>0, <1>2, <2>1, FinishTypes, PromoteTypes
         DEF WriteVerified, SharedTypes, ChallengeStatuses
  <1>3. CASE EndExecution(w)
    BY <1>0, <1>3, FinishTypes DEF EndExecution, SharedTypes, trust
  <1>4. ASSUME NEW c \in Challenges, BeginExecution(w, c)
        PROVE  TypeInv'
    BY <1>0, <1>4, ActorsAssumption
       DEF BeginExecution, trust, LockInv, LockedPhases, Actors
  <1>5. ASSUME NEW c \in Challenges, ExpireChallenge(w, c)
        PROVE  TypeInv'
    BY <1>0, <1>5 DEF ExpireChallenge, LockInv, ChallengeStatuses
  <1> QED
    BY <1>1, <1>2, <1>3, <1>4, <1>5 DEF Executes

LEMMA WorldTypes ==
  ASSUME TypeInv, NEW c \in Challenges, EnqueueJob(c) \/ Publish(c) \/ Lapse(c)
  PROVE  TypeInv'
  BY DEF TypeInv, TypeOK, LockInv, EnqueueJob, Publish, Lapse, trust

LEMMA TypeInvStep == TypeInv /\ [Next]_vars => TypeInv'
  <1> SUFFICES ASSUME TypeInv, [Next]_vars PROVE TypeInv'
    OBVIOUS
  <1>1. CASE UNCHANGED vars
    BY <1>1 DEF vars, trust, TypeInv, TypeOK, LockInv
  <1>2. CASE Next
    BY <1>2, RequestTypes, BeginVerifyTypes, WorkerTypes, WorldTypes DEF Next
  <1> QED
    BY <1>1, <1>2

\* Every variable keeps its type, and the domain lock is with the one request
\* that is past waiting for it.
THEOREM TypeCorrect == Spec => [](TypeOK /\ LockInv)
  <1>1. TypeInv => TypeOK /\ LockInv
    BY DEF TypeInv
  <1> QED
    BY <1>1, InitTypeInv, TypeInvStep, PTL DEF Spec

-----------------------------------------------------------------------------
(* The steps of a project's trust *)

\* What a request that holds the lock knows: whoever registers a source still
\* sees the project as it read it; a challenge under check was pending and can
\* only have expired; a match was an answer of DNS.
KnownInv ==
  /\ \A r \in Requests :
       /\ phase[r] = "trusted" => project_verified
       /\ phase[r] = "untrusted" => ~ project_verified
       /\ phase[r] \in CheckPhases => challenge[subject[r]] \in {"pending", "expired"}
  /\ \A a \in Actors : phase[a] = "matched" => subject[a] \in proven

\* No transaction ends: the trust recorded and what its lock holders have read
\* are as before, except that something new may come under check.
Preparing ==
  /\ UNCHANGED <<project_verified, source>>
  /\ \A c \in Challenges :
       \/ challenge'[c] = challenge[c]
       \/ challenge[c] = "pending" /\ challenge'[c] = "expired"
  /\ proven \subseteq proven'
  /\ \A r \in Requests :
       /\ phase'[r] = "trusted" => phase[r] = "trusted" \/ project_verified
       /\ phase'[r] = "untrusted" => phase[r] = "untrusted" \/ ~ project_verified
       /\ phase'[r] \in CheckPhases =>
            \/ phase[r] \in CheckPhases /\ subject'[r] = subject[r]
            \/ challenge'[subject'[r]] = "pending"
  /\ \A a \in Actors :
       phase'[a] = "matched" =>
         \/ phase[a] = "matched" /\ subject'[a] = subject[a]
         \/ subject'[a] \in proven'

\* A challenge is rotated, or a source registered, by the holder of the lock.
Rotating(r) ==
  /\ lock = r
  /\ \E c \in Challenges :
       /\ challenge[c] = "absent"
       /\ challenge' = [d \in Challenges |->
            IF d = c THEN "pending" ELSE IF Pending(d) THEN "superseded" ELSE challenge[d]]
  /\ UNCHANGED <<project_verified, source, proven>>

Registering(r) ==
  /\ lock = r
  /\ \E s \in Sources :
       /\ source[s] = "absent"
       /\ source' = [source EXCEPT ![s] =
            IF phase[r] = "trusted" /\ s \in OwnSources THEN "verified" ELSE "unverified"]
  /\ phase[r] \in {"trusted", "untrusted"}
  /\ UNCHANGED <<challenge, project_verified, proven>>

\* The project is verified, by the holder of the lock or while nobody holds it.
Verifying(a) ==
  /\ phase[a] = "matched"
  /\ lock = a \/ (lock = None /\ a \in Workers)
  /\ \E c \in Challenges :
       /\ c = subject[a]
       /\ \/ /\ challenge' = [challenge EXCEPT ![c] = "verified"]
             /\ a \in Requests \/ Pending(c)
          \/ UNCHANGED challenge
  /\ project_verified' = TRUE
  /\ source' = Promote
  /\ UNCHANGED proven

LEMMA StepCases ==
  ASSUME TypeInv, KnownInv, [Next]_vars
  PROVE  \/ Preparing
         \/ \E a \in Actors :
              /\ Finish(a)
              /\ (a \in Requests /\ (Rotating(a) \/ Registering(a))) \/ Verifying(a)
  <1> USE DEF TypeInv, TypeOK
  <1> DEFINE Ending(a) ==
        /\ Finish(a)
        /\ (a \in Requests /\ (Rotating(a) \/ Registering(a))) \/ Verifying(a)
  <1>1. CASE UNCHANGED vars
    BY <1>1 DEF vars, trust, Preparing
  <1>2. ASSUME NEW r \in Requests, Arrive(r) \/ GetsLock(r)
        PROVE  Preparing
    <2>1. r \in Actors
      BY DEF Actors
    <2>2. UNCHANGED <<trust, proven, subject>>
      BY <1>2 DEF Arrive, GetsLock, LockForRotation, LockForSource
    <2>3. \A a \in Actors : a # r => phase'[a] = phase[a]
      BY <1>2 DEF Arrive, GetsLock, LockForRotation, LockForSource
    <2>4. /\ phase'[r] \notin CheckPhases
          /\ phase'[r] = "trusted" => project_verified
          /\ phase'[r] = "untrusted" => ~ project_verified
      BY <1>2, <2>1 DEF Arrive, GetsLock, LockForRotation, LockForSource,
                        CheckPhases, WaitingPhases
    <2> QED
      BY <2>1, <2>2, <2>3, <2>4 DEF Preparing, trust, CheckPhases, Actors
  <1>3. ASSUME NEW a \in Actors, Resolve(a)
        PROVE  Preparing
    <2>1. UNCHANGED <<trust, subject>> /\ proven \subseteq proven'
      BY <1>3 DEF Resolve
    <2>2. \A b \in Actors : b # a => phase'[b] = phase[b]
      BY <1>3 DEF Resolve
    <2>3. /\ phase'[a] \in {"matched", "unmatched"} /\ phase[a] = "resolving"
          /\ phase'[a] = "matched" => subject[a] \in proven'
      BY <1>3 DEF Resolve, Matches
    <2> QED
      BY <2>1, <2>2, <2>3 DEF Preparing, trust, CheckPhases, Actors
  <1>4. ASSUME NEW a \in Actors, Abort(a) \/ EndExecution(a)
        PROVE  Preparing
    <2>1. \A b \in Actors : /\ phase'[b] = IF b = a THEN "idle" ELSE phase[b]
                            /\ b # a => subject'[b] = subject[b]
      BY <1>4 DEF Abort, EndExecution, Finish
    <2> QED
      BY <1>4, <2>1 DEF Abort, EndExecution, Preparing, trust, CheckPhases, Actors
  <1>5. ASSUME NEW a \in Actors, NEW c \in Challenges,
               BeginVerify(a, c) \/ BeginExecution(a, c)
        PROVE  Preparing
    <2>1. \A b \in Actors : b # a => phase'[b] = phase[b] /\ subject'[b] = subject[b]
      BY <1>5 DEF BeginVerify, BeginExecution
    <2>2. /\ phase'[a] \in {"late", "resolving"}
          /\ subject'[a] = c /\ challenge[c] = "pending"
      BY <1>5 DEF BeginVerify, BeginExecution, Pending
    <2> QED
      BY <1>5, <2>1, <2>2 DEF BeginVerify, BeginExecution, Preparing, trust, CheckPhases, Actors
  <1>6. ASSUME NEW w \in Workers, NEW c \in Challenges, ExpireChallenge(w, c)
        PROVE  Preparing
    BY <1>6 DEF ExpireChallenge, Pending, Preparing
  <1>7. ASSUME NEW c \in Challenges, EnqueueJob(c) \/ Publish(c) \/ Lapse(c)
        PROVE  Preparing
    BY <1>7 DEF EnqueueJob, Publish, Lapse, trust, Preparing
  <1>8. ASSUME NEW r \in Requests, RotateChallenge(r) \/ CreateSource(r)
        PROVE  Ending(r)
    <2>1. lock = r
      BY <1>8 DEF RotateChallenge, CreateSource, LockInv, LockedPhases
    <2> QED
      BY <1>8, <2>1 DEF RotateChallenge, CreateSource, Rotating, Registering
  <1>9. ASSUME NEW r \in Requests, FinishVerify(r)
        PROVE  Preparing \/ Ending(r)
    <2>1. r \in Actors /\ phase[r] \in CheckPhases /\ subject[r] \in Challenges /\ lock = r
      BY <1>9 DEF FinishVerify, LockInv, LockedPhases, CheckPhases, Actors
    <2>2. CASE phase[r] = "matched"
      BY <1>9, <2>1, <2>2 DEF FinishVerify, Verifying
    <2>3. CASE phase[r] # "matched"
      <3>1. challenge[subject[r]] \in {"pending", "expired"}
        BY <2>1 DEF KnownInv
      <3>2. \A c \in Challenges :
              \/ challenge'[c] = challenge[c]
              \/ challenge[c] = "pending" /\ challenge'[c] = "expired"
        BY <1>9, <2>1, <2>3, <3>1 DEF FinishVerify, trust
      <3>3. \A b \in Actors : /\ phase'[b] = IF b = r THEN "idle" ELSE phase[b]
                              /\ b # r => subject'[b] = subject[b]
        BY <1>9 DEF FinishVerify, Finish
      <3>4. UNCHANGED <<project_verified, source, proven>>
        BY <1>9, <2>3 DEF FinishVerify, trust
      <3> QED
        BY <3>2, <3>3, <3>4 DEF Preparing, CheckPhases, Actors
    <2> QED
      BY <2>2, <2>3
  <1>10. ASSUME NEW w \in Workers, WriteVerified(w)
         PROVE  Ending(w)
    <2>1. subject[w] \in Challenges
      BY <1>10 DEF WriteVerified, Actors
    <2>2. CASE Pending(subject[w])
      BY <1>10, <2>1, <2>2 DEF WriteVerified, Verifying
    <2>3. CASE ~ Pending(subject[w])
      <3>1. challenge' = challenge
        BY <1>10, <2>1, <2>3 DEF WriteVerified
      <3> QED
        BY <1>10, <2>1, <3>1 DEF WriteVerified, Verifying
    <2> QED
      BY <2>2, <2>3
  <1> QED
    BY <1>1, <1>2, <1>3, <1>4, <1>5, <1>6, <1>7, <1>8, <1>9, <1>10
       DEF Next, Settles, Executes, Actors

-----------------------------------------------------------------------------
(* Invariants *)

TrustInv == TypeInv /\ KnownInv /\ SourcesFollowProject /\ TrustIsProven

LEMMA InitTrustInv == Init => TrustInv
  BY InitTypeInv
     DEF TrustInv, Init, KnownInv, CheckPhases, SourcesFollowProject, TrustIsProven, Actors

\* What holds between transactions is not disturbed before the next one ends.
LEMMA PreparingKeeps ==
  ASSUME TrustInv, TypeInv', Preparing
  PROVE  TrustInv'
  <1> USE DEF TrustInv
  <1>1. KnownInv'
    <2>1. \A r \in Requests : subject'[r] \in Challenges \/ phase'[r] \notin CheckPhases
      BY DEF TypeInv, TypeOK, CheckPhases, Actors
    <2>2. \A r \in Requests :
            phase'[r] \in CheckPhases => challenge'[subject'[r]] \in {"pending", "expired"}
      BY <2>1 DEF Preparing, KnownInv
    <2>3. \A a \in Actors : phase'[a] = "matched" => subject'[a] \in proven'
      BY DEF Preparing, KnownInv
    <2>4. \A r \in Requests : /\ phase'[r] = "trusted" => project_verified'
                              /\ phase'[r] = "untrusted" => ~ project_verified'
      BY DEF Preparing, KnownInv
    <2> QED
      BY <2>2, <2>3, <2>4 DEF KnownInv
  <1>2. SourcesFollowProject'
    BY DEF Preparing, SourcesFollowProject
  <1>3. TrustIsProven'
    BY DEF Preparing, TrustIsProven
  <1> QED
    BY <1>1, <1>2, <1>3

\* Who holds the lock, or finds it free, is alone in having read the project or
\* a challenge: nobody else's reading is spoilt by what it writes.
LEMMA AloneUnderLock ==
  ASSUME TypeInv, NEW a \in Actors, lock = a \/ lock = None, Finish(a)
  PROVE  \A r \in Requests : phase'[r] \notin LockedPhases
  <1> TAKE r \in Requests
  <1>1. CASE r = a
    BY <1>1, PhaseSets DEF Finish, TypeInv, TypeOK
  <1>2. CASE r # a
    BY <1>2, ActorsAssumption DEF Finish, TypeInv, TypeOK, LockInv, Actors
  <1> QED
    BY <1>1, <1>2

LEMMA EndingKeepsKnown ==
  ASSUME TypeInv, KnownInv, NEW a \in Actors, lock = a \/ lock = None, Finish(a),
         UNCHANGED proven
  PROVE  KnownInv'
  <1>1. \A r \in Requests : phase'[r] \notin LockedPhases
    BY AloneUnderLock
  <1>2. \A r \in Requests :
          phase'[r] \notin CheckPhases /\ phase'[r] # "trusted" /\ phase'[r] # "untrusted"
    BY <1>1 DEF CheckPhases, LockedPhases
  <1>3. \A b \in Actors : phase'[b] = "matched" => phase[b] = "matched" /\ subject'[b] = subject[b]
    BY DEF Finish, TypeInv, TypeOK
  <1> QED
    BY <1>2, <1>3 DEF KnownInv

LEMMA RotatingKeeps ==
  ASSUME TrustInv, NEW r \in Requests, Rotating(r)
  PROVE  SourcesFollowProject' /\ TrustIsProven'
  BY DEF TrustInv, Rotating, SourcesFollowProject, TrustIsProven

LEMMA RegisteringKeeps ==
  ASSUME TrustInv, NEW r \in Requests, Registering(r)
  PROVE  SourcesFollowProject' /\ TrustIsProven'
  <1>1. phase[r] = "trusted" <=> project_verified
    BY DEF Registering, TrustInv, KnownInv
  <1>2. SourcesFollowProject'
    BY <1>1 DEF Registering, TrustInv, SourcesFollowProject, TypeInv, TypeOK
  <1> QED
    BY <1>2 DEF Registering, TrustInv, TrustIsProven

LEMMA VerifyingKeeps ==
  ASSUME TrustInv, NEW a \in Actors, Verifying(a)
  PROVE  SourcesFollowProject' /\ TrustIsProven'
  <1>1. subject[a] \in proven
    BY DEF Verifying, TrustInv, KnownInv
  <1>2. \A c \in Challenges : challenge'[c] = "verified" => c \in proven
    BY <1>1 DEF Verifying, TrustInv, TrustIsProven, TypeInv, TypeOK
  <1>3. TrustIsProven'
    BY <1>1, <1>2 DEF Verifying, TrustIsProven
  <1>4. SourcesFollowProject'
    BY DEF Verifying, Promote, TrustInv, SourcesFollowProject, TypeInv, TypeOK
  <1> QED
    BY <1>3, <1>4

LEMMA TrustInvStep == TrustInv /\ [Next]_vars => TrustInv'
  <1> SUFFICES ASSUME TrustInv, [Next]_vars PROVE TrustInv'
    OBVIOUS
  <1>1. TypeInv'
    BY TypeInvStep DEF TrustInv
  <1>2. CASE Preparing
    BY <1>1, <1>2, PreparingKeeps
  <1>3. ASSUME NEW a \in Actors, Finish(a),
               (a \in Requests /\ (Rotating(a) \/ Registering(a))) \/ Verifying(a)
        PROVE  TrustInv'
    <2>1. KnownInv'
      BY <1>3, EndingKeepsKnown DEF TrustInv, Rotating, Registering, Verifying
    <2> QED
      BY <1>1, <1>3, <2>1, RotatingKeeps, RegisteringKeeps, VerifyingKeeps DEF TrustInv
  <1> QED
    BY <1>2, <1>3, StepCases DEF TrustInv

\* Sources are trusted exactly when their project is and they are its own,
\* whoever verifies and registers at the same time.
THEOREM SourcesFollow == Spec => []SourcesFollowProject
  <1>1. TrustInv => SourcesFollowProject
    BY DEF TrustInv
  <1> QED
    BY <1>1, InitTrustInv, TrustInvStep, PTL DEF Spec

\* Nothing is verified that DNS did not confirm.
THEOREM TrustComesFromDNS == Spec => []TrustIsProven
  <1>1. TrustInv => TrustIsProven
    BY DEF TrustInv
  <1> QED
    BY <1>1, InitTrustInv, TrustInvStep, PTL DEF Spec

\* A superseded or verified challenge never changes again: a request verifies
\* under the lock what nobody can have rotated, a worker only what is pending.
THEOREM RotationStays == Spec => RotationIsFinal
  <1> DEFINE Final == \A c \in Challenges :
               challenge[c] \in {"superseded", "verified"} => challenge'[c] = challenge[c]
  <1>1. TrustInv /\ [Next]_vars => [Final]_vars
    <2> SUFFICES ASSUME TrustInv, [Next]_vars PROVE Final
      OBVIOUS
    <2>1. CASE Preparing
      BY <2>1 DEF Preparing
    <2>2. ASSUME NEW a \in Actors, Rotating(a) \/ Registering(a)
          PROVE  Final
      BY <2>2 DEF Rotating, Registering, Pending
    <2>3. ASSUME NEW a \in Actors, Verifying(a)
          PROVE  Final
      <3>1. CASE a \in Requests
        BY <2>3, <3>1 DEF Verifying, TrustInv, KnownInv, CheckPhases, TypeInv, TypeOK
      <3>2. CASE a \notin Requests
        BY <2>3, <3>2 DEF Verifying, TrustInv, TypeInv, TypeOK, Pending
      <3> QED
        BY <3>1, <3>2
    <2> QED
      BY <2>1, <2>2, <2>3, StepCases DEF TrustInv
  <1> QED
    BY <1>1, InitTrustInv, TrustInvStep, PTL DEF Spec, RotationIsFinal
-----------------------------------------------------------------------------
(* The lifecycle implemented *)

\* What is under check was given out.
IssuedInv == \A a \in Actors : subject[a] # None => challenge[subject[a]] # "absent"

\* A challenge that was given out stays given out, and only a pending one comes under check.
LEMMA IssuedStep ==
  ASSUME TypeInv, IssuedInv, [Next]_vars
  PROVE  IssuedInv'
  <1> USE DEF TypeInv, TypeOK
  <1>1. \A c \in Challenges : challenge[c] # "absent" => challenge'[c] # "absent"
    BY DEF Next, vars, trust, Arrive, GetsLock, LockForRotation, LockForSource, Settles,
           RotateChallenge, CreateSource, Resolve, FinishVerify, Abort, BeginVerify, Executes,
           WriteVerified, EndExecution, BeginExecution, ExpireChallenge, EnqueueJob, Publish, Lapse
  <1>2. ASSUME NEW a \in Actors, subject'[a] # None
        PROVE  subject'[a] = subject[a] \/ challenge[subject'[a]] = "pending"
    BY <1>2 DEF Next, vars, Arrive, GetsLock, LockForRotation, LockForSource, Settles,
           RotateChallenge, CreateSource, Resolve, FinishVerify, Abort, BeginVerify, Executes,
           WriteVerified, EndExecution, BeginExecution, ExpireChallenge, EnqueueJob, Publish,
           Lapse, Finish, Pending, Actors
  <1>3. TypeInv'
    BY TypeInvStep
  <1> QED
    BY <1>1, <1>2, <1>3 DEF IssuedInv

\* What no step of the lifecycle is needed for.
Unseen == UNCHANGED <<challenge, project_verified, source, proven>>

\* An answer of DNS shows a token, or nothing.
LEMMA ResolveRefines ==
  ASSUME TrustInv, IssuedInv, NEW a \in Actors, Resolve(a)
  PROVE  Lifecycle!DomainNext \/ Unseen
  <1> USE DEF TrustInv, TypeInv, TypeOK
  <1>1. subject[a] \in Challenges /\ challenge[subject[a]] # "absent"
    BY DEF Resolve, IssuedInv
  <1>2. CASE subject[a] \in dns
    <2>1. Lifecycle!Show(subject[a])
      BY <1>1, <1>2 DEF Resolve, trust, Lifecycle!Show
    <2> QED
      BY <1>1, <2>1 DEF Lifecycle!DomainNext
  <1>3. CASE subject[a] \notin dns
    BY <1>3 DEF Resolve, trust, Unseen
  <1> QED
    BY <1>2, <1>3

\* A request under the lock is one step: what it read before is still so.
LEMMA RequestRefines ==
  ASSUME TrustInv, IssuedInv, NEW r \in Requests, Settles(r)
  PROVE  Lifecycle!DomainNext \/ Unseen
  <1> USE DEF TrustInv, TypeInv, TypeOK
  <1>1. r \in Actors
    BY DEF Actors
  <1>2. CASE RotateChallenge(r)
    <2>1. \E c \in Challenges : Lifecycle!Issue(c)
      BY <1>2 DEF RotateChallenge, Lifecycle!Issue, Pending
    <2> QED
      BY <2>1 DEF Lifecycle!DomainNext
  <1>3. CASE CreateSource(r)
    <2>1. phase[r] = "trusted" <=> project_verified
      BY <1>3 DEF CreateSource, KnownInv
    <2>2. \E s \in Sources : Lifecycle!Register(s)
      BY <1>3, <2>1 DEF CreateSource, Lifecycle!Register
    <2> QED
      BY <2>2 DEF Lifecycle!DomainNext
  <1>4. CASE FinishVerify(r)
    <2> DEFINE c == subject[r]
    <2>1. c \in Challenges /\ challenge[c] \in {"pending", "expired"}
      BY <1>1, <1>4 DEF FinishVerify, KnownInv, CheckPhases
    <2>2. CASE phase[r] = "matched"
      <3>1. c \in proven
        BY <1>1, <2>2 DEF KnownInv
      <3>2. Lifecycle!Verify(c)
        BY <1>4, <2>1, <2>2, <3>1 DEF FinishVerify, Lifecycle!Verify, Lifecycle!Trusting, Promote
      <3> QED
        BY <2>1, <3>2 DEF Lifecycle!DomainNext
    <2>3. CASE phase[r] = "late" /\ challenge[c] = "pending"
      <3>1. Lifecycle!ExpirePending(c)
        BY <1>4, <2>1, <2>3 DEF FinishVerify, Lifecycle!ExpirePending
      <3> QED
        BY <2>1, <3>1 DEF Lifecycle!DomainNext
    <2>4. CASE phase[r] = "late" /\ challenge[c] = "expired"
      BY <1>4, <2>1, <2>4 DEF FinishVerify, Unseen
    <2>5. CASE phase[r] = "unmatched"
      BY <1>4, <2>5 DEF FinishVerify, trust, Unseen
    <2> QED
      BY <1>4, <2>1, <2>2, <2>3, <2>4, <2>5 DEF FinishVerify
  <1>5. CASE Abort(r)
    BY <1>5 DEF Abort, trust, Unseen
  <1> QED
    BY <1>2, <1>3, <1>4, <1>5, ResolveRefines, <1>1 DEF Settles

\* A job's write verifies its challenge, or confirms the trust of one no longer pending.
LEMMA WorkerRefines ==
  ASSUME TrustInv, IssuedInv, NEW w \in Workers, Executes(w)
  PROVE  Lifecycle!DomainNext \/ Unseen
  <1> USE DEF TrustInv, TypeInv, TypeOK
  <1> DEFINE c == subject[w]
  <1>1. w \in Actors
    BY DEF Actors
  <1>2. CASE WriteVerified(w)
    <2>1. c \in Challenges /\ challenge[c] # "absent" /\ c \in proven
      BY <1>1, <1>2 DEF WriteVerified, IssuedInv, KnownInv
    <2>2. CASE Pending(c)
      <3>1. Lifecycle!Verify(c)
        BY <1>2, <2>1, <2>2
           DEF WriteVerified, Pending, Lifecycle!Verify, Lifecycle!Trusting, Promote
      <3> QED
        BY <2>1, <3>1 DEF Lifecycle!DomainNext
    <2>3. CASE ~ Pending(c)
      <3>1. Lifecycle!Confirm(c)
        BY <1>2, <2>1, <2>3
           DEF WriteVerified, Pending, Lifecycle!Confirm, Lifecycle!Trusting, Promote
      <3> QED
        BY <2>1, <3>1 DEF Lifecycle!DomainNext
    <2> QED
      BY <2>2, <2>3
  <1>3. CASE EndExecution(w)
    BY <1>3 DEF EndExecution, trust, Unseen
  <1> QED
    BY <1>1, <1>2, <1>3, ResolveRefines DEF Executes

\* Every transaction is a step of the lifecycle, or invisible to it.
LEMMA StepRefines ==
  ASSUME TrustInv, IssuedInv, [Next]_vars
  PROVE  Lifecycle!DomainNext \/ Unseen
  <1>1. ASSUME NEW r \in Requests,
               Arrive(r) \/ GetsLock(r) \/ \E c \in Challenges : BeginVerify(r, c)
        PROVE  Unseen
    BY <1>1 DEF Arrive, GetsLock, LockForRotation, LockForSource, BeginVerify, trust, Unseen
  <1>2. ASSUME NEW w \in Workers, NEW c \in Challenges, BeginExecution(w, c)
        PROVE  Unseen
    BY <1>2 DEF BeginExecution, trust, Unseen
  <1>3. ASSUME NEW w \in Workers, NEW c \in Challenges, ExpireChallenge(w, c)
        PROVE  Lifecycle!DomainNext
    <2>1. Lifecycle!ExpirePending(c)
      BY <1>3 DEF ExpireChallenge, Pending, Lifecycle!ExpirePending
    <2> QED
      BY <2>1 DEF Lifecycle!DomainNext
  <1>4. ASSUME NEW c \in Challenges, EnqueueJob(c) \/ Publish(c) \/ Lapse(c)
        PROVE  Unseen
    BY <1>4 DEF EnqueueJob, Publish, Lapse, trust, Unseen
  <1>5. CASE UNCHANGED vars
    BY <1>5 DEF vars, trust, Unseen
  <1> QED
    BY <1>1, <1>2, <1>3, <1>4, <1>5, RequestRefines, WorkerRefines DEF Next

\* Rotation, verification and registration behave as if each were done at once when
\* it commits, for any number of requests and workers (routes.py, worker.py).
THEOREM TrustImplementsLifecycle == Spec => ImplementsDomainLifecycle
  <1>1. Init => Lifecycle!Start
    BY DEF Init, Lifecycle!Start
  <1>2. Init => TrustInv /\ IssuedInv
    BY InitTrustInv DEF Init, IssuedInv
  <1>3. TrustInv /\ IssuedInv /\ [Next]_vars => TrustInv' /\ IssuedInv'
    BY TrustInvStep, IssuedStep DEF TrustInv
  <1>4. TrustInv /\ IssuedInv /\ [Next]_vars => [Lifecycle!DomainNext]_(Lifecycle!domain)
    BY StepRefines DEF Unseen, Lifecycle!domain
  <1> QED
    BY <1>1, <1>2, <1>3, <1>4, PTL
       DEF Spec, ImplementsDomainLifecycle, Lifecycle!DomainSpec
=============================================================================
