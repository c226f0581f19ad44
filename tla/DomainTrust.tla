---------------------------- MODULE DomainTrust ----------------------------
(***************************************************************************)
(* How one project earns trust in its domain: DNS challenges, the API      *)
(* requests that rotate and verify them and register sources (routes.py),  *)
(* and the workers that execute domain_verification jobs (worker.py).      *)
(*                                                                         *)
(* Everyone who changes trust takes the advisory lock                      *)
(* {tenant}:{project}:domain-verification and keeps it until commit; only  *)
(* the expiry a worker records does not.  DNS is asked outside any row     *)
(* lock, so a request or a worker is two or three steps.  The session's    *)
(* identity map gives an API request the challenge as it first read it.    *)
(* Retries of a job, its lease and its cancellation are in JobQueue: here  *)
(* an enqueued job may be executed at any time, by a stale worker as well. *)
(***************************************************************************)
EXTENDS FiniteSets

CONSTANTS
  Challenges,  \* identities of rows of domain_verification_challenges
  Sources,     \* identities of rows of authoritative_sources
  OwnSources,  \* those whose host is the domain or one of its subdomains
  Requests,    \* API requests in flight
  Workers,     \* executions of domain_verification jobs
  None         \* no lock holder, no challenge

Actors == Requests \cup Workers

ASSUME OwnSourcesAssumption == OwnSources \subseteq Sources
ASSUME ActorsAssumption == Requests \cap Workers = {} /\ None \notin Actors \cup Challenges

VARIABLES
  challenge,         \* challenges.status, "absent" before the row exists
  lapsed,            \* challenges with expires_at <= now()
  enqueued,          \* challenges with a domain_verification job
  project_verified,  \* projects.domain_verification_status = 'verified'
  source,            \* authoritative_sources.verification_status
  dns,               \* challenges whose token is a TXT record right now
  proven,            \* challenges whose token a resolver has ever returned
  lock,              \* holder of the project's advisory lock
  phase,             \* where each request or execution is
  subject            \* the challenge it works on

trust == <<challenge, project_verified, source>>
vars == <<trust, lapsed, enqueued, dns, proven, lock, phase, subject>>

ChallengeStatuses == {"absent", "pending", "verified", "expired", "superseded"}
WaitingPhases == {"rotate", "register"}
LockedPhases ==
  {"rotating", "trusted", "untrusted", "resolving", "matched", "unmatched", "late"}

Init ==
  /\ challenge = [c \in Challenges |-> "absent"]
  /\ lapsed = {}
  /\ enqueued = {}
  /\ project_verified = FALSE
  /\ source = [s \in Sources |-> "absent"]
  /\ dns = {}
  /\ proven = {}
  /\ lock = None
  /\ phase = [a \in Actors |-> "idle"]
  /\ subject = [a \in Actors |-> None]

Pending(c) == challenge[c] = "pending"

\* Variant: nobody waits for the advisory lock.
AcquireNothing(a) == UNCHANGED lock

\* pg_advisory_xact_lock, and pg_try_advisory_xact_lock where it succeeds.
Acquire(a) == lock = None /\ lock' = a

\* Variant: the lock belongs to the session and outlives the transaction.
FinishHolding(a) ==
  /\ phase' = [phase EXCEPT ![a] = "idle"]
  /\ subject' = [subject EXCEPT ![a] = None]
  /\ UNCHANGED lock

\* Variant: the challenge worked on is not forgotten.
FinishKeepingSubject(a) ==
  /\ lock' = IF lock = a THEN None ELSE lock
  /\ phase' = [phase EXCEPT ![a] = "idle"]
  /\ UNCHANGED subject

\* The end of a transaction: commit or rollback gives the lock back.
Finish(a) ==
  /\ lock' = IF lock = a THEN None ELSE lock
  /\ phase' = [phase EXCEPT ![a] = "idle"]
  /\ subject' = [subject EXCEPT ![a] = None]

\* The project's own sources become verified with it.
Promote ==
  [s \in Sources |-> IF s \in OwnSources /\ source[s] # "absent"
                     THEN "verified" ELSE source[s]]

-----------------------------------------------------------------------------
(* API requests *)

\* A request to rotate the challenge or to register a source arrives.
Arrive(r) ==
  /\ phase[r] = "idle"
  /\ \E p \in WaitingPhases : phase' = [phase EXCEPT ![r] = p]
  /\ UNCHANGED <<trust, lapsed, enqueued, dns, proven, lock, subject>>

\* create_domain_verification_challenge waits for the lock ...
LockForRotation(r) ==
  /\ phase[r] = "rotate"
  /\ Acquire(r)
  /\ phase' = [phase EXCEPT ![r] = "rotating"]
  /\ UNCHANGED <<trust, lapsed, enqueued, dns, proven, subject>>

\* ... supersedes what is pending and inserts the next challenge.
RotateChallenge(r) ==
  /\ phase[r] = "rotating"
  /\ \E c \in Challenges :
       /\ challenge[c] = "absent"
       /\ challenge' = [d \in Challenges |->
            IF d = c THEN "pending" ELSE IF Pending(d) THEN "superseded" ELSE challenge[d]]
  /\ Finish(r)
  /\ UNCHANGED <<project_verified, source, lapsed, enqueued, dns, proven>>

\* create_authoritative_source waits for the same lock, then reads the project.
LockForSource(r) ==
  /\ phase[r] = "register"
  /\ Acquire(r)
  /\ phase' = [phase EXCEPT ![r] = IF project_verified THEN "trusted" ELSE "untrusted"]
  /\ UNCHANGED <<trust, lapsed, enqueued, dns, proven, subject>>

\* A new source is born verified in a domain that was trusted when it was read.
CreateSource(r) ==
  /\ phase[r] \in {"trusted", "untrusted"}
  /\ \E s \in Sources :
       /\ source[s] = "absent"
       /\ source' = [source EXCEPT ![s] =
            IF phase[r] = "trusted" /\ s \in OwnSources THEN "verified" ELSE "unverified"]
  /\ Finish(r)
  /\ UNCHANGED <<challenge, project_verified, lapsed, enqueued, dns, proven>>

\* verify_domain_verification_challenge: a request that does not get the lock at
\* once is refused; a challenge that is not pending is returned as it is.
BeginVerify(r, c) ==
  /\ phase[r] = "idle"
  /\ Acquire(r)
  /\ Pending(c)
  /\ phase' = [phase EXCEPT ![r] = IF c \in lapsed THEN "late" ELSE "resolving"]
  /\ subject' = [subject EXCEPT ![r] = c]
  /\ UNCHANGED <<trust, lapsed, enqueued, dns, proven>>

\* The request's own copy of the challenge is still the pending one it began
\* with, so the re-check under FOR UPDATE always passes.
FinishVerify(r) ==
  LET c == subject[r] IN
  /\ \/ /\ phase[r] = "matched"
        /\ challenge' = [challenge EXCEPT ![c] = "verified"]
        /\ project_verified' = TRUE
        /\ source' = Promote
     \/ /\ phase[r] = "late"
        /\ challenge' = [challenge EXCEPT ![c] = "expired"]
        /\ UNCHANGED <<project_verified, source>>
     \/ /\ phase[r] = "unmatched"
        /\ UNCHANGED trust
  /\ Finish(r)
  /\ UNCHANGED <<lapsed, enqueued, dns, proven>>

\* A refusal (404, 409, 503) or a lost connection rolls a request back.
Abort(r) ==
  /\ phase[r] # "idle"
  /\ Finish(r)
  /\ UNCHANGED <<trust, lapsed, enqueued, dns, proven>>

\* enqueue_domain_verification_job: only for a challenge that is pending.
EnqueueJob(c) ==
  /\ Pending(c)
  /\ enqueued' = enqueued \cup {c}
  /\ UNCHANGED <<trust, lapsed, dns, proven, lock, phase, subject>>

-----------------------------------------------------------------------------
(* Workers: execute_domain_verification *)

Fresh(c) == c \notin lapsed

\* The challenge is read, without the advisory lock.
BeginExecution(w, c) ==
  /\ phase[w] = "idle"
  /\ c \in enqueued
  /\ Pending(c) /\ Fresh(c)
  /\ phase' = [phase EXCEPT ![w] = "resolving"]
  /\ subject' = [subject EXCEPT ![w] = c]
  /\ UNCHANGED <<trust, lapsed, enqueued, dns, proven, lock>>

\* A pending challenge past its deadline is expired, still without the lock.
ExpireChallenge(w, c) ==
  /\ phase[w] = "idle"
  /\ c \in enqueued
  /\ Pending(c) /\ ~ Fresh(c)
  /\ challenge' = [challenge EXCEPT ![c] = "expired"]
  /\ UNCHANGED <<project_verified, source, lapsed, enqueued, dns, proven, lock, phase, subject>>

\* Under the lock: the challenge is verified if it is still pending, the project
\* and its sources are verified in any case.
WriteVerified(w) ==
  LET c == subject[w] IN
  /\ phase[w] = "matched"
  /\ lock = None
  /\ challenge' = [challenge EXCEPT ![c] = IF Pending(c) THEN "verified" ELSE @]
  /\ project_verified' = TRUE
  /\ source' = Promote
  /\ Finish(w)
  /\ UNCHANGED <<lapsed, enqueued, dns, proven>>

\* No match, no answer, a crash: the job is retried or dead-lettered later.
EndExecution(w) ==
  /\ phase[w] # "idle"
  /\ Finish(w)
  /\ UNCHANGED <<trust, lapsed, enqueued, dns, proven>>

-----------------------------------------------------------------------------
(* DNS and time *)

\* Variant: any TXT record under the name counts.
AnyRecord(c) == dns # {}

Matches(c) == c \in dns

\* dns_txt_matches: the answer is that of the moment the resolver gives it.
Resolve(a) ==
  LET c == subject[a] IN
  /\ phase[a] = "resolving"
  /\ phase' = [phase EXCEPT ![a] = IF Matches(c) THEN "matched" ELSE "unmatched"]
  /\ proven' = IF c \in dns THEN proven \cup {c} ELSE proven
  /\ UNCHANGED <<trust, lapsed, enqueued, dns, lock, subject>>

\* The owner of the domain publishes a token it was given, or takes it down.
Publish(c) ==
  /\ challenge[c] # "absent"
  /\ dns' = IF c \in dns THEN dns \ {c} ELSE dns \cup {c}
  /\ UNCHANGED <<trust, lapsed, enqueued, proven, lock, phase, subject>>

\* Fifteen minutes pass.
Lapse(c) ==
  /\ challenge[c] # "absent" /\ c \notin lapsed
  /\ lapsed' = lapsed \cup {c}
  /\ UNCHANGED <<trust, enqueued, dns, proven, lock, phase, subject>>

GetsLock(r) == LockForRotation(r) \/ LockForSource(r)

Settles(r) == RotateChallenge(r) \/ CreateSource(r) \/ Resolve(r) \/ FinishVerify(r) \/ Abort(r)

Executes(w) == Resolve(w) \/ WriteVerified(w) \/ EndExecution(w)

Next ==
  \/ \E r \in Requests : Arrive(r) \/ GetsLock(r) \/ Settles(r)
  \/ \E r \in Requests, c \in Challenges : BeginVerify(r, c)
  \/ \E w \in Workers : Executes(w)
  \/ \E w \in Workers, c \in Challenges : BeginExecution(w, c) \/ ExpireChallenge(w, c)
  \/ \E c \in Challenges : EnqueueJob(c) \/ Publish(c) \/ Lapse(c)

\* The resolver answers or times out and a request then ends; PostgreSQL hands
\* the lock over in turn, so whoever waits for it gets it.
Fairness ==
  \A r \in Requests :
    /\ WF_vars(phase[r] \in LockedPhases /\ Settles(r))
    /\ SF_vars(GetsLock(r))

Spec == Init /\ [][Next]_vars
FairSpec == Spec /\ Fairness

-----------------------------------------------------------------------------
(* Properties *)

\* Every variable has its type, and exactly the actors that check a challenge
\* have one in hand.
TypeOK ==
  /\ challenge \in [Challenges -> ChallengeStatuses]
  /\ lapsed \subseteq Challenges
  /\ enqueued \subseteq Challenges
  /\ project_verified \in BOOLEAN
  /\ source \in [Sources -> {"absent", "unverified", "verified"}]
  /\ dns \subseteq Challenges
  /\ proven \subseteq Challenges
  /\ lock \in Requests \cup {None}
  /\ phase \in [Actors -> {"idle"} \cup WaitingPhases \cup LockedPhases]
  /\ subject \in [Actors -> Challenges \cup {None}]
  /\ \A a \in Actors :
       subject[a] # None <=> phase[a] \in {"resolving", "matched", "unmatched", "late"}

\* Sources are trusted exactly when their project is and they are its own: a
\* source registered while the domain is being verified is neither left behind
\* unverified nor verified without the domain, whoever commits first.
SourcesFollowProject ==
  \A s \in Sources :
    source[s] # "absent" =>
      (source[s] = "verified" <=> project_verified /\ s \in OwnSources)

\* Nothing is verified that DNS did not confirm: a challenge only by its own
\* token, the project only by a token of one of its challenges.
TrustIsProven ==
  /\ \A c \in Challenges : challenge[c] = "verified" => c \in proven
  /\ project_verified => proven # {}

\* One-time challenges: a rotated challenge stays superseded and a verified one
\* verified, however late a check of it that began earlier comes to its end.
RotationIsFinal ==
  [][\A c \in Challenges :
       challenge[c] \in {"superseded", "verified"} => challenge'[c] = challenge[c]]_vars

Lifecycle == INSTANCE DomainLifecycle WITH
  standing <- challenge, trusted <- project_verified, sources <- source, shown <- proven

\* Requests and jobs take effect at once, when they commit: what they read before
\* the lock, before DNS answered or in their session is as good as read then.
ImplementsDomainLifecycle == Lifecycle!DomainSpec

\* No request waits for ever on the domain lock, whatever the others do.
EveryRequestEnds == \A r \in Requests : phase[r] # "idle" ~> phase[r] = "idle"

\* "Lock the row before persisting the result": a challenge that was expired in
\* the meantime is not verified after all.
ExpiryIsFinal ==
  [][\A c \in Challenges : challenge[c] = "expired" => challenge'[c] = "expired"]_vars
=============================================================================
