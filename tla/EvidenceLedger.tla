--------------------------- MODULE EvidenceLedger ---------------------------
(***************************************************************************)
(* The observed evidence of one project: the collectors' requests that     *)
(* ingest it under an idempotency key (backend/app/v2/routes.py), the      *)
(* collection jobs that insert it without one (worker.py), and the         *)
(* retention passes that delete it and leave receipts (migration 0007).    *)
(*                                                                         *)
(* A request is cut where it waits: for the advisory lock of its key, for  *)
(* the one of its provider request, and at the insertion, which waits for  *)
(* uncommitted rows with the same unique key.  The response is sent before *)
(* the session commits.                                                    *)
(***************************************************************************)
EXTENDS Integers, FiniteSets

CONSTANTS
  Requests,         \* ingest requests, repetitions included
  Jobs,             \* evidence_collection jobs
  Executors,        \* workers that run retention passes
  Keys,             \* values of the Idempotency-Key header
  Contents,         \* request_hash: what a collector submits
  ProviderIds,      \* provider and provider_request_id
  NoId,             \* provider_request_id IS NULL
  ProviderRequest,  \* [Contents -> ProviderIds \cup {NoId}]: hashed with the rest
  BatchLimit,       \* PSYCHS_RETENTION_CLEANUP_BATCH_SIZE
  None

ASSUME ContentAssumption ==
  /\ NoId \notin ProviderIds
  /\ ProviderRequest \in [Contents -> ProviderIds \cup {NoId}]
ASSUME JobsAssumption == Jobs \cap (Requests \cup Keys \cup Contents) = {}
ASSUME BatchAssumption == BatchLimit \in Nat \ {0}

Actors == Requests \cup Jobs

\* A row of evidence_observations.  Jobs hash their own id and use it as key.
Observations ==
  [key: Keys \cup Jobs, content: Contents \cup Jobs, id: ProviderIds \cup {NoId}]

NoObservation == [key |-> None, content |-> None, id |-> NoId]

VARIABLES
  ledger,    \* the committed rows of evidence_observations
  expired,   \* those with retention_expires_at <= now()
  audited,   \* audit_events with action evidence_observation.created
  receipts,  \* the sum of evidence_retention_events.deleted_count
  phase,     \* where each request and job is
  draft,     \* the row it means to insert
  answer,    \* the response of each request
  about,     \* the row that response is about
  batch      \* the rows each retention pass has deleted and not committed

store == <<ledger, expired, audited, receipts>>
replies == <<answer, about>>
vars == <<store, phase, draft, replies, batch>>

\* The phases in which a request holds the lock of its key, and among them those
\* in which it has the lock of its provider request, if it names one.
CheckedPhases == {"checked", "inserted", "answered"}

\* Variant: a lock of the session, which outlives the transaction.
KeyedForSession == CheckedPhases \cup {"keyed", "done", "lost"}

KeyedPhases == CheckedPhases \cup {"keyed"}
Uncommitted == {"inserted", "answered"}

Init ==
  /\ ledger = {} /\ expired = {} /\ audited = 0 /\ receipts = 0
  /\ phase = [a \in Actors |-> "idle"]
  /\ draft = [a \in Actors |-> NoObservation]
  /\ answer = [r \in Requests |-> "none"]
  /\ about = [r \in Requests |-> NoObservation]
  /\ batch = [e \in Executors |-> {}]

Enter(a, p) == phase' = [phase EXCEPT ![a] = p]

-----------------------------------------------------------------------------
(* Ingestion *)

\* A request past the rate limit and the age of the observation.
Arrive(r) ==
  /\ phase[r] = "idle"
  /\ \E k \in Keys, c \in Contents :
       draft' = [draft EXCEPT ![r] = [key |-> k, content |-> c, id |-> ProviderRequest[c]]]
  /\ Enter(r, "arrived")
  /\ UNCHANGED <<store, replies, batch>>

Respond(r, status, o) ==
  /\ answer' = [answer EXCEPT ![r] = status]
  /\ about' = [about EXCEPT ![r] = o]

\* An observation found is returned if it has the hash of the request, and a 409
\* otherwise; the transaction ends and frees the locks.
AnswerFrom(r, o) ==
  /\ Respond(r, IF o.content = draft[r].content THEN "replayed" ELSE "conflict", o)
  /\ Enter(r, "done")
  /\ UNCHANGED <<store, draft, batch>>

KeyLocked(k) == \E r \in Requests : phase[r] \in KeyedPhases /\ draft[r].key = k

IdLocked(i) == \E r \in Requests : phase[r] \in CheckedPhases /\ draft[r].id = i

\* The phase of a request whose key is new.
AfterKey(r) == IF draft[r].id = NoId THEN "checked" ELSE "keyed"

\* The advisory lock of the key, and the lookup behind it.
LockKey(r) ==
  LET found == {o \in ledger : o.key = draft[r].key} IN
  /\ phase[r] = "arrived" /\ ~ KeyLocked(draft[r].key)
  /\ \/ \E o \in found : AnswerFrom(r, o)
     \/ /\ found = {}
        /\ Enter(r, AfterKey(r))
        /\ UNCHANGED <<store, draft, replies, batch>>

\* Variant: the provider request is looked up without its advisory lock.
AnyIdFree(i) == TRUE

IdFree(i) == ~ IdLocked(i)

\* The advisory lock of the provider request, and the lookup behind it.
LockProviderRequest(r) ==
  LET found == {o \in ledger : o.id = draft[r].id} IN
  /\ phase[r] = "keyed" /\ IdFree(draft[r].id)
  /\ \/ \E o \in found : AnswerFrom(r, o)
     \/ /\ found = {}
        /\ Enter(r, "checked")
        /\ UNCHANGED <<store, draft, replies, batch>>

-----------------------------------------------------------------------------
(* Insertion, by requests and jobs *)

\* The provider answers a job.
Collect(j) ==
  /\ phase[j] = "idle"
  /\ \E i \in ProviderIds :
       draft' = [draft EXCEPT ![j] = [key |-> j, content |-> j, id |-> i]]
  /\ Enter(j, "checked")
  /\ UNCHANGED <<store, replies, batch>>

\* Variant: no unique index on the provider request.
ClashOnKey(o, p) == o.key = p.key

\* uq_evidence_idempotency and the partial uq_evidence_provider_request.
Clash(o, p) == o.key = p.key \/ (o.id = p.id /\ o.id # NoId)

Colliding(a) == {o \in ledger : Clash(o, draft[a])}

\* The insertion waits while a row it clashes with, inserted or deleted, is not
\* committed.
InsertReady(a) ==
  /\ phase[a] = "checked"
  /\ \A b \in Actors \ {a} : phase[b] \in Uncommitted => ~ Clash(draft[b], draft[a])
  /\ \A e \in Executors : batch[e] \cap Colliding(a) = {}

Insert(a) ==
  /\ InsertReady(a) /\ Colliding(a) = {}
  /\ Enter(a, "inserted")
  /\ UNCHANGED <<store, draft, replies, batch>>

\* A unique index refuses the row: the request has no handler for it (500) and
\* rolls back; the job rolls back to a savepoint and fails permanently.
InsertRefused(a) ==
  /\ InsertReady(a)
  /\ \E o \in Colliding(a) :
       IF a \in Requests THEN Respond(a, "error", o) ELSE UNCHANGED replies
  /\ Enter(a, "done")
  /\ UNCHANGED <<store, draft, batch>>

\* 201, while the session is still open.
Created(r) ==
  /\ phase[r] = "inserted"
  /\ Respond(r, "created", draft[r])
  /\ Enter(r, "answered")
  /\ UNCHANGED <<store, draft, batch>>

\* The row and its audit event commit together.
Commit(a) ==
  /\ phase[a] = IF a \in Requests THEN "answered" ELSE "inserted"
  /\ ledger' = ledger \cup {draft[a]}
  /\ audited' = audited + 1
  /\ Enter(a, "done")
  /\ UNCHANGED <<expired, receipts, draft, replies, batch>>

\* The process or its connection dies, or the transaction fails; a client that has an answer keeps it.
Lose(a) ==
  /\ phase[a] \notin {"idle", "done", "lost"}
  /\ Enter(a, "lost")
  /\ UNCHANGED <<store, draft, replies, batch>>

\* Another attempt of a job (JobQueue): nothing of the lost one is stored.
Retry(j) ==
  /\ phase[j] = "lost"
  /\ Enter(j, "idle")
  /\ UNCHANGED <<store, draft, replies, batch>>

-----------------------------------------------------------------------------
(* Retention *)

Expire(o) ==
  /\ o \in ledger \ expired
  /\ expired' = expired \cup {o}
  /\ UNCHANGED <<ledger, audited, receipts, phase, draft, replies, batch>>

\* Variants: a pass counts rows another pass is deleting, or deletes only what
\* collectors sent.
CandidatesLockedToo == expired
CandidatesOfCollectors == {o \in expired : o.key \in Keys} \ UNION {batch[e] : e \in Executors}

\* FOR UPDATE SKIP LOCKED over the expired rows.
Candidates == expired \ UNION {batch[e] : e \in Executors}

\* A pass deletes the oldest candidates; how they rank is left open.
Purge(e) ==
  /\ batch[e] = {}
  /\ \E S \in SUBSET Candidates :
       /\ Cardinality(S) <= BatchLimit
       /\ S = Candidates \/ Cardinality(S) = BatchLimit
       /\ batch' = [batch EXCEPT ![e] = S]
  /\ UNCHANGED <<store, phase, draft, replies>>

\* The deletion and the receipt that counts it.
CommitPurge(e) ==
  /\ batch[e] # {}
  /\ ledger' = ledger \ batch[e]
  /\ expired' = expired \ batch[e]
  /\ receipts' = receipts + Cardinality(batch[e])
  /\ batch' = [batch EXCEPT ![e] = {}]
  /\ UNCHANGED <<audited, phase, draft, replies>>

AbortPurge(e) ==
  /\ batch[e] # {}
  /\ batch' = [batch EXCEPT ![e] = {}]
  /\ UNCHANGED <<store, phase, draft, replies>>

-----------------------------------------------------------------------------
(* The specification *)

Next ==
  \/ \E r \in Requests : Arrive(r) \/ LockKey(r) \/ LockProviderRequest(r) \/ Created(r)
  \/ \E j \in Jobs : Collect(j) \/ Retry(j)
  \/ \E a \in Actors : Insert(a) \/ InsertRefused(a) \/ Commit(a) \/ Lose(a)
  \/ \E o \in ledger : Expire(o)
  \/ \E e \in Executors : Purge(e) \/ CommitPurge(e) \/ AbortPurge(e)

\* PostgreSQL queues those who wait for a lock or for a row; who has inserted goes
\* on or dies.  Workers repeat their passes, and not every one is lost.
Finishes(a) == Commit(a) \/ (phase[a] \in Uncommitted /\ Lose(a))

Fairness ==
  /\ \A r \in Requests :
       /\ SF_vars(LockKey(r)) /\ SF_vars(LockProviderRequest(r))
       /\ WF_vars(Created(r) \/ Finishes(r))
  /\ \A j \in Jobs : WF_vars(Finishes(j))
  /\ \A a \in Actors : SF_vars(Insert(a) \/ InsertRefused(a))
  /\ \A e \in Executors : WF_vars(Purge(e)) /\ SF_vars(CommitPurge(e))

Spec == Init /\ [][Next]_vars
FairSpec == Spec /\ Fairness

-----------------------------------------------------------------------------
(* Properties *)

\* Every variable has its type; rows under deletion are expired ones, and no two
\* passes delete the same.
TypeOK ==
  /\ ledger \subseteq Observations /\ expired \subseteq ledger
  /\ audited \in Nat /\ receipts \in Nat
  /\ phase \in [Actors -> KeyedPhases \cup {"idle", "arrived", "done", "lost"}]
  /\ draft \in [Actors -> Observations \cup {NoObservation}]
  /\ answer \in [Requests -> {"none", "created", "replayed", "conflict", "error"}]
  /\ about \in [Requests -> Observations \cup {NoObservation}]
  /\ batch \in [Executors -> SUBSET expired]
  /\ \A e, f \in Executors : e # f => batch[e] \cap batch[f] = {}

\* No two retained observations have the same key, or come from the same request
\* to the provider, whether a collector or a job delivered them.
ObservedOnce ==
  \A o, p \in ledger : o.key = p.key \/ (o.id = p.id /\ o.id # NoId) => o = p

\* The advisory locks keep requests from running into each other's unique
\* indexes: an ingest request that fails with a server error met the row of a
\* collection job, which takes no lock.
OnlyJobsCollide == \A r \in Requests : answer[r] = "error" => about[r].key \in Jobs

\* What was audited as created is in the ledger or counted in a receipt, however
\* the passes of several workers overlap with each other and with crashes.
ReceiptsReconcile == audited = Cardinality(ledger) + receipts

\* An observation leaves the ledger only when its retention has run out.
Immutable == [][\A o \in ledger : o \in ledger' \/ o \in expired]_vars

\* How far a request or job is, seen from outside.
Standing(p) ==
  CASE p = "idle" -> "idle" [] p = "done" -> "closed" [] p = "lost" -> "lost" [] OTHER -> "open"

Store == INSTANCE EvidenceStore WITH
  Rows <- Observations, NoRow <- NoObservation,
  evidence <- ledger, lapsed <- expired, accepted <- audited, deleted <- receipts,
  standing <- [a \in Actors |-> Standing(phase[a])],
  submission <- draft, reply <- answer, subject <- about

\* Requests, jobs and passes take effect at one instant each, although they look up
\* first and insert later, wait for each other and overlap.
ImplementsStore == Store!StoreSpec

\* Every request that has arrived ends: the two advisory locks and the unique
\* indexes never make requests, jobs and passes wait for each other in a circle.
EveryRequestEnds ==
  \A a \in Actors : phase[a] # "idle" ~> phase[a] \in {"done", "lost"}

\* Every expired observation is deleted, although passes overlap and fail.
ExpiredIsDeleted ==
  \A k \in Keys \cup Jobs :
    (\E o \in expired : o.key = k) ~> (\A o \in expired : o.key # k)

\* docs/runbooks/evidence-collector.md:54 "reusing a key with different content
\* returns `409`": here for requests that ended and rows that were not deleted.
Served(r) == phase[r] = "done" /\ answer[r] \in {"created", "replayed"}

KeyNamesOneContent ==
  receipts = 0 =>
    \A q, r \in Requests :
      Served(q) /\ Served(r) /\ draft[q].key = draft[r].key => draft[q].content = draft[r].content
=============================================================================
