----------------------- MODULE EvidenceLedger_proofs -----------------------
(***************************************************************************)
(* Proofs about EvidenceLedger for any requests, jobs, executors, keys,    *)
(* contents, provider requests and batch limit.                            *)
(***************************************************************************)
EXTENDS EvidenceLedger, FiniteSetTheorems, TLAPS

-----------------------------------------------------------------------------
(* Type correctness *)

\* Whoever is under way has a row to insert: a request under a client's key, a
\* job under its own.
DraftInv ==
  /\ \A r \in Requests : phase[r] # "idle" => draft[r] \in Observations /\ draft[r].key \in Keys
  /\ \A j \in Jobs : phase[j] # "idle" => draft[j] \in Observations /\ draft[j].key = j

TypeInv == TypeOK /\ DraftInv /\ IsFiniteSet(ledger)

LEMMA InitTypeInv == Init => TypeInv
  BY FS_EmptySet DEF Init, TypeInv, TypeOK, DraftInv, Actors

LEMMA ApartTypes == Requests \subseteq Actors /\ Jobs \subseteq Actors /\ Requests \cap Jobs = {}
  BY JobsAssumption DEF Actors

LEMMA PhaseSets ==
  /\ CheckedPhases = {"checked", "inserted", "answered"}
  /\ KeyedPhases = {"checked", "inserted", "answered", "keyed"}
  BY DEF CheckedPhases, KeyedPhases

\* The actor of a step moves to a phase, and the others stay as they are.
LEMMA EnterTypes ==
  ASSUME TypeInv, NEW a \in Actors, NEW p \in KeyedPhases \cup {"idle", "arrived", "done", "lost"},
         Enter(a, p)
  PROVE  /\ phase' \in [Actors -> KeyedPhases \cup {"idle", "arrived", "done", "lost"}]
         /\ \A b \in Actors : phase'[b] = IF b = a THEN p ELSE phase[b]
  BY DEF TypeInv, TypeOK, Enter

LEMMA AnswerTypes ==
  ASSUME TypeInv, NEW r \in Requests, phase[r] # "idle", NEW o \in ledger, AnswerFrom(r, o)
  PROVE  TypeInv'
  <1> USE DEF TypeInv, TypeOK
  <1>1. Enter(r, "done") /\ UNCHANGED <<store, draft, batch>>
    BY DEF AnswerFrom
  <1>2. /\ phase' \in [Actors -> KeyedPhases \cup {"idle", "arrived", "done", "lost"}]
        /\ \A b \in Actors : phase'[b] = IF b = r THEN "done" ELSE phase[b]
    BY <1>1, EnterTypes, ApartTypes
  <1>3. /\ answer' \in [Requests -> {"none", "created", "replayed", "conflict", "error"}]
        /\ about' \in [Requests -> Observations \cup {NoObservation}]
    BY DEF AnswerFrom, Respond
  <1>4. DraftInv'
    BY <1>1, <1>2, ApartTypes DEF DraftInv
  <1> QED
    BY <1>1, <1>2, <1>3, <1>4 DEF store

LEMMA RequestTypes ==
  ASSUME TypeInv, NEW r \in Requests,
         Arrive(r) \/ LockKey(r) \/ LockProviderRequest(r) \/ Created(r)
  PROVE  TypeInv'
  <1> USE DEF TypeInv, TypeOK
  <1>1. CASE Arrive(r)
    <2>1. PICK k \in Keys, c \in Contents :
            draft' = [draft EXCEPT ![r] = [key |-> k, content |-> c, id |-> ProviderRequest[c]]]
      BY <1>1 DEF Arrive
    <2> DEFINE d == [key |-> k, content |-> c, id |-> ProviderRequest[c]]
    <2>2. d \in Observations /\ d.key \in Keys
      BY ContentAssumption DEF Observations
    <2>3. \A b \in Actors : draft'[b] = IF b = r THEN d ELSE draft[b]
      BY <2>1
    <2>4. draft' \in [Actors -> Observations \cup {NoObservation}]
      BY <2>1, <2>2
    <2>5. /\ phase' \in [Actors -> KeyedPhases \cup {"idle", "arrived", "done", "lost"}]
          /\ \A b \in Actors : phase'[b] = IF b = r THEN "arrived" ELSE phase[b]
      BY <1>1, EnterTypes, ApartTypes DEF Arrive
    <2>6. DraftInv'
      BY <2>2, <2>3, <2>5, ApartTypes DEF DraftInv
    <2> QED
      BY <1>1, <2>4, <2>5, <2>6 DEF Arrive, store, replies
  <1>2. ASSUME NEW p \in KeyedPhases, phase[r] # "idle",
               Enter(r, p), UNCHANGED <<store, draft, replies, batch>>
        PROVE  TypeInv'
    <2>1. /\ phase' \in [Actors -> KeyedPhases \cup {"idle", "arrived", "done", "lost"}]
          /\ \A b \in Actors : phase'[b] = IF b = r THEN p ELSE phase[b]
      BY <1>2, EnterTypes, ApartTypes
    <2> QED
      BY <1>2, <2>1, ApartTypes DEF store, replies, DraftInv
  <1>3. CASE LockKey(r)
    <2>1. AfterKey(r) \in KeyedPhases
      BY PhaseSets DEF AfterKey
    <2> QED
      BY <1>2, <1>3, <2>1, AnswerTypes DEF LockKey
  <1>4. CASE LockProviderRequest(r)
    BY <1>2, <1>4, AnswerTypes, PhaseSets DEF LockProviderRequest
  <1>5. CASE Created(r)
    <2>1. /\ phase' \in [Actors -> KeyedPhases \cup {"idle", "arrived", "done", "lost"}]
          /\ \A b \in Actors : phase'[b] = IF b = r THEN "answered" ELSE phase[b]
      BY <1>5, EnterTypes, ApartTypes, PhaseSets DEF Created
    <2>2. /\ answer' \in [Requests -> {"none", "created", "replayed", "conflict", "error"}]
          /\ about' \in [Requests -> Observations \cup {NoObservation}]
      BY <1>5, ApartTypes DEF Created, Respond
    <2>3. phase[r] # "idle" /\ UNCHANGED <<store, draft, batch>>
      BY <1>5 DEF Created
    <2>4. DraftInv'
      BY <2>1, <2>3, ApartTypes DEF DraftInv
    <2> QED
      BY <2>1, <2>2, <2>3, <2>4 DEF store
  <1> QED
    BY <1>1, <1>3, <1>4, <1>5

LEMMA ActorTypes ==
  ASSUME TypeInv, NEW a \in Actors,
         \/ Insert(a) \/ InsertRefused(a) \/ Commit(a) \/ Lose(a)
         \/ a \in Jobs /\ (Collect(a) \/ Retry(a))
  PROVE  TypeInv'
  <1> USE DEF TypeInv, TypeOK
  <1>1. ASSUME NEW p \in KeyedPhases \cup {"idle", "arrived", "done", "lost"},
               phase[a] # "idle", Enter(a, p), UNCHANGED draft
        PROVE  /\ phase' \in [Actors -> KeyedPhases \cup {"idle", "arrived", "done", "lost"}]
               /\ DraftInv'
    <2>1. /\ phase' \in [Actors -> KeyedPhases \cup {"idle", "arrived", "done", "lost"}]
          /\ \A b \in Actors : phase'[b] = IF b = a THEN p ELSE phase[b]
      BY <1>1, EnterTypes
    <2> QED
      BY <1>1, <2>1, ApartTypes DEF DraftInv
  <1>2. CASE Insert(a)
    BY <1>1, <1>2, PhaseSets DEF Insert, InsertReady, store, replies
  <1>3. CASE InsertRefused(a)
    <2>1. phase[a] # "idle" /\ Enter(a, "done") /\ UNCHANGED <<store, draft, batch>>
      BY <1>3 DEF InsertRefused, InsertReady
    <2>2. /\ answer' \in [Requests -> {"none", "created", "replayed", "conflict", "error"}]
          /\ about' \in [Requests -> Observations \cup {NoObservation}]
      BY <1>3 DEF InsertRefused, Respond, Colliding, replies
    <2> QED
      BY <1>1, <2>1, <2>2 DEF store
  <1>4. CASE Commit(a)
    <2>1. /\ phase[a] # "idle" /\ Enter(a, "done")
          /\ ledger' = ledger \cup {draft[a]} /\ audited' = audited + 1
          /\ UNCHANGED <<expired, receipts, draft, replies, batch>>
      BY <1>4 DEF Commit
    <2>2. draft[a] \in Observations
      BY <2>1 DEF DraftInv, Actors
    <2>3. IsFiniteSet(ledger')
      BY <2>1, FS_AddElement
    <2> QED
      BY <1>1, <2>1, <2>2, <2>3 DEF replies
  <1>5. CASE Lose(a)
    BY <1>1, <1>5 DEF Lose, store, replies
  <1>6. CASE a \in Jobs /\ Collect(a)
    <2>1. PICK i \in ProviderIds :
            draft' = [draft EXCEPT ![a] = [key |-> a, content |-> a, id |-> i]]
      BY <1>6 DEF Collect
    <2> DEFINE d == [key |-> a, content |-> a, id |-> i]
    <2>2. d \in Observations /\ d.key = a
      BY <1>6 DEF Observations
    <2>3. \A b \in Actors : draft'[b] = IF b = a THEN d ELSE draft[b]
      BY <2>1
    <2>4. draft' \in [Actors -> Observations \cup {NoObservation}]
      BY <2>1, <2>2
    <2>5. /\ phase' \in [Actors -> KeyedPhases \cup {"idle", "arrived", "done", "lost"}]
          /\ \A b \in Actors : phase'[b] = IF b = a THEN "checked" ELSE phase[b]
      BY <1>6, EnterTypes, PhaseSets DEF Collect
    <2>6. DraftInv'
      BY <1>6, <2>2, <2>3, <2>5, ApartTypes DEF DraftInv
    <2> QED
      BY <1>6, <2>4, <2>5, <2>6 DEF Collect, store, replies
  <1>7. CASE a \in Jobs /\ Retry(a)
    BY <1>1, <1>7 DEF Retry, store, replies
  <1> QED
    BY <1>2, <1>3, <1>4, <1>5, <1>6, <1>7

LEMMA RetentionTypes ==
  ASSUME TypeInv,
         \/ \E o \in ledger : Expire(o)
         \/ \E e \in Executors : Purge(e) \/ CommitPurge(e) \/ AbortPurge(e)
  PROVE  TypeInv'
  <1> USE DEF TypeInv, TypeOK
  <1>1. ASSUME NEW o \in ledger, Expire(o)
        PROVE  TypeInv'
    BY <1>1 DEF Expire, replies, DraftInv
  <1>2. ASSUME NEW e \in Executors, Purge(e)
        PROVE  TypeInv'
    <2>1. PICK S \in SUBSET Candidates : batch' = [batch EXCEPT ![e] = S]
      BY <1>2 DEF Purge
    <2>2. S \subseteq expired /\ \A f \in Executors : S \cap batch[f] = {}
      BY DEF Candidates
    <2>3. /\ batch' \in [Executors -> SUBSET expired]
          /\ \A f \in Executors : batch'[f] = IF f = e THEN S ELSE batch[f]
      BY <2>1, <2>2
    <2>4. \A f, g \in Executors : f # g => batch'[f] \cap batch'[g] = {}
      BY <2>2, <2>3
    <2> QED
      BY <1>2, <2>3, <2>4 DEF Purge, store, replies, DraftInv
  <1>3. ASSUME NEW e \in Executors, CommitPurge(e)
        PROVE  TypeInv'
    <2>1. /\ ledger' = ledger \ batch[e] /\ expired' = expired \ batch[e]
          /\ receipts' = receipts + Cardinality(batch[e])
          /\ batch' = [batch EXCEPT ![e] = {}]
          /\ UNCHANGED <<audited, phase, draft, replies>>
      BY <1>3 DEF CommitPurge
    <2>2. \A f \in Executors : batch'[f] = IF f = e THEN {} ELSE batch[f]
      BY <2>1
    <2>3. batch' \in [Executors -> SUBSET expired']
      BY <2>1, <2>2
    <2>4. \A f, g \in Executors : f # g => batch'[f] \cap batch'[g] = {}
      BY <2>2
    <2>5. batch[e] \subseteq ledger
      OBVIOUS
    <2>6. IsFiniteSet(batch[e]) /\ IsFiniteSet(ledger') /\ Cardinality(batch[e]) \in Nat
      BY <2>1, <2>5, FS_Subset, FS_CardinalityType
    <2> QED
      BY <2>1, <2>3, <2>4, <2>6 DEF replies, DraftInv
  <1>4. ASSUME NEW e \in Executors, AbortPurge(e)
        PROVE  TypeInv'
    BY <1>4 DEF AbortPurge, store, replies, DraftInv
  <1> QED
    BY <1>1, <1>2, <1>3, <1>4

LEMMA TypeInvStep == TypeInv /\ [Next]_vars => TypeInv'
  <1> SUFFICES ASSUME TypeInv, [Next]_vars PROVE TypeInv'
    OBVIOUS
  <1>1. CASE UNCHANGED vars
    BY <1>1 DEF vars, store, replies, TypeInv, TypeOK, DraftInv
  <1>2. CASE Next
    BY <1>2, RequestTypes, ActorTypes, RetentionTypes, ApartTypes DEF Next
  <1> QED
    BY <1>1, <1>2

\* Every variable has its type, what is being deleted has expired, and no two
\* passes delete the same observation.
THEOREM TypeCorrect == Spec => []TypeOK
  <1>1. TypeInv => TypeOK
    BY DEF TypeInv
  <1> QED
    BY <1>1, InitTypeInv, TypeInvStep, PTL DEF Spec

-----------------------------------------------------------------------------
(* Locks, and what their holders have looked up *)

\* Two requests under way behind the lock of a key have different keys, and two
\* behind that of a provider request come from different ones.
LockInv ==
  \A q, r \in Requests : q # r =>
    /\ phase[q] \in KeyedPhases /\ phase[r] \in KeyedPhases => draft[q].key # draft[r].key
    /\ phase[q] \in CheckedPhases /\ phase[r] \in CheckedPhases /\ draft[q].id # NoId
         => draft[q].id # draft[r].id

\* What a request has looked up is still so: nothing under its key, and nothing
\* from its provider request but what a job may have inserted.
LookupInv ==
  \A r \in Requests, o \in ledger :
    /\ phase[r] \in KeyedPhases => o.key # draft[r].key
    /\ phase[r] \in CheckedPhases /\ draft[r].id # NoId /\ o.id = draft[r].id => o.key \in Jobs

\* Rows not yet committed clash with no other.
PendingInv ==
  \A a \in Actors : phase[a] \in Uncommitted =>
    /\ \A b \in Actors \ {a} : phase[b] \in Uncommitted => ~ Clash(draft[a], draft[b])
    /\ \A o \in ledger : ~ Clash(o, draft[a])

\* ObservedOnce in the words of the insertion.
ClashFree == \A o, p \in ledger : Clash(o, p) => o = p

LedgerInv == TypeInv /\ LockInv /\ LookupInv /\ PendingInv /\ ClashFree

LEMMA InitLedgerInv == Init => LedgerInv
  BY InitTypeInv, PhaseSets, ApartTypes
     DEF Init, LedgerInv, LockInv, LookupInv, PendingInv, ClashFree, Uncommitted

LEMMA ClashSymmetric == \A o, p : Clash(o, p) => Clash(p, o)
  BY DEF Clash

\* A step of one actor that leaves the ledger alone and gives it no lock and no
\* row it did not have.
Keeps(a) ==
  /\ UNCHANGED ledger
  /\ \A b \in Actors : b # a => phase'[b] = phase[b] /\ draft'[b] = draft[b]
  /\ \/ phase'[a] \notin KeyedPhases
     \/ phase'[a] = "answered" /\ phase[a] = "inserted" /\ draft'[a] = draft[a]
     \/ a \in Jobs /\ phase'[a] = "checked"

\* A request passes a lock, having found nothing behind it.
PassesKey(r) ==
  /\ phase[r] = "arrived" /\ ~ KeyLocked(draft[r].key)
  /\ \A o \in ledger : o.key # draft[r].key
  /\ Enter(r, AfterKey(r)) /\ UNCHANGED <<ledger, draft>>

PassesProviderRequest(r) ==
  /\ phase[r] = "keyed" /\ ~ IdLocked(draft[r].id)
  /\ \A o \in ledger : o.id # draft[r].id
  /\ Enter(r, "checked") /\ UNCHANGED <<ledger, draft>>

\* Rows leave the ledger and nobody moves.
Deletes == ledger' \subseteq ledger /\ UNCHANGED <<phase, draft>>

LEMMA StepCases ==
  ASSUME TypeInv, [Next]_vars
  PROVE  \/ \E r \in Requests : PassesKey(r) \/ PassesProviderRequest(r)
         \/ \E a \in Actors : Keeps(a) \/ Insert(a) \/ Commit(a)
         \/ Deletes
  <1> USE DEF TypeInv, TypeOK
  <1>1. ASSUME NEW a \in Actors, NEW p \in {"arrived", "done", "lost", "idle"},
               Enter(a, p), UNCHANGED ledger,
               \A b \in Actors : b # a => draft'[b] = draft[b]
        PROVE  Keeps(a)
    BY <1>1, EnterTypes, PhaseSets DEF Keeps
  <1>2. CASE UNCHANGED vars \/ (\E o \in ledger : Expire(o))
    BY <1>2 DEF vars, store, Expire, Deletes
  <1>3. ASSUME NEW e \in Executors, Purge(e) \/ CommitPurge(e) \/ AbortPurge(e)
        PROVE  Deletes
    BY <1>3 DEF Purge, CommitPurge, AbortPurge, store, Deletes
  <1>4. ASSUME NEW r \in Requests, Arrive(r)
        PROVE  Keeps(r)
    BY <1>1, <1>4, ApartTypes DEF Arrive, store
  <1>5. ASSUME NEW r \in Requests, NEW o \in ledger, AnswerFrom(r, o)
        PROVE  Keeps(r)
    BY <1>1, <1>5, ApartTypes DEF AnswerFrom, store
  <1>6. ASSUME NEW r \in Requests, LockKey(r)
        PROVE  PassesKey(r) \/ Keeps(r)
    BY <1>5, <1>6 DEF LockKey, PassesKey, store
  <1>7. ASSUME NEW r \in Requests, LockProviderRequest(r)
        PROVE  PassesProviderRequest(r) \/ Keeps(r)
    BY <1>5, <1>7 DEF LockProviderRequest, PassesProviderRequest, IdFree, store
  <1>8. ASSUME NEW r \in Requests, Created(r)
        PROVE  Keeps(r)
    BY <1>8, EnterTypes, PhaseSets, ApartTypes DEF Created, Keeps, store
  <1>9. ASSUME NEW j \in Jobs, Collect(j)
        PROVE  Keeps(j)
    BY <1>9, EnterTypes, PhaseSets, ApartTypes DEF Collect, Keeps, store
  <1>10. ASSUME NEW a \in Actors, InsertRefused(a) \/ Lose(a) \/ (a \in Jobs /\ Retry(a))
         PROVE  Keeps(a)
    BY <1>1, <1>10 DEF InsertRefused, Lose, Retry, store
  <1> QED
    BY <1>2, <1>3, <1>4, <1>6, <1>7, <1>8, <1>9, <1>10, ApartTypes DEF Next

\* The step of one actor, its row kept, seen from the others.
LEMMA EnteredPhases ==
  ASSUME TypeInv, NEW a \in Actors, NEW p \in KeyedPhases \cup {"done"}, Enter(a, p),
         UNCHANGED draft
  PROVE  /\ \A b \in Actors : phase'[b] = IF b = a THEN p ELSE phase[b]
         /\ \A b \in Actors : draft'[b] = draft[b]
  BY EnterTypes

LEMMA LockStep ==
  ASSUME LedgerInv, [Next]_vars
  PROVE  LockInv'
  <1> USE DEF LedgerInv
  <1> SUFFICES ASSUME NEW q \in Requests, NEW r \in Requests, q # r
               PROVE  /\ phase'[q] \in KeyedPhases /\ phase'[r] \in KeyedPhases
                           => draft'[q].key # draft'[r].key
                      /\ phase'[q] \in CheckedPhases /\ phase'[r] \in CheckedPhases
                           /\ draft'[q].id # NoId => draft'[q].id # draft'[r].id
    BY DEF LockInv
  <1>1. ASSUME NEW a \in Actors, Keeps(a)
        PROVE  \A b \in Requests : phase'[b] \in KeyedPhases =>
                 draft'[b] = draft[b] /\ phase[b] \in KeyedPhases
    BY <1>1, ApartTypes, PhaseSets DEF Keeps
  <1>2. ASSUME NEW a \in Actors, Keeps(a)
        PROVE  \A b \in Requests : phase'[b] \in CheckedPhases =>
                 draft'[b] = draft[b] /\ phase[b] \in CheckedPhases
    BY <1>2, ApartTypes, PhaseSets DEF Keeps
  <1>3. CASE \E a \in Actors : Keeps(a)
    BY <1>1, <1>2, <1>3 DEF LockInv
  <1>4. CASE Deletes
    BY <1>4 DEF Deletes, LockInv
  <1>5. ASSUME NEW a \in Actors, Insert(a) \/ Commit(a)
        PROVE  \A b \in Requests :
                 /\ draft'[b] = draft[b]
                 /\ phase'[b] \in KeyedPhases => phase[b] \in KeyedPhases
                 /\ phase'[b] \in CheckedPhases => phase[b] \in CheckedPhases
    BY <1>5, EnteredPhases, PhaseSets, ApartTypes DEF Insert, InsertReady, Commit
  <1>6. CASE \E a \in Actors : Insert(a) \/ Commit(a)
    BY <1>5, <1>6 DEF LockInv
  <1>7. ASSUME NEW c \in Requests, PassesKey(c)
        PROVE  /\ \A b \in Actors : phase'[b] = IF b = c THEN AfterKey(c) ELSE phase[b]
               /\ \A b \in Actors : draft'[b] = draft[b]
    BY <1>7, EnteredPhases, PhaseSets, ApartTypes DEF PassesKey, AfterKey
  <1>8. CASE \E c \in Requests : PassesKey(c)
    <2>1. PICK c \in Requests : PassesKey(c)
      BY <1>8
    <2>2. \A b \in Requests : phase[b] \in KeyedPhases => draft[b].key # draft[c].key
      BY <2>1 DEF PassesKey, KeyLocked
    <2>3. AfterKey(c) \in CheckedPhases => draft[c].id = NoId
      BY PhaseSets DEF AfterKey
    <2> QED
      BY <1>7, <2>1, <2>2, <2>3, ApartTypes DEF LockInv
  <1>9. CASE \E c \in Requests : PassesProviderRequest(c)
    <2>1. PICK c \in Requests : PassesProviderRequest(c)
      BY <1>9
    <2>2. \A b \in Requests : phase[b] \in CheckedPhases => draft[b].id # draft[c].id
      BY <2>1 DEF PassesProviderRequest, IdLocked
    <2>3. /\ \A b \in Actors : phase'[b] = IF b = c THEN "checked" ELSE phase[b]
          /\ \A b \in Actors : draft'[b] = draft[b]
      BY <2>1, EnteredPhases, PhaseSets, ApartTypes DEF PassesProviderRequest
    <2>4. phase[c] \in KeyedPhases
      BY <2>1, PhaseSets DEF PassesProviderRequest
    <2> QED
      BY <2>2, <2>3, <2>4, ApartTypes DEF LockInv
  <1> QED
    BY <1>3, <1>4, <1>6, <1>8, <1>9, StepCases

LEMMA LookupStep ==
  ASSUME LedgerInv, [Next]_vars
  PROVE  LookupInv'
  <1> USE DEF LedgerInv
  <1> SUFFICES ASSUME NEW r \in Requests, NEW o \in ledger'
               PROVE  /\ phase'[r] \in KeyedPhases => o.key # draft'[r].key
                      /\ phase'[r] \in CheckedPhases /\ draft'[r].id # NoId /\ o.id = draft'[r].id
                           => o.key \in Jobs
    BY DEF LookupInv
  <1>1. CASE \E a \in Actors : Keeps(a)
    BY <1>1, ApartTypes, PhaseSets DEF Keeps, LookupInv
  <1>2. CASE Deletes
    BY <1>2 DEF Deletes, LookupInv
  <1>3. CASE \E a \in Actors : Insert(a)
    <2>1. PICK a \in Actors : Insert(a)
      BY <1>3
    <2> QED
      BY <2>1, EnteredPhases, PhaseSets, ApartTypes DEF Insert, InsertReady, store, LookupInv
  <1>4. CASE \E c \in Requests : PassesKey(c)
    <2>1. PICK c \in Requests : PassesKey(c)
      BY <1>4
    <2>2. /\ \A b \in Actors : phase'[b] = IF b = c THEN AfterKey(c) ELSE phase[b]
          /\ \A b \in Actors : draft'[b] = draft[b]
      BY <2>1, EnteredPhases, PhaseSets, ApartTypes DEF PassesKey, AfterKey
    <2>3. AfterKey(c) \in CheckedPhases => draft[c].id = NoId
      BY PhaseSets DEF AfterKey
    <2> QED
      BY <2>1, <2>2, <2>3, ApartTypes DEF PassesKey, LookupInv
  <1>5. CASE \E c \in Requests : PassesProviderRequest(c)
    <2>1. PICK c \in Requests : PassesProviderRequest(c)
      BY <1>5
    <2>2. /\ \A b \in Actors : phase'[b] = IF b = c THEN "checked" ELSE phase[b]
          /\ \A b \in Actors : draft'[b] = draft[b]
      BY <2>1, EnteredPhases, PhaseSets, ApartTypes DEF PassesProviderRequest
    <2>3. phase[c] \in KeyedPhases
      BY <2>1, PhaseSets DEF PassesProviderRequest
    <2> QED
      BY <2>1, <2>2, <2>3, ApartTypes DEF PassesProviderRequest, LookupInv
  <1>6. CASE \E a \in Actors : Commit(a)
    <2>1. PICK a \in Actors : Commit(a)
      BY <1>6
    <2>2. /\ \A b \in Actors : phase'[b] = IF b = a THEN "done" ELSE phase[b]
          /\ \A b \in Actors : draft'[b] = draft[b]
          /\ ledger' = ledger \cup {draft[a]}
      BY <2>1, EnteredPhases DEF Commit
    <2>3. CASE o \in ledger
      BY <2>2, <2>3, PhaseSets, ApartTypes DEF LookupInv
    <2>4. CASE o = draft[a] /\ a \in Jobs
      <3>1. o.key = a
        BY <2>1, <2>4, ApartTypes DEF Commit, TypeInv, DraftInv
      <3>2. phase[r] \in KeyedPhases => draft[r].key \in Keys
        BY PhaseSets DEF TypeInv, DraftInv
      <3> QED
        BY <2>2, <2>4, <3>1, <3>2, PhaseSets, ApartTypes, JobsAssumption
    <2>5. CASE o = draft[a] /\ a \in Requests /\ a # r
      <3>1. phase[a] \in CheckedPhases /\ phase[a] \in KeyedPhases
        BY <2>1, <2>5, PhaseSets DEF Commit
      <3> QED
        BY <2>2, <2>5, <3>1, ApartTypes DEF LockInv
    <2>6. CASE a = r
      BY <2>2, <2>6, PhaseSets, ApartTypes
    <2> QED
      BY <2>2, <2>3, <2>4, <2>5, <2>6 DEF Actors
  <1> QED
    BY <1>1, <1>2, <1>3, <1>4, <1>5, <1>6, StepCases

LEMMA PendingStep ==
  ASSUME LedgerInv, [Next]_vars
  PROVE  PendingInv' /\ ClashFree'
  <1> USE DEF LedgerInv
  <1>1. CASE \E a \in Actors : Keeps(a)
    <2>1. PICK a \in Actors : Keeps(a)
      BY <1>1
    <2>2. \A b \in Actors : phase'[b] \in Uncommitted =>
            phase[b] \in Uncommitted /\ draft'[b] = draft[b]
      BY <2>1, PhaseSets DEF Keeps, Uncommitted
    <2>3. UNCHANGED ledger
      BY <2>1 DEF Keeps
    <2> QED
      BY <2>2, <2>3 DEF PendingInv, ClashFree
  <1>2. CASE Deletes
    BY <1>2 DEF Deletes, PendingInv, ClashFree
  <1>3. CASE \E r \in Requests : PassesKey(r) \/ PassesProviderRequest(r)
    <2>1. PICK r \in Requests : PassesKey(r) \/ PassesProviderRequest(r)
      BY <1>3
    <2>2. PICK p \in {"keyed", "checked"} : Enter(r, p)
      BY <2>1 DEF PassesKey, PassesProviderRequest, AfterKey
    <2>3. \A b \in Actors : phase'[b] \in Uncommitted =>
            phase[b] \in Uncommitted /\ draft'[b] = draft[b]
      BY <2>1, <2>2, EnteredPhases, PhaseSets, ApartTypes
         DEF PassesKey, PassesProviderRequest, Uncommitted
    <2>4. UNCHANGED ledger
      BY <2>1 DEF PassesKey, PassesProviderRequest
    <2> QED
      BY <2>3, <2>4 DEF PendingInv, ClashFree
  <1>4. CASE \E a \in Actors : Insert(a)
    <2>1. PICK a \in Actors : Insert(a)
      BY <1>4
    <2>2. /\ \A b \in Actors : phase'[b] = IF b = a THEN "inserted" ELSE phase[b]
          /\ \A b \in Actors : draft'[b] = draft[b]
          /\ UNCHANGED ledger
      BY <2>1, EnteredPhases, PhaseSets DEF Insert, store
    <2>3. /\ \A b \in Actors \ {a} : phase[b] \in Uncommitted => ~ Clash(draft[b], draft[a])
          /\ \A o \in ledger : ~ Clash(o, draft[a])
      BY <2>1 DEF Insert, InsertReady, Colliding
    <2> QED
      BY <2>2, <2>3, ClashSymmetric DEF PendingInv, ClashFree
  <1>5. CASE \E a \in Actors : Commit(a)
    <2>1. PICK a \in Actors : Commit(a)
      BY <1>5
    <2>2. /\ \A b \in Actors : phase'[b] = IF b = a THEN "done" ELSE phase[b]
          /\ \A b \in Actors : draft'[b] = draft[b]
          /\ ledger' = ledger \cup {draft[a]}
          /\ phase[a] \in Uncommitted
      BY <2>1, EnteredPhases DEF Commit, Uncommitted
    <2>3. PendingInv'
      BY <2>2 DEF PendingInv, Uncommitted
    <2>4. ClashFree'
      BY <2>2, ClashSymmetric DEF PendingInv, ClashFree
    <2> QED
      BY <2>3, <2>4
  <1> QED
    BY <1>1, <1>2, <1>3, <1>4, <1>5, StepCases

LEMMA LedgerInvStep == LedgerInv /\ [Next]_vars => LedgerInv'
  BY TypeInvStep, LockStep, LookupStep, PendingStep DEF LedgerInv

LEMMA LedgerInvariant == Spec => []LedgerInv
  BY InitLedgerInv, LedgerInvStep, PTL DEF Spec

\* No two retained observations share a key or a provider request, whoever
\* delivered them.
THEOREM OnePerProviderRequest == Spec => []ObservedOnce
  <1>1. LedgerInv => ObservedOnce
    BY DEF LedgerInv, ClashFree, Clash, ObservedOnce
  <1> QED
    BY <1>1, LedgerInvariant, PTL

-----------------------------------------------------------------------------
(* Answers, receipts and deletion *)

\* An ingest request that fails on a unique index met the row of a job.
THEOREM LocksPreventCollisions == Spec => []OnlyJobsCollide
  <1>1. Init => OnlyJobsCollide
    BY DEF Init, OnlyJobsCollide
  <1>2. ASSUME LedgerInv, OnlyJobsCollide, [Next]_vars
        PROVE  OnlyJobsCollide'
    <2> USE <1>2 DEF LedgerInv, TypeInv, TypeOK
    <2>1. ASSUME NEW r \in Requests, NEW s \in {"created", "replayed", "conflict"}, NEW o,
                 Respond(r, s, o)
          PROVE  OnlyJobsCollide'
      BY <2>1 DEF Respond, OnlyJobsCollide
    <2>2. CASE UNCHANGED replies
      BY <2>2 DEF replies, OnlyJobsCollide
    <2>3. ASSUME NEW r \in Requests, NEW o \in ledger, AnswerFrom(r, o)
          PROVE  OnlyJobsCollide'
      BY <2>1, <2>3 DEF AnswerFrom
    <2>4. ASSUME NEW r \in Requests, LockKey(r) \/ LockProviderRequest(r) \/ Created(r)
          PROVE  OnlyJobsCollide'
      BY <2>1, <2>2, <2>3, <2>4 DEF LockKey, LockProviderRequest, Created
    <2>5. ASSUME NEW a \in Actors, InsertRefused(a)
          PROVE  OnlyJobsCollide'
      <3>1. PICK o \in Colliding(a) :
              IF a \in Requests THEN Respond(a, "error", o) ELSE UNCHANGED replies
        BY <2>5 DEF InsertRefused
      <3>2. ASSUME a \in Requests
            PROVE  o.key \in Jobs
        <4>1. phase[a] \in KeyedPhases /\ phase[a] \in CheckedPhases
          BY <2>5, PhaseSets DEF InsertRefused, InsertReady
        <4> QED
          BY <3>1, <3>2, <4>1 DEF Colliding, Clash, LookupInv
      <3> QED
        BY <2>2, <3>1, <3>2 DEF Respond, OnlyJobsCollide
    <2>6. CASE UNCHANGED vars
      BY <2>2, <2>6 DEF vars
    <2> QED
      BY <2>2, <2>4, <2>5, <2>6
         DEF Next, Arrive, Collect, Retry, Insert, Commit, Lose, Expire, Purge, CommitPurge, AbortPurge
  <1> QED
    BY <1>1, <1>2, LedgerInvariant, PTL DEF Spec

\* Every observation audited as created is retained or counted in a receipt.
THEOREM ReceiptsAreComplete == Spec => []ReceiptsReconcile
  <1>1. Init => ReceiptsReconcile
    BY FS_EmptySet DEF Init, ReceiptsReconcile
  <1>2. ASSUME LedgerInv, ReceiptsReconcile, [Next]_vars
        PROVE  ReceiptsReconcile'
    <2> USE <1>2 DEF LedgerInv, TypeInv, TypeOK
    <2>0. Cardinality(ledger) \in Nat
      BY FS_CardinalityType
    <2>1. CASE UNCHANGED <<ledger, audited, receipts>>
      BY <2>1 DEF ReceiptsReconcile
    <2>2. ASSUME NEW a \in Actors, Commit(a)
          PROVE  ReceiptsReconcile'
      <3>1. draft[a] \notin ledger
        BY <2>2 DEF Commit, PendingInv, Uncommitted, Clash
      <3>2. Cardinality(ledger \cup {draft[a]}) = Cardinality(ledger) + 1
        BY <3>1, FS_AddElement
      <3> QED
        BY <2>0, <2>2, <3>2 DEF Commit, ReceiptsReconcile
    <2>3. ASSUME NEW e \in Executors, CommitPurge(e)
          PROVE  ReceiptsReconcile'
      <3>1. batch[e] \subseteq ledger
        OBVIOUS
      <3>2. ledger \cap batch[e] = batch[e]
        BY <3>1
      <3>3. /\ Cardinality(ledger \ batch[e]) = Cardinality(ledger) - Cardinality(batch[e])
            /\ Cardinality(batch[e]) \in Nat
        BY <3>1, <3>2, FS_Difference, FS_Subset, FS_CardinalityType
      <3> QED
        BY <2>0, <2>3, <3>3 DEF CommitPurge, ReceiptsReconcile
    <2>4. CASE UNCHANGED vars
      BY <2>1, <2>4 DEF vars, store
    <2> QED
      BY <2>1, <2>2, <2>3, <2>4
         DEF Next, Arrive, LockKey, LockProviderRequest, AnswerFrom, Created, Collect, Retry,
             Insert, InsertRefused, Lose, Expire, Purge, AbortPurge, store
  <1> QED
    BY <1>1, <1>2, LedgerInvariant, PTL DEF Spec

\* An observation leaves the ledger only after its retention has run out.
THEOREM RetainedIsImmutable == Spec => Immutable
  <1>1. ASSUME LedgerInv, [Next]_vars
        PROVE  [\A o \in ledger : o \in ledger' \/ o \in expired]_vars
    <2> USE <1>1 DEF LedgerInv, TypeInv, TypeOK
    <2>1. ASSUME NEW e \in Executors, CommitPurge(e)
          PROVE  \A o \in ledger : o \in ledger' \/ o \in expired
      BY <2>1 DEF CommitPurge
    <2>2. CASE ledger \subseteq ledger'
      BY <2>2
    <2>3. CASE UNCHANGED vars
      BY <2>3
    <2> QED
      BY <2>1, <2>2, <2>3
         DEF Next, Arrive, LockKey, LockProviderRequest, AnswerFrom, Created, Collect, Retry,
             Insert, InsertRefused, Commit, Lose, Expire, Purge, AbortPurge, store
  <1> QED
    BY <1>1, LedgerInvariant, PTL DEF Spec, Immutable

-----------------------------------------------------------------------------
(* The store implemented *)

\* Every phase a request or job may be in.
AllPhases == KeyedPhases \cup {"idle", "arrived", "done", "lost"}

LEMMA StandingOf ==
  /\ Standing("idle") = "idle" /\ Standing("done") = "closed" /\ Standing("lost") = "lost"
  /\ \A p \in KeyedPhases \cup {"arrived"} : Standing(p) = "open"
  BY PhaseSets DEF Standing

\* A request is answered once, its 201 while its row waits for the commit, and one
\* that waits for the lock of a provider request names one.
AnswerInv ==
  \A r \in Requests :
    /\ phase[r] \notin {"answered", "done", "lost"} => answer[r] = "none"
    /\ phase[r] = "answered" => answer[r] = "created"
    /\ phase[r] = "keyed" => draft[r].id # NoId

LEMMA AnswerInvStep ==
  ASSUME TypeInv, AnswerInv, [Next]_vars
  PROVE  AnswerInv'
  <1> USE DEF TypeInv, TypeOK
  <1>1. ASSUME NEW a \in Actors, NEW p \in {"checked", "inserted", "lost", "done"},
               Enter(a, p), UNCHANGED <<draft, answer>>,
               p = "checked" => phase[a] \in {"arrived", "keyed"},
               p = "inserted" => phase[a] = "checked"
        PROVE  AnswerInv'
    <2>1. \A b \in Actors : phase'[b] = IF b = a THEN p ELSE phase[b]
      BY <1>1, EnterTypes, PhaseSets
    <2> QED
      BY <1>1, <2>1, ApartTypes DEF AnswerInv
  <1>2. ASSUME NEW r \in Requests, Arrive(r)
        PROVE  AnswerInv'
    <2>1. /\ \A b \in Actors : phase'[b] = IF b = r THEN "arrived" ELSE phase[b]
          /\ \A b \in Actors : b # r => draft'[b] = draft[b]
          /\ phase[r] = "idle" /\ UNCHANGED answer
      BY <1>2, EnterTypes, ApartTypes DEF Arrive, replies
    <2> QED
      BY <2>1, ApartTypes DEF AnswerInv
  <1>3. ASSUME NEW r \in Requests, NEW o \in ledger, AnswerFrom(r, o)
        PROVE  AnswerInv'
    <2>1. /\ \A b \in Actors : phase'[b] = IF b = r THEN "done" ELSE phase[b]
          /\ \A q \in Requests : q # r => answer'[q] = answer[q]
          /\ UNCHANGED draft
      BY <1>3, EnterTypes, ApartTypes DEF AnswerFrom, Respond
    <2> QED
      BY <2>1, ApartTypes DEF AnswerInv
  <1>4. ASSUME NEW r \in Requests, LockKey(r)
        PROVE  AnswerInv'
    <2>1. CASE Enter(r, AfterKey(r)) /\ UNCHANGED <<store, draft, replies, batch>>
      <3>1. /\ \A b \in Actors : phase'[b] = IF b = r THEN AfterKey(r) ELSE phase[b]
            /\ phase[r] = "arrived" /\ UNCHANGED <<draft, answer>>
        BY <1>4, <2>1, EnterTypes, PhaseSets, ApartTypes DEF AfterKey, LockKey, replies
      <3>2. AfterKey(r) \notin {"answered", "done", "lost"}
            /\ (AfterKey(r) = "keyed" => draft[r].id # NoId)
        BY DEF AfterKey
      <3> QED
        BY <3>1, <3>2, ApartTypes DEF AnswerInv
    <2> QED
      BY <1>3, <1>4, <2>1 DEF LockKey
  <1>5. ASSUME NEW r \in Requests, LockProviderRequest(r)
        PROVE  AnswerInv'
    BY <1>1, <1>3, <1>5, ApartTypes DEF LockProviderRequest, replies
  <1>6. ASSUME NEW r \in Requests, Created(r)
        PROVE  AnswerInv'
    <2>1. /\ \A b \in Actors : phase'[b] = IF b = r THEN "answered" ELSE phase[b]
          /\ \A q \in Requests : answer'[q] = IF q = r THEN "created" ELSE answer[q]
          /\ UNCHANGED draft
      BY <1>6, EnterTypes, ApartTypes, PhaseSets DEF Created, Respond
    <2> QED
      BY <2>1, ApartTypes DEF AnswerInv
  <1>7. ASSUME NEW j \in Jobs, Collect(j) \/ Retry(j)
        PROVE  AnswerInv'
    <2>1. /\ \A b \in Actors : b # j => phase'[b] = phase[b] /\ draft'[b] = draft[b]
          /\ UNCHANGED answer
      BY <1>7, ApartTypes DEF Collect, Retry, Enter, replies
    <2> QED
      BY <2>1, ApartTypes DEF AnswerInv
  <1>8. ASSUME NEW a \in Actors, InsertRefused(a)
        PROVE  AnswerInv'
    <2>1. /\ \A b \in Actors : phase'[b] = IF b = a THEN "done" ELSE phase[b]
          /\ \A q \in Requests : q # a => answer'[q] = answer[q]
          /\ UNCHANGED draft
      BY <1>8, EnterTypes DEF InsertRefused, Respond, replies
    <2> QED
      BY <2>1, ApartTypes DEF AnswerInv
  <1>9. ASSUME NEW a \in Actors, Insert(a) \/ Commit(a) \/ Lose(a)
        PROVE  AnswerInv'
    BY <1>1, <1>9 DEF Insert, InsertReady, Commit, Lose, replies
  <1>10. CASE UNCHANGED <<phase, draft, answer>>
    BY <1>10 DEF AnswerInv
  <1> QED
    BY <1>2, <1>4, <1>5, <1>6, <1>7, <1>8, <1>9, <1>10
       DEF Next, Expire, Purge, CommitPurge, AbortPurge, vars, replies

\* The step of an actor, seen from outside.
LEMMA Becomes ==
  ASSUME TypeInv, NEW a \in Actors, NEW p \in AllPhases, Enter(a, p)
  PROVE  Store!Become(a, Standing(p))
  BY DEF TypeInv, TypeOK, Enter, Store!Become

\* One that goes on without a trace in the store is open before and after.
LEMMA StaysOpen ==
  ASSUME TypeInv, NEW a \in Actors, NEW p \in KeyedPhases, Enter(a, p),
         phase[a] \in KeyedPhases \cup {"arrived"},
         UNCHANGED <<store, draft, replies>>
  PROVE  UNCHANGED Store!evidenceStore
  <1>1. \A b \in Actors : Standing(phase'[b]) = Standing(phase[b])
    BY StandingOf DEF TypeInv, TypeOK, Enter
  <1> QED
    BY <1>1 DEF store, replies, Store!evidenceStore, Store!rows, Store!answers

\* What the proof is about: a step of the store, or none.
SeenAs == Store!StoreNext \/ UNCHANGED Store!evidenceStore

\* An answer from the observation found is a repetition of it.
LEMMA AnswerRefines ==
  ASSUME TypeInv, AnswerInv, NEW r \in Requests, phase[r] \in {"arrived", "keyed"},
         NEW o \in ledger, Clash(o, draft[r]), AnswerFrom(r, o)
  PROVE  Store!StoreNext
  <1>1. Store!Become(r, "closed")
    BY Becomes, StandingOf, ApartTypes DEF AnswerFrom, AllPhases
  <1>2. Standing(phase[r]) = "open" /\ answer[r] = "none"
    BY StandingOf, PhaseSets DEF AnswerInv
  <1>3. Store!Repeat(r, o)
    BY <1>1, <1>2, ApartTypes
       DEF AnswerFrom, Respond, Clash, store, Store!Repeat, Store!Same, Store!Reply, Store!rows
  <1> QED
    BY <1>3 DEF Store!StoreNext, Store!RequestStep

\* What a request finds behind its locks answers it; else nothing is seen of it.
LEMMA LocksRefine ==
  ASSUME TypeInv, AnswerInv, NEW r \in Requests, LockKey(r) \/ LockProviderRequest(r)
  PROVE  SeenAs
  <1>1. CASE LockKey(r)
    <2>1. phase[r] = "arrived" /\ \A o \in ledger : o.key = draft[r].key => Clash(o, draft[r])
      BY <1>1 DEF LockKey, Clash
    <2>2. AfterKey(r) \in KeyedPhases
      BY PhaseSets DEF AfterKey
    <2> QED
      BY <1>1, <2>1, <2>2, AnswerRefines, StaysOpen, ApartTypes DEF LockKey, SeenAs
  <1>2. CASE LockProviderRequest(r)
    <2>1. phase[r] = "keyed" /\ \A o \in ledger : o.id = draft[r].id => Clash(o, draft[r])
      BY <1>2 DEF LockProviderRequest, Clash, AnswerInv
    <2> QED
      BY <1>2, <2>1, AnswerRefines, StaysOpen, ApartTypes, PhaseSets
         DEF LockProviderRequest, SeenAs
  <1> QED
    BY <1>1, <1>2

\* A 201 is given for a row that clashes with no other, retained or acknowledged.
LEMMA CreatedRefines ==
  ASSUME LedgerInv, AnswerInv, NEW r \in Requests, Created(r)
  PROVE  Store!StoreNext
  <1> USE DEF LedgerInv
  <1>1. UNCHANGED [a \in Actors |-> Standing(phase[a])]
    <2>1. \A b \in Actors : Standing(phase'[b]) = Standing(phase[b])
      BY StandingOf, PhaseSets, ApartTypes DEF TypeInv, TypeOK, Created, Enter
    <2> QED
      BY <2>1
  <1>2. Standing(phase[r]) = "open" /\ answer[r] = "none" /\ phase[r] \in Uncommitted
    BY StandingOf, PhaseSets DEF AnswerInv, Created, Uncommitted
  <1>3. \A o \in ledger : ~ Clash(o, draft[r])
    BY <1>2, ApartTypes DEF PendingInv
  <1>4. ASSUME NEW q \in Requests \ {r}, Standing(phase[q]) = "open", answer[q] = "created"
        PROVE  ~ Clash(draft[q], draft[r])
    <2>1. phase[q] = "answered"
      BY <1>4, StandingOf DEF AnswerInv
    <2> QED
      BY <1>2, <1>4, <2>1, ApartTypes DEF PendingInv, Uncommitted
  <1>5. Store!Acknowledge(r)
    BY <1>1, <1>2, <1>3, <1>4, ApartTypes
       DEF Created, Respond, Clash, store, Store!Acknowledge, Store!Same, Store!Reply, Store!rows
  <1> QED
    BY <1>5 DEF Store!StoreNext, Store!RequestStep

\* A commit retains what was acknowledged; nothing retained is the same.
LEMMA CommitRefines ==
  ASSUME LedgerInv, AnswerInv, NEW a \in Actors, Commit(a)
  PROVE  Store!Retain(a)
  <1> USE DEF LedgerInv
  <1>1. Store!Become(a, "closed")
    BY Becomes, StandingOf DEF Commit, AllPhases
  <1>2. Standing(phase[a]) = "open" /\ phase[a] \in Uncommitted
    BY StandingOf, PhaseSets DEF Commit, Uncommitted
  <1>3. a \in Requests => answer[a] = "created"
    BY DEF Commit, AnswerInv
  <1>4. \A o \in ledger : ~ Clash(o, draft[a])
    BY <1>2 DEF PendingInv
  <1> QED
    BY <1>1, <1>2, <1>3, <1>4
       DEF Commit, Clash, replies, Store!Retain, Store!Same, Store!answers

\* A request the unique indexes refuse met the row of a job.
LEMMA RefusalRefines ==
  ASSUME LedgerInv, AnswerInv, NEW a \in Actors, InsertRefused(a)
  PROVE  \E o \in ledger : Store!Refuse(a, o)
  <1> USE DEF LedgerInv
  <1>1. PICK o \in Colliding(a) :
          IF a \in Requests THEN Respond(a, "error", o) ELSE UNCHANGED replies
    BY DEF InsertRefused
  <1>2. o \in ledger /\ Clash(o, draft[a])
    BY DEF Colliding
  <1>3. Store!Become(a, "closed") /\ UNCHANGED <<store, draft>>
    BY Becomes, StandingOf DEF InsertRefused, AllPhases
  <1>4. phase[a] = "checked" /\ Standing(phase[a]) = "open"
    BY StandingOf, PhaseSets DEF InsertRefused, InsertReady
  <1>5. ASSUME a \in Requests
        PROVE  o.key \in Jobs /\ answer[a] = "none"
    BY <1>2, <1>4, <1>5, PhaseSets DEF Clash, LookupInv, AnswerInv
  <1>6. Store!Refuse(a, o)
    BY <1>1, <1>2, <1>3, <1>4, <1>5
       DEF Respond, Clash, store, replies, Store!Refuse, Store!Same, Store!Reply, Store!rows,
           Store!answers
  <1> QED
    BY <1>2, <1>6

\* A request or job brings a row: a request under a client's key, a job under its own.
LEMMA ArrivalRefines ==
  ASSUME TypeInv, TypeInv', NEW a \in Actors,
         \/ a \in Requests /\ Arrive(a)
         \/ a \in Jobs /\ Collect(a)
  PROVE  \E row \in Observations : Store!Submit(a, row)
  <1> USE DEF TypeInv, TypeOK
  <1>1. PICK row : draft' = [draft EXCEPT ![a] = row]
    BY DEF Arrive, Collect
  <1>2. PICK p \in KeyedPhases \cup {"arrived"} : Enter(a, p)
    BY PhaseSets DEF Arrive, Collect
  <1>3. phase'[a] = p /\ draft'[a] = row /\ phase[a] = "idle" /\ p # "idle"
    BY <1>1, <1>2, PhaseSets DEF Enter, Arrive, Collect
  <1>4. row \in Observations /\ IF a \in Jobs THEN row.key = a ELSE row.key \in Keys
    BY <1>3, ApartTypes DEF DraftInv, Actors
  <1>5. row.key \in Keys => row.key \notin Jobs
    BY JobsAssumption
  <1>6. Store!Become(a, "open") /\ Standing(phase[a]) = "idle"
    BY <1>2, <1>3, Becomes, StandingOf DEF AllPhases
  <1>7. UNCHANGED <<store, replies>>
    BY DEF Arrive, Collect
  <1> QED
    BY <1>1, <1>4, <1>5, <1>6, <1>7
       DEF store, replies, Store!Submit, Store!rows, Store!answers

\* One that is lost, or begins again.
LEMMA EndRefines ==
  ASSUME TypeInv, NEW a \in Actors, Lose(a) \/ (a \in Jobs /\ Retry(a))
  PROVE  Store!Drop(a) \/ (a \in Jobs /\ Store!Restart(a))
  <1> USE DEF TypeInv, TypeOK
  <1>1. CASE Lose(a)
    <2>1. phase[a] \in KeyedPhases \cup {"arrived"}
      BY <1>1 DEF Lose
    <2>2. Store!Become(a, "lost") /\ Standing(phase[a]) = "open"
      BY <1>1, <2>1, Becomes, StandingOf DEF Lose, AllPhases
    <2> QED
      BY <1>1, <2>2 DEF Lose, store, replies, Store!Drop, Store!rows, Store!answers
  <1>2. CASE a \in Jobs /\ Retry(a)
    <2>1. Store!Become(a, "idle") /\ Standing(phase[a]) = "lost"
      BY <1>2, Becomes, StandingOf DEF Retry, AllPhases
    <2> QED
      BY <1>2, <2>1 DEF Retry, store, replies, Store!Restart, Store!rows, Store!answers
  <1> QED
    BY <1>1, <1>2

\* A pass deletes and counts when it commits.
LEMMA RetentionRefines ==
  ASSUME TypeInv, NEW e \in Executors, Purge(e) \/ CommitPurge(e) \/ AbortPurge(e)
  PROVE  SeenAs
  <1>1. CASE CommitPurge(e)
    <2>1. UNCHANGED <<phase, draft, replies, audited>>
      BY <1>1 DEF CommitPurge
    <2>2. Store!Delete(batch[e])
      BY <1>1, <2>1
         DEF CommitPurge, replies, Store!Delete, Store!answers, Cardinality, Store!Cardinality
    <2>3. batch[e] \in SUBSET expired
      BY DEF TypeInv, TypeOK
    <2> QED
      BY <2>2, <2>3 DEF SeenAs, Store!StoreNext
  <1>2. CASE Purge(e) \/ AbortPurge(e)
    BY <1>2 DEF Purge, AbortPurge, store, replies, SeenAs, Store!evidenceStore, Store!rows,
                Store!answers
  <1> QED
    BY <1>1, <1>2

\* Every step is one of the store, or invisible to it.
LEMMA StoreStep ==
  ASSUME LedgerInv, AnswerInv, [Next]_vars
  PROVE  SeenAs
  <1> USE DEF LedgerInv
  <1>1. ASSUME NEW a \in Actors, Insert(a)
        PROVE  SeenAs
    BY <1>1, StaysOpen, PhaseSets DEF Insert, InsertReady, SeenAs
  <1>2. ASSUME NEW a \in Actors,
               Commit(a) \/ InsertRefused(a) \/ Lose(a) \/ (a \in Jobs /\ Retry(a))
        PROVE  SeenAs
    BY <1>2, CommitRefines, RefusalRefines, EndRefines
       DEF SeenAs, Actors, Store!StoreNext, Store!ActorStep
  <1>3. ASSUME NEW a \in Actors,
               (a \in Requests /\ Arrive(a)) \/ (a \in Jobs /\ Collect(a))
        PROVE  SeenAs
    BY <1>3, ArrivalRefines, TypeInvStep DEF SeenAs, Actors, Store!StoreNext, Store!ActorStep
  <1>4. ASSUME NEW r \in Requests, LockKey(r) \/ LockProviderRequest(r) \/ Created(r)
        PROVE  SeenAs
    BY <1>4, LocksRefine, CreatedRefines DEF SeenAs
  <1>5. ASSUME NEW o \in ledger, Expire(o)
        PROVE  SeenAs
    <2>1. Store!Lapse(o)
      BY <1>5 DEF Expire, replies, Store!Lapse, Store!answers
    <2> QED
      BY <2>1 DEF SeenAs, Store!StoreNext
  <1>6. CASE UNCHANGED vars
    BY <1>6 DEF vars, store, replies, SeenAs, Store!evidenceStore, Store!rows, Store!answers
  <1> QED
    BY <1>1, <1>2, <1>3, <1>4, <1>5, <1>6, RetentionRefines, ApartTypes DEF Next

\* Requests, jobs and passes behave as if each took effect at one instant, whatever
\* they wait for in between (routes.py, worker.py, migration 0007).
THEOREM LedgerImplementsStore == Spec => ImplementsStore
  <1>1. Init => AnswerInv
    BY ApartTypes DEF Init, AnswerInv
  <1>2. Init => Store!Start
    BY StandingOf DEF Init, Actors, Store!Start
  <1>3. LedgerInv /\ AnswerInv /\ [Next]_vars => AnswerInv'
    BY AnswerInvStep DEF LedgerInv
  <1>4. LedgerInv /\ AnswerInv /\ [Next]_vars => [Store!StoreNext]_(Store!evidenceStore)
    BY StoreStep DEF SeenAs
  <1> QED
    BY <1>1, <1>2, <1>3, <1>4, LedgerInvariant, PTL
       DEF Spec, ImplementsStore, Store!StoreSpec
=============================================================================
