--------------------------- MODULE EvidenceStore ---------------------------
(***************************************************************************)
(* What a collector may rely on about a project's evidence: as if every    *)
(* request, job and retention pass took effect at one instant, without     *)
(* locks, uncommitted rows or passes that overlap.                         *)
(***************************************************************************)
EXTENDS Integers, FiniteSets

CONSTANTS
  Requests,
  Jobs,
  Rows,   \* records with a key, a content and an id
  NoRow,
  NoId    \* of rows that name no request to the provider

VARIABLES
  evidence,    \* the rows that are retained
  lapsed,      \* those whose retention has run out
  accepted,    \* how many were ever retained
  deleted,     \* how many were deleted
  standing,    \* of each request and job: "idle", "open", "closed" or "lost"
  submission,  \* the row each brings
  reply,       \* the answer each request got
  subject      \* the row that answer is about

rows == <<evidence, lapsed, accepted, deleted>>
answers == <<reply, subject>>
evidenceStore == <<rows, standing, submission, answers>>

\* Two rows that cannot both be retained.
Same(o, p) == o.key = p.key \/ (o.id = p.id /\ o.id # NoId)

Start ==
  /\ evidence = {} /\ lapsed = {} /\ accepted = 0 /\ deleted = 0
  /\ standing = [a \in Requests \cup Jobs |-> "idle"]
  /\ submission = [a \in Requests \cup Jobs |-> NoRow]
  /\ reply = [r \in Requests |-> "none"]
  /\ subject = [r \in Requests |-> NoRow]

Become(a, s) == standing' = [standing EXCEPT ![a] = s]

Reply(r, status, o) ==
  /\ reply[r] = "none"
  /\ reply' = [reply EXCEPT ![r] = status]
  /\ subject' = [subject EXCEPT ![r] = o]

Submit(a, row) ==
  /\ standing[a] = "idle"
  /\ IF a \in Jobs THEN row.key = a ELSE row.key \notin Jobs
  /\ submission' = [submission EXCEPT ![a] = row]
  /\ Become(a, "open")
  /\ UNCHANGED <<rows, answers>>

\* Nothing retained, and nothing acknowledged and under way, is the same.
Acknowledge(r) ==
  /\ standing[r] = "open"
  /\ \A o \in evidence : ~ Same(o, submission[r])
  /\ \A q \in Requests \ {r} : standing[q] = "open" /\ reply[q] = "created"
                                 => ~ Same(submission[q], submission[r])
  /\ Reply(r, "created", submission[r])
  /\ UNCHANGED <<rows, standing, submission>>

\* Only what was acknowledged is retained, once, and never twice the same.
Retain(a) ==
  /\ standing[a] = "open"
  /\ a \in Requests => reply[a] = "created"
  /\ \A o \in evidence : ~ Same(o, submission[a])
  /\ evidence' = evidence \cup {submission[a]}
  /\ accepted' = accepted + 1
  /\ Become(a, "closed")
  /\ UNCHANGED <<lapsed, deleted, submission, answers>>

\* A repetition gets the row it repeats, and is refused if it says something else.
Repeat(r, o) ==
  /\ standing[r] = "open"
  /\ Same(o, submission[r])
  /\ Reply(r, IF o.content = submission[r].content THEN "replayed" ELSE "conflict", o)
  /\ Become(r, "closed")
  /\ UNCHANGED <<rows, submission>>

\* The same provider request was served already: a request fails only on what a
\* job brought, a job on anything.
Refuse(a, o) ==
  /\ standing[a] = "open"
  /\ Same(o, submission[a])
  /\ IF a \in Requests THEN o.key \in Jobs /\ Reply(a, "error", o) ELSE UNCHANGED answers
  /\ Become(a, "closed")
  /\ UNCHANGED <<rows, submission>>

\* A request or job may get lost at any time, even with its answer given.
Drop(a) ==
  /\ standing[a] = "open"
  /\ Become(a, "lost")
  /\ UNCHANGED <<rows, submission, answers>>

Restart(j) ==
  /\ standing[j] = "lost"
  /\ Become(j, "idle")
  /\ UNCHANGED <<rows, submission, answers>>

Lapse(o) ==
  /\ lapsed' = lapsed \cup {o}
  /\ UNCHANGED <<evidence, accepted, deleted, standing, submission, answers>>

\* Rows are deleted and counted together, and only lapsed ones.
Delete(S) ==
  /\ evidence' = evidence \ S
  /\ lapsed' = lapsed \ S
  /\ deleted' = deleted + Cardinality(S)
  /\ UNCHANGED <<accepted, standing, submission, answers>>

RequestStep(r) == Acknowledge(r) \/ \E o \in evidence : Repeat(r, o)

ActorStep(a) ==
  \/ \E row \in Rows : Submit(a, row)
  \/ Retain(a) \/ Drop(a)
  \/ \E o \in evidence : Refuse(a, o)

StoreNext ==
  \/ \E r \in Requests : RequestStep(r)
  \/ \E a \in Requests \cup Jobs : ActorStep(a)
  \/ \E j \in Jobs : Restart(j)
  \/ \E o \in evidence : Lapse(o)
  \/ \E S \in SUBSET lapsed : Delete(S)

StoreSpec == Start /\ [][StoreNext]_evidenceStore
=============================================================================
