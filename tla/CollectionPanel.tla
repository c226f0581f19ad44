-------------------------- MODULE CollectionPanel --------------------------
(***************************************************************************)
(* The panel that queues collections of evidence and follows the job       *)
(* (EvidenceCollectionPanel.tsx).  It is keyed by the selected project:    *)
(* another selection mounts a new panel, and the old one's calls end       *)
(* without effect on the page.                                             *)
(***************************************************************************)
EXTENDS Workspace

CONSTANT Collections   \* the collection jobs there can be

VARIABLES
  collections,  \* API: the status of each collection job
  subject,      \* API: its project
  recorded,     \* API: how many records that had when the job's came to them
  collection,   \* the panel
  refreshes     \* how often each job made the panel call onEvidenceUpdated

jobs == <<collections, subject, recorded>>
collectionVars == <<jobs, collection, refreshes>>

Terminal == {"succeeded", "dead_letter", "cancelled"}

NoJob == "none"

FreshCollection ==
  [job |-> None, status |-> NoJob, submitting |-> FALSE, poll |-> "off", completed |-> None]

CollectionInit ==
  /\ collections = [j \in Collections |-> "absent"]
  /\ subject = [j \in Collections |-> None]
  /\ recorded = [j \in Collections |-> 0]
  /\ collection = FreshCollection
  /\ refreshes = [j \in Collections |-> 0]

\* Another project is selected, or the page is left.
CollectionUnmounted ==
  /\ collection' = FreshCollection
  /\ UNCHANGED <<jobs, refreshes>>

\* The form is disabled while its request is under way, not while a job runs.
SubmitCollection ==
  /\ Ready /\ selected # None /\ ~ collection.submitting
  /\ \E j \in Collections : collections[j] = "absent"
  /\ rev[selected] < MaxRev
  /\ collection' = [collection EXCEPT !.submitting = TRUE]
  /\ UNCHANGED <<workspaceVars, jobs, refreshes>>

\* submit resumes with the queued job; the effect on it starts a timer and drops
\* the poll of the job before.
CollectionQueued(j) ==
  /\ collection.submitting /\ collections[j] = "absent"
  /\ collections' = [collections EXCEPT ![j] = "queued"]
  /\ subject' = [subject EXCEPT ![j] = active]
  /\ collection' = [FreshCollection EXCEPT !.job = j, !.status = "queued", !.poll = "timer"]
  /\ UNCHANGED <<workspaceVars, recorded, refreshes>>

CollectionRefused ==
  /\ collection.submitting
  /\ collection' = [collection EXCEPT !.submitting = FALSE]
  /\ UNCHANGED <<workspaceVars, jobs, refreshes>>

\* The worker ends a job; a collection that succeeds leaves an observation.
CollectionEnds(j, outcome) ==
  /\ collections[j] = "queued"
  /\ collections' = [collections EXCEPT ![j] = outcome]
  /\ IF outcome = "succeeded"
       THEN /\ rev' = [rev EXCEPT ![subject[j]] = @ + 1]
            /\ recorded' = [recorded EXCEPT ![j] = rev'[subject[j]]]
       ELSE UNCHANGED <<rev, recorded>>
  /\ UNCHANGED <<created, policy, screen, loadVars, creationVars, commandVars,
                 subject, collection, refreshes>>

\* Two seconds have passed: getJob is sent.
CollectionPoll ==
  /\ collection.poll = "timer"
  /\ collection' = [collection EXCEPT !.poll = "asking"]
  /\ UNCHANGED <<workspaceVars, jobs, refreshes>>

\* The answer is a new job record, for which the effect starts the next timer,
\* unless the status is terminal.
CollectionPolled ==
  LET status == collections[collection.job] IN
  /\ collection.poll = "asking"
  /\ collection' = [collection EXCEPT
       !.status = status,
       !.poll = IF status \in Terminal THEN "off" ELSE "timer"]
  /\ UNCHANGED <<workspaceVars, jobs, refreshes>>

\* The request fails: the error is shown, the job is the one it was, and no
\* effect starts another timer.
CollectionPollFailed ==
  /\ collection.poll = "asking"
  /\ collection' = [collection EXCEPT !.poll = "off"]
  /\ UNCHANGED <<workspaceVars, jobs, refreshes>>

\* Variant: no memory of the job whose completion was reported.
Unreported(j) == j \in Collections

NotReported(j) == collection.completed # j

\* The effect on [job, onEvidenceUpdated]: the callback is a new one each time
\* the page renders, so that the effect runs again and again.
CollectionCompleted ==
  LET j == collection.job IN
  /\ collection.status = "succeeded" /\ NotReported(j)
  /\ collection' = [collection EXCEPT !.completed = j]
  /\ refreshes' = [refreshes EXCEPT ![j] = @ + 1]
  /\ BeginLoad(active)
  /\ UNCHANGED <<api, screen, data, replies, creationVars, commandVars, jobs>>

CollectionSteps ==
  \/ SubmitCollection \/ CollectionRefused
  \/ \E j \in Collections : CollectionQueued(j)
  \/ CollectionPoll \/ CollectionPolled \/ CollectionPollFailed \/ CollectionCompleted

CollectionWorker ==
  \E j \in Collections, outcome \in {"succeeded", "dead_letter"} : CollectionEnds(j, outcome)

-----------------------------------------------------------------------------
(* Properties *)

CollectionTypeOK ==
  /\ collections \in [Collections -> {"absent", "queued"} \cup Terminal]
  /\ subject \in [Collections -> Projects \cup {None}]
  /\ recorded \in [Collections -> Nat]
  /\ collection \in
       [job: Collections \cup {None}, status: {NoJob, "queued"} \cup Terminal,
        submitting: BOOLEAN, poll: {"off", "timer", "asking"},
        completed: Collections \cup {None}]

\* A job that succeeds makes the panel reload the project's evidence once,
\* although every render of the page hands the effect another callback.
RefreshedOncePerJob == \A j \in Collections : refreshes[j] <= 1

\* The observation of a collection the panel reports as succeeded comes on the
\* screen, unless there is an alert, another project is selected or a
\* later job replaces this one in the panel.
CollectedIsShown ==
  \A j \in Collections :
    (collection.job = j /\ collection.status = "succeeded")
      ~> \/ data.project = subject[j] /\ data.rev >= recorded[j]
         \/ error # None \/ selected # subject[j] \/ collection.job # j
=============================================================================
