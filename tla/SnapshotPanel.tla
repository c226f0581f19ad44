--------------------------- MODULE SnapshotPanel ---------------------------
(***************************************************************************)
(* The panel that captures snapshots of a source and shows their history   *)
(* (SourceSnapshotsPanel.tsx).  Its scope is keyed by project and source:  *)
(* another source mounts a new scope.                                      *)
(***************************************************************************)
EXTENDS Workspace

CONSTANTS
  Captures,     \* the capture jobs there can be
  Snapshots,    \* stored snapshots of a source whose body can be inspected
  MaxDetails    \* bound: inspections in one scope

ASSUME DetailsAssumption == MaxDetails \in Nat

VARIABLES
  captures,       \* API: the status of each capture job
  history,        \* API: how many snapshots the source has
  capture,        \* the scope: its job and the poll of it
  requests,       \* enqueueSourceSnapshot requests under way
  listed,         \* the history on the screen
  lists,          \* suspended listSourceSnapshots calls, and what they read
  detail,         \* the body on the screen
  detailRequest,  \* the counter of inspections
  wanted,         \* the snapshot of the last inspection
  details         \* suspended getSourceSnapshot calls

historyVars == <<listed, lists>>
detailVars == <<detail, detailRequest, wanted, details>>
snapshotVars == <<captures, history, capture, requests, historyVars, detailVars>>

Ended == {"succeeded", "dead_letter", "cancelled"}

Unread == -1

\* The effect that runs when a scope mounts, and the one a completed job triggers.
ListSent(by) == [by |-> by, read |-> Unread]

FreshCapture == [job |-> None, status |-> "none", poll |-> "off", completed |-> None]

\* A scope mounts: its history is requested.
FreshScope ==
  /\ capture = FreshCapture /\ requests = 0
  /\ listed = 0 /\ lists = {ListSent("mount")}
  /\ detail = None /\ detailRequest = 0 /\ wanted = None /\ details = {}

SnapshotInit == captures = [j \in Captures |-> "absent"] /\ history \in 0..1 /\ FreshScope

\* Another source or project is selected.
ScopeUnmounted ==
  /\ capture' = FreshCapture /\ requests' = 0
  /\ listed' = 0 /\ lists' = {ListSent("mount")}
  /\ detail' = None /\ detailRequest' = 0 /\ wanted' = None /\ details' = {}
  /\ UNCHANGED <<captures, history>>

SelectSource ==
  /\ Ready /\ Shown.rev > 1
  /\ ScopeUnmounted
  /\ UNCHANGED workspaceVars

-----------------------------------------------------------------------------
(* Captures *)

MayCapture == requests = 0 /\ capture.status \in {"none"} \cup Ended

\* capture: capture is not disabled.  That the source is verified, which the button
\* asks for too, is not among the data of a load here: captures are offered that the
\* page would not offer.
CaptureSource ==
  /\ Ready /\ Shown.rev > 0 /\ Shown.policy # "disabled" /\ MayCapture
  /\ \E j \in Captures : captures[j] = "absent"
  /\ requests' = requests + 1
  /\ UNCHANGED <<workspaceVars, captures, history, capture, historyVars, detailVars>>

CaptureQueued(j) ==
  /\ requests > 0 /\ captures[j] = "absent"
  /\ captures' = [captures EXCEPT ![j] = "queued"]
  /\ requests' = requests - 1
  /\ capture' = [FreshCapture EXCEPT !.job = j, !.status = "queued", !.poll = "timer"]
  /\ UNCHANGED <<workspaceVars, history, historyVars, detailVars>>

CaptureRefused ==
  /\ requests > 0
  /\ requests' = requests - 1
  /\ UNCHANGED <<workspaceVars, captures, history, capture, historyVars, detailVars>>

\* The worker ends a job; one that succeeds has stored a snapshot.
CaptureEnds(j, outcome) ==
  /\ captures[j] = "queued"
  /\ captures' = [captures EXCEPT ![j] = outcome]
  /\ history' = IF outcome = "succeeded" THEN history + 1 ELSE history
  /\ UNCHANGED <<workspaceVars, capture, requests, historyVars, detailVars>>

\* poll, after two seconds or a backoff.
CapturePoll ==
  /\ capture.poll = "timer"
  /\ capture' = [capture EXCEPT !.poll = "asking"]
  /\ UNCHANGED <<workspaceVars, captures, history, requests, historyVars, detailVars>>

CapturePolled ==
  LET status == captures[capture.job] IN
  /\ capture.poll = "asking"
  /\ capture' = [capture EXCEPT
       !.status = status,
       !.poll = IF status \in Ended THEN "off" ELSE "timer"]
  /\ UNCHANGED <<workspaceVars, captures, history, requests, historyVars, detailVars>>

\* Variant: the poll is not repeated, as in the collection panel.
Abandoned == "off"

AfterTransientError == "timer"

\* 401, 403 and 404 end the polling, any other error repeats it after a backoff.
CapturePollFailed(fatal) ==
  /\ capture.poll = "asking"
  /\ capture' = [capture EXCEPT !.poll = IF fatal THEN "fatal" ELSE AfterTransientError]
  /\ UNCHANGED <<workspaceVars, captures, history, requests, historyVars, detailVars>>

\* The effect on the succeeded job reloads the history once.
CaptureCompleted ==
  /\ capture.status = "succeeded" /\ capture.completed # capture.job
  /\ capture' = [capture EXCEPT !.completed = capture.job]
  /\ lists' = lists \cup {ListSent("completion")}
  /\ UNCHANGED <<workspaceVars, captures, history, requests, listed, detailVars>>

\* The API answers a call of listSourceSnapshots.
HistoryRead(l) ==
  /\ l \in lists /\ l.read = Unread
  /\ lists' = (lists \ {l}) \cup {[l EXCEPT !.read = history]}
  /\ UNCHANGED <<workspaceVars, captures, history, capture, requests, listed, detailVars>>

\* The answer is shown: no call of the scope is superseded by a later one.
HistoryListed(l) ==
  /\ l \in lists /\ l.read # Unread
  /\ lists' = lists \ {l}
  /\ listed' = l.read
  /\ UNCHANGED <<workspaceVars, captures, history, capture, requests, detailVars>>

HistoryFailed(l) ==
  /\ l \in lists
  /\ lists' = lists \ {l}
  /\ UNCHANGED <<workspaceVars, captures, history, capture, requests, listed, detailVars>>

-----------------------------------------------------------------------------
(* Inspection of a stored body *)

Inspect(s) ==
  /\ Ready /\ listed > 0 /\ detailRequest < MaxDetails
  /\ detailRequest' = detailRequest + 1
  /\ wanted' = s
  /\ detail' = None
  /\ details' = details \cup {[id |-> detailRequest + 1, snapshot |-> s]}
  /\ UNCHANGED <<workspaceVars, captures, history, capture, requests, historyVars>>

\* Variant: every answer is shown.
AnyInspection(id) == id \in 1..detailRequest

LastInspection(id) == id = detailRequest

DetailArrives(d) ==
  /\ d \in details
  /\ details' = details \ {d}
  /\ detail' = IF LastInspection(d.id) THEN d.snapshot ELSE detail
  /\ UNCHANGED <<workspaceVars, captures, history, capture, requests, historyVars, detailRequest, wanted>>

DetailFails(d) ==
  /\ d \in details
  /\ details' = details \ {d}
  /\ UNCHANGED <<workspaceVars, captures, history, capture, requests, historyVars, detail, detailRequest, wanted>>

CloseDetail ==
  /\ Ready /\ detail # None
  /\ detail' = None
  /\ UNCHANGED <<workspaceVars, captures, history, capture, requests, historyVars, detailRequest, wanted, details>>

CaptureSteps ==
  \/ CaptureSource \/ CaptureRefused \/ CapturePoll \/ CapturePolled \/ CaptureCompleted
  \/ \E fatal \in BOOLEAN : CapturePollFailed(fatal)
  \/ \E j \in Captures : CaptureQueued(j)

HistorySteps == \E l \in lists : HistoryRead(l) \/ HistoryListed(l) \/ HistoryFailed(l)

DetailSteps ==
  \/ SelectSource \/ CloseDetail
  \/ \E s \in Snapshots : Inspect(s)
  \/ \E d \in details : DetailArrives(d) \/ DetailFails(d)

CaptureWorker ==
  \E j \in Captures, outcome \in {"succeeded", "dead_letter"} : CaptureEnds(j, outcome)

-----------------------------------------------------------------------------
(* Properties *)

SnapshotTypeOK ==
  /\ captures \in [Captures -> {"absent", "queued"} \cup Ended]
  /\ history \in Nat /\ listed \in Nat /\ requests \in Nat
  /\ capture \in [job: Captures \cup {None}, status: {"none", "queued"} \cup Ended,
                  poll: {"off", "timer", "asking", "fatal"}, completed: Captures \cup {None}]
  /\ lists \subseteq [by: {"mount", "completion"}, read: Nat \cup {Unread}]
  /\ detail \in Snapshots \cup {None} /\ wanted \in Snapshots \cup {None}
  /\ detailRequest \in 0..MaxDetails
  /\ details \subseteq [id: 1..MaxDetails, snapshot: Snapshots]

\* A scope has one capture under way, requested or running: nothing but the page
\* keeps a second click from queueing another job of the same source.
OneCaptureAtATime ==
  requests + (IF capture.status = "queued" THEN 1 ELSE 0) <= 1

\* The body on the screen is the one asked for last, however late the answer to
\* an earlier inspection comes.
DetailIsWanted == detail # None => detail = wanted

\* "Terminal authorization/not-found errors need user action, not repeated
\* polling", all others do not end it: the end of a capture comes on the screen.
CaptureEndIsSeen ==
  \A j \in Captures :
    (capture.job = j /\ capture.status = "queued") ~>
      capture.job # j \/ capture.status \in Ended \/ capture.poll = "fatal"
=============================================================================
