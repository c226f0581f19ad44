--------------------------- MODULE Console_proofs ---------------------------
(***************************************************************************)
(* Proofs about the production front end, for any sets of projects, jobs   *)
(* and snapshots and any bounds.  Each part of the page has an invariant   *)
(* of its own; a view lemma reduces every step of the page to the steps of *)
(* that part, to its unmounting, or to no step of it.                      *)
(***************************************************************************)
EXTENDS Console, FiniteSetTheorems, TLAPS

(* The session *)

\* What the session's properties rest on: a user the gate was given is the one in
\* storage, and every token rejected or under way was issued.
SessionIInv ==
  /\ SessionTypeOK
  /\ stored <= issued
  /\ user # NoToken => user = stored
  /\ stored \notin rejected
  /\ \A t \in rejected : t <= issued
  /\ \A t \in Tokens : inFlight[t] > 0 => t <= issued

\* The session moves by its own events only (Console, SessionMoves and PageOpens).
LEMMA SessionView ==
  [Next]_vars => SessionEstablished \/ SessionEvents \/ UNCHANGED sessionVars
BY DEF Next, vars, PageOpens, SessionMoves, ListShown, SelectionEffects, LoadProgress,
       UserSelects, Creating, Registering, Regulating, Verifying, Collecting, CollectorWorks,
       Capturing, CapturerWorks, Listing, Inspecting, OnPage

\* A page that loads satisfies the session's invariant.
LEMMA SessionInitial == Init => SessionIInv
BY SessionAssumption
   DEF Init, SessionInit, SessionIInv, SessionTypeOK, NoToken, NoRequests, Tokens

\* Each event of the session keeps its invariant (AuthGate.tsx, v2Api.ts).
LEMMA SessionStep == SessionIInv /\ [Next]_vars => SessionIInv'
<1> SUFFICES ASSUME SessionIInv, SessionEstablished \/ SessionEvents \/ UNCHANGED sessionVars
             PROVE  SessionIInv'
  BY SessionView
<1> USE SessionAssumption DEF SessionIInv, SessionTypeOK, NoToken, Tokens
<1>1. CASE SessionEstablished
  BY <1>1 DEF SessionEstablished, Admissible
<1>2. CASE SessionFailed
  BY <1>2 DEF SessionFailed
<1>3. CASE Renewed
  <2>1. SessionTypeOK'
    <3>1. expired' \in BOOLEAN
      BY <1>3, Zenon DEF Renewed
    <3>2. /\ issued' \in 0..MaxTokens /\ stored' \in 0..MaxTokens /\ user' \in 0..MaxTokens
          /\ inFlight' \in [Tokens -> 0..MaxInFlight] /\ rejected' \subseteq Tokens
      BY <1>3 DEF Renewed
    <3>3. gate' \in {"loading", "ready", "error"}
      BY <1>3 DEF Renewed
    <3> QED
      BY <3>1, <3>2, <3>3
  <2>2. stored' <= issued' /\ (user' # NoToken => user' = stored')
    BY <1>3 DEF Renewed
  <2>3. stored' \notin rejected' /\ \A t \in rejected' : t <= issued'
    BY <1>3 DEF Renewed
  <2>4. \A t \in Tokens : inFlight'[t] > 0 => t <= issued'
    BY <1>3 DEF Renewed
  <2> QED
    BY <2>1, <2>2, <2>3, <2>4
<1>4. CASE TokenExpired \/ AccessTokenExpired
  <2>1. expired' \in BOOLEAN
    BY <1>4, Zenon DEF TokenExpired, AccessTokenExpired
  <2>2. /\ UNCHANGED <<issued, stored, gate, inFlight, rejected>>
        /\ user' = user \/ user' = NoToken
    BY <1>4 DEF TokenExpired, AccessTokenExpired
  <2> QED
    BY <2>1, <2>2
<1>5. CASE RequestSent
  <2>1. SessionTypeOK'
    BY <1>5 DEF RequestSent, GateOpen
  <2>2. stored' <= issued' /\ (user' # NoToken => user' = stored')
    BY <1>5 DEF RequestSent, GateOpen
  <2>3. stored' \notin rejected' /\ \A t \in rejected' : t <= issued'
    BY <1>5 DEF RequestSent, GateOpen
  <2>4. \A t \in Tokens : inFlight'[t] > 0 => t <= issued'
    BY <1>5 DEF RequestSent, GateOpen
  <2> QED
    BY <2>1, <2>2, <2>3, <2>4
<1>6. CASE SignIn
  <2>1. SessionTypeOK'
    <3>1. expired' \in BOOLEAN
      BY <1>6, Zenon DEF SignIn, NoRequests
    <3>2. /\ issued' \in 0..MaxTokens /\ stored' \in 0..MaxTokens /\ user' \in 0..MaxTokens
          /\ inFlight' \in [Tokens -> 0..MaxInFlight] /\ rejected' \subseteq Tokens
      BY <1>6 DEF SignIn, NoRequests
    <3>3. gate' \in {"loading", "ready", "error"}
      BY <1>6 DEF SignIn, NoRequests
    <3> QED
      BY <3>1, <3>2, <3>3
  <2>2. stored' <= issued' /\ (user' # NoToken => user' = stored')
    BY <1>6 DEF SignIn, NoRequests
  <2>3. stored' \notin rejected' /\ \A t \in rejected' : t <= issued'
    BY <1>6 DEF SignIn, NoRequests
  <2>4. \A t \in Tokens : inFlight'[t] > 0 => t <= issued'
    BY <1>6 DEF SignIn, NoRequests
  <2> QED
    BY <2>1, <2>2, <2>3, <2>4
<1>7. CASE SignOut
  <2>1. SessionTypeOK'
    <3>1. expired' \in BOOLEAN
      BY <1>7, Zenon DEF SignOut, UserRemoved
    <3>2. /\ issued' \in 0..MaxTokens /\ stored' \in 0..MaxTokens /\ user' \in 0..MaxTokens
          /\ inFlight' \in [Tokens -> 0..MaxInFlight] /\ rejected' \subseteq Tokens
      BY <1>7 DEF SignOut, UserRemoved
    <3>3. gate' \in {"loading", "ready", "error"}
      BY <1>7 DEF SignOut, UserRemoved
    <3> QED
      BY <3>1, <3>2, <3>3
  <2>2. stored' <= issued' /\ (user' # NoToken => user' = stored')
    BY <1>7 DEF SignOut, UserRemoved
  <2>3. stored' \notin rejected' /\ \A t \in rejected' : t <= issued'
    BY <1>7 DEF SignOut, UserRemoved
  <2>4. \A t \in Tokens : inFlight'[t] > 0 => t <= issued'
    BY <1>7 DEF SignOut, UserRemoved
  <2> QED
    BY <2>1, <2>2, <2>3, <2>4
<1>8. ASSUME NEW u \in Tokens, RequestAnswered(u) PROVE SessionIInv'
  <2>1. SessionTypeOK'
    BY <1>8 DEF RequestAnswered
  <2>2. stored' <= issued' /\ (user' # NoToken => user' = stored')
    BY <1>8 DEF RequestAnswered
  <2>3. stored' \notin rejected' /\ \A t \in rejected' : t <= issued'
    BY <1>8 DEF RequestAnswered
  <2>4. \A t \in Tokens : inFlight'[t] > 0 => t <= issued'
    BY <1>8 DEF RequestAnswered
  <2> QED
    BY <2>1, <2>2, <2>3, <2>4
<1>9. ASSUME NEW u \in Tokens, RequestRejected(u) PROVE SessionIInv'
  <2>1. SessionTypeOK'
    <3>1. expired' \in BOOLEAN
      BY <1>9, Zenon DEF RequestRejected, UserRemoved
    <3>2. /\ issued' \in 0..MaxTokens /\ stored' \in 0..MaxTokens /\ user' \in 0..MaxTokens
          /\ inFlight' \in [Tokens -> 0..MaxInFlight] /\ rejected' \subseteq Tokens
      BY <1>9 DEF RequestRejected, UserRemoved
    <3>3. gate' \in {"loading", "ready", "error"}
      BY <1>9 DEF RequestRejected, UserRemoved
    <3> QED
      BY <3>1, <3>2, <3>3
  <2>2. stored' <= issued' /\ (user' # NoToken => user' = stored')
    BY <1>9 DEF RequestRejected, UserRemoved
  <2>3. stored' \notin rejected' /\ \A t \in rejected' : t <= issued'
    BY <1>9 DEF RequestRejected, UserRemoved
  <2>4. \A t \in Tokens : inFlight'[t] > 0 => t <= issued'
    BY <1>9 DEF RequestRejected, UserRemoved
  <2> QED
    BY <2>1, <2>2, <2>3, <2>4
<1>10. CASE UNCHANGED sessionVars
  BY <1>10 DEF sessionVars
<1> QED
  BY <1>1, <1>2, <1>3, <1>4, <1>5, <1>6, <1>7, <1>8, <1>9, <1>10 DEF SessionEvents

\* The session's invariant holds throughout.
THEOREM SessionInvariant == Spec => []SessionIInv
BY SessionInitial, SessionStep, PTL DEF Spec

\* The application is mounted for the user in storage only, and starts with no
\* expired token (AuthGate.tsx).
THEOREM GateFollows == Spec => GateFollowsSession
<1>1. SessionIInv => (GateOpen => user = stored)
  BY DEF SessionIInv, GateOpen
<1>2. SessionIInv /\ [Next]_vars
        => [GateOpen' /\ expired' => GateOpen /\ user' = user]_sessionVars
  <2> SUFFICES ASSUME SessionEstablished \/ SessionEvents
               PROVE  GateOpen' /\ expired' => GateOpen /\ user' = user
    BY SessionView
  <2> USE DEF GateOpen
  <2>1. CASE SessionEstablished \/ SessionFailed
    <3>1. SessionEstablished => ~expired' \/ user' = NoToken
      <4> SUFFICES ASSUME SessionEstablished, expired'  PROVE user' = NoToken
        OBVIOUS
      <4>1. expired
        BY Zenon DEF SessionEstablished
      <4> QED
        BY <4>1 DEF SessionEstablished, Admissible
    <3>3. SessionFailed => gate' = "error"
      BY DEF SessionFailed
    <3> QED
      BY <2>1, <3>1, <3>3
  <2>2. CASE Renewed \/ SignIn \/ SignOut
    BY <2>2 DEF Renewed, SignIn, SignOut, UserRemoved
  <2>3. CASE TokenExpired \/ AccessTokenExpired \/ RequestSent
    BY <2>3 DEF TokenExpired, AccessTokenExpired, RequestSent
  <2>4. ASSUME NEW u \in Tokens, RequestAnswered(u) \/ RequestRejected(u)
        PROVE  GateOpen' /\ expired' => GateOpen /\ user' = user
    BY <2>4 DEF RequestAnswered, RequestRejected, UserRemoved
  <2> QED
    BY <2>1, <2>2, <2>3, <2>4 DEF SessionEvents
<1> QED
  BY <1>1, <1>2, SessionInvariant, PTL DEF Spec, GateFollowsSession

\* No request carries a token the API has rejected (v2Api.ts, request).
THEOREM NotResent == Spec => RejectedIsNotResent
<1>1. SessionIInv /\ [Next]_vars
        => [\A t \in rejected : inFlight'[t] <= inFlight[t]]_sessionVars
  <2> SUFFICES ASSUME SessionIInv, SessionEstablished \/ SessionEvents,
                      NEW t \in rejected
               PROVE  inFlight'[t] <= inFlight[t]
    BY SessionView
  <2> USE SessionAssumption DEF SessionIInv, SessionTypeOK, NoToken, Tokens
  <2>1. CASE RequestSent
    BY <2>1 DEF RequestSent
  <2>2. CASE SignIn
    BY <2>2 DEF SignIn, NoRequests
  <2>3. ASSUME NEW u \in Tokens, RequestAnswered(u) \/ RequestRejected(u)
        PROVE  inFlight'[t] <= inFlight[t]
    BY <2>3 DEF RequestAnswered, RequestRejected
  <2>4. CASE SessionEstablished \/ SessionFailed \/ Renewed \/ TokenExpired
               \/ AccessTokenExpired \/ SignOut
    BY <2>4 DEF SessionEstablished, SessionFailed, Renewed, TokenExpired,
               AccessTokenExpired, SignOut
  <2> QED
    BY <2>1, <2>2, <2>3, <2>4 DEF SessionEvents
<1> QED
  BY <1>1, SessionInvariant, PTL DEF Spec, RejectedIsNotResent

-----------------------------------------------------------------------------
(* The verification panel *)

\* busy is up for exactly one suspended call.
VerificationIInv ==
  /\ busy \in BOOLEAN
  /\ busy => \E c : calls = {c}
  /\ ~ busy => calls = {}

\* The two buttons of the panel.
Buttons == StartVerification \/ CheckDns

\* The panel's calls move by its own steps, or end with the page.
LEMMA VerificationView ==
  [Next]_vars =>
    \/ VerificationSteps
    \/ PanelUnmounted
    \/ UNCHANGED <<busy, calls>>
BY DEF Next, vars, PageOpens, SessionMoves, ListShown, SelectionEffects, LoadProgress,
       UserSelects, Creating, Registering, Regulating, Verifying, Collecting, CollectorWorks,
       Capturing, CapturerWorks, Listing, Inspecting, OnPage, panels, verificationVars,
       panelVars, PanelReset

\* A call that ends takes busy with it, one that goes on keeps it.
LEMMA VerificationStep == VerificationIInv /\ [Next]_vars => VerificationIInv'
<1> SUFFICES ASSUME VerificationIInv,
                    VerificationSteps \/ PanelUnmounted \/ UNCHANGED <<busy, calls>>
             PROVE  VerificationIInv'
  BY VerificationView
<1> USE DEF VerificationIInv
<1>1. CASE PanelUnmounted
  BY <1>1, Zenon DEF PanelUnmounted
<1>2. CASE UNCHANGED <<busy, calls>>
  BY <1>2, Zenon
<1>3. CASE Buttons
  <2>1. calls = {} /\ busy' = TRUE
    BY <1>3, Zenon DEF Buttons, StartVerification, CheckDns, NotBusy
  <2>2. \E c : calls' = {c}
    <3>1. calls' = {CallSent("create", selected)} \/ calls' = {CallSent("verify", selected)}
      BY <2>1, <1>3, Zenon DEF Buttons, StartVerification, CheckDns
    <3> QED
      BY <3>1, Zenon
  <2> QED
    BY <2>1, <2>2, Zenon
<1>4. ASSUME NEW c \in calls,
             \/ ChallengeCreated(c) \/ DnsAnswered(c) \/ ListRead(c) \/ ListReplaced(c)
             \/ CallFailed(c) \/ \E found \in BOOLEAN : DnsChecked(c, found)
      PROVE  VerificationIInv'
  <2>1. calls = {c} /\ busy
    BY <1>4, Zenon
  <2>2. CASE ChallengeCreated(c) \/ CallFailed(c)
    BY <2>1, <2>2, Zenon DEF ChallengeCreated, CallFailed
  <2>3. CASE DnsAnswered(c)
    <3>1. \/ (busy' = FALSE /\ calls' = calls \ {c})
          \/ (busy' = busy /\ \E d : calls' = (calls \ {c}) \cup {d})
      BY <2>3, Zenon DEF DnsAnswered
    <3> QED
      BY <2>1, <3>1, Zenon
  <2>4. CASE ListRead(c) \/ \E found \in BOOLEAN : DnsChecked(c, found)
    <3>1. busy' = busy /\ \E d : calls' = (calls \ {c}) \cup {d}
      BY <2>4, Zenon DEF ListRead, DnsChecked
    <3> QED
      BY <2>1, <3>1, Zenon
  <2>5. CASE ListReplaced(c)
    BY <2>1, <2>5, Zenon DEF ListReplaced
  <2> QED
    BY <1>4, <2>2, <2>3, <2>4, <2>5
<1> QED
  BY <1>1, <1>2, <1>3, <1>4 DEF VerificationSteps, Buttons

\* The panel's invariant holds throughout.
THEOREM VerificationInvariant == Spec => []VerificationIInv
<1>1. Init => VerificationIInv
  BY DEF Init, VerificationInit, FreshPanel, VerificationIInv
<1> QED
  BY <1>1, VerificationStep, PTL DEF Spec

\* One challenge is created or checked at a time (DomainVerificationPanel.tsx, busy).
THEOREM OneCall == Spec => []OneVerificationCall
<1>1. VerificationIInv => OneVerificationCall
  <2> SUFFICES ASSUME VerificationIInv PROVE OneVerificationCall
    OBVIOUS
  <2>1. CASE busy
    <3>1. Cardinality(calls) = 1
      BY <2>1, FS_Singleton, Zenon DEF VerificationIInv
    <3> QED
      BY <2>1, <3>1 DEF OneVerificationCall
  <2>2. CASE ~ busy
    BY <2>2, FS_EmptySet DEF VerificationIInv, OneVerificationCall
  <2> QED
    BY <2>1, <2>2
<1> QED
  BY <1>1, VerificationInvariant, PTL

-----------------------------------------------------------------------------
(* The collection panel *)

CollectionRecords ==
  [job: Collections \cup {None}, status: {NoJob, "queued"} \cup Terminal,
   submitting: BOOLEAN, poll: {"off", "timer", "asking"}, completed: Collections \cup {None}]

\* A job the panel has not reported has refreshed nothing, and the panel follows
\* jobs that exist.
CollectionIInv ==
  /\ collections \in [Collections -> {"absent", "queued"} \cup Terminal]
  /\ collection \in CollectionRecords
  /\ refreshes \in [Collections -> Nat]
  /\ \A j \in Collections : refreshes[j] <= 1
  /\ \A j \in Collections : collections[j] = "absent" => refreshes[j] = 0
  /\ collection.status # NoJob =>
       collection.job \in Collections /\ collections[collection.job] # "absent"
  /\ collection.poll # "off" => collection.status # NoJob
  /\ collection.job \in Collections /\ collection.completed # collection.job
       => refreshes[collection.job] = 0

\* The panel and its jobs move by their own steps, or the panel is mounted anew.
LEMMA CollectionView ==
  [Next]_vars =>
    \/ CollectionSteps \/ CollectionWorker \/ CollectionUnmounted
    \/ UNCHANGED <<collections, collection, refreshes>>
BY DEF Next, vars, PageOpens, SessionMoves, ListShown, SelectionEffects, LoadProgress,
       UserSelects, Creating, Registering, Regulating, Verifying, Collecting, CollectorWorks,
       Capturing, CapturerWorks, Listing, Inspecting, OnPage, panels, collectionVars, jobs

\* Each step of the panel and of the worker keeps the panel's invariant
\* (EvidenceCollectionPanel.tsx).
LEMMA CollectionStep == CollectionIInv /\ [Next]_vars => CollectionIInv'
<1> SUFFICES ASSUME CollectionIInv,
                    \/ CollectionSteps \/ CollectionWorker \/ CollectionUnmounted
                    \/ UNCHANGED <<collections, collection, refreshes>>
             PROVE  CollectionIInv'
  BY CollectionView
<1> USE DEF CollectionIInv, CollectionRecords, Terminal, NoJob
<1>1. CASE UNCHANGED <<collections, collection, refreshes>>
  BY <1>1
<1>2. CASE CollectionUnmounted
  BY <1>2 DEF CollectionUnmounted, FreshCollection, jobs
<1>3. CASE SubmitCollection \/ CollectionRefused
  BY <1>3 DEF SubmitCollection, CollectionRefused, jobs
<1>4. CASE CollectionPoll \/ CollectionPollFailed
  BY <1>4 DEF CollectionPoll, CollectionPollFailed, jobs
<1>5. CASE CollectionPolled
  BY <1>5 DEF CollectionPolled, jobs
<1>6. CASE CollectionCompleted
  BY <1>6 DEF CollectionCompleted, NotReported, jobs
<1>7. ASSUME NEW j \in Collections, CollectionQueued(j) PROVE CollectionIInv'
  BY <1>7 DEF CollectionQueued, FreshCollection
<1>8. ASSUME NEW j \in Collections, NEW outcome \in {"succeeded", "dead_letter"},
             CollectionEnds(j, outcome)
      PROVE  CollectionIInv'
  BY <1>8 DEF CollectionEnds
<1> QED
  BY <1>1, <1>2, <1>3, <1>4, <1>5, <1>6, <1>7, <1>8 DEF CollectionSteps, CollectionWorker

\* The panel's invariant holds throughout.
THEOREM CollectionInvariant == Spec => []CollectionIInv
<1>1. Init => CollectionIInv
  BY DEF Init, CollectionInit, FreshCollection, CollectionIInv, CollectionRecords, NoJob
<1> QED
  BY <1>1, CollectionStep, PTL DEF Spec

\* A job's success reloads the evidence once (EvidenceCollectionPanel.tsx, the
\* effect on [job, onEvidenceUpdated]).
THEOREM RefreshedOnce == Spec => []RefreshedOncePerJob
<1>1. CollectionIInv => RefreshedOncePerJob
  BY DEF CollectionIInv, RefreshedOncePerJob
<1> QED
  BY <1>1, CollectionInvariant, PTL

-----------------------------------------------------------------------------
(* The snapshot panel *)

CaptureRecords ==
  [job: Captures \cup {None}, status: {"none", "queued"} \cup Ended,
   poll: {"off", "timer", "asking", "fatal"}, completed: Captures \cup {None}]

\* A capture is requested or followed, never both; a poll follows a queued job;
\* an answer that bears the last number is of the snapshot wanted.
SnapshotIInv ==
  /\ SnapshotTypeOK
  /\ capture.status = "queued" => requests = 0
  /\ requests <= 1
  /\ capture.poll \in {"timer", "asking"} =>
       capture.status = "queued" /\ capture.job \in Captures /\ captures[capture.job] # "absent"
  /\ \A d \in details : d.id <= detailRequest
  /\ \A d \in details : d.id = detailRequest => d.snapshot = wanted
  /\ detail # None => detail = wanted

\* The panel and its jobs move by their own steps, or a new scope is mounted.
LEMMA SnapshotView ==
  [Next]_vars =>
    \/ CaptureSteps \/ CaptureWorker \/ HistorySteps \/ DetailSteps \/ ScopeUnmounted
    \/ UNCHANGED snapshotVars
BY DEF Next, vars, PageOpens, SessionMoves, ListShown, SelectionEffects, LoadProgress,
       UserSelects, Creating, Registering, Regulating, Verifying, Collecting, CollectorWorks,
       Capturing, CapturerWorks, Listing, Inspecting, OnPage, panels

\* Captures, and the polls of them, keep the panel's invariant (SourceSnapshotsPanel.tsx).
LEMMA CaptureStep == SnapshotIInv /\ CaptureSteps => SnapshotIInv'
<1> SUFFICES ASSUME SnapshotIInv, CaptureSteps PROVE SnapshotIInv'
  OBVIOUS
<1> USE DEF SnapshotIInv, SnapshotTypeOK, Ended, historyVars, detailVars
<1>1. CASE CaptureSource
  BY <1>1 DEF CaptureSource, MayCapture
<1>2. CASE CaptureRefused
  BY <1>2 DEF CaptureRefused
<1>3. CASE CapturePoll
  BY <1>3 DEF CapturePoll
<1>4. CASE CapturePolled
  BY <1>4 DEF CapturePolled
<1>5. CASE CaptureCompleted
  BY <1>5 DEF CaptureCompleted, ListSent, Unread
<1>6. ASSUME NEW fatal \in BOOLEAN, CapturePollFailed(fatal) PROVE SnapshotIInv'
  BY <1>6 DEF CapturePollFailed, AfterTransientError
<1>7. ASSUME NEW j \in Captures, CaptureQueued(j) PROVE SnapshotIInv'
  <2>1. capture' \in CaptureRecords
    BY <1>7 DEF CaptureQueued, FreshCapture, CaptureRecords
  <2>2. requests' = 0 /\ captures' \in [Captures -> {"absent", "queued"} \cup Ended]
    BY <1>7 DEF CaptureQueued
  <2>3. capture'.job = j /\ capture'.status = "queued" /\ captures'[j] = "queued"
    BY <1>7 DEF CaptureQueued, FreshCapture
  <2> QED
    BY <1>7, <2>1, <2>2, <2>3 DEF CaptureQueued, CaptureRecords
<1> QED
  BY <1>1, <1>2, <1>3, <1>4, <1>5, <1>6, <1>7 DEF CaptureSteps

\* The worker's end of a capture keeps the panel's invariant.
LEMMA CaptureWorkerStep == SnapshotIInv /\ CaptureWorker => SnapshotIInv'
<1> SUFFICES ASSUME SnapshotIInv, NEW j \in Captures, NEW outcome \in {"succeeded", "dead_letter"},
                    CaptureEnds(j, outcome)
             PROVE  SnapshotIInv'
  BY DEF CaptureWorker
<1> QED
  BY DEF CaptureEnds, SnapshotIInv, SnapshotTypeOK, Ended, historyVars, detailVars

\* The history's calls and answers keep the panel's invariant.
LEMMA HistoryStep == SnapshotIInv /\ HistorySteps => SnapshotIInv'
<1> SUFFICES ASSUME SnapshotIInv, NEW l \in lists,
                    HistoryRead(l) \/ HistoryListed(l) \/ HistoryFailed(l)
             PROVE  SnapshotIInv'
  BY DEF HistorySteps
<1> USE DEF SnapshotIInv, SnapshotTypeOK, Ended, detailVars
<1>1. CASE HistoryRead(l)
  BY <1>1 DEF HistoryRead, Unread
<1>2. CASE HistoryListed(l)
  BY <1>2 DEF HistoryListed, Unread
<1>3. CASE HistoryFailed(l)
  BY <1>3 DEF HistoryFailed
<1> QED
  BY <1>1, <1>2, <1>3

\* A new scope satisfies the panel's invariant whatever the old one was doing.
LEMMA ScopeStep == SnapshotIInv /\ ScopeUnmounted => SnapshotIInv'
BY DetailsAssumption
   DEF ScopeUnmounted, SnapshotIInv, SnapshotTypeOK, FreshCapture, ListSent, Unread, Ended

\* Inspections keep the panel's invariant.
LEMMA DetailStep == SnapshotIInv /\ DetailSteps => SnapshotIInv'
<1> SUFFICES ASSUME SnapshotIInv, DetailSteps PROVE SnapshotIInv'
  OBVIOUS
<1> USE DetailsAssumption DEF SnapshotIInv, SnapshotTypeOK, Ended, historyVars
<1>1. CASE SelectSource
  BY <1>1, ScopeStep DEF SelectSource
<1>2. CASE CloseDetail
  BY <1>2 DEF CloseDetail
<1>3. ASSUME NEW s \in Snapshots, Inspect(s) PROVE SnapshotIInv'
  BY <1>3 DEF Inspect
<1>4. ASSUME NEW d \in details, DetailArrives(d) PROVE SnapshotIInv'
  BY <1>4 DEF DetailArrives, LastInspection
<1>5. ASSUME NEW d \in details, DetailFails(d) PROVE SnapshotIInv'
  BY <1>5 DEF DetailFails
<1> QED
  BY <1>1, <1>2, <1>3, <1>4, <1>5 DEF DetailSteps

\* Every step of the page keeps the panel's invariant.
LEMMA SnapshotStep == SnapshotIInv /\ [Next]_vars => SnapshotIInv'
<1>1. SnapshotIInv /\ UNCHANGED snapshotVars => SnapshotIInv'
  BY DEF snapshotVars, historyVars, detailVars, SnapshotIInv, SnapshotTypeOK
<1> QED
  BY <1>1, SnapshotView, CaptureStep, CaptureWorkerStep, HistoryStep, DetailStep, ScopeStep

\* The panel's invariant holds throughout.
THEOREM SnapshotInvariant == Spec => []SnapshotIInv
<1>1. Init => SnapshotIInv
  BY DetailsAssumption
     DEF Init, SnapshotInit, FreshScope, SnapshotIInv, SnapshotTypeOK, FreshCapture, ListSent,
         Unread, Ended
<1> QED
  BY <1>1, SnapshotStep, PTL DEF Spec

\* A scope has one capture under way (SourceSnapshotsPanel.tsx, submittingRef).
THEOREM OneCapture == Spec => []OneCaptureAtATime
<1>1. SnapshotIInv => OneCaptureAtATime
  BY DEF SnapshotIInv, SnapshotTypeOK, OneCaptureAtATime
<1> QED
  BY <1>1, SnapshotInvariant, PTL

\* The body shown is the one asked for last (SourceSnapshotsPanel.tsx, detailRequest).
THEOREM DetailWanted == Spec => []DetailIsWanted
<1>1. SnapshotIInv => DetailIsWanted
  BY DEF SnapshotIInv, DetailIsWanted
<1> QED
  BY <1>1, SnapshotInvariant, PTL

-----------------------------------------------------------------------------
(* The workspace *)

\* The types of what the workspace and the panels that reload it hold; nothing is
\* selected before the list is in, and what needs a project has one.
PageFacts ==
  /\ loading => selected = None /\ creating = {}
  /\ selected = None => active = None
  /\ adding.stage # "idle" => adding.project \in Projects
  /\ active = None => ~ collection.submitting /\ collection.status = NoJob
  /\ \A j \in Collections : collections[j] = "queued" => subject[j] \in Projects

PageIInv == WorkspaceTypeOK /\ VerificationTypeOK /\ CollectionTypeOK /\ PageFacts

\* A part of the page that does not move keeps its types.
LEMMA WorkspaceKept == WorkspaceTypeOK /\ UNCHANGED workspaceVars => WorkspaceTypeOK'
BY DEF WorkspaceTypeOK, workspaceVars, api, screen, loadVars, creationVars, commandVars

\* The verification panel's.
LEMMA VerificationKept == VerificationTypeOK /\ UNCHANGED verificationVars => VerificationTypeOK'
BY DEF VerificationTypeOK, verificationVars, panelVars

\* The collection panel's.
LEMMA CollectionKept == CollectionTypeOK /\ UNCHANGED collectionVars => CollectionTypeOK'
BY DEF CollectionTypeOK, collectionVars, jobs

\* The handlers of the workspace itself, which leave the panels alone.
WorkspaceSteps ==
  \/ LoadSteps \/ SelectionSteps \/ ProjectsUnavailable
  \/ CreationSteps \/ RegistrationSteps \/ PolicySteps

\* What a step of the page does to the workspace and to those panels.
PageSteps ==
  \/ PageUnmounted /\ PanelUnmounted /\ CollectionUnmounted
  \/ ProjectsListed /\ marked' = verified /\ UNCHANGED <<verified, panelVars, collectionVars>>
  \/ LoadSelected /\ PanelReset /\ CollectionUnmounted
  \/ WorkspaceSteps /\ UNCHANGED <<verificationVars, collectionVars>>
  \/ VerificationSteps /\ UNCHANGED collectionVars
  \/ (CollectionSteps \/ CollectionWorker) /\ UNCHANGED verificationVars
  \/ UNCHANGED <<workspaceVars, verificationVars, collectionVars>>

\* The snapshot panel leaves the workspace alone (SourceSnapshotsPanel.tsx).
LEMMA SnapshotsElsewhere ==
  CaptureSteps \/ CaptureWorker \/ HistorySteps \/ DetailSteps => UNCHANGED workspaceVars
BY Zenon DEF CaptureSteps, CaptureWorker, HistorySteps, DetailSteps, CaptureSource, CaptureRefused,
       CapturePoll, CapturePolled, CaptureCompleted, CapturePollFailed, CaptureQueued,
       CaptureEnds, HistoryRead, HistoryListed, HistoryFailed, SelectSource, CloseDetail,
       Inspect, DetailArrives, DetailFails

\* Every step of the page is one of those.
LEMMA PageView == [Next]_vars => PageSteps
<1> SUFFICES ASSUME [Next]_vars PROVE PageSteps
  OBVIOUS
<1> USE DEF OnPage, panels, PageSteps
<1>1. CASE UNCHANGED vars
  BY <1>1 DEF vars
<1>2. CASE PageOpens \/ SessionMoves
  BY <1>2 DEF PageOpens, SessionMoves
<1>3. CASE ListShown \/ SelectionEffects
  BY <1>3 DEF ListShown, SelectionEffects
<1>4. CASE LoadProgress \/ UserSelects \/ Creating \/ Registering \/ Regulating
  BY <1>4 DEF LoadProgress, UserSelects, Creating, Registering, Regulating, WorkspaceSteps
<1>5. CASE Verifying
  BY <1>5 DEF Verifying
<1>6. CASE Collecting \/ CollectorWorks
  BY <1>6 DEF Collecting, CollectorWorks
<1>7. CASE Capturing \/ CapturerWorks \/ Listing \/ Inspecting
  BY <1>7, SnapshotsElsewhere DEF Capturing, CapturerWorks, Listing, Inspecting
<1> QED
  BY <1>1, <1>2, <1>3, <1>4, <1>5, <1>6, <1>7 DEF Next

\* The loads keep the page's types (ProductionApp.tsx, loadSources).
LEMMA LoadTyped == PageIInv /\ LoadSteps => WorkspaceTypeOK'
<1> USE DEF PageIInv, WorkspaceTypeOK, api, screen, creationVars, commandVars
<1> SUFFICES ASSUME PageIInv, LoadSteps PROVE WorkspaceTypeOK'
  OBVIOUS
<1>1. ASSUME NEW l \in loads, LoadAnswered(l) PROVE WorkspaceTypeOK'
  BY <1>1 DEF LoadAnswered
<1>2. ASSUME NEW l \in loads, LoadFailed(l) PROVE WorkspaceTypeOK'
  BY <1>2 DEF LoadFailed
<1>3. ASSUME NEW r \in replies, LoadApplied(r) PROVE WorkspaceTypeOK'
  BY <1>3 DEF LoadApplied
<1> QED
  BY <1>1, <1>2, <1>3 DEF LoadSteps

\* A load of the active project, begun or skipped, keeps the types of the loads.
LEMMA BeginTyped ==
  ASSUME WorkspaceTypeOK, NEW p \in Projects, BeginLoad(p)
  PROVE  /\ generation' \in Nat
         /\ error' \in Projects \cup {None, "list"}
         /\ loads' \subseteq [project: Projects, gen: Nat]
BY DEF WorkspaceTypeOK, BeginLoad

\* The creation of projects keeps the page's invariant (handleProjectCreated).
LEMMA CreationTyped ==
  PageIInv /\ CreationSteps /\ UNCHANGED <<verificationVars, collectionVars>> => PageIInv'
<1> SUFFICES ASSUME PageIInv, CreationSteps, UNCHANGED <<verificationVars, collectionVars>>
             PROVE  PageIInv'
  OBVIOUS
<1>1. /\ UNCHANGED <<active, loadVars, commandVars, rev, policy>>
      /\ UNCHANGED <<verificationVars, collectionVars>>
      /\ loading' = loading
  BY DEF CreationSteps, ToggleForm, SubmitProject, ProjectStored, ProjectCreated,
         ProjectRefused, api, screen
<1>2. /\ created' \subseteq Projects /\ projects' \subseteq Projects
      /\ selected' \in Projects \cup {None} /\ creating' \subseteq Projects
      /\ saving' \in Projects \cup {None}
  <2> USE DEF PageIInv, WorkspaceTypeOK, api, screen
  <2>1. CASE ToggleForm
    BY <2>1 DEF ToggleForm
  <2>2. ASSUME NEW p \in Projects,
               \/ SubmitProject(p) \/ ProjectStored(p)
               \/ ProjectCreated(p) \/ ProjectRefused(p)
        PROVE  /\ created' \subseteq Projects /\ projects' \subseteq Projects
               /\ selected' \in Projects \cup {None} /\ creating' \subseteq Projects
               /\ saving' \in Projects \cup {None}
    BY <2>2 DEF SubmitProject, ProjectStored, ProjectCreated, ProjectRefused, creationVars
  <2> QED
    BY <2>1, <2>2 DEF CreationSteps
<1>3. form' \in BOOLEAN
  BY Zenon DEF CreationSteps, ToggleForm, SubmitProject, ProjectStored, ProjectCreated,
         ProjectRefused, creationVars, PageIInv, WorkspaceTypeOK
<1>4. loading' => selected' = None /\ creating' = {}
  <2>1. CASE ToggleForm \/ \E p \in Projects : SubmitProject(p)
    BY <2>1 DEF ToggleForm, SubmitProject, Ready, screen, PageIInv, PageFacts
  <2>2. CASE \E p \in Projects : ProjectStored(p) \/ ProjectCreated(p) \/ ProjectRefused(p)
    BY <2>2 DEF ProjectStored, ProjectCreated, ProjectRefused, screen, creationVars, PageIInv, PageFacts
  <2> QED
    BY <2>1, <2>2 DEF CreationSteps
<1>5. selected' = None => selected = None
  BY ProjectsAssumption
     DEF CreationSteps, ToggleForm, SubmitProject, ProjectStored, ProjectCreated,
         ProjectRefused, screen
<1>6. WorkspaceTypeOK'
  BY <1>1, <1>2, <1>3 DEF PageIInv, WorkspaceTypeOK, loadVars, commandVars
<1>7. VerificationTypeOK' /\ CollectionTypeOK'
  BY <1>1, VerificationKept, CollectionKept DEF PageIInv
<1> QED
  BY <1>1, <1>4, <1>5, <1>6, <1>7 DEF PageIInv, PageFacts, commandVars, collectionVars, jobs

\* So do the commands about sources (addSource, updateSnapshotPolicy).
LEMMA CommandsTyped ==
  PageIInv /\ (RegistrationSteps \/ PolicySteps)
    => WorkspaceTypeOK' /\ (adding'.stage # "idle" => adding'.project \in Projects)
<1> DEFINE Goal == WorkspaceTypeOK' /\ (adding'.stage # "idle" => adding'.project \in Projects)
<1> SUFFICES ASSUME PageIInv, RegistrationSteps \/ PolicySteps PROVE Goal
  OBVIOUS
<1> USE DEF PageIInv, PageFacts, WorkspaceTypeOK, api, screen, loadVars, creationVars, commandVars
<1>1. CASE SubmitSource
  BY <1>1 DEF SubmitSource
<1>2. CASE SourceStored
  BY <1>2 DEF SourceStored
<1>3. CASE SourceAdded
  <2>1. AwaitedLoad(adding.project) \in Nat
    BY DEF AwaitedLoad
  <2> QED
    BY <1>3, <2>1, BeginTyped DEF SourceAdded
<1>4. CASE SourceFormFreed
  BY <1>4 DEF SourceFormFreed, NotAdding
<1>5. CASE SourceRefused
  BY <1>5 DEF SourceRefused, NotAdding
<1>6. ASSUME NEW q \in Policies, ChoosePolicy(q) PROVE Goal
  BY <1>6 DEF ChoosePolicy
<1>7. CASE PolicyStored
  BY <1>7 DEF PolicyStored
<1>8. CASE PolicyUpdated
  BY <1>8, PolicyAssumption DEF PolicyUpdated, NotUpdating
<1>9. CASE PolicyRefused
  BY <1>9, PolicyAssumption DEF PolicyRefused, NotUpdating
<1> QED
  BY <1>1, <1>2, <1>3, <1>4, <1>5, <1>6, <1>7, <1>8, <1>9
     DEF RegistrationSteps, RegistrationProgress, PolicySteps

\* Selecting and listing keep the page's invariant.
LEMMA SelectionTyped ==
  ASSUME PageIInv,
         \/ ProjectsListed /\ marked' = verified /\ UNCHANGED <<verified, panelVars, collectionVars>>
         \/ LoadSelected /\ PanelReset /\ CollectionUnmounted
         \/ (SelectionSteps \/ ProjectsUnavailable) /\ UNCHANGED <<verificationVars, collectionVars>>
         \/ PageUnmounted /\ PanelUnmounted /\ CollectionUnmounted
  PROVE  PageIInv'
<1> USE DEF PageIInv
<1>1. ASSUME ProjectsListed, marked' = verified, UNCHANGED <<verified, panelVars, collectionVars>>
      PROVE  PageIInv'
  <2>1. WorkspaceTypeOK'
    <3>1. form' \in BOOLEAN /\ loading' \in BOOLEAN
      BY <1>1, Zenon DEF ProjectsListed, creationVars, WorkspaceTypeOK
    <3> QED
      BY <1>1, <3>1 DEF ProjectsListed, WorkspaceTypeOK, api, loadVars, creationVars, commandVars
  <2>2. VerificationTypeOK'
    BY <1>1 DEF VerificationTypeOK, panelVars
  <2>3. PageFacts'
    BY <1>1 DEF PageFacts, ProjectsListed, commandVars, collectionVars, jobs
  <2> QED
    BY <1>1, <2>1, <2>2, <2>3, CollectionKept
<1>2. ASSUME LoadSelected, PanelReset, CollectionUnmounted PROVE PageIInv'
  <2>1. selected \in Projects
    BY <1>2 DEF LoadSelected, WorkspaceTypeOK, PageFacts
  <2>2. WorkspaceTypeOK'
    BY <1>2, <2>1 DEF LoadSelected, WorkspaceTypeOK, api, creationVars, commandVars
  <2>3. VerificationTypeOK'
    BY <1>2 DEF PanelReset, VerificationTypeOK, NoResult
  <2>4. CollectionTypeOK'
    BY <1>2 DEF CollectionUnmounted, CollectionTypeOK, FreshCollection, NoJob, jobs
  <2>5. PageFacts'
    BY <1>2, <2>1
       DEF PageFacts, LoadSelected, CollectionUnmounted, FreshCollection, creationVars,
           commandVars, jobs
  <2> QED
    BY <2>2, <2>3, <2>4, <2>5
<1>3. ASSUME SelectionSteps \/ ProjectsUnavailable, UNCHANGED <<verificationVars, collectionVars>>
      PROVE  PageIInv'
  <2>1. WorkspaceTypeOK'
    <3>1. form' \in BOOLEAN /\ loading' \in BOOLEAN
      BY <1>3, Zenon
         DEF SelectionSteps, Select, ProjectsUnavailable, creationVars, WorkspaceTypeOK
    <3> QED
      BY <1>3, <3>1
         DEF SelectionSteps, Select, ProjectsUnavailable, WorkspaceTypeOK, api, loadVars,
             creationVars, commandVars
  <2>2. PageFacts'
    BY <1>3, ProjectsAssumption
       DEF PageFacts, SelectionSteps, Select, Ready, ProjectsUnavailable, creationVars,
           commandVars, collectionVars, jobs
  <2> QED
    BY <1>3, <2>1, <2>2, VerificationKept, CollectionKept
<1>4. ASSUME PageUnmounted, PanelUnmounted, CollectionUnmounted PROVE PageIInv'
  <2>1. WorkspaceTypeOK'
    BY <1>4, PolicyAssumption
       DEF PageUnmounted, WorkspaceTypeOK, NoData, NotAdding, NotUpdating, api
  <2>2. VerificationTypeOK'
    BY <1>4 DEF PanelUnmounted, VerificationTypeOK, NoResult
  <2>3. CollectionTypeOK'
    BY <1>4 DEF CollectionUnmounted, CollectionTypeOK, FreshCollection, NoJob, jobs
  <2>4. PageFacts'
    BY <1>4 DEF PageFacts, PageUnmounted, CollectionUnmounted, FreshCollection, NotAdding, jobs
  <2> QED
    BY <2>1, <2>2, <2>3, <2>4
<1> QED
  BY <1>1, <1>2, <1>3, <1>4

\* The record of a suspended call keeps its shape when the call is answered,
LEMMA CallAnswered ==
  ASSUME NEW c \in CallRecords, NEW s \in {"verified", "pending"}
  PROVE  [c EXCEPT !.stage = "answered", !.status = s] \in CallRecords
BY DEF CallRecords

\* when it goes on to refresh the page,
LEMMA CallRefreshing ==
  ASSUME NEW c \in CallRecords, NEW g \in Nat
  PROVE  [c EXCEPT !.stage = "refreshing", !.gen = g] \in CallRecords
BY DEF CallRecords

\* and when the list of projects has been read.
LEMMA CallListed ==
  ASSUME NEW c \in CallRecords, NEW P \in SUBSET Projects, NEW Q \in SUBSET Projects
  PROVE  [c EXCEPT !.stage = "listed", !.list = P, !.marks = Q] \in CallRecords
BY DEF CallRecords

\* Verifications keep it (DomainVerificationPanel.tsx, refreshVerifiedProject).
LEMMA VerificationTyped ==
  ASSUME PageIInv, VerificationSteps, UNCHANGED collectionVars
  PROVE  PageIInv'
<1>1. CollectionTypeOK'
  BY CollectionKept DEF PageIInv
<1> DEFINE Rest == WorkspaceTypeOK' /\ VerificationTypeOK' /\ PageFacts'
<1>2. ASSUME UNCHANGED workspaceVars, VerificationTypeOK' PROVE Rest
  <2>1. PageFacts'
    BY <1>2 DEF PageIInv, PageFacts, workspaceVars, screen, creationVars, commandVars,
                collectionVars, jobs
  <2> QED
    BY <1>2, <2>1, WorkspaceKept DEF PageIInv
<1> USE DEF PageIInv
<1>3. CASE StartVerification \/ CheckDns
  <2>1. /\ UNCHANGED <<workspaceVars, verified, marked, challenge, result>>
        /\ selected \in Projects
        /\ \/ calls' = calls \cup {CallSent("create", selected)}
           \/ calls' = calls \cup {CallSent("verify", selected)}
    BY <1>3 DEF StartVerification, CheckDns, Mounted, WorkspaceTypeOK
  <2>2. calls' \subseteq CallRecords
    BY <2>1 DEF CallSent, CallRecords, VerificationTypeOK
  <2>3. busy' \in BOOLEAN
    BY <1>3, Zenon DEF StartVerification, CheckDns
  <2> QED
    BY <1>1, <1>2, <2>1, <2>2, <2>3 DEF VerificationTypeOK
<1>4. ASSUME NEW c \in calls, ChallengeCreated(c) \/ CallFailed(c) PROVE Rest
  <2>1. busy' \in BOOLEAN
    BY <1>4, Zenon DEF ChallengeCreated, CallFailed
  <2>2. c.project \in Projects
    BY DEF VerificationTypeOK, CallRecords
  <2> QED
    BY <1>2, <1>4, <2>1, <2>2
       DEF ChallengeCreated, CallFailed, NoResult, VerificationTypeOK
<1>5. ASSUME NEW c \in calls,
             ListRead(c) \/ \E found \in BOOLEAN : DnsChecked(c, found)
      PROVE  Rest
  <2>1. UNCHANGED <<workspaceVars, marked, challenge, result, busy>>
    BY <1>5 DEF ListRead, DnsChecked
  <2>2. verified' \subseteq Projects
    BY <1>5 DEF ListRead, DnsChecked, VerificationTypeOK, CallRecords
  <2>3. c \in CallRecords /\ calls \subseteq CallRecords
    BY DEF VerificationTypeOK
  <2>4. ASSUME NEW found \in BOOLEAN, DnsChecked(c, found) PROVE calls' \subseteq CallRecords
    <3>1. [c EXCEPT !.stage = "answered", !.status = IF found THEN "verified" ELSE "pending"]
            \in CallRecords
      BY <2>3, CallAnswered
    <3> QED
      BY <2>3, <2>4, <3>1, Zenon DEF DnsChecked
  <2>5. calls' \subseteq CallRecords
    <3>1. CASE ListRead(c)
      <4>1. [c EXCEPT !.stage = "listed", !.list = created, !.marks = verified] \in CallRecords
        BY <2>3, CallListed DEF WorkspaceTypeOK, VerificationTypeOK
      <4> QED
        BY <2>3, <3>1, <4>1, Zenon DEF ListRead
    <3> QED
      BY <1>5, <2>4, <3>1
  <2> QED
    BY <1>2, <2>1, <2>2, <2>5 DEF VerificationTypeOK
<1>6. ASSUME NEW c \in calls, DnsAnswered(c) PROVE Rest
  <2>1. c \in CallRecords /\ c.project \in Projects
    BY DEF VerificationTypeOK, CallRecords
  <2>2. AwaitedLoad(c.project) \in Nat
    BY DEF AwaitedLoad, WorkspaceTypeOK
  <2>3. /\ generation' \in Nat /\ error' \in Projects \cup {None, "list"}
        /\ loads' \subseteq [project: Projects, gen: Nat]
    BY <1>6, <2>1, BeginTyped DEF DnsAnswered, WorkspaceTypeOK
  <2>4. result' \in [project: Projects \cup {None}, status: {"none", "pending", "verified"}]
    BY <1>6, <2>1 DEF DnsAnswered, CallRecords
  <2>5. calls' \subseteq CallRecords
    <3>1. [c EXCEPT !.stage = "refreshing", !.gen = AwaitedLoad(c.project)] \in CallRecords
      BY <2>1, <2>2, CallRefreshing
    <3> QED
      BY <1>6, <3>1, Zenon DEF DnsAnswered, VerificationTypeOK
  <2>6. busy' \in BOOLEAN
    BY <1>6, Zenon DEF DnsAnswered, VerificationTypeOK
  <2>7. UNCHANGED <<api, screen, data, replies, creationVars, commandVars, verified, marked, challenge>>
    BY <1>6 DEF DnsAnswered
  <2>8. WorkspaceTypeOK'
    BY <2>3, <2>7 DEF WorkspaceTypeOK, api, screen, creationVars, commandVars
  <2>9. PageFacts'
    BY <2>7 DEF PageFacts, screen, creationVars, commandVars, collectionVars, jobs
  <2> QED
    BY <2>4, <2>5, <2>6, <2>7, <2>8, <2>9 DEF VerificationTypeOK
<1>7. ASSUME NEW c \in calls, ListReplaced(c) PROVE Rest
  <2>1. c \in CallRecords
    BY DEF VerificationTypeOK
  <2>2. busy' \in BOOLEAN
    BY <1>7, Zenon DEF ListReplaced
  <2>3. /\ projects' \subseteq Projects /\ marked' \subseteq Projects
        /\ calls' \subseteq CallRecords
        /\ challenge' \in Projects \cup {None}
        /\ result' \in [project: Projects \cup {None}, status: {"none", "pending", "verified"}]
    BY <1>7, <2>1 DEF ListReplaced, NoResult, VerificationTypeOK, CallRecords
  <2>4. UNCHANGED <<api, loading, selected, active, loadVars, creationVars, commandVars, verified>>
    BY <1>7 DEF ListReplaced
  <2>5. WorkspaceTypeOK'
    BY <2>3, <2>4 DEF WorkspaceTypeOK, api, loadVars, creationVars, commandVars
  <2>6. PageFacts'
    BY <2>4 DEF PageFacts, creationVars, commandVars, collectionVars, jobs
  <2> QED
    BY <2>2, <2>3, <2>4, <2>5, <2>6 DEF VerificationTypeOK
<1> QED
  BY <1>1, <1>2, <1>3, <1>4, <1>5, <1>6, <1>7 DEF VerificationSteps

\* Collections keep it (EvidenceCollectionPanel.tsx).
LEMMA CollectionTyped ==
  ASSUME PageIInv, CollectionIInv, CollectionSteps \/ CollectionWorker, UNCHANGED verificationVars
  PROVE  PageIInv'
<1>1. VerificationTypeOK'
  BY VerificationKept DEF PageIInv
<1> DEFINE Rest == WorkspaceTypeOK' /\ CollectionTypeOK' /\ PageFacts'
<1> USE DEF PageIInv, Terminal, NoJob
<1>2. ASSUME UNCHANGED workspaceVars PROVE WorkspaceTypeOK'
  BY <1>2, WorkspaceKept
<1> DEFINE Panel == SubmitCollection \/ CollectionRefused \/ CollectionPoll
                      \/ CollectionPollFailed \/ CollectionPolled
<1>3. CASE Panel
  <2>1. UNCHANGED <<workspaceVars, jobs>>
    BY <1>3 DEF SubmitCollection, CollectionRefused, CollectionPoll, CollectionPollFailed,
                CollectionPolled
  <2>2. collection' \in CollectionRecords
    BY <1>3 DEF SubmitCollection, CollectionRefused, CollectionPoll, CollectionPollFailed,
                CollectionPolled, CollectionRecords, CollectionIInv
  <2>3. active = None => ~ collection'.submitting /\ collection'.status = NoJob
    BY <1>3 DEF SubmitCollection, CollectionRefused, CollectionPoll, CollectionPollFailed,
                CollectionPolled, CollectionRecords, CollectionIInv, PageFacts, Ready
  <2>4. PageFacts'
    BY <2>1, <2>3 DEF PageFacts, jobs, workspaceVars, screen, creationVars, commandVars
  <2> QED
    BY <1>1, <1>2, <2>1, <2>2, <2>4 DEF CollectionTypeOK, CollectionRecords, jobs
<1>4. CASE CollectionCompleted
  <2>1. active \in Projects
    BY <1>4 DEF CollectionCompleted, PageFacts, WorkspaceTypeOK
  <2>2. /\ generation' \in Nat /\ error' \in Projects \cup {None, "list"}
        /\ loads' \subseteq [project: Projects, gen: Nat]
    BY <1>4, <2>1, BeginTyped DEF CollectionCompleted
  <2>3. UNCHANGED <<api, screen, data, replies, creationVars, commandVars, jobs>>
    BY <1>4 DEF CollectionCompleted
  <2>4. WorkspaceTypeOK'
    BY <2>2, <2>3 DEF WorkspaceTypeOK, api, screen, creationVars, commandVars
  <2>5. collection' = [collection EXCEPT !.completed = collection.job]
    BY <1>4 DEF CollectionCompleted
  <2>6. CollectionTypeOK'
    BY <2>3, <2>5 DEF CollectionTypeOK, jobs
  <2>7. PageFacts'
    BY <2>1, <2>3, ProjectsAssumption DEF PageFacts, jobs, screen, creationVars, commandVars
  <2> QED
    BY <1>1, <2>4, <2>6, <2>7
<1>5. ASSUME NEW j \in Collections, CollectionQueued(j) PROVE Rest
  <2>1. active \in Projects
    BY <1>5 DEF CollectionQueued, PageFacts, WorkspaceTypeOK
  <2>2. CollectionTypeOK'
    BY <1>5, <2>1 DEF CollectionQueued, CollectionTypeOK, FreshCollection
  <2>3. PageFacts'
    BY <1>5, <2>1, ProjectsAssumption
       DEF CollectionQueued, CollectionTypeOK, PageFacts, workspaceVars, screen, creationVars,
           commandVars
  <2> QED
    BY <1>2, <1>5, <2>2, <2>3 DEF CollectionQueued
<1>6. ASSUME NEW j \in Collections, NEW outcome \in {"succeeded", "dead_letter"},
             CollectionEnds(j, outcome)
      PROVE  Rest
  <2>1. subject[j] \in Projects
    BY <1>6 DEF CollectionEnds, PageFacts
  <2>2. UNCHANGED <<created, policy, screen, loadVars, creationVars, commandVars, subject, collection>>
    BY <1>6 DEF CollectionEnds
  <2>3. rev' \in [Projects -> Nat]
    BY <1>6, <2>1 DEF CollectionEnds, WorkspaceTypeOK
  <2>4. WorkspaceTypeOK'
    BY <2>2, <2>3 DEF WorkspaceTypeOK, screen, loadVars, creationVars, commandVars
  <2>5. recorded' \in [Collections -> Nat]
    BY <1>6, <2>1, <2>3 DEF CollectionEnds, CollectionTypeOK
  <2>6. collections' = [collections EXCEPT ![j] = outcome]
    BY <1>6 DEF CollectionEnds
  <2>7. CollectionTypeOK'
    BY <2>2, <2>5, <2>6 DEF CollectionTypeOK
  <2>8. PageFacts'
    BY <2>2, <2>6 DEF PageFacts, CollectionTypeOK, screen, creationVars, commandVars
  <2> QED
    BY <2>4, <2>7, <2>8
<1> QED
  BY <1>1, <1>3, <1>4, <1>5, <1>6 DEF CollectionSteps, CollectionWorker

\* Every step of the page keeps its invariant.
LEMMA PageStep == PageIInv /\ CollectionIInv /\ [Next]_vars => PageIInv'
<1> SUFFICES ASSUME PageIInv, CollectionIInv, PageSteps PROVE PageIInv'
  BY PageView
<1>1. CASE WorkspaceSteps /\ UNCHANGED <<verificationVars, collectionVars>>
  <2>1. CASE SelectionSteps \/ ProjectsUnavailable
    BY <1>1, <2>1, SelectionTyped
  <2>2. CASE CreationSteps
    BY <1>1, <2>2, CreationTyped
  <2>3. CASE LoadSteps
    <3>1. UNCHANGED <<screen, creationVars, commandVars>>
      BY <2>3 DEF LoadSteps, LoadAnswered, LoadFailed, LoadApplied
    <3>2. PageFacts'
      BY <1>1, <3>1 DEF PageIInv, PageFacts, screen, creationVars, commandVars, collectionVars, jobs
    <3> QED
      BY <1>1, <2>3, <3>2, LoadTyped, VerificationKept, CollectionKept DEF PageIInv
  <2>4. CASE RegistrationSteps \/ PolicySteps
    <3>1. WorkspaceTypeOK' /\ (adding'.stage # "idle" => adding'.project \in Projects)
      BY <2>4, CommandsTyped
    <3>2. UNCHANGED <<screen, creationVars>>
      BY <2>4 DEF RegistrationSteps, RegistrationProgress, PolicySteps, SubmitSource,
                  SourceStored, SourceAdded, SourceFormFreed, SourceRefused, ChoosePolicy,
                  PolicyStored, PolicyUpdated, PolicyRefused
    <3>3. PageFacts'
      BY <1>1, <3>1, <3>2 DEF PageIInv, PageFacts, screen, creationVars, collectionVars, jobs
    <3> QED
      BY <1>1, <3>1, <3>3, VerificationKept, CollectionKept DEF PageIInv
  <2> QED
    BY <1>1, <2>1, <2>2, <2>3, <2>4 DEF WorkspaceSteps
<1>2. CASE VerificationSteps /\ UNCHANGED collectionVars
  BY <1>2, VerificationTyped
<1>3. CASE (CollectionSteps \/ CollectionWorker) /\ UNCHANGED verificationVars
  BY <1>3, CollectionTyped
<1>4. CASE UNCHANGED <<workspaceVars, verificationVars, collectionVars>>
  <2>1. PageFacts'
    BY <1>4 DEF PageIInv, PageFacts, workspaceVars, screen, creationVars, commandVars,
                collectionVars, jobs
  <2> QED
    BY <1>4, <2>1, WorkspaceKept, VerificationKept, CollectionKept DEF PageIInv
<1> QED
  BY <1>1, <1>2, <1>3, <1>4, SelectionTyped DEF PageSteps

\* The page's invariant holds throughout.
THEOREM PageInvariant == Spec => []PageIInv
<1>1. Init => PageIInv
  <2> SUFFICES ASSUME Init PROVE PageIInv
    OBVIOUS
  <2>1. WorkspaceTypeOK
    BY PolicyAssumption
       DEF Init, WorkspaceInit, FreshPage, WorkspaceTypeOK, NoData, NotAdding, NotUpdating
  <2>2. VerificationTypeOK
    BY DEF Init, VerificationInit, FreshPanel, VerificationTypeOK, NoResult
  <2>3. CollectionTypeOK
    BY DEF Init, CollectionInit, FreshCollection, CollectionTypeOK, NoJob
  <2>4. PageFacts
    BY DEF Init, WorkspaceInit, FreshPage, NotAdding, CollectionInit, FreshCollection, PageFacts
  <2> QED
    BY <2>1, <2>2, <2>3, <2>4 DEF PageIInv
<1> QED
  BY <1>1, PageStep, CollectionInvariant, PTL DEF Spec

\* Every variable of the front end keeps its type (main.tsx and what it mounts).
THEOREM Typed == Spec => []TypeOK
<1>1. SessionIInv /\ PageIInv /\ SnapshotIInv => TypeOK
  BY DEF SessionIInv, PageIInv, SnapshotIInv, TypeOK
<1> QED
  BY <1>1, SessionInvariant, PageInvariant, SnapshotInvariant, PTL

-----------------------------------------------------------------------------
(* The order of the loads *)

\* The load of the current generation is one, it is of the active project, and it
\* brings at least what the screen shows of that project.
LoadIInv ==
  /\ \A l \in loads \cup replies : l.gen <= generation
  /\ \A l \in loads \cup replies : l.gen = generation => l.project = active
  /\ \A l \in loads, r \in replies : ~ (l.gen = generation /\ r.gen = generation)
  /\ \A r, s \in replies : r.gen = generation /\ s.gen = generation => r = s
  /\ \A r \in replies : r.rev <= rev[r.project]
  /\ data.project # None => data.rev <= rev[data.project]
  /\ data.project = None => data.rev = 0
  /\ \A r \in replies : r.gen = generation /\ r.project = data.project => data.rev <= r.rev

RecordsGrow == \A p \in Projects : rev[p] <= rev'[p]

\* No load moves; the API's records may grow.
LoadsKept ==
  /\ UNCHANGED <<generation, loads, replies, active>>
  /\ data'.project = data.project /\ data'.rev = data.rev
  /\ RecordsGrow

\* A load of the then active project is begun, with a new generation.
LoadBegun ==
  /\ generation' > generation
  /\ loads' = loads \cup {[project |-> active', gen |-> generation']}
  /\ UNCHANGED <<replies, data, rev>>

LoadMoves ==
  \/ LoadsKept \/ LoadBegun
  \/ \E l \in loads : LoadAnswered(l) \/ LoadFailed(l)
  \/ \E r \in replies : LoadApplied(r)
  \/ PageUnmounted

\* loadSources begins a load of the active project or does nothing.
LEMMA BeginMoves ==
  ASSUME WorkspaceTypeOK, NEW p, BeginLoad(p), UNCHANGED <<active, replies, data, rev>>
  PROVE  LoadsKept \/ LoadBegun
BY DEF WorkspaceTypeOK, BeginLoad, LoadsKept, LoadBegun, RecordsGrow

\* A step that leaves the loads, the data and the records alone.
LEMMA LoadsAlone ==
  ASSUME WorkspaceTypeOK, UNCHANGED <<generation, loads, replies, active, data, rev>>
  PROVE  LoadsKept
BY DEF WorkspaceTypeOK, LoadsKept, RecordsGrow

\* Whatever the page does, its loads move in one of those ways.
LEMMA LoadView == PageIInv /\ [Next]_vars => LoadMoves
<1> SUFFICES ASSUME PageIInv, PageSteps PROVE LoadMoves
  BY PageView
<1> DEFINE Alone == UNCHANGED <<generation, loads, replies, active, data, rev>>
<1>1. CASE PageUnmounted
  BY <1>1 DEF LoadMoves
<1>2. CASE LoadSelected
  BY <1>2 DEF LoadSelected, LoadMoves, LoadBegun, api, PageIInv, WorkspaceTypeOK
<1>3. CASE \/ ProjectsListed \/ SelectionSteps \/ ProjectsUnavailable \/ CreationSteps
           \/ UNCHANGED workspaceVars
  <2>1. Alone
    BY <1>3
       DEF ProjectsListed, SelectionSteps, Select, ProjectsUnavailable, CreationSteps, ToggleForm,
           SubmitProject, ProjectStored, ProjectCreated, ProjectRefused, workspaceVars, api,
           screen, loadVars
  <2> QED
    BY <2>1, LoadsAlone DEF LoadMoves, PageIInv
<1>4. CASE LoadSteps
  BY <1>4 DEF LoadSteps, LoadMoves
<1>5. CASE RegistrationSteps
  <2>1. CASE SubmitSource \/ SourceFormFreed \/ SourceRefused
    <3>1. Alone
      BY <2>1 DEF SubmitSource, SourceFormFreed, SourceRefused, api, screen, loadVars
    <3> QED
      BY <3>1, LoadsAlone DEF LoadMoves, PageIInv
  <2>2. CASE SourceStored
    BY <2>2 DEF SourceStored, LoadMoves, LoadsKept, RecordsGrow, screen, loadVars, PageIInv,
                WorkspaceTypeOK
  <2>3. CASE SourceAdded
    BY <2>3, BeginMoves DEF SourceAdded, LoadMoves, api, screen, PageIInv
  <2> QED
    BY <1>5, <2>1, <2>2, <2>3 DEF RegistrationSteps, RegistrationProgress
<1>6. CASE PolicySteps
  <2>1. UNCHANGED <<generation, loads, replies, active, rev>>
    BY <1>6 DEF PolicySteps, ChoosePolicy, PolicyStored, PolicyUpdated, PolicyRefused, api, screen,
                loadVars
  <2>2. data'.project = data.project /\ data'.rev = data.rev
    BY <1>6 DEF PolicySteps, ChoosePolicy, PolicyStored, PolicyUpdated, PolicyRefused, loadVars,
                PageIInv, WorkspaceTypeOK
  <2> QED
    BY <2>1, <2>2 DEF LoadMoves, LoadsKept, RecordsGrow, PageIInv, WorkspaceTypeOK
<1>7. CASE VerificationSteps
  <2>1. ASSUME NEW c \in calls, DnsAnswered(c) PROVE LoadMoves
    <3>1. UNCHANGED <<active, replies, data, rev>>
      BY <2>1 DEF DnsAnswered, api, screen
    <3>2. CASE BeginLoad(c.project)
      BY <3>1, <3>2, BeginMoves DEF LoadMoves, PageIInv
    <3>3. CASE UNCHANGED <<generation, error, loads>>
      BY <3>1, <3>3, LoadsAlone DEF LoadMoves, PageIInv
    <3> QED
      BY <2>1, <3>2, <3>3 DEF DnsAnswered
  <2>2. ASSUME NEW c \in calls, ListReplaced(c) PROVE Alone
    BY <2>2 DEF ListReplaced, api, loadVars
  <2>3. ASSUME NEW c \in calls,
               \/ ChallengeCreated(c) \/ ListRead(c) \/ CallFailed(c)
               \/ \E found \in BOOLEAN : DnsChecked(c, found)
        PROVE  Alone
    BY <2>3 DEF ChallengeCreated, ListRead, CallFailed, DnsChecked, workspaceVars, api, screen,
                loadVars
  <2>4. CASE StartVerification \/ CheckDns
    BY <2>4, LoadsAlone
       DEF StartVerification, CheckDns, workspaceVars, api, screen, loadVars, LoadMoves, PageIInv
  <2> QED
    BY <1>7, <2>1, <2>2, <2>3, <2>4, LoadsAlone DEF VerificationSteps, LoadMoves, PageIInv
<1>8. CASE CollectionSteps
  <2>1. CASE CollectionCompleted
    BY <2>1, BeginMoves DEF CollectionCompleted, api, screen, LoadMoves, PageIInv
  <2>2. CASE ~ CollectionCompleted
    <3>1. Alone
      BY <1>8, <2>2
         DEF CollectionSteps, SubmitCollection, CollectionRefused, CollectionQueued,
             CollectionPoll, CollectionPolled, CollectionPollFailed, workspaceVars, api, screen,
             loadVars
    <3> QED
      BY <3>1, LoadsAlone DEF LoadMoves, PageIInv
  <2> QED
    BY <2>1, <2>2
<1>9. CASE CollectionWorker
  <2> SUFFICES ASSUME NEW j \in Collections, NEW outcome \in {"succeeded", "dead_letter"},
                      CollectionEnds(j, outcome)
               PROVE  LoadsKept
    BY <1>9 DEF CollectionWorker, LoadMoves
  <2> QED
    BY DEF CollectionEnds, LoadsKept, RecordsGrow, screen, loadVars, PageIInv, WorkspaceTypeOK
<1> QED
  BY <1>1, <1>2, <1>3, <1>4, <1>5, <1>6, <1>7, <1>8, <1>9 DEF PageSteps, WorkspaceSteps

\* Each of them keeps the order of the loads.
LEMMA LoadStep == PageIInv /\ LoadIInv /\ LoadMoves /\ PageIInv' => LoadIInv'
<1> SUFFICES ASSUME PageIInv, LoadIInv, LoadMoves, PageIInv' PROVE LoadIInv'
  OBVIOUS
<1>1. /\ generation \in Nat /\ generation' \in Nat
      /\ rev \in [Projects -> Nat] /\ rev' \in [Projects -> Nat]
      /\ loads \subseteq [project: Projects, gen: Nat]
      /\ replies \subseteq [project: Projects, gen: Nat, rev: Nat, policy: Policies]
      /\ data \in [project: Projects \cup {None}, rev: Nat, policy: Policies]
      /\ data' \in [project: Projects \cup {None}, rev: Nat, policy: Policies]
  BY DEF PageIInv, WorkspaceTypeOK
<1> USE DEF LoadIInv
<1>2. CASE LoadsKept
  BY <1>1, <1>2 DEF LoadsKept, RecordsGrow
<1>3. CASE LoadBegun
  BY <1>1, <1>3 DEF LoadBegun
<1>4. ASSUME NEW l \in loads, LoadAnswered(l) PROVE LoadIInv'
  BY <1>1, <1>4 DEF LoadAnswered, api, screen
<1>5. ASSUME NEW l \in loads, LoadFailed(l) PROVE LoadIInv'
  BY <1>1, <1>5 DEF LoadFailed, api, screen
<1>6. ASSUME NEW r \in replies, LoadApplied(r) PROVE LoadIInv'
  <2>1. /\ replies' = replies \ {r}
        /\ UNCHANGED <<generation, loads, active, rev>>
    BY <1>6 DEF LoadApplied, api, screen
  <2>2. CASE r.gen = generation
    <3>1. \A s \in replies' : s.gen # generation
      BY <2>1, <2>2
    <3>2. data'.project = r.project /\ data'.rev = r.rev
      BY <1>6, <2>2 DEF LoadApplied, IsCurrent
    <3>3. r.project # None
      BY <1>1, ProjectsAssumption
    <3> QED
      BY <1>1, <2>1, <3>1, <3>2, <3>3
  <2>3. CASE r.gen # generation
    <3>1. data' = data
      BY <1>6, <2>3 DEF LoadApplied, IsCurrent
    <3> QED
      BY <1>1, <2>1, <3>1
  <2> QED
    BY <2>2, <2>3
<1>7. CASE PageUnmounted
  BY <1>1, <1>7 DEF PageUnmounted, NoData
<1> QED
  BY <1>2, <1>3, <1>4, <1>5, <1>6, <1>7 DEF LoadMoves

\* The order of the loads holds throughout.
THEOREM LoadInvariant == Spec => []LoadIInv
<1>1. Init => LoadIInv
  BY DEF Init, WorkspaceInit, FreshPage, NoData, LoadIInv
<1>2. PageIInv /\ LoadIInv /\ [Next]_vars /\ PageIInv' => LoadIInv'
  BY LoadView, LoadStep
<1> QED
  BY <1>1, <1>2, PageInvariant, PTL DEF Spec

\* What is shown of a project is never replaced by less of it, in whatever order
\* the answers of overlapping loads come (ProductionApp.tsx, loadGeneration).
THEOREM NeverRegresses == Spec => ShownNeverRegresses
<1>1. PageIInv /\ LoadIInv /\ [Next]_vars
        => [data'.project = data.project => data'.rev >= data.rev]_workspaceVars
  <2> SUFFICES ASSUME PageIInv, LoadIInv, LoadMoves, data'.project = data.project
               PROVE  data'.rev >= data.rev
    BY LoadView
  <2>1. /\ data \in [project: Projects \cup {None}, rev: Nat, policy: Policies]
        /\ replies \subseteq [project: Projects, gen: Nat, rev: Nat, policy: Policies]
    BY DEF PageIInv, WorkspaceTypeOK
  <2>2. CASE LoadsKept \/ LoadBegun
    BY <2>1, <2>2 DEF LoadsKept, LoadBegun
  <2>3. ASSUME NEW l \in loads, LoadAnswered(l) \/ LoadFailed(l) PROVE data'.rev >= data.rev
    BY <2>1, <2>3 DEF LoadAnswered, LoadFailed
  <2>4. ASSUME NEW r \in replies, LoadApplied(r) PROVE data'.rev >= data.rev
    BY <2>1, <2>4 DEF LoadApplied, IsCurrent, LoadIInv
  <2>5. CASE PageUnmounted
    BY <2>1, <2>5 DEF PageUnmounted, NoData, LoadIInv
  <2> QED
    BY <2>2, <2>3, <2>4, <2>5 DEF LoadMoves
<1> QED
  BY <1>1, PageInvariant, LoadInvariant, PTL DEF Spec, ShownNeverRegresses

\* No former project's records come back over the selected one's (ProductionApp.tsx,
\* activeProjectRef and loadGeneration).
THEOREM Stays == Spec => SelectionStays
<1>1. PageIInv /\ LoadIInv /\ [Next]_vars
        => [data.project = selected /\ active = selected /\ selected' = selected
              => data'.project = data.project]_workspaceVars
  <2> SUFFICES ASSUME PageIInv, LoadIInv, LoadMoves,
                      data.project = selected, active = selected, selected' = selected
               PROVE  data'.project = data.project
    BY LoadView
  <2>1. CASE LoadsKept \/ LoadBegun
    BY <2>1 DEF LoadsKept, LoadBegun
  <2>2. ASSUME NEW l \in loads, LoadAnswered(l) \/ LoadFailed(l) PROVE data'.project = data.project
    BY <2>2 DEF LoadAnswered, LoadFailed
  <2>3. ASSUME NEW r \in replies, LoadApplied(r) PROVE data'.project = data.project
    BY <2>3 DEF LoadApplied, IsCurrent, LoadIInv
  <2>4. CASE PageUnmounted
    BY <2>4 DEF PageUnmounted, NoData
  <2> QED
    BY <2>1, <2>2, <2>3, <2>4 DEF LoadMoves
<1> QED
  BY <1>1, PageInvariant, LoadInvariant, PTL DEF Spec, SelectionStays

=============================================================================
