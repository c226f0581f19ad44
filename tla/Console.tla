------------------------------ MODULE Console ------------------------------
(***************************************************************************)
(* The production front end (main.tsx): the session's gate around the      *)
(* workspace and the panels the workspace mounts.  Selecting a project     *)
(* mounts new keyed panels, and a closed gate unmounts everything.         *)
(***************************************************************************)
EXTENDS Session, VerificationPanel, CollectionPanel, SnapshotPanel

vars == <<sessionVars, workspaceVars, verificationVars, collectionVars, snapshotVars>>

Init ==
  /\ SessionInit /\ WorkspaceInit /\ VerificationInit /\ CollectionInit /\ SnapshotInit

panels == <<verificationVars, collectionVars, snapshotVars>>

PageOpens == SessionEstablished /\ UNCHANGED <<workspaceVars, panels>>

\* ProductionApp is rendered for an open gate only.
SessionMoves ==
  /\ SessionEvents
  /\ IF GateOpen /\ ~ GateOpen'
       THEN PageUnmounted /\ PanelUnmounted /\ CollectionUnmounted /\ ScopeUnmounted
       ELSE UNCHANGED <<workspaceVars, panels>>

OnPage(step) == GateOpen /\ step /\ UNCHANGED sessionVars

ListShown ==
  OnPage(ProjectsListed /\ marked' = verified
           /\ UNCHANGED <<verified, panelVars, collectionVars, snapshotVars>>)

\* The effects of a new selection: the panel without a key resets itself, the
\* others are new.
SelectionEffects == OnPage(LoadSelected /\ PanelReset /\ CollectionUnmounted /\ ScopeUnmounted)

LoadProgress == OnPage(LoadSteps /\ UNCHANGED panels)

UserSelects == OnPage((SelectionSteps \/ ProjectsUnavailable) /\ UNCHANGED panels)

Creating == OnPage(CreationSteps /\ UNCHANGED panels)

Registering == OnPage(RegistrationSteps /\ UNCHANGED panels)

Regulating == OnPage(PolicySteps /\ UNCHANGED panels)

Verifying == OnPage(VerificationSteps /\ UNCHANGED <<collectionVars, snapshotVars>>)

Collecting == OnPage(CollectionSteps /\ UNCHANGED <<verificationVars, snapshotVars>>)

CollectorWorks ==
  CollectionWorker /\ UNCHANGED <<sessionVars, verificationVars, snapshotVars>>

Capturing == OnPage(CaptureSteps /\ UNCHANGED <<verificationVars, collectionVars>>)

CapturerWorks ==
  CaptureWorker /\ UNCHANGED <<sessionVars, verificationVars, collectionVars>>

Listing == OnPage(HistorySteps /\ UNCHANGED <<verificationVars, collectionVars>>)

Inspecting == OnPage(DetailSteps /\ UNCHANGED <<verificationVars, collectionVars>>)

Next ==
  \/ PageOpens \/ SessionMoves \/ ListShown \/ SelectionEffects \/ LoadProgress \/ UserSelects
  \/ Creating \/ Registering \/ Regulating \/ Verifying
  \/ Collecting \/ CollectorWorks \/ Capturing \/ CapturerWorks \/ Listing \/ Inspecting

Spec == Init /\ [][Next]_vars

\* The API answers, effects run, timers fire, and polls of a capture do not fail
\* for ever.  Nothing is asked of the user.
Fairness ==
  /\ WF_vars(LoadProgress) /\ WF_vars(SelectionEffects)
  /\ WF_vars(OnPage(RegistrationProgress /\ UNCHANGED panels))
  /\ WF_vars(OnPage(CollectionCompleted /\ UNCHANGED <<verificationVars, snapshotVars>>))
  /\ WF_vars(OnPage(CapturePoll /\ UNCHANGED <<verificationVars, collectionVars>>))
  /\ SF_vars(OnPage(CapturePolled /\ UNCHANGED <<verificationVars, collectionVars>>))
  /\ WF_vars(CapturerWorks)

FairSpec == Spec /\ Fairness

TypeOK ==
  /\ SessionTypeOK /\ WorkspaceTypeOK /\ VerificationTypeOK /\ CollectionTypeOK /\ SnapshotTypeOK
=============================================================================
