----------------------------- MODULE MCConsole -----------------------------
(***************************************************************************)
(* Instances of Console for TLC.  In each behaviour the user works with    *)
(* one part of the page besides selecting projects; the parts meet only in *)
(* the loads they begin, so that their product adds nothing to look at.    *)
(***************************************************************************)
EXTENDS Console

VARIABLE focus   \* bound: the part of the page that is used

Parts == {"session", "projects", "domain", "sources", "collection", "capture", "bodies"}

MCInit ==
  /\ Init /\ focus \in Parts
  /\ focus # "session" => issued = 1 /\ ~ expired
  /\ IF focus = "projects" THEN Cardinality(created) <= 1 ELSE created = Projects

InFocus ==
  \/ focus = "session" /\ SessionMoves
  \/ focus = "projects" /\ (Creating \/ Verifying)
  \/ focus = "domain" /\ Verifying
  \/ focus = "sources" /\ (Registering \/ Regulating)
  \/ focus = "collection" /\ (Collecting \/ CollectorWorks)
  \/ focus = "capture" /\ (Capturing \/ CapturerWorks \/ Listing)
  \/ focus = "bodies" /\ (Registering \/ Listing \/ Inspecting)

\* bound: nobody who uses a panel comes back to a project.
Switches == UserSelects /\ (focus = "session" \/ generation < 4)

MCNext ==
  /\ \/ ListShown \/ SelectionEffects \/ LoadProgress \/ Switches
     \/ PageOpens
     \/ InFocus
  /\ UNCHANGED focus

MCSpec == MCInit /\ [][MCNext]_<<vars, focus>> /\ Fairness
=============================================================================
