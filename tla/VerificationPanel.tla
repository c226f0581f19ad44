------------------------- MODULE VerificationPanel -------------------------
(***************************************************************************)
(* The panel that proves the selected project's domain                     *)
(* (DomainVerificationPanel.tsx), and the refresh of the project list that *)
(* follows (refreshVerifiedProject).  The panel has no key: it stays       *)
(* mounted when another project is selected, and resets itself in an       *)
(* effect that leaves its suspended calls and busy alone.                  *)
(***************************************************************************)
EXTENDS Workspace

VARIABLES
  verified,   \* API: the projects whose domain is verified
  marked,     \* the listed projects whose record says so
  challenge,  \* the project whose challenge the panel holds
  result,     \* the last answer to Check DNS
  busy,
  calls       \* suspended createChallenge and verify calls

panelVars == <<challenge, result, busy, calls>>
verificationVars == <<verified, marked, panelVars>>

NoResult == [project |-> None, status |-> "none"]

FreshPanel == challenge = None /\ result = NoResult /\ busy = FALSE /\ calls = {}

PanelUnmounted ==
  /\ marked' = {} /\ challenge' = None /\ result' = NoResult /\ busy' = FALSE /\ calls' = {}
  /\ UNCHANGED verified

VerificationInit == verified = {} /\ marked = {} /\ FreshPanel

\* The panel is rendered for a selected project that is listed.
Mounted == selected \in projects

CallSent(kind, p) ==
  [kind |-> kind, project |-> p, challenge |-> challenge, stage |-> "sent",
   status |-> "none", list |-> {}, marks |-> {}, gen |-> 0]

\* The badge Verified.
ShowsVerified ==
  Mounted /\ (selected \in marked \/ result.status = "verified")

\* Variant: the button is not disabled while a call is under way.
Idle == TRUE

NotBusy == ~ busy

StartVerification ==
  /\ Ready /\ Mounted /\ NotBusy /\ challenge = None /\ ~ ShowsVerified
  /\ busy' = TRUE
  /\ calls' = calls \cup {CallSent("create", selected)}
  /\ UNCHANGED <<workspaceVars, verified, marked, challenge, result>>

\* createChallenge resumes in whatever project is on the screen by now.
ChallengeCreated(c) ==
  /\ c \in calls /\ c.kind = "create"
  /\ challenge' = c.project
  /\ result' = NoResult
  /\ busy' = FALSE
  /\ calls' = calls \ {c}
  /\ UNCHANGED <<workspaceVars, verified, marked>>

CheckDns ==
  /\ Ready /\ Mounted /\ NotBusy /\ challenge # None /\ ~ ShowsVerified
  /\ busy' = TRUE
  /\ calls' = calls \cup {CallSent("verify", selected)}
  /\ UNCHANGED <<workspaceVars, verified, marked, challenge, result>>

\* The API finds the record, or not yet.  A challenge of another project is not
\* found, which is one of the ways in which a call fails.
DnsChecked(c, found) ==
  /\ c \in calls /\ c.kind = "verify" /\ c.stage = "sent" /\ c.challenge = c.project
  /\ verified' = IF found THEN verified \cup {c.project} ELSE verified
  /\ calls' = (calls \ {c}) \cup
       {[c EXCEPT !.stage = "answered", !.status = IF found THEN "verified" ELSE "pending"]}
  /\ UNCHANGED <<workspaceVars, marked, challenge, result, busy>>

\* verify resumes: the answer is shown.  If it is "verified", the project of
\* its closure is reloaded and listProjects is sent.
DnsAnswered(c) ==
  /\ c \in calls /\ c.stage = "answered"
  /\ result' = [project |-> c.project, status |-> c.status]
  /\ IF c.status = "verified"
       THEN /\ calls' = (calls \ {c}) \cup
                 {[c EXCEPT !.stage = "refreshing", !.gen = AwaitedLoad(c.project)]}
            /\ BeginLoad(c.project)
            /\ UNCHANGED busy
       ELSE /\ calls' = calls \ {c}
            /\ busy' = FALSE
            /\ UNCHANGED <<generation, error, loads>>
  /\ UNCHANGED <<api, screen, data, replies, creationVars, commandVars, verified, marked, challenge>>

ListRead(c) ==
  /\ c \in calls /\ c.stage = "refreshing"
  /\ calls' = (calls \ {c}) \cup
       {[c EXCEPT !.stage = "listed", !.list = created, !.marks = verified]}
  /\ UNCHANGED <<workspaceVars, verified, marked, challenge, result, busy>>

\* Both halves of the refresh are done: the list is replaced by the one that was
\* read.  A selected project it lacks loses its panel.
ListReplaced(c) ==
  /\ c \in calls /\ c.stage = "listed" /\ Settled(c.gen)
  /\ projects' = c.list
  /\ marked' = c.marks
  /\ IF selected \in c.list
       THEN /\ busy' = FALSE /\ calls' = calls \ {c}
            /\ UNCHANGED <<challenge, result>>
       ELSE challenge' = None /\ result' = NoResult /\ busy' = FALSE /\ calls' = {}
  /\ UNCHANGED <<api, loading, selected, active, loadVars, creationVars, commandVars, verified>>

\* Any of the calls fails.  A missing step-up leaves the page instead.
CallFailed(c) ==
  /\ c \in calls
  /\ calls' = calls \ {c}
  /\ busy' = FALSE
  /\ UNCHANGED <<workspaceVars, verified, marked, challenge, result>>

\* The effect on project.id, with the ones of the workspace.  The panel is a new
\* one if none was rendered before.
PanelReset ==
  /\ challenge' = None /\ result' = NoResult
  /\ UNCHANGED <<busy, calls, verified, marked>>

VerificationSteps ==
  \/ StartVerification \/ CheckDns
  \/ \E c \in calls :
       \/ ChallengeCreated(c) \/ DnsAnswered(c)
       \/ ListRead(c) \/ ListReplaced(c) \/ CallFailed(c)
       \/ \E found \in BOOLEAN : DnsChecked(c, found)

-----------------------------------------------------------------------------
(* Properties *)

CallRecords ==
  [kind: {"create", "verify"}, project: Projects, challenge: Projects \cup {None},
   stage: {"sent", "answered", "refreshing", "listed"},
   status: {"none", "pending", "verified"},
   list: SUBSET Projects, marks: SUBSET Projects, gen: Nat]

VerificationTypeOK ==
  /\ verified \subseteq Projects
  /\ marked \subseteq Projects
  /\ challenge \in Projects \cup {None}
  /\ result \in [project: Projects \cup {None}, status: {"none", "pending", "verified"}]
  /\ busy \in BOOLEAN
  /\ calls \subseteq CallRecords

\* A challenge is created, or checked, by one call at a time, although the panel
\* outlives the selection a call began under: rotating a challenge while it is
\* being checked would supersede it.
OneVerificationCall == Cardinality(calls) = (IF busy THEN 1 ELSE 0)

\* "Only observed, tenant-isolated records from the production API are displayed
\* here": the badge Verified is shown for projects the API has verified.
BadgeIsTrue == ShowsVerified => selected \in verified
=============================================================================
