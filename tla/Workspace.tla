----------------------------- MODULE Workspace -----------------------------
(***************************************************************************)
(* The production front end's project workspace (ProductionApp.tsx): the   *)
(* list of projects, the selected one, the loads of its sources and        *)
(* evidence, and the commands that create projects, register sources and   *)
(* change capture policies.                                                *)
(*                                                                         *)
(* A handler is cut at its awaits: one action sends the request, others    *)
(* are the API's, and the answer runs the rest of the handler with the     *)
(* values its closure captured.  Several handlers can be suspended at once *)
(* and the answers come in any order.                                      *)
(***************************************************************************)
EXTENDS Integers, FiniteSets

CONSTANTS
  Projects,       \* the projects there can be
  Policies,       \* values of snapshot_policy the page offers
  DefaultPolicy,
  None,           \* the empty string, or null
  MaxRev,         \* bound: sources and observations of a project
  MaxGeneration   \* bound: no event of the user is handled beyond it

ASSUME ProjectsAssumption == None \notin Projects
ASSUME PolicyAssumption == DefaultPolicy \in Policies
ASSUME BoundsAssumption == MaxRev \in Nat \ {0} /\ MaxGeneration \in Nat

VARIABLES
  created,     \* API: the tenant's projects
  rev,         \* API: how many sources and observations each project has
  policy,      \* API: the capture policy of each project's first source
  loading,     \* the first listProjects has not returned
  projects,    \* the projects listed
  selected,    \* selectedProjectId
  active,      \* activeProjectRef: differs from selected until effects run
  generation,  \* loadGeneration
  data,        \* projectData
  error,       \* what the alert is about: a project, the list of them, or None
  loads,       \* suspended loadSources calls
  replies,     \* those whose answers have arrived
  form,        \* showProjectForm
  saving,      \* the creation the form on screen waits for
  creating,    \* suspended createProject calls
  adding,      \* the suspended addSource call
  updating     \* the suspended updateSnapshotPolicy call

api == <<created, rev, policy>>
screen == <<loading, projects, selected, active>>
loadVars == <<generation, data, error, loads, replies>>
creationVars == <<form, saving, creating>>
commandVars == <<adding, updating>>
workspaceVars == <<api, screen, loadVars, creationVars, commandVars>>

NoData == [project |-> None, rev |-> 0, policy |-> DefaultPolicy]
NotAdding == [project |-> None, stage |-> "idle", gen |-> 0]
NotUpdating == [project |-> None, policy |-> DefaultPolicy, stage |-> "idle"]

\* Everything the page holds, as it is when ProductionApp mounts.
FreshPage ==
  /\ loading = TRUE /\ projects = {} /\ selected = None /\ active = None
  /\ generation = 1 /\ data = NoData /\ error = None /\ loads = {} /\ replies = {}
  /\ form = FALSE /\ saving = None /\ creating = {}
  /\ adding = NotAdding /\ updating = NotUpdating

\* ProductionApp is unmounted; mounted again, it is a fresh page.
PageUnmounted ==
  /\ loading' = TRUE /\ projects' = {} /\ selected' = None /\ active' = None
  /\ generation' = 1 /\ data' = NoData /\ error' = None /\ loads' = {} /\ replies' = {}
  /\ form' = FALSE /\ saving' = None /\ creating' = {}
  /\ adding' = NotAdding /\ updating' = NotUpdating
  /\ UNCHANGED api

WorkspaceInit ==
  /\ created \in SUBSET Projects
  /\ rev = [p \in Projects |-> IF p \in created THEN 1 ELSE 0]
  /\ policy = [p \in Projects |-> DefaultPolicy]
  /\ FreshPage

-----------------------------------------------------------------------------
(* Loads *)

\* Variant: what is on the screen is not loaded again.
BeginLoadOnce(p) ==
  IF p # active \/ data.project = p
    THEN UNCHANGED <<generation, error, loads>>
    ELSE /\ generation' = generation + 1
         /\ error' = None
         /\ loads' = loads \cup {[project |-> p, gen |-> generation + 1]}

\* loadSources: a callback of a project that is not the active one returns at
\* once, any other takes the next generation.
BeginLoad(p) ==
  IF p # active
    THEN UNCHANGED <<generation, error, loads>>
    ELSE /\ generation' = generation + 1
         /\ error' = None
         /\ loads' = loads \cup {[project |-> p, gen |-> generation + 1]}

\* The generation a caller of loadSources awaits; 0 is none.
AwaitedLoad(p) == IF p = active THEN generation + 1 ELSE 0

\* Variant: a caller waits for the load on the screen.
SettledAndCurrent(g) == g = generation /\ \A l \in loads \cup replies : l.gen # g

\* A superseded load is not aborted: its promise resolves like any other.
Settled(g) == \A l \in loads \cup replies : l.gen # g

\* listSources and listEvidence are answered.
LoadAnswered(l) ==
  /\ l \in loads
  /\ loads' = loads \ {l}
  /\ replies' = replies \cup
       {[project |-> l.project, gen |-> l.gen, rev |-> rev[l.project], policy |-> policy[l.project]]}
  /\ UNCHANGED <<api, screen, generation, data, error, creationVars, commandVars>>

\* Variant: whatever arrives is shown.
Latest(g) == g \in 0..generation

IsCurrent(g) == g = generation

\* Both answers are in: the data of the current generation are shown.
LoadApplied(r) ==
  /\ r \in replies
  /\ replies' = replies \ {r}
  /\ data' = IF IsCurrent(r.gen)
               THEN [project |-> r.project, rev |-> r.rev, policy |-> r.policy]
               ELSE data
  /\ UNCHANGED <<api, screen, generation, error, loads, creationVars, commandVars>>

\* Variant: a load fails without a word.
LoadLost(l) ==
  /\ l \in loads
  /\ loads' = loads \ {l}
  /\ UNCHANGED <<api, screen, generation, data, error, replies, creationVars, commandVars>>

\* One of the two fails.
LoadFailed(l) ==
  /\ l \in loads
  /\ loads' = loads \ {l}
  /\ error' = IF l.gen = generation THEN l.project ELSE error
  /\ UNCHANGED <<api, screen, generation, data, replies, creationVars, commandVars>>

\* The cleanup and the effect on selectedProjectId, which React runs after it
\* has rendered the new selection.
LoadSelected ==
  /\ active # selected
  /\ generation' = generation + 2
  /\ active' = selected
  /\ error' = None
  /\ loads' = loads \cup {[project |-> selected, gen |-> generation + 2]}
  /\ UNCHANGED <<api, loading, projects, selected, data, replies, creationVars, commandVars>>

-----------------------------------------------------------------------------
(* Projects *)

\* Effects are run before the next event of the user is handled.
Ready == ~ loading /\ active = selected /\ generation < MaxGeneration

\* The first listProjects: the first project is selected.
ProjectsListed ==
  /\ loading
  /\ loading' = FALSE
  /\ projects' = created
  /\ IF created = {} THEN selected' = None ELSE selected' \in created
  /\ UNCHANGED <<api, active, loadVars, creationVars, commandVars>>

\* It fails: the page shows the alert and no projects.
ProjectsUnavailable ==
  /\ loading
  /\ loading' = FALSE
  /\ error' = "list"
  /\ UNCHANGED <<api, projects, selected, active, generation, data, loads, replies,
                 creationVars, commandVars>>

Select(p) ==
  /\ Ready /\ p \in projects \ {selected}
  /\ selected' = p
  /\ UNCHANGED <<api, loading, projects, active, loadVars, creationVars, commandVars>>

\* The button New project: closing the form unmounts it, not its request.
ToggleForm ==
  /\ Ready /\ projects # {}
  /\ form' = ~ form
  /\ saving' = None
  /\ UNCHANGED <<api, screen, loadVars, creating, commandVars>>

FormShown == form \/ projects = {}

SubmitProject(p) ==
  /\ Ready /\ FormShown /\ saving = None
  /\ p \notin created \cup creating
  /\ creating' = creating \cup {p}
  /\ saving' = p
  /\ UNCHANGED <<api, screen, loadVars, form, commandVars>>

ProjectStored(p) ==
  /\ p \in creating \ created
  /\ created' = created \cup {p}
  /\ UNCHANGED <<rev, policy, screen, loadVars, creationVars, commandVars>>

\* createProject resumes: the new project is listed and selected, and the form,
\* whichever it is by now, is closed.
ProjectCreated(p) ==
  /\ p \in creating \cap created
  /\ creating' = creating \ {p}
  /\ saving' = None
  /\ form' = FALSE
  /\ projects' = projects \cup {p}
  /\ selected' = p
  /\ UNCHANGED <<api, loading, active, loadVars, commandVars>>

\* The request fails, or its answer is lost after the project was stored.
ProjectRefused(p) ==
  /\ p \in creating
  /\ creating' = creating \ {p}
  /\ saving' = IF saving = p THEN None ELSE saving
  /\ UNCHANGED <<api, screen, loadVars, form, commandVars>>

-----------------------------------------------------------------------------
(* Sources *)

SubmitSource ==
  /\ Ready /\ selected # None /\ adding.stage = "idle"
  /\ rev[selected] < MaxRev
  /\ adding' = [project |-> selected, stage |-> "sent", gen |-> 0]
  /\ error' = None
  /\ UNCHANGED <<api, screen, generation, data, loads, replies, creationVars, updating>>

SourceStored ==
  /\ adding.stage = "sent"
  /\ rev' = [rev EXCEPT ![adding.project] = @ + 1]
  /\ adding' = [adding EXCEPT !.stage = "stored"]
  /\ UNCHANGED <<created, policy, screen, loadVars, creationVars, updating>>

\* addSource resumes: it reloads the project of its closure and waits for that.
SourceAdded ==
  /\ adding.stage = "stored"
  /\ adding' = [adding EXCEPT !.stage = "reloading", !.gen = AwaitedLoad(adding.project)]
  /\ BeginLoad(adding.project)
  /\ UNCHANGED <<api, screen, data, replies, creationVars, updating>>

SourceFormFreed ==
  /\ adding.stage = "reloading" /\ Settled(adding.gen)
  /\ adding' = NotAdding
  /\ UNCHANGED <<api, screen, loadVars, creationVars, updating>>

SourceRefused ==
  /\ adding.stage \in {"sent", "stored"}
  /\ adding' = NotAdding
  /\ error' = adding.project
  /\ UNCHANGED <<api, screen, generation, data, loads, replies, creationVars, updating>>

\* The records on the screen: those of the selected project, or none.
Shown == IF data.project = selected THEN data ELSE NoData

\* A capture policy is chosen at a source on the screen.
ChoosePolicy(q) ==
  /\ Ready /\ Shown.rev > 0 /\ updating.stage = "idle"
  /\ q # data.policy
  /\ updating' = [project |-> data.project, policy |-> q, stage |-> "sent"]
  /\ error' = None
  /\ UNCHANGED <<api, screen, generation, data, loads, replies, creationVars, adding>>

PolicyStored ==
  /\ updating.stage = "sent"
  /\ policy' = [policy EXCEPT ![updating.project] = updating.policy]
  /\ updating' = [updating EXCEPT !.stage = "stored"]
  /\ UNCHANGED <<created, rev, screen, loadVars, creationVars, adding>>

\* The record is replaced if its project is still the one on the screen.
PolicyUpdated ==
  /\ updating.stage = "stored"
  /\ data' = IF updating.project = data.project
               THEN [data EXCEPT !.policy = updating.policy]
               ELSE data
  /\ updating' = NotUpdating
  /\ UNCHANGED <<api, screen, generation, error, loads, replies, creationVars, adding>>

PolicyRefused ==
  /\ updating.stage \in {"sent", "stored"}
  /\ updating' = NotUpdating
  /\ error' = updating.project
  /\ UNCHANGED <<api, screen, generation, data, loads, replies, creationVars, adding>>

-----------------------------------------------------------------------------
(* Each group of handlers, for the modules that compose them *)

LoadSteps ==
  \/ \E l \in loads : LoadAnswered(l) \/ LoadFailed(l)
  \/ \E r \in replies : LoadApplied(r)

SelectionSteps == \E p \in Projects : Select(p)

CreationSteps ==
  \/ ToggleForm
  \/ \E p \in Projects :
       SubmitProject(p) \/ ProjectStored(p) \/ ProjectCreated(p) \/ ProjectRefused(p)

RegistrationProgress == SourceStored \/ SourceAdded \/ SourceFormFreed \/ SourceRefused

RegistrationSteps == SubmitSource \/ RegistrationProgress

PolicySteps ==
  \/ \E q \in Policies : ChoosePolicy(q)
  \/ PolicyStored \/ PolicyUpdated \/ PolicyRefused

WorkspaceNext ==
  \/ ProjectsListed \/ ProjectsUnavailable \/ SelectionSteps \/ LoadSelected
  \/ LoadSteps \/ CreationSteps \/ RegistrationSteps \/ PolicySteps

WorkspaceSpec == WorkspaceInit /\ [][WorkspaceNext]_workspaceVars

-----------------------------------------------------------------------------
(* Properties *)

WorkspaceTypeOK ==
  /\ created \subseteq Projects
  /\ rev \in [Projects -> Nat]
  /\ policy \in [Projects -> Policies]
  /\ loading \in BOOLEAN
  /\ projects \subseteq Projects
  /\ selected \in Projects \cup {None}
  /\ active \in Projects \cup {None}
  /\ generation \in Nat
  /\ data \in [project: Projects \cup {None}, rev: Nat, policy: Policies]
  /\ error \in Projects \cup {None, "list"}
  /\ loads \subseteq [project: Projects, gen: Nat]
  /\ replies \subseteq [project: Projects, gen: Nat, rev: Nat, policy: Policies]
  /\ form \in BOOLEAN
  /\ saving \in Projects \cup {None}
  /\ creating \subseteq Projects
  /\ adding \in [project: Projects \cup {None},
                 stage: {"idle", "sent", "stored", "reloading"}, gen: Nat]
  /\ updating \in [project: Projects \cup {None}, policy: Policies,
                   stage: {"idle", "sent", "stored"}]

\* "Completion callbacks from an unmounted project must not replace its
\* successor's data": however the answers of overlapping loads are ordered, what
\* is on the screen for a project is never replaced by fewer of its records.
ShownNeverRegresses ==
  [][data'.project = data.project => data'.rev >= data.rev]_workspaceVars

\* ... and once the selection has been loaded no former project comes back.
SelectionStays ==
  [][data.project = selected /\ active = selected /\ selected' = selected
       => data'.project = data.project]_workspaceVars

\* A selected project is loaded or there is an alert: commands and loads of other
\* projects, which set and clear the same alert, do not hide a failed load.
SelectionLoads ==
  \A p \in Projects :
    selected = p ~> data.project = p \/ error # None \/ selected # p

\* The form of addSource is usable again although the load it waits for may have
\* been superseded.
SourceFormIsFreed == adding.stage = "reloading" ~> adding.stage = "idle"
=============================================================================
