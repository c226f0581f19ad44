------------------------------- MODULE DemoApp -------------------------------
(***************************************************************************)
(* App.tsx, the demonstration front end: the navigation, the page that is  *)
(* mounted, the dashboard of a brand and the simulated audit, with every   *)
(* handler that is suspended at an await.  Handlers of a page that has     *)
(* been left go on, but reach nothing that is on the screen.               *)
(***************************************************************************)
EXTENDS Naturals, IntelligencePages, PlatformPages, AdministrationPages

CONSTANTS
  Tabs,          \* the tabs the user visits
  Brands,        \* the brands the user chooses from
  InitialBrand,  \* 'Psychs'
  Ids            \* bound: names of the handlers that may be suspended at once

ASSUME DemoAssumption == InitialBrand \in Brands

(* Navigation *)

\* The sections of the sidebar.
PerceptionSection ==
  {"overview", "panels", "competitive", "counterpositioning", "tribunal", "citationseeds",
   "abautopilot", "poisoningsentinel", "buyerjourney", "seismograph", "indexwatch", "reporting"}

OptimizationSection == {"ingestion", "optimizer", "knowledgegraph", "machinereadable", "cms"}

DriftSection == {"canaries", "sampler", "gitops", "attribution"}

DefenseSection == {"pentest", "botarmor", "scheduler", "security", "billing", "agency"}

ArchitectureSection == {"settings", "network", "economics", "mcp", "audit", "soc2compliance"}

SidebarTabs ==
  PerceptionSection \cup OptimizationSection \cup DriftSection \cup DefenseSection
    \cup ArchitectureSection

\* The palette's modules, and its actions other than the audit.
PaletteModules == SidebarTabs
PaletteActions == {"ingestion", "soc2compliance", "reporting"}

TourSteps == {"overview", "competitive", "panels", "optimizer", "scheduler", "security"}

\* The brands of the navigation bar and of the palette.
BenchmarkBrands == {"Psychs", "Stripe", "Snowflake", "Vercel"}

(* Pages *)

\* What `activeTab === ...` renders.
PageOf(t) ==
  CASE t = "counterpositioning" -> CounterPositioning
    [] t = "tribunal" -> Tribunal
    [] t = "citationseeds" -> CitationSeeds
    [] t = "abautopilot" -> Autopilot
    [] t = "poisoningsentinel" -> Sentinel
    [] t = "buyerjourney" -> BuyerJourney
    [] t = "seismograph" -> Seismograph
    [] t = "reporting" -> BoardReport
    [] t = "indexwatch" -> IndexWatch
    [] t = "ingestion" -> Ingestion
    [] t = "knowledgegraph" -> KnowledgeGraph
    [] t = "canaries" -> Canaries
    [] t = "sampler" -> Sampler
    [] t = "gitops" -> GitOps
    [] t = "attribution" -> Attribution
    [] t = "pentest" -> PenTest
    [] t = "botarmor" -> BotArmor
    [] t = "scheduler" -> Scheduler
    [] t = "security" -> AccessSecurity
    [] t = "billing" -> Billing
    [] t = "agency" -> Agency
    [] t = "settings" -> Settings
    [] t = "network" -> Network
    [] t = "economics" -> Economics
    [] t = "mcp" -> Terminal
    [] t = "audit" -> Audit
    [] t = "soc2compliance" -> SOC2Compliance
    [] OTHER -> StillPage

\* The tabs whose pages have handlers of their own.
RequestingTabs == {t \in SidebarTabs : DOMAIN PageOf(t).handlers # {}}

(* The application's own handlers *)

BrandChange ==
  Handler(<<Step("dashboard", {}, {getPerceptionScore, getSovAnalysis, getCitationGaps,
                                   getWinLossDiagnosis})>>)

Hydration ==
  Handler(<<Step("dashboard", {}, {getPerceptionScore, runAudit, getSovAnalysis, getCitationGaps,
                                   getWinLossDiagnosis, getKddDiff, getEntitySchemas, getLlmsTxt,
                                   getWebhooks, getRemeasurement, getUnitEconomics, getAuditLogs,
                                   getMcpTools, getKmsTdkStatus})>>)

OperationsRefresh ==
  Handler(<<Await({}, {getQueueJobs, getQueueStats, getAuditSchedules, getAlertWebhooks,
                       getSSOConfig, getUsers, getActiveSessions, getTokenUsage,
                       getSubscription, getInvoices})>>)

\* A simulated audit has six timers, set together; each moves the progress bar and
\* adds to the stream, which are left out, and the last lowers the flag.
SimulatedAudit == Handler(<<Await({"isAuditing"}, {})>>)

ConfirmPublish == Handler(<<Await({}, {publishDiff})>>)

\* What is left of a page's handler that ends in a refresh when the page is left:
\* all of them make a request, wait and refresh.
LeftBehind == Then(<<Await({}, {updateUserRole}), Timer>>, "refreshOperationsData")

AppHandlers ==
  {"handleBrandChange", "hydrate", "refreshOperationsData", "handleTriggerAudit",
   "handleConfirmPublish", "leftBehind"}

AppHandler(name) ==
  CASE name = "handleBrandChange" -> BrandChange
    [] name = "hydrate" -> Hydration
    [] name = "refreshOperationsData" -> OperationsRefresh
    [] name = "handleTriggerAudit" -> SimulatedAudit
    [] name = "handleConfirmPublish" -> ConfirmPublish
    [] name = "leftBehind" -> LeftBehind

AppFlags == {"isAuditing"}

(* Types *)

VisitedTabs == Tabs \cup {"overview"}

\* Of which brand a page's report is: of one, of none, or of what the user picked.
Reports == Brands \cup {"all", "picked"}

\* Of which brand each part of the dashboard is: the dataset's, or answered.
Parts == {"score", "sov", "gaps", "winloss"}
Dashboards == [Parts -> [brand : Brands \cup {"all"}, source : {"benchmark", "answer"}]]

CallNames == AppHandlers \cup UNION {DOMAIN PageOf(t).handlers : t \in VisitedTabs}

CallRecords ==
  [name : CallNames, owner : {"app", "page"}, tab : VisitedTabs \cup {"app"}, step : Nat,
   brand : Brands \cup {"all"}, base : Reports \cup {None}]

ASSUME NoneAssumption == None \notin Reports /\ None \notin CallRecords

-----------------------------------------------------------------------------

VARIABLES
  tab,         \* activeTab
  activeBrand, \* activeBrand
  dashboard,   \* of which brand, and from where, each part of the dashboard is
  flags,       \* the flags that are up: the application's and the page's
  report,      \* of which brand the page's report is, or None
  calls,       \* the suspended handlers
  loadFailed,  \* history: a load of this page has failed
  crossed      \* history: the brand has changed under a handler of this page, or one
               \* has begun on the report of a former brand

appVars == <<activeBrand, dashboard>>
pageVars == <<flags, report, loadFailed, crossed>>
vars == <<tab, appVars, pageVars, calls>>

CurrentPage == PageOf(tab)

HandlerOf(c) ==
  IF c.owner = "app" THEN AppHandler(c.name) ELSE PageOf(c.tab).handlers[c.name]

CurrentStep(c) == HandlerOf(c).steps[c.step]

\* The flags a suspended handler has raised so far, and those it lowers at its end.
Raised(c) ==
  LET steps == HandlerOf(c).steps IN UNION {steps[k].raises : k \in 1..c.step}
Lowers(c) == Raised(c) \cup HandlerOf(c).clears

\* A handler of the application belongs to no tab, and only those that fill the
\* dashboard ask for a brand.
AppCall(name, brand) ==
  [name |-> name, owner |-> "app", tab |-> "app", step |-> 1, base |-> None,
   brand |-> IF AppHandler(name).steps[1].kind = "dashboard" THEN brand ELSE "all"]

\* A handler of a page begins with the brand and the report of the render it belongs
\* to.
PageCall(name, t, brand, base) ==
  [name |-> name, owner |-> "page", tab |-> t, step |-> 1, brand |-> brand,
   base |-> IF PageOf(t).handlers[name].steps[1].kind = "mark" THEN base ELSE None]

Call(name, t, brand, base) ==
  IF name \in AppHandlers THEN AppCall(name, brand) ELSE PageCall(name, t, brand, base)

Free(cs) == {i \in Ids : cs[i] = None}

\* The suspended handlers when c begins too.
With(cs, c) == [cs EXCEPT ![CHOOSE i \in Free(cs) : TRUE] = c]

OnPage(i) == calls[i] # None /\ calls[i].owner = "page"

\* The spinner in the place of the page.
Spinner ==
  LET v == CurrentPage.view
  IN \/ v.hides = "first" /\ v.flag \in flags /\ report = None
     \/ v.hides = "empty" /\ (v.flag \in flags \/ report = None)

\* An exception while rendering: there is no boundary, React unmounts everything.
Blank == CurrentPage.view.trusts /\ report = None /\ ~Spinner

\* The state of a page when it is mounted, its effects not run yet.
OpeningFlags(t) == PageOf(t).flags

(* Dashboard *)

\* The four parts are set together (Promise.all); the score names no brand.
Dashboard(brand, source) ==
  [part \in Parts |->
     [brand |-> IF part = "score" /\ source # "benchmark" THEN "all" ELSE brand,
      source |-> source]]

(* Mounting *)

\* Variant: a page's handlers still reach the screen when the page has been left.
StillAttached == calls

\* The handlers that go on when the page is left: the application's, and the
\* page's that end by calling the application.
Detached ==
  [i \in Ids |->
     IF ~OnPage(i) THEN calls[i]
       ELSE IF HandlerOf(calls[i]).after \in AppHandlers
         THEN [AppCall("leftBehind", activeBrand) EXCEPT !.step = calls[i].step]
         ELSE None]

\* Page t is mounted for a brand, among the suspended handlers cs.
Mounted(t, brand, cs) ==
  LET page == PageOf(t)
      load == page.mount
  IN /\ tab' = t
     /\ report' = page.report
     /\ loadFailed' = FALSE /\ crossed' = FALSE
     /\ flags' = (flags \cap AppFlags) \cup OpeningFlags(t)
                   \cup (IF load = "none" THEN {} ELSE page.handlers[load].steps[1].raises)
     /\ load # "none" => Free(cs) # {}
     /\ calls' = IF load = "none" THEN cs ELSE With(cs, Call(load, t, brand, None))

Init ==
  /\ tab = "overview" /\ activeBrand = InitialBrand
  /\ dashboard = Dashboard(InitialBrand, "benchmark")
  /\ flags = {} /\ report = None /\ loadFailed = FALSE /\ crossed = FALSE
  /\ calls = With(With([i \in Ids |-> None], AppCall("refreshOperationsData", activeBrand)),
                  AppCall("hydrate", activeBrand))

\* The sidebar, the palette and the tour select another tab.  Bound: the user goes
\* from page to page by way of the overview.
SelectTab(t) ==
  /\ ~Blank
  /\ t \in SidebarTabs \cup PaletteModules \cup PaletteActions \cup TourSteps
  /\ t # tab
  /\ "overview" \in {t, tab}
  /\ Mounted(t, activeBrand, Detached)
  /\ UNCHANGED appVars

(* Brands *)

\* Variant: the pages load when they are mounted, and only then.
LoadsOnMount(page) == "none"

\* The effect on [activeBrand].
LoadsOnBrand(page) == page.brand

\* The render with another brand: the page's effect begins a load.
BrandEffect(brand, cs) ==
  LET load == LoadsOnBrand(CurrentPage)
  IN IF load = "none" \/ brand = activeBrand
       THEN calls' = cs /\ UNCHANGED pageVars
       ELSE /\ Free(cs) # {}
            /\ calls' = With(cs, Call(load, tab, brand, None))
            /\ flags' = flags \cup CurrentPage.handlers[load].steps[1].raises
            /\ crossed' = (crossed \/ \E i \in Ids : OnPage(i))
            /\ UNCHANGED <<report, loadFailed>>

\* handleBrandChange, from the navigation bar or the palette.
ChangeBrand(brand) ==
  /\ ~Blank
  /\ brand \in BenchmarkBrands
  /\ Free(calls) # {}
  /\ activeBrand' = brand
  /\ dashboard' = Dashboard(brand, "benchmark")
  /\ BrandEffect(brand, With(calls, AppCall("handleBrandChange", brand)))
  /\ UNCHANGED tab

\* onSwitchBrand of the agency's page is setActiveBrand: no data are loaded.
SwitchBrand(brand) ==
  /\ ~Blank /\ ~Spinner
  /\ tab = "agency" /\ report # None
  /\ brand # activeBrand
  /\ activeBrand' = brand
  /\ BrandEffect(brand, calls)
  /\ UNCHANGED <<tab, dashboard>>

\* handlePromoteBrand: the crawled brand, whichever it is, goes to the overview.
PromoteBrand(brand) ==
  /\ ~Blank /\ ~Spinner
  /\ tab = "ingestion" /\ report # None
  /\ Free(Detached) # {}
  /\ activeBrand' = brand
  /\ dashboard' = Dashboard(brand, "benchmark")
  /\ Mounted("overview", brand, With(Detached, AppCall("handleBrandChange", brand)))

(* Audit *)

\* handleTriggerAudit: the navigation bar's button looks at isAuditing, the
\* palette's action and the prompt runner's do not.
TriggerAudit ==
  /\ ~Blank
  /\ Free(calls) # {}
  /\ calls' = With(calls, AppCall("handleTriggerAudit", activeBrand))
  /\ flags' = flags \cup {"isAuditing"}
  /\ UNCHANGED <<tab, appVars, report, loadFailed, crossed>>

\* Publishing a diff from the optimizer's page, in its modal.
Publish ==
  /\ tab = "optimizer"
  /\ Free(calls) # {}
  /\ calls' = With(calls, AppCall("handleConfirmPublish", activeBrand))
  /\ UNCHANGED <<tab, appVars, pageVars>>

(* Handlers *)

\* The button is rendered, and none of the flags that disable it is up.
Enabled(name) ==
  /\ report = None => name \in CurrentPage.view.bare
  /\ CurrentPage.view.buttons[name] \cap flags = {}

\* c works on another report than one of the chosen brand.
Outdated(c) == CurrentPage.brand # "none" /\ c.base \notin {None, activeBrand, "picked"}

\* The user presses a button of the page.
Click(name) ==
  /\ ~Blank /\ ~Spinner
  /\ name \in DOMAIN CurrentPage.view.buttons
  /\ Enabled(name)
  /\ Free(calls) # {}
  /\ LET c == Call(name, tab, activeBrand, report) IN
       /\ calls' = With(calls, c)
       /\ flags' = flags \cup Raised(c)
       /\ crossed' = (crossed \/ Outdated(c))
  /\ UNCHANGED <<tab, appVars, report, loadFailed>>

\* The brand a report is of: that of the request, if the request names one.
ReportBrand(c) ==
  IF \E op \in CurrentStep(c).ops : op.scope = "brand" THEN c.brand ELSE "all"

\* What a step does with its answers.
Shown(c) ==
  LET kind == CurrentStep(c).kind IN
  /\ report' = IF c.owner # "page" THEN report
                 ELSE CASE kind = "show" -> ReportBrand(c)
                        [] kind = "own" -> InitialBrand
                        [] kind = "pick" -> "picked"
                        [] kind = "mark" /\ c.base # None -> c.base
                        [] OTHER -> report
  /\ dashboard' = IF kind = "dashboard" THEN Dashboard(c.brand, "answer") ELSE dashboard

\* A step is answered and the next one begins.
StepAnswered(i) ==
  /\ calls[i] # None
  /\ calls[i].step < Len(HandlerOf(calls[i]).steps)
  /\ "answer" \in requestAuthenticated(CurrentStep(calls[i]).ops)
  /\ Shown(calls[i])
  /\ LET next == [calls[i] EXCEPT !.step = @ + 1] IN
       /\ calls' = [calls EXCEPT ![i] = next]
       /\ flags' = flags \cup CurrentStep(next).raises
  /\ ~Blank
  /\ UNCHANGED <<tab, activeBrand, loadFailed, crossed>>

\* The last step of a handler, or the last that it takes.
MayEnd(c) ==
  LET steps == HandlerOf(c).steps
  IN c.step < Len(steps) => steps[c.step + 1].optional

\* What begins when c ends: the handler it calls, or the effect on the report.
Successors(c) ==
  LET after == HandlerOf(c).after
      effect == CurrentPage.reported
  IN IF after # "none" THEN {Call(after, c.tab, c.brand, report)}
       ELSE {None} \cup
              (IF c.owner = "page" /\ effect # "none" /\ CurrentStep(c).kind = "show"
                 THEN {Call(effect, tab, c.brand, report)} ELSE {})

\* Variant: the flags are lowered in catch only.
LeftUpOnSuccess(c, next) == flags \cup (IF next = None THEN {} ELSE Raised(next))

\* Variant: a handler's finally lowers all the flags of its page.
AllLowered(c, next) ==
  (IF c.owner = "page" THEN flags \cap AppFlags ELSE flags \ Lowers(c))
    \cup (IF next = None THEN {} ELSE Raised(next))

\* The flags when c has ended and next has begun in its place.
FlagsAfter(c, next) ==
  (flags \ Lowers(c)) \cup (IF next = None THEN {} ELSE Raised(next))

\* A handler's last answer.
HandlerDone(i) ==
  /\ calls[i] # None
  /\ MayEnd(calls[i])
  /\ "answer" \in requestAuthenticated(CurrentStep(calls[i]).ops)
  /\ Shown(calls[i])
  /\ \E next \in Successors(calls[i]) :
       /\ calls' = [calls EXCEPT ![i] = next]
       /\ flags' = FlagsAfter(calls[i], next)
  /\ ~Blank
  /\ UNCHANGED <<tab, activeBrand, loadFailed, crossed>>

\* Variant: a handler without finally.
LeftUp(c) == {}

LoweredOnFailure(c) == Lowers(c)

\* c is a load of the page, and its report has not been answered yet.
Loading(c) == c.owner = "page" /\ c.name = CurrentPage.mount /\ c.step = 1

\* A request fails: catch and finally.
HandlerFailed(i) ==
  /\ calls[i] # None
  /\ "failure" \in requestAuthenticated(CurrentStep(calls[i]).ops)
  /\ calls' = [calls EXCEPT ![i] = None]
  /\ flags' = flags \ LoweredOnFailure(calls[i])
  /\ loadFailed' = (loadFailed \/ Loading(calls[i]))
  /\ ~Blank
  /\ UNCHANGED <<tab, appVars, report, crossed>>

\* The browser loads the page anew.
Reload ==
  /\ Blank
  /\ tab' = "overview" /\ activeBrand' = InitialBrand
  /\ dashboard' = Dashboard(InitialBrand, "benchmark")
  /\ flags' = {} /\ report' = None /\ loadFailed' = FALSE /\ crossed' = FALSE
  /\ calls' = With(With([i \in Ids |-> None],
                        AppCall("refreshOperationsData", InitialBrand)),
                   AppCall("hydrate", InitialBrand))

-----------------------------------------------------------------------------

Next ==
  \/ \E t \in Tabs : SelectTab(t)
  \/ \E b \in Brands : ChangeBrand(b) \/ SwitchBrand(b) \/ PromoteBrand(b)
  \/ TriggerAudit
  \/ Publish
  \/ \E name \in DOMAIN CurrentPage.view.buttons : Click(name)
  \/ \E i \in Ids : StepAnswered(i) \/ HandlerDone(i) \/ HandlerFailed(i)
  \/ Reload

Resumes(i) == HandlerFailed(i) \/ HandlerDone(i) \/ StepAnswered(i)

\* A request is answered or fails in the end, and timers run out: weak fairness of
\* every Resumes(i), which is enabled while i is suspended and the page is up.
Fairness == \A i \in Ids : []<>(calls[i] = None \/ Blank) \/ []<><<Resumes(i)>>_vars

Spec == Init /\ [][Next]_vars

FairSpec == Spec /\ Fairness

-----------------------------------------------------------------------------
(* Properties *)

\* Every variable keeps its type.
TypeOK ==
  /\ tab \in VisitedTabs /\ activeBrand \in Brands
  /\ dashboard \in Dashboards
  /\ flags \subseteq AppFlags \cup OpeningFlags(tab) \cup
       UNION {UNION {h.steps[k].raises : k \in DOMAIN h.steps} :
                h \in {CurrentPage.handlers[n] : n \in DOMAIN CurrentPage.handlers}}
  /\ report \in Reports \cup {None}
  /\ loadFailed \in BOOLEAN /\ crossed \in BOOLEAN
  /\ calls \in [Ids -> CallRecords \cup {None}]
  /\ \A i \in Ids : calls[i] # None =>
       /\ calls[i].owner = "page" => calls[i].tab = tab
       /\ calls[i].step \in DOMAIN HandlerOf(calls[i]).steps

\* No button stays disabled and no spinner turns for nothing: a flag that is up
\* is lowered by a handler that is still suspended, through failures, overlapping
\* handlers of one flag and handlers that await one another.
FlagsArePending ==
  \A f \in flags : \E i \in Ids :
    calls[i] # None /\ f \in Lowers(calls[i])

\* The handlers a page begins by itself: in an effect, or when another has ended.
Started(p) ==
  {p.mount, p.brand, p.reported} \cup {p.handlers[n].after : n \in DOMAIN p.handlers}

\* Those that only a button begins, which some flag disables.
Guarded(p) ==
  {n \in DOMAIN p.handlers \cap DOMAIN p.view.buttons :
     n \notin Started(p) /\ p.view.buttons[n] # {}}

\* A flag keeps its button from sending a request a second time (a pull request, a
\* shredded key, a promoted variant) while the page is mounted, although other
\* handlers of the page raise and lower theirs, end and fail meanwhile.
SubmittedOnce ==
  \A i, j \in Ids :
    OnPage(i) /\ OnPage(j) /\ calls[i].name = calls[j].name
      /\ calls[i].name \in Guarded(CurrentPage)
    => i = j

\* A page no load of which has failed shows a report once it is quiet, whichever of
\* its handlers overlapped; and one that follows the brand shows the report of the
\* brand that is chosen, or what the user picked, unless the brand changed under a
\* handler or a handler began on a report of a former one.
QuietPageIsCurrent ==
  /\ ~loadFailed
  /\ CurrentPage.mount # "none"
  /\ \A i \in Ids : ~OnPage(i)
  => /\ report # None
     /\ CurrentPage.brand # "none" /\ ~crossed => report \in {activeBrand, "picked"}

\* Nothing but a failed load leaves a page blank, or behind its spinner with nothing
\* under way: loads of one flag overlap, and the first to end lowers it.
PageIsUp ==
  ~loadFailed => ~Blank /\ (Spinner => \E i \in Ids : OnPage(i))

\* The audit's button comes back, even if audits are begun over and over, unless
\* the page goes blank meanwhile.
AuditEnds == "isAuditing" \in flags ~> ("isAuditing" \notin flags \/ Blank)
=============================================================================
