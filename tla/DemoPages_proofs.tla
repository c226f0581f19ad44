-------------------------- MODULE DemoPages_proofs --------------------------
(***************************************************************************)
(* What every page of the demonstration keeps to, whatever it shows, and   *)
(* that the 27 pages of components/ do.  The invariants of the application *)
(* (DemoApp_proofs) rest on these rules and on nothing else about a page.  *)
(***************************************************************************)
EXTENDS DemoApp, TLAPS

(* The rules *)

\* The step replaces the report with its answers.
Displays(s) == s.kind \in {"show", "own", "pick"}

\* A page's steps raise none of the application's flags.
StepsOK(steps) ==
  /\ Len(steps) \in Nat \ {0} /\ DOMAIN steps = 1..Len(steps)
  /\ \A k \in DOMAIN steps : steps[k].raises \cap AppFlags = {}

HandlerOK(h) == StepsOK(h.steps) /\ h.clears \cap AppFlags = {}

\* Every name a page uses is one of its handlers or of the application's.  A
\* handler that begins another does not hand it a report, and those that end in
\* the application are all as long as LeftBehind.
NamesOK(p) ==
  LET names == DOMAIN p.handlers IN
  /\ "none" \notin names /\ names \cap AppHandlers = {}
  /\ \A n \in names :
       /\ p.handlers[n].after \in {"none"} \cup names \cup AppHandlers
       /\ p.handlers[n].after \in AppHandlers => Len(p.handlers[n].steps) = 2
       /\ p.handlers[n].after \in names =>
            p.handlers[p.handlers[n].after].steps[1].kind # "mark"
  /\ DOMAIN p.view.buttons \subseteq names \cup AppHandlers
  /\ p.reported \in {"none"} \cup names
  /\ p.reported \in names => p.handlers[p.reported].steps[1].kind # "mark"
  /\ p.mount \in {"none"} \cup names
  /\ p.brand \in {"none", p.mount}

\* What the step shows, if it shows anything, is of the brand it was begun for.
OfBrand(s) ==
  /\ s.kind # "own"
  /\ s.kind = "show" => \E op \in s.ops : op.scope = "brand"

HandlerOfBrand(h) == \A k \in DOMAIN h.steps : OfBrand(h.steps[k])

\* A load displays what its first step is answered and lowers the flags the page
\* begins with; all a page shows that loads with its brand is of that brand.
LoadOK(p) ==
  LET h == p.handlers[p.mount] IN
  /\ Displays(h.steps[1])
  /\ p.flags \subseteq h.steps[1].raises \cup h.clears
  /\ p.brand # "none" => \A n \in DOMAIN p.handlers : HandlerOfBrand(p.handlers[n])

\* A page with a spinner loads, and one that trusts its report is behind its
\* spinner for as long as the load's first step takes.
ViewOK(p) ==
  /\ p.view.hides # "never" => p.mount # "none" /\ p.view.flag \notin AppFlags
  /\ p.view.trusts =>
       p.view.hides = "first" /\ p.view.flag \in p.handlers[p.mount].steps[1].raises
  /\ p.mount = "none" => p.flags = {}
  /\ p.report \in {None, SampleSettings}

\* A flag that the handler raises at some step, or lowers without having raised it.
Touches(h, f) == f \in h.clears \/ \E k \in DOMAIN h.steps : f \in h.steps[k].raises

\* The flags that handler n raises at once, that disable its button, and that no
\* other handler of the page touches.
OwnFlags(p, n) ==
  {f \in p.view.buttons[n] \cap p.handlers[n].steps[1].raises :
     \A m \in DOMAIN p.handlers \ {n} : ~ Touches(p.handlers[m], f)}

\* A button that a flag guards is guarded by one of its own.
GuardsOK(p) == \A n \in Guarded(p) : OwnFlags(p, n) # {}

PageOK(p) ==
  /\ \A n \in DOMAIN p.handlers : HandlerOK(p.handlers[n])
  /\ NamesOK(p)
  /\ p.mount # "none" => LoadOK(p)
  /\ ViewOK(p)
  /\ GuardsOK(p)

(* Lists of steps *)

\* A handler of one step.
LEMMA OneStep ==
  ASSUME NEW kind, NEW flag, NEW ops, "isAuditing" \notin flag
  PROVE  StepsOK(<<Step(kind, flag, ops)>>)
BY DEF StepsOK, Step, AppFlags

\* A handler of two steps.
LEMMA TwoSteps ==
  ASSUME NEW kind, NEW flag, NEW ops, "isAuditing" \notin flag,
         NEW kind2, NEW flag2, NEW ops2, "isAuditing" \notin flag2
  PROVE  /\ StepsOK(<<Step(kind, flag, ops), Step(kind2, flag2, ops2)>>)
         /\ StepsOK(<<Step(kind, flag, ops), Perhaps(Step(kind2, flag2, ops2))>>)
BY DEF StepsOK, Step, AppFlags, Perhaps

\* A load that may be followed by a handler of two steps (loadData of
\* CompetitorCounterPositioningStudio).
LEMMA ThreeSteps ==
  ASSUME NEW kind, NEW flag, NEW ops, "isAuditing" \notin flag,
         NEW kind2, NEW flag2, NEW ops2, "isAuditing" \notin flag2,
         NEW kind3, NEW flag3, NEW ops3, "isAuditing" \notin flag3
  PROVE  StepsOK(<<Step(kind, flag, ops), Perhaps(Step(kind2, flag2, ops2)),
                   Step(kind3, flag3, ops3)>>)
BY DEF StepsOK, Step, AppFlags, Perhaps

\* A handler of one, two or three steps is of its brand, if what it shows is asked
\* for a brand.
LEMMA OneOfBrand ==
  ASSUME NEW kind, NEW flag, NEW ops, kind # "own",
         kind = "show" => \E op \in ops : op.scope = "brand",
         NEW h, h.steps = <<Step(kind, flag, ops)>>
  PROVE  HandlerOfBrand(h)
BY DEF HandlerOfBrand, OfBrand, Step

LEMMA TwoOfBrand ==
  ASSUME NEW kind, NEW flag, NEW ops, kind # "own",
         kind = "show" => \E op \in ops : op.scope = "brand",
         NEW kind2, NEW flag2, NEW ops2, kind2 # "own",
         kind2 = "show" => \E op \in ops2 : op.scope = "brand",
         NEW h, \/ h.steps = <<Step(kind, flag, ops), Step(kind2, flag2, ops2)>>
                \/ h.steps = <<Step(kind, flag, ops), Perhaps(Step(kind2, flag2, ops2))>>
  PROVE  HandlerOfBrand(h)
BY DEF HandlerOfBrand, OfBrand, Step, Perhaps

LEMMA ThreeOfBrand ==
  ASSUME NEW kind, NEW flag, NEW ops, kind # "own",
         kind = "show" => \E op \in ops : op.scope = "brand",
         NEW kind2, NEW flag2, NEW ops2, kind2 \notin {"own", "show"},
         NEW kind3, NEW flag3, NEW ops3, kind3 \notin {"own", "show"},
         NEW h, h.steps = <<Step(kind, flag, ops), Perhaps(Step(kind2, flag2, ops2)),
                            Step(kind3, flag3, ops3)>>
  PROVE  HandlerOfBrand(h)
BY DEF HandlerOfBrand, OfBrand, Step, Perhaps

\* How a list of steps ends does not matter to the rule about its steps.
LEMMA HandlerOfSteps ==
  ASSUME NEW steps, StepsOK(steps)
  PROVE  /\ HandlerOK(Handler(steps))
         /\ \A next : HandlerOK(Then(steps, next))
         /\ \A lowered : lowered \cap AppFlags = {} => HandlerOK(Clearing(steps, lowered))
BY DEF HandlerOK, Handler, Then, Clearing

(* The pages *)

\* CompetitorCounterPositioningStudio.
LEMMA CounterPositioningOK == PageOK(CounterPositioning)
<1> DEFINE hs == CounterHandlers
<1>1. /\ HandlerOK(hs.loadData)
      /\ HandlerOK(hs.handleSynthesize)
  BY OneStep, TwoSteps, ThreeSteps, HandlerOfSteps DEF CounterHandlers, CounterSimulation,
         CounterSynthesis, Show, Fill, Perhaps
<1>2. \A n \in DOMAIN hs : HandlerOK(hs[n])
  BY <1>1 DEF CounterHandlers
<1>3. NamesOK(CounterPositioning)
  BY DEF NamesOK, CounterPositioning, Page, PageRecord, CounterHandlers, CounterSimulation,
         CounterSynthesis, CounterView, Open, View, Handler, Show, Fill, Perhaps, Step,
         AppHandlers
<1>4. /\ Displays(hs.loadData.steps[1])
      /\ {"isLoading"} \subseteq hs.loadData.steps[1].raises \cup hs.loadData.clears
  BY DEF CounterHandlers, CounterSimulation, CounterSynthesis, Handler, Show, Fill, Perhaps,
         Step, Displays
<1>5. /\ HandlerOfBrand(hs.loadData)
      /\ HandlerOfBrand(hs.handleSynthesize)
  BY OneOfBrand, TwoOfBrand, ThreeOfBrand DEF CounterHandlers, CounterSimulation,
         CounterSynthesis, Handler, Show, Fill, Perhaps, Get, Post, getCompetitorLandscape,
         simulateSiphoningLift, synthesizeCounterStrategy
<1>6. LoadOK(CounterPositioning)
  BY <1>4, <1>5 DEF LoadOK, CounterHandlers, CounterPositioning, Page, PageRecord
<1>7. ViewOK(CounterPositioning)
  BY DEF ViewOK, CounterPositioning, Page, PageRecord, CounterHandlers, CounterSimulation,
         CounterSynthesis, CounterView, Open, View, Handler, Show, Fill, Perhaps, Step, AppFlags
<1>8. Guarded(CounterPositioning) = {}
  BY DEF Guarded, Started, CounterPositioning, Page, PageRecord, CounterHandlers, Handler,
         CounterView, Open, View
<1> QED
  BY <1>2, <1>3, <1>6, <1>7, <1>8 DEF PageOK, GuardsOK, CounterPositioning, Page, PageRecord

\* MultiModelDisputeTribunalStudio.
LEMMA TribunalOK == PageOK(Tribunal)
<1> DEFINE hs == TribunalHandlers
<1>1. /\ HandlerOK(hs.loadData)
      /\ HandlerOK(hs.handleAdjudicateCase)
      /\ HandlerOK(hs.handleDispatchErrata)
  BY OneStep, HandlerOfSteps DEF TribunalHandlers, Show, Fill, Await
<1>2. \A n \in DOMAIN hs : HandlerOK(hs[n])
  BY <1>1 DEF TribunalHandlers
<1>3. NamesOK(Tribunal)
  BY DEF NamesOK, Tribunal, Page, PageRecord, TribunalHandlers, TribunalView, Open, View,
         Handler, Show, Fill, Await, Step, AppHandlers
<1>4. /\ Displays(hs.loadData.steps[1])
      /\ {"isLoading"} \subseteq hs.loadData.steps[1].raises \cup hs.loadData.clears
  BY DEF TribunalHandlers, Handler, Show, Fill, Await, Step, Displays
<1>5. /\ HandlerOfBrand(hs.loadData)
      /\ HandlerOfBrand(hs.handleAdjudicateCase)
      /\ HandlerOfBrand(hs.handleDispatchErrata)
  BY OneOfBrand DEF TribunalHandlers, Handler, Show, Fill, Await, Get, Post,
         dispatchTribunalErrata, getTribunalReport, reconcileDisputeCase
<1>6. LoadOK(Tribunal)
  BY <1>4, <1>5 DEF LoadOK, TribunalHandlers, Tribunal, Page, PageRecord
<1>7. ViewOK(Tribunal)
  BY DEF ViewOK, Tribunal, Page, PageRecord, TribunalHandlers, TribunalView, Open, View,
         Handler, Show, Fill, Await, Step, AppFlags
<1>8. \A n \in Guarded(Tribunal) : n \in {"handleAdjudicateCase", "handleDispatchErrata"}
  BY DEF Guarded, Started, Tribunal, Page, PageRecord, TribunalHandlers, Handler, TribunalView,
         Open, View
<1>9. /\ "isAdjudicating" \in OwnFlags(Tribunal, "handleAdjudicateCase")
      /\ "isDispatching" \in OwnFlags(Tribunal, "handleDispatchErrata")
  <2>1. "isAdjudicating" \in OwnFlags(Tribunal, "handleAdjudicateCase")
    BY DEF OwnFlags, Touches, Tribunal, Page, PageRecord, TribunalHandlers, TribunalView, Open,
           View, Handler, Show, Fill, Await, Step
  <2>2. "isDispatching" \in OwnFlags(Tribunal, "handleDispatchErrata")
    BY DEF OwnFlags, Touches, Tribunal, Page, PageRecord, TribunalHandlers, TribunalView, Open,
           View, Handler, Show, Fill, Await, Step
  <2> QED
    BY <2>1, <2>2
<1> QED
  BY <1>2, <1>3, <1>6, <1>7, <1>8, <1>9 DEF PageOK, GuardsOK, Tribunal, Page, PageRecord

\* CitationSeedNetworkStudio.
LEMMA CitationSeedsOK == PageOK(CitationSeeds)
<1> DEFINE hs == SeedHandlers
<1>1. /\ HandlerOK(hs.loadData)
      /\ HandlerOK(hs.handleGeneratePlaybook)
      /\ HandlerOK(hs.handleUpdateStatus)
  BY OneStep, TwoSteps, HandlerOfSteps DEF SeedHandlers, SeedPlaybook, Show, Mark, Fill, Perhaps
<1>2. \A n \in DOMAIN hs : HandlerOK(hs[n])
  BY <1>1 DEF SeedHandlers
<1>3. NamesOK(CitationSeeds)
  BY DEF NamesOK, CitationSeeds, Page, PageRecord, SeedHandlers, SeedPlaybook, SeedView, Open,
         View, Handler, Show, Mark, Fill, Perhaps, Step, AppHandlers
<1>4. /\ Displays(hs.loadData.steps[1])
      /\ {"isLoading"} \subseteq hs.loadData.steps[1].raises \cup hs.loadData.clears
  BY DEF SeedHandlers, SeedPlaybook, Handler, Show, Mark, Fill, Perhaps, Step, Displays
<1>5. /\ HandlerOfBrand(hs.loadData)
      /\ HandlerOfBrand(hs.handleGeneratePlaybook)
      /\ HandlerOfBrand(hs.handleUpdateStatus)
  BY OneOfBrand, TwoOfBrand DEF SeedHandlers, SeedPlaybook, Handler, Show, Mark, Fill, Perhaps,
         Get, Post, generateSeedingPlaybook, getCitationSeedReport, updateSeedingCampaign
<1>6. LoadOK(CitationSeeds)
  BY <1>4, <1>5 DEF LoadOK, SeedHandlers, CitationSeeds, Page, PageRecord
<1>7. ViewOK(CitationSeeds)
  BY DEF ViewOK, CitationSeeds, Page, PageRecord, SeedHandlers, SeedPlaybook, SeedView, Open,
         View, Handler, Show, Mark, Fill, Perhaps, Step, AppFlags
<1>8. \A n \in Guarded(CitationSeeds) : n \in {"handleUpdateStatus"}
  BY DEF Guarded, Started, CitationSeeds, Page, PageRecord, SeedHandlers, Handler, SeedView,
         Open, View
<1>9. "isUpdatingStatus" \in OwnFlags(CitationSeeds, "handleUpdateStatus")
  BY DEF OwnFlags, Touches, CitationSeeds, Page, PageRecord, SeedHandlers, SeedPlaybook,
         SeedView, Open, View, Handler, Show, Mark, Fill, Perhaps, Step
<1> QED
  BY <1>2, <1>3, <1>6, <1>7, <1>8, <1>9 DEF PageOK, GuardsOK, CitationSeeds, Page, PageRecord

\* GeoVariantAutopilotStudio.
LEMMA AutopilotOK == PageOK(Autopilot)
<1> DEFINE hs == AutopilotHandlers
<1>1. /\ HandlerOK(hs.loadReport)
      /\ HandlerOK(hs.handleSimulate)
      /\ HandlerOK(hs.handlePromote)
  BY OneStep, HandlerOfSteps DEF AutopilotHandlers, Show, Mark
<1>2. \A n \in DOMAIN hs : HandlerOK(hs[n])
  BY <1>1 DEF AutopilotHandlers
<1>3. NamesOK(Autopilot)
  BY DEF NamesOK, Autopilot, Page, PageRecord, AutopilotHandlers, AutopilotView, Behind, View,
         Handler, Show, Mark, Step, AppHandlers
<1>4. /\ Displays(hs.loadReport.steps[1])
      /\ {"loading"} \subseteq hs.loadReport.steps[1].raises \cup hs.loadReport.clears
  BY DEF AutopilotHandlers, Handler, Show, Mark, Step, Displays
<1>5. /\ HandlerOfBrand(hs.loadReport)
      /\ HandlerOfBrand(hs.handleSimulate)
      /\ HandlerOfBrand(hs.handlePromote)
  BY OneOfBrand DEF AutopilotHandlers, Handler, Show, Mark, Get, Post, getAutopilotExperiments,
         promoteAutopilotWinner, simulateAutopilotEvaluation
<1>6. LoadOK(Autopilot)
  BY <1>4, <1>5 DEF LoadOK, AutopilotHandlers, Autopilot, Page, PageRecord
<1>7. ViewOK(Autopilot)
  BY DEF ViewOK, Autopilot, Page, PageRecord, AutopilotHandlers, AutopilotView, Behind, View,
         Handler, Show, Mark, Step, AppFlags
<1>8. \A n \in Guarded(Autopilot) : n \in {"handleSimulate", "handlePromote"}
  BY DEF Guarded, Started, Autopilot, Page, PageRecord, AutopilotHandlers, Handler,
         AutopilotView, Behind, View
<1>9. /\ "simulating" \in OwnFlags(Autopilot, "handleSimulate")
      /\ "promoting" \in OwnFlags(Autopilot, "handlePromote")
  <2>1. "simulating" \in OwnFlags(Autopilot, "handleSimulate")
    BY DEF OwnFlags, Touches, Autopilot, Page, PageRecord, AutopilotHandlers, AutopilotView,
           Behind, View, Handler, Show, Mark, Step
  <2>2. "promoting" \in OwnFlags(Autopilot, "handlePromote")
    BY DEF OwnFlags, Touches, Autopilot, Page, PageRecord, AutopilotHandlers, AutopilotView,
           Behind, View, Handler, Show, Mark, Step
  <2> QED
    BY <2>1, <2>2
<1> QED
  BY <1>2, <1>3, <1>6, <1>7, <1>8, <1>9 DEF PageOK, GuardsOK, Autopilot, Page, PageRecord

\* KnowledgePoisoningSentinelStudio.
LEMMA SentinelOK == PageOK(Sentinel)
<1> DEFINE hs == SentinelHandlers
<1>1. /\ HandlerOK(hs.loadReport)
      /\ HandlerOK(hs.handleScan)
      /\ HandlerOK(hs.handleSynthesizePatch)
      /\ HandlerOK(hs.handleDispatchNeutralization)
  BY OneStep, TwoSteps, HandlerOfSteps DEF SentinelHandlers, SentinelLoad, Show, Mark, Await
<1>2. \A n \in DOMAIN hs : HandlerOK(hs[n])
  BY <1>1 DEF SentinelHandlers
<1>3. NamesOK(Sentinel)
  BY DEF NamesOK, Sentinel, Page, PageRecord, SentinelHandlers, SentinelLoad, SentinelView,
         Behind, View, Handler, Show, Mark, Await, Step, AppHandlers
<1>4. /\ Displays(hs.loadReport.steps[1])
      /\ {"loading"} \subseteq hs.loadReport.steps[1].raises \cup hs.loadReport.clears
  BY DEF SentinelHandlers, SentinelLoad, Handler, Show, Mark, Await, Step, Displays
<1>5. /\ HandlerOfBrand(hs.loadReport)
      /\ HandlerOfBrand(hs.handleScan)
      /\ HandlerOfBrand(hs.handleSynthesizePatch)
      /\ HandlerOfBrand(hs.handleDispatchNeutralization)
  BY OneOfBrand, TwoOfBrand DEF SentinelHandlers, SentinelLoad, Handler, Show, Mark, Await, Get,
         Post, dispatchPoisoningNeutralization, getPoisoningSentinelReport,
         scanPoisoningThreats, synthesizePoisoningCounterPatch
<1>6. LoadOK(Sentinel)
  BY <1>4, <1>5 DEF LoadOK, SentinelHandlers, Sentinel, Page, PageRecord
<1>7. ViewOK(Sentinel)
  BY DEF ViewOK, Sentinel, Page, PageRecord, SentinelHandlers, SentinelLoad, SentinelView,
         Behind, View, Handler, Show, Mark, Await, Step, AppFlags
<1>8. \A n \in Guarded(Sentinel) : n \in {"handleScan", "handleDispatchNeutralization"}
  BY DEF Guarded, Started, Sentinel, Page, PageRecord, SentinelHandlers, Handler, SentinelView,
         Behind, View
<1>9. /\ "scanning" \in OwnFlags(Sentinel, "handleScan")
      /\ "dispatching" \in OwnFlags(Sentinel, "handleDispatchNeutralization")
  <2>1. "scanning" \in OwnFlags(Sentinel, "handleScan")
    BY DEF OwnFlags, Touches, Sentinel, Page, PageRecord, SentinelHandlers, SentinelLoad,
           SentinelView, Behind, View, Handler, Show, Mark, Await, Step
  <2>2. "dispatching" \in OwnFlags(Sentinel, "handleDispatchNeutralization")
    BY DEF OwnFlags, Touches, Sentinel, Page, PageRecord, SentinelHandlers, SentinelLoad,
           SentinelView, Behind, View, Handler, Show, Mark, Await, Step
  <2> QED
    BY <2>1, <2>2
<1> QED
  BY <1>2, <1>3, <1>6, <1>7, <1>8, <1>9 DEF PageOK, GuardsOK, Sentinel, Page, PageRecord

\* BuyerJourneySimulatorStudio.
LEMMA BuyerJourneyOK == PageOK(BuyerJourney)
<1> DEFINE hs == JourneyHandlers
<1>1. /\ HandlerOK(hs.loadReport)
      /\ HandlerOK(hs.handleRunSimulation)
      /\ HandlerOK(hs.handleSynthesizePreemption)
  BY OneStep, TwoSteps, HandlerOfSteps DEF JourneyHandlers, Show, Fill, Await
<1>2. \A n \in DOMAIN hs : HandlerOK(hs[n])
  BY <1>1 DEF JourneyHandlers
<1>3. NamesOK(BuyerJourney)
  BY DEF NamesOK, BuyerJourney, Page, PageRecord, JourneyHandlers, JourneyView, FirstBehind,
         View, Handler, Then, Show, Fill, Await, Step, AppHandlers
<1>4. /\ Displays(hs.loadReport.steps[1])
      /\ {"loading"} \subseteq hs.loadReport.steps[1].raises \cup hs.loadReport.clears
  BY DEF JourneyHandlers, Handler, Then, Show, Fill, Await, Step, Displays
<1>5. /\ HandlerOfBrand(hs.loadReport)
      /\ HandlerOfBrand(hs.handleRunSimulation)
      /\ HandlerOfBrand(hs.handleSynthesizePreemption)
  BY OneOfBrand, TwoOfBrand DEF JourneyHandlers, Handler, Then, Show, Fill, Await, Get, Post,
         getBuyerJourneyReport, runPersonaSimulation, synthesizeObjectionPreemption
<1>6. LoadOK(BuyerJourney)
  BY <1>4, <1>5 DEF LoadOK, JourneyHandlers, BuyerJourney, Page, PageRecord
<1>7. ViewOK(BuyerJourney)
  BY DEF ViewOK, BuyerJourney, Page, PageRecord, JourneyHandlers, JourneyView, FirstBehind,
         View, Handler, Then, Show, Fill, Await, Step, AppFlags
<1>8. \A n \in Guarded(BuyerJourney) : n \in {"handleSynthesizePreemption"}
  BY DEF Guarded, Started, BuyerJourney, Page, PageRecord, JourneyHandlers, Handler, Then,
         JourneyView, FirstBehind, View
<1>9. "isSynthesizing" \in OwnFlags(BuyerJourney, "handleSynthesizePreemption")
  BY DEF OwnFlags, Touches, BuyerJourney, Page, PageRecord, JourneyHandlers, JourneyView,
         FirstBehind, View, Handler, Then, Show, Fill, Await, Step
<1> QED
  BY <1>2, <1>3, <1>6, <1>7, <1>8, <1>9 DEF PageOK, GuardsOK, BuyerJourney, Page, PageRecord

\* SeismographNotificationStudio.
LEMMA SeismographOK == PageOK(Seismograph)
<1> DEFINE hs == SeismographHandlers
<1>1. /\ HandlerOK(hs.fetchTelemetry)
      /\ HandlerOK(hs.handleTestPing)
      /\ HandlerOK(hs.handleToggleChannel)
      /\ HandlerOK(hs.handleBroadcastAlert)
  BY OneStep, HandlerOfSteps DEF SeismographHandlers, Show, Fill, Await, AppFlags
<1>2. \A n \in DOMAIN hs : HandlerOK(hs[n])
  BY <1>1 DEF SeismographHandlers
<1>3. NamesOK(Seismograph)
  BY DEF NamesOK, Seismograph, Page, PageRecord, SeismographHandlers, SeismographView, Behind,
         View, Then, Clearing, Show, Fill, Await, Step, AppHandlers
<1>4. /\ Displays(hs.fetchTelemetry.steps[1])
      /\ {"loading"} \subseteq hs.fetchTelemetry.steps[1].raises \cup hs.fetchTelemetry.clears
  BY DEF SeismographHandlers, Then, Clearing, Show, Fill, Await, Step, Displays
<1>5. /\ HandlerOfBrand(hs.fetchTelemetry)
      /\ HandlerOfBrand(hs.handleTestPing)
      /\ HandlerOfBrand(hs.handleToggleChannel)
      /\ HandlerOfBrand(hs.handleBroadcastAlert)
  BY OneOfBrand DEF SeismographHandlers, Then, Clearing, Show, Fill, Await, Get, Post,
         dispatchPushAlert, getSeismographTelemetry, testNotificationChannel,
         updateNotificationChannel
<1>6. LoadOK(Seismograph)
  BY <1>4, <1>5 DEF LoadOK, SeismographHandlers, Seismograph, Page, PageRecord
<1>7. ViewOK(Seismograph)
  BY DEF ViewOK, Seismograph, Page, PageRecord, SeismographHandlers, SeismographView, Behind,
         View, Then, Clearing, Show, Fill, Await, Step, AppFlags
<1>8. \A n \in Guarded(Seismograph) : n \in {"handleBroadcastAlert"}
  BY DEF Guarded, Started, Seismograph, Page, PageRecord, SeismographHandlers, Then, Clearing,
         SeismographView, Behind, View
<1>9. "isBroadcasting" \in OwnFlags(Seismograph, "handleBroadcastAlert")
  BY DEF OwnFlags, Touches, Seismograph, Page, PageRecord, SeismographHandlers, SeismographView,
         Behind, View, Then, Clearing, Show, Fill, Await, Step
<1> QED
  BY <1>2, <1>3, <1>6, <1>7, <1>8, <1>9 DEF PageOK, GuardsOK, Seismograph, Page, PageRecord

\* ExecutiveBoardReportHub.
LEMMA BoardReportOK == PageOK(BoardReport)
<1> DEFINE hs == BoardHandlers
<1>1. /\ HandlerOK(hs.loadReport)
      /\ HandlerOK(hs.handleRegenerateReport)
  BY OneStep, HandlerOfSteps DEF BoardHandlers, Show
<1>2. \A n \in DOMAIN hs : HandlerOK(hs[n])
  BY <1>1 DEF BoardHandlers
<1>3. NamesOK(BoardReport)
  BY DEF NamesOK, BoardReport, Page, PageRecord, BoardHandlers, BoardView, FirstBehind, View,
         Handler, Show, Step, AppHandlers
<1>4. /\ Displays(hs.loadReport.steps[1])
      /\ {} \subseteq hs.loadReport.steps[1].raises \cup hs.loadReport.clears
  BY DEF BoardHandlers, Handler, Show, Step, Displays
<1>5. /\ HandlerOfBrand(hs.loadReport)
      /\ HandlerOfBrand(hs.handleRegenerateReport)
  BY OneOfBrand DEF BoardHandlers, Handler, Show, Get, Post, generateBoardDeck, getBoardDeck,
         getReportHistory
<1>6. LoadOK(BoardReport)
  BY <1>4, <1>5 DEF LoadOK, BoardHandlers, BoardReport, Page, PageRecord
<1>7. ViewOK(BoardReport)
  BY DEF ViewOK, BoardReport, Page, PageRecord, BoardHandlers, BoardView, FirstBehind, View,
         Handler, Show, Step, AppFlags
<1>8. \A n \in Guarded(BoardReport) : n \in {"handleRegenerateReport"}
  BY DEF Guarded, Started, BoardReport, Page, PageRecord, BoardHandlers, Handler, BoardView,
         FirstBehind, View
<1>9. "isGenerating" \in OwnFlags(BoardReport, "handleRegenerateReport")
  BY DEF OwnFlags, Touches, BoardReport, Page, PageRecord, BoardHandlers, BoardView,
         FirstBehind, View, Handler, Show, Step
<1> QED
  BY <1>2, <1>3, <1>6, <1>7, <1>8, <1>9 DEF PageOK, GuardsOK, BoardReport, Page, PageRecord

\* AlgorithmIndexWatchStudio.
LEMMA IndexWatchOK == PageOK(IndexWatch)
<1> DEFINE hs == IndexWatchHandlers
<1>1. /\ HandlerOK(hs.loadRadarReport)
      /\ HandlerOK(hs.handleDeployPlaybook)
  BY OneStep, TwoSteps, HandlerOfSteps DEF IndexWatchHandlers, IndexWatchLoad, Show, Fill
<1>2. \A n \in DOMAIN hs : HandlerOK(hs[n])
  BY <1>1 DEF IndexWatchHandlers
<1>3. NamesOK(IndexWatch)
  BY DEF NamesOK, IndexWatch, Page, PageRecord, IndexWatchHandlers, IndexWatchLoad,
         IndexWatchView, TrustingBehind, View, Handler, Show, Fill, Step, AppHandlers
<1>4. /\ Displays(hs.loadRadarReport.steps[1])
      /\ {"loading"} \subseteq hs.loadRadarReport.steps[1].raises \cup hs.loadRadarReport.clears
  BY DEF IndexWatchHandlers, IndexWatchLoad, Handler, Show, Fill, Step, Displays
<1>5. /\ HandlerOfBrand(hs.loadRadarReport)
      /\ HandlerOfBrand(hs.handleDeployPlaybook)
  BY OneOfBrand, TwoOfBrand DEF IndexWatchHandlers, IndexWatchLoad, Handler, Show, Fill, Get,
         Post, getIndexWatchRadar, triggerEmergencyPlaybook
<1>6. LoadOK(IndexWatch)
  BY <1>4, <1>5 DEF LoadOK, IndexWatchHandlers, IndexWatch, Page, PageRecord
<1>7. ViewOK(IndexWatch)
  BY DEF ViewOK, IndexWatch, Page, PageRecord, IndexWatchHandlers, IndexWatchLoad,
         IndexWatchView, TrustingBehind, View, Handler, Show, Fill, Step, AppFlags
<1>8. Guarded(IndexWatch) = {}
  BY DEF Guarded, Started, IndexWatch, Page, PageRecord, IndexWatchHandlers, Handler,
         IndexWatchView, TrustingBehind, View
<1> QED
  BY <1>2, <1>3, <1>6, <1>7, <1>8 DEF PageOK, GuardsOK, IndexWatch, Page, PageRecord

\* BrandIngestionStudio.
LEMMA IngestionOK == PageOK(Ingestion)
<1> DEFINE hs == IngestionHandlers
<1>1. /\ HandlerOK(hs.loadData)
      /\ HandlerOK(hs.handleStartCrawl)
      /\ HandlerOK(hs.reloadHistory)
      /\ HandlerOK(hs.handleSelectArchiveBrand)
  BY OneStep, TwoSteps, HandlerOfSteps DEF IngestionHandlers, Show, Pick, Await
<1>2. \A n \in DOMAIN hs : HandlerOK(hs[n])
  BY <1>1 DEF IngestionHandlers
<1>3. NamesOK(Ingestion)
  BY DEF NamesOK, Ingestion, Page, PageRecord, IngestionHandlers, IngestionView, Open, View,
         Handler, Then, Show, Pick, Await, Step, AppHandlers
<1>4. /\ Displays(hs.loadData.steps[1])
      /\ {} \subseteq hs.loadData.steps[1].raises \cup hs.loadData.clears
  BY DEF IngestionHandlers, Handler, Then, Show, Pick, Await, Step, Displays
<1>5. /\ HandlerOfBrand(hs.loadData)
      /\ HandlerOfBrand(hs.handleStartCrawl)
      /\ HandlerOfBrand(hs.reloadHistory)
      /\ HandlerOfBrand(hs.handleSelectArchiveBrand)
  BY OneOfBrand, TwoOfBrand DEF IngestionHandlers, Handler, Then, Show, Pick, Await, Get, Post,
         crawlDomain, getHeadlessCrawlReport, getIngestedDomains, runHeadlessCrawl
<1>6. LoadOK(Ingestion)
  BY <1>4, <1>5 DEF LoadOK, IngestionHandlers, Ingestion, Page, PageRecord
<1>7. ViewOK(Ingestion)
  BY DEF ViewOK, Ingestion, Page, PageRecord, IngestionHandlers, IngestionView, Open, View,
         Handler, Then, Show, Pick, Await, Step, AppFlags
<1>8. Guarded(Ingestion) = {}
  BY DEF Guarded, Started, Ingestion, Page, PageRecord, IngestionHandlers, Handler, Then,
         IngestionView, Open, View
<1> QED
  BY <1>2, <1>3, <1>6, <1>7, <1>8 DEF PageOK, GuardsOK, Ingestion, Page, PageRecord

\* KnowledgeGraphSyncStudio.
LEMMA KnowledgeGraphOK == PageOK(KnowledgeGraph)
<1> DEFINE hs == GraphHandlers
<1>1. /\ HandlerOK(hs.loadKnowledgeGraph)
      /\ HandlerOK(hs.handleRunSparql)
      /\ HandlerOK(hs.handleGeneratePatch)
      /\ HandlerOK(hs.handleSyncToPlatform)
  BY OneStep, HandlerOfSteps DEF GraphHandlers, Show, Fill
<1>2. \A n \in DOMAIN hs : HandlerOK(hs[n])
  BY <1>1 DEF GraphHandlers
<1>3. NamesOK(KnowledgeGraph)
  BY DEF NamesOK, KnowledgeGraph, Page, PageRecord, GraphHandlers, GraphView, FirstBehind, View,
         Handler, Show, Fill, Step, AppHandlers
<1>4. /\ Displays(hs.loadKnowledgeGraph.steps[1])
      /\ {"isLoading"} \subseteq hs.loadKnowledgeGraph.steps[1].raises \cup hs.loadKnowledgeGraph.clears
  BY DEF GraphHandlers, Handler, Show, Fill, Step, Displays
<1>5. /\ HandlerOfBrand(hs.loadKnowledgeGraph)
      /\ HandlerOfBrand(hs.handleRunSparql)
      /\ HandlerOfBrand(hs.handleGeneratePatch)
      /\ HandlerOfBrand(hs.handleSyncToPlatform)
  BY OneOfBrand DEF GraphHandlers, Handler, Show, Fill, Get, Post, executeSparqlQuery,
         generateQuickStatements, getKnowledgeGraphEntity, syncKnowledgeGraph
<1>6. LoadOK(KnowledgeGraph)
  BY <1>4, <1>5 DEF LoadOK, GraphHandlers, KnowledgeGraph, Page, PageRecord
<1>7. ViewOK(KnowledgeGraph)
  BY DEF ViewOK, KnowledgeGraph, Page, PageRecord, GraphHandlers, GraphView, FirstBehind, View,
         Handler, Show, Fill, Step, AppFlags
<1>8. \A n \in Guarded(KnowledgeGraph) : n \in {"handleRunSparql", "handleGeneratePatch", "handleSyncToPlatform"}
  BY DEF Guarded, Started, KnowledgeGraph, Page, PageRecord, GraphHandlers, Handler, GraphView,
         FirstBehind, View
<1>9. /\ "isExecutingSparql" \in OwnFlags(KnowledgeGraph, "handleRunSparql")
      /\ "isGeneratingPatch" \in OwnFlags(KnowledgeGraph, "handleGeneratePatch")
      /\ "isSyncing" \in OwnFlags(KnowledgeGraph, "handleSyncToPlatform")
  <2>1. "isExecutingSparql" \in OwnFlags(KnowledgeGraph, "handleRunSparql")
    BY DEF OwnFlags, Touches, KnowledgeGraph, Page, PageRecord, GraphHandlers, GraphView,
           FirstBehind, View, Handler, Show, Fill, Step
  <2>2. "isGeneratingPatch" \in OwnFlags(KnowledgeGraph, "handleGeneratePatch")
    BY DEF OwnFlags, Touches, KnowledgeGraph, Page, PageRecord, GraphHandlers, GraphView,
           FirstBehind, View, Handler, Show, Fill, Step
  <2>3. "isSyncing" \in OwnFlags(KnowledgeGraph, "handleSyncToPlatform")
    BY DEF OwnFlags, Touches, KnowledgeGraph, Page, PageRecord, GraphHandlers, GraphView,
           FirstBehind, View, Handler, Show, Fill, Step
  <2> QED
    BY <2>1, <2>2, <2>3
<1> QED
  BY <1>2, <1>3, <1>6, <1>7, <1>8, <1>9 DEF PageOK, GuardsOK, KnowledgeGraph, Page, PageRecord

\* Hardening.
LEMMA CanariesOK == PageOK(Canaries)
<1> DEFINE hs == CanaryHandlers
<1>1. /\ HandlerOK(hs.loadReport)
      /\ HandlerOK(hs.handleRunCalibration)
  BY OneStep, TwoSteps, HandlerOfSteps DEF CanaryHandlers, CanaryLoad, Show, Await
<1>2. \A n \in DOMAIN hs : HandlerOK(hs[n])
  BY <1>1 DEF CanaryHandlers
<1>3. NamesOK(Canaries)
  BY DEF NamesOK, Canaries, MountedPage, PageRecord, CanaryHandlers, CanaryLoad, CanaryView,
         Open, View, Handler, Show, Await, Step, AppHandlers
<1>4. /\ Displays(hs.loadReport.steps[1])
      /\ {} \subseteq hs.loadReport.steps[1].raises \cup hs.loadReport.clears
  BY DEF CanaryHandlers, CanaryLoad, Handler, Show, Await, Step, Displays
<1>5. LoadOK(Canaries)
  BY <1>4 DEF LoadOK, Canaries, MountedPage, PageRecord
<1>6. ViewOK(Canaries)
  BY DEF ViewOK, Canaries, MountedPage, PageRecord, CanaryHandlers, CanaryLoad, CanaryView,
         Open, View, Handler, Show, Await, Step, AppFlags
<1>7. \A n \in Guarded(Canaries) : n \in {"handleRunCalibration"}
  BY DEF Guarded, Started, Canaries, MountedPage, PageRecord, CanaryHandlers, Handler,
         CanaryView, Open, View
<1>8. "autoCalibrating" \in OwnFlags(Canaries, "handleRunCalibration")
  BY DEF OwnFlags, Touches, Canaries, MountedPage, PageRecord, CanaryHandlers, CanaryLoad,
         CanaryView, Open, View, Handler, Show, Await, Step
<1> QED
  BY <1>2, <1>3, <1>5, <1>6, <1>7, <1>8 DEF PageOK, GuardsOK, Canaries, MountedPage, PageRecord

\* Hardening.
LEMMA SamplerOK == PageOK(Sampler)
<1> DEFINE hs == SamplerHandlers
<1>1. /\ HandlerOK(hs.loadMetrics)
      /\ HandlerOK(hs.handleRunTest)
  BY OneStep, HandlerOfSteps DEF SamplerHandlers, Show, Fill
<1>2. \A n \in DOMAIN hs : HandlerOK(hs[n])
  BY <1>1 DEF SamplerHandlers
<1>3. NamesOK(Sampler)
  BY DEF NamesOK, Sampler, MountedPage, PageRecord, SamplerHandlers, SamplerView, Open, View,
         Handler, Show, Fill, Step, AppHandlers
<1>4. /\ Displays(hs.loadMetrics.steps[1])
      /\ {} \subseteq hs.loadMetrics.steps[1].raises \cup hs.loadMetrics.clears
  BY DEF SamplerHandlers, Handler, Show, Fill, Step, Displays
<1>5. LoadOK(Sampler)
  BY <1>4 DEF LoadOK, Sampler, MountedPage, PageRecord
<1>6. ViewOK(Sampler)
  BY DEF ViewOK, Sampler, MountedPage, PageRecord, SamplerHandlers, SamplerView, Open, View,
         Handler, Show, Fill, Step, AppFlags
<1>7. \A n \in Guarded(Sampler) : n \in {"handleRunTest"}
  BY DEF Guarded, Started, Sampler, MountedPage, PageRecord, SamplerHandlers, Handler,
         SamplerView, Open, View
<1>8. "isSimulating" \in OwnFlags(Sampler, "handleRunTest")
  BY DEF OwnFlags, Touches, Sampler, MountedPage, PageRecord, SamplerHandlers, SamplerView,
         Open, View, Handler, Show, Fill, Step
<1> QED
  BY <1>2, <1>3, <1>5, <1>6, <1>7, <1>8 DEF PageOK, GuardsOK, Sampler, MountedPage, PageRecord

\* Hardening.
LEMMA GitOpsOK == PageOK(GitOps)
<1> DEFINE hs == GitOpsHandlers
<1>1. /\ HandlerOK(hs.loadData)
      /\ HandlerOK(hs.handleCreatePr)
      /\ HandlerOK(hs.handleApproveStage3)
  BY OneStep, HandlerOfSteps DEF GitOpsHandlers, Show, Fill
<1>2. \A n \in DOMAIN hs : HandlerOK(hs[n])
  BY <1>1 DEF GitOpsHandlers
<1>3. NamesOK(GitOps)
  BY DEF NamesOK, GitOps, MountedPage, PageRecord, GitOpsHandlers, GitOpsView, Open, View,
         Handler, Show, Fill, Step, AppHandlers
<1>4. /\ Displays(hs.loadData.steps[1])
      /\ {} \subseteq hs.loadData.steps[1].raises \cup hs.loadData.clears
  BY DEF GitOpsHandlers, Handler, Show, Fill, Step, Displays
<1>5. LoadOK(GitOps)
  BY <1>4 DEF LoadOK, GitOps, MountedPage, PageRecord
<1>6. ViewOK(GitOps)
  BY DEF ViewOK, GitOps, MountedPage, PageRecord, GitOpsHandlers, GitOpsView, Open, View,
         Handler, Show, Fill, Step, AppFlags
<1>7. \A n \in Guarded(GitOps) : n \in {"handleCreatePr", "handleApproveStage3"}
  BY DEF Guarded, Started, GitOps, MountedPage, PageRecord, GitOpsHandlers, Handler, GitOpsView,
         Open, View
<1>8. /\ "isCreatingPr" \in OwnFlags(GitOps, "handleCreatePr")
      /\ "isSigning" \in OwnFlags(GitOps, "handleApproveStage3")
  <2>1. "isCreatingPr" \in OwnFlags(GitOps, "handleCreatePr")
    BY DEF OwnFlags, Touches, GitOps, MountedPage, PageRecord, GitOpsHandlers, GitOpsView, Open,
           View, Handler, Show, Fill, Step
  <2>2. "isSigning" \in OwnFlags(GitOps, "handleApproveStage3")
    BY DEF OwnFlags, Touches, GitOps, MountedPage, PageRecord, GitOpsHandlers, GitOpsView, Open,
           View, Handler, Show, Fill, Step
  <2> QED
    BY <2>1, <2>2
<1> QED
  BY <1>2, <1>3, <1>5, <1>6, <1>7, <1>8 DEF PageOK, GuardsOK, GitOps, MountedPage, PageRecord

\* Hardening.
LEMMA AttributionOK == PageOK(Attribution)
<1> DEFINE hs == AttributionHandlers
<1>1. HandlerOK(hs.loadReport)
  BY OneStep, HandlerOfSteps DEF AttributionHandlers, ShowOwn
<1>2. \A n \in DOMAIN hs : HandlerOK(hs[n])
  BY <1>1 DEF AttributionHandlers
<1>3. NamesOK(Attribution)
  BY DEF NamesOK, Attribution, MountedPage, PageRecord, AttributionHandlers, Open, View,
         Handler, ShowOwn, Step, AppHandlers
<1>4. /\ Displays(hs.loadReport.steps[1])
      /\ {} \subseteq hs.loadReport.steps[1].raises \cup hs.loadReport.clears
  BY DEF AttributionHandlers, Handler, ShowOwn, Step, Displays
<1>5. LoadOK(Attribution)
  BY <1>4 DEF LoadOK, Attribution, MountedPage, PageRecord
<1>6. ViewOK(Attribution)
  BY DEF ViewOK, Attribution, MountedPage, PageRecord, AttributionHandlers, Open, View, Handler,
         ShowOwn, Step, AppFlags
<1>7. Guarded(Attribution) = {}
  BY DEF Guarded, Started, Attribution, MountedPage, PageRecord, AttributionHandlers, Handler,
         Open, View
<1> QED
  BY <1>2, <1>3, <1>5, <1>6, <1>7 DEF PageOK, GuardsOK, Attribution, MountedPage, PageRecord

\* AdversarialPenTestStudio.
LEMMA PenTestOK == PageOK(PenTest)
<1> DEFINE hs == PenTestHandlers
<1>1. /\ HandlerOK(hs.loadPenTestData)
      /\ HandlerOK(hs.handleRunPenTest)
      /\ HandlerOK(hs.handleApplyHardening)
  BY OneStep, TwoSteps, HandlerOfSteps DEF PenTestHandlers, Show, Fill
<1>2. \A n \in DOMAIN hs : HandlerOK(hs[n])
  BY <1>1 DEF PenTestHandlers
<1>3. NamesOK(PenTest)
  BY DEF NamesOK, PenTest, Page, PageRecord, PenTestHandlers, PenTestView, FirstBehind, View,
         Handler, Show, Fill, Step, AppHandlers
<1>4. /\ Displays(hs.loadPenTestData.steps[1])
      /\ {"isLoading"} \subseteq hs.loadPenTestData.steps[1].raises \cup hs.loadPenTestData.clears
  BY DEF PenTestHandlers, Handler, Show, Fill, Step, Displays
<1>5. /\ HandlerOfBrand(hs.loadPenTestData)
      /\ HandlerOfBrand(hs.handleRunPenTest)
      /\ HandlerOfBrand(hs.handleApplyHardening)
  BY OneOfBrand, TwoOfBrand DEF PenTestHandlers, Handler, Show, Fill, Get, Post,
         applyDefensiveHardening, getAttackVectors, getPenTestReport, runPenTest
<1>6. LoadOK(PenTest)
  BY <1>4, <1>5 DEF LoadOK, PenTestHandlers, PenTest, Page, PageRecord
<1>7. ViewOK(PenTest)
  BY DEF ViewOK, PenTest, Page, PageRecord, PenTestHandlers, PenTestView, FirstBehind, View,
         Handler, Show, Fill, Step, AppFlags
<1>8. \A n \in Guarded(PenTest) : n \in {"handleRunPenTest", "handleApplyHardening"}
  BY DEF Guarded, Started, PenTest, Page, PageRecord, PenTestHandlers, Handler, PenTestView,
         FirstBehind, View
<1>9. /\ "isRunningSim" \in OwnFlags(PenTest, "handleRunPenTest")
      /\ "isHardening" \in OwnFlags(PenTest, "handleApplyHardening")
  <2>1. "isRunningSim" \in OwnFlags(PenTest, "handleRunPenTest")
    BY DEF OwnFlags, Touches, PenTest, Page, PageRecord, PenTestHandlers, PenTestView,
           FirstBehind, View, Handler, Show, Fill, Step
  <2>2. "isHardening" \in OwnFlags(PenTest, "handleApplyHardening")
    BY DEF OwnFlags, Touches, PenTest, Page, PageRecord, PenTestHandlers, PenTestView,
           FirstBehind, View, Handler, Show, Fill, Step
  <2> QED
    BY <2>1, <2>2
<1> QED
  BY <1>2, <1>3, <1>6, <1>7, <1>8, <1>9 DEF PageOK, GuardsOK, PenTest, Page, PageRecord

\* BotTrafficArmorStudio.
LEMMA BotArmorOK == PageOK(BotArmor)
<1> DEFINE hs == ArmorHandlers
<1>1. /\ HandlerOK(hs.loadTelemetryReport)
      /\ HandlerOK(hs.loadWafRules)
      /\ HandlerOK(hs.handleSwitchPolicy)
  BY OneStep, TwoSteps, HandlerOfSteps DEF ArmorHandlers, ArmorLoad, Show, Fill
<1>2. \A n \in DOMAIN hs : HandlerOK(hs[n])
  BY <1>1 DEF ArmorHandlers
<1>3. NamesOK(BotArmor)
  BY DEF NamesOK, BotArmor, ReportPage, PageRecord, ArmorHandlers, ArmorLoad, ArmorView,
         TrustingBehind, View, Handler, Show, Fill, Step, AppHandlers
<1>4. /\ Displays(hs.loadTelemetryReport.steps[1])
      /\ {"loading"} \subseteq hs.loadTelemetryReport.steps[1].raises \cup hs.loadTelemetryReport.clears
  BY DEF ArmorHandlers, ArmorLoad, Handler, Show, Fill, Step, Displays
<1>5. /\ HandlerOfBrand(hs.loadTelemetryReport)
      /\ HandlerOfBrand(hs.loadWafRules)
      /\ HandlerOfBrand(hs.handleSwitchPolicy)
  BY OneOfBrand, TwoOfBrand DEF ArmorHandlers, ArmorLoad, Handler, Show, Fill, Get, Post,
         generateEdgeWafRules, getBotArmorTelemetry, setBotArmorPolicy
<1>6. LoadOK(BotArmor)
  BY <1>4, <1>5 DEF LoadOK, ArmorHandlers, BotArmor, ReportPage, PageRecord
<1>7. ViewOK(BotArmor)
  BY DEF ViewOK, BotArmor, ReportPage, PageRecord, ArmorHandlers, ArmorLoad, ArmorView,
         TrustingBehind, View, Handler, Show, Fill, Step, AppFlags
<1>8. \A n \in Guarded(BotArmor) : n \in {"handleSwitchPolicy"}
  BY DEF Guarded, Started, BotArmor, ReportPage, PageRecord, ArmorHandlers, Handler, ArmorView,
         TrustingBehind, View
<1>9. "switchingPolicy" \in OwnFlags(BotArmor, "handleSwitchPolicy")
  BY DEF OwnFlags, Touches, BotArmor, ReportPage, PageRecord, ArmorHandlers, ArmorLoad,
         ArmorView, TrustingBehind, View, Handler, Show, Fill, Step
<1> QED
  BY <1>2, <1>3, <1>6, <1>7, <1>8, <1>9 DEF PageOK, GuardsOK, BotArmor, ReportPage, PageRecord

\* BackgroundJobsMonitor.
LEMMA SchedulerOK == PageOK(Scheduler)
<1> DEFINE hs == SchedulerHandlers
<1>1. /\ HandlerOK(hs.handleTriggerSchedule)
      /\ HandlerOK(hs.handleTestPingWebhook)
      /\ HandlerOK(hs.handleEnqueueManualAudit)
      /\ HandlerOK(hs.handleCreateScheduleSubmit)
      /\ HandlerOK(hs.handleCreateWebhookSubmit)
  BY OneStep, TwoSteps, HandlerOfSteps DEF SchedulerHandlers, Await, Timer
<1>2. \A n \in DOMAIN hs : HandlerOK(hs[n])
  BY <1>1 DEF SchedulerHandlers
<1>3. NamesOK(Scheduler)
  BY DEF NamesOK, Scheduler, MountedPage, PageRecord, SchedulerHandlers, SchedulerView, Open,
         View, Then, Await, Timer, Step, AppHandlers
<1>4. ViewOK(Scheduler)
  BY DEF ViewOK, Scheduler, MountedPage, PageRecord, SchedulerHandlers, SchedulerView, Open,
         View, Then, Await, Timer, Step, AppFlags
<1>5. Guarded(Scheduler) = {}
  BY DEF Guarded, Started, Scheduler, MountedPage, PageRecord, SchedulerHandlers, Then,
         SchedulerView, Open, View
<1> QED
  BY <1>2, <1>3, <1>4, <1>5 DEF PageOK, GuardsOK, Scheduler, MountedPage, PageRecord

\* EnterpriseAccessSecurity.
LEMMA AccessSecurityOK == PageOK(AccessSecurity)
<1> DEFINE hs == AccessHandlers
<1>1. /\ HandlerOK(hs.handleRoleChange)
      /\ HandlerOK(hs.handleRevokeSession)
  BY OneStep, TwoSteps, HandlerOfSteps DEF AccessHandlers, Await, Timer
<1>2. \A n \in DOMAIN hs : HandlerOK(hs[n])
  BY <1>1 DEF AccessHandlers
<1>3. NamesOK(AccessSecurity)
  BY DEF NamesOK, AccessSecurity, MountedPage, PageRecord, AccessHandlers, AccessView, Open,
         View, Then, Await, Timer, Step, AppHandlers
<1>4. ViewOK(AccessSecurity)
  BY DEF ViewOK, AccessSecurity, MountedPage, PageRecord, AccessHandlers, AccessView, Open,
         View, Then, Await, Timer, Step, AppFlags
<1>5. Guarded(AccessSecurity) = {}
  BY DEF Guarded, Started, AccessSecurity, MountedPage, PageRecord, AccessHandlers, Then,
         AccessView, Open, View
<1> QED
  BY <1>2, <1>3, <1>4, <1>5 DEF PageOK, GuardsOK, AccessSecurity, MountedPage, PageRecord

\* BillingUsagePortal.
LEMMA BillingOK == PageOK(Billing)
<1> DEFINE hs == BillingHandlers
<1>1. HandlerOK(hs.handleDownloadInvoice)
  BY OneStep, HandlerOfSteps DEF BillingHandlers, Await
<1>2. \A n \in DOMAIN hs : HandlerOK(hs[n])
  BY <1>1 DEF BillingHandlers
<1>3. NamesOK(Billing)
  BY DEF NamesOK, Billing, MountedPage, PageRecord, BillingHandlers, BillingView, Open, View,
         Handler, Await, Step, AppHandlers
<1>4. ViewOK(Billing)
  BY DEF ViewOK, Billing, MountedPage, PageRecord, BillingHandlers, BillingView, Open, View,
         Handler, Await, Step, AppFlags
<1>5. Guarded(Billing) = {}
  BY DEF Guarded, Started, Billing, MountedPage, PageRecord, BillingHandlers, Handler,
         BillingView, Open, View
<1> QED
  BY <1>2, <1>3, <1>4, <1>5 DEF PageOK, GuardsOK, Billing, MountedPage, PageRecord

\* WhiteLabelAgencyPortal.
LEMMA AgencyOK == PageOK(Agency)
<1> DEFINE hs == AgencyHandlers
<1>1. /\ HandlerOK(hs.loadData)
      /\ HandlerOK(hs.handleSaveTheme)
      /\ HandlerOK(hs.handleVerifyDomain)
      /\ HandlerOK(hs.handleCreateClient)
      /\ HandlerOK(hs.handleInviteUser)
      /\ HandlerOK(hs.handleTriggerTestDispatch)
  BY OneStep, HandlerOfSteps DEF AgencyHandlers, Show, Mark, Fill
<1>2. \A n \in DOMAIN hs : HandlerOK(hs[n])
  BY <1>1 DEF AgencyHandlers
<1>3. NamesOK(Agency)
  BY DEF NamesOK, Agency, MountedPage, PageRecord, AgencyHandlers, AgencyView, Open, View,
         Handler, Show, Mark, Fill, Step, AppHandlers
<1>4. /\ Displays(hs.loadData.steps[1])
      /\ {"isLoading"} \subseteq hs.loadData.steps[1].raises \cup hs.loadData.clears
  BY DEF AgencyHandlers, Handler, Show, Mark, Fill, Step, Displays
<1>5. LoadOK(Agency)
  BY <1>4 DEF LoadOK, Agency, MountedPage, PageRecord
<1>6. ViewOK(Agency)
  BY DEF ViewOK, Agency, MountedPage, PageRecord, AgencyHandlers, AgencyView, Open, View,
         Handler, Show, Mark, Fill, Step, AppFlags
<1>7. \A n \in Guarded(Agency) : n \in {"handleSaveTheme", "handleVerifyDomain", "handleTriggerTestDispatch"}
  BY DEF Guarded, Started, Agency, MountedPage, PageRecord, AgencyHandlers, Handler, AgencyView,
         Open, View
<1>8. /\ "isSavingTheme" \in OwnFlags(Agency, "handleSaveTheme")
      /\ "isVerifyingDomain" \in OwnFlags(Agency, "handleVerifyDomain")
      /\ "isDispatchingTest" \in OwnFlags(Agency, "handleTriggerTestDispatch")
  <2>1. "isSavingTheme" \in OwnFlags(Agency, "handleSaveTheme")
    BY DEF OwnFlags, Touches, Agency, MountedPage, PageRecord, AgencyHandlers, AgencyView, Open,
           View, Handler, Show, Mark, Fill, Step
  <2>2. "isVerifyingDomain" \in OwnFlags(Agency, "handleVerifyDomain")
    BY DEF OwnFlags, Touches, Agency, MountedPage, PageRecord, AgencyHandlers, AgencyView, Open,
           View, Handler, Show, Mark, Fill, Step
  <2>3. "isDispatchingTest" \in OwnFlags(Agency, "handleTriggerTestDispatch")
    BY DEF OwnFlags, Touches, Agency, MountedPage, PageRecord, AgencyHandlers, AgencyView, Open,
           View, Handler, Show, Mark, Fill, Step
  <2> QED
    BY <2>1, <2>2, <2>3
<1> QED
  BY <1>2, <1>3, <1>5, <1>6, <1>7, <1>8 DEF PageOK, GuardsOK, Agency, MountedPage, PageRecord

\* LiveApiSettings.
LEMMA SettingsOK == PageOK(Settings)
<1> DEFINE hs == SettingsHandlers
<1>1. /\ HandlerOK(hs.loadSettings)
      /\ HandlerOK(hs.handleSave)
      /\ HandlerOK(hs.handleTestPing)
  BY OneStep, HandlerOfSteps DEF SettingsHandlers, Show, Fill, Await
<1>2. \A n \in DOMAIN hs : HandlerOK(hs[n])
  BY <1>1 DEF SettingsHandlers
<1>3. NamesOK(Settings)
  BY DEF NamesOK, Settings, SamplePage, PageRecord, SettingsHandlers, SettingsView, Open, View,
         Handler, Show, Fill, Await, Step, AppHandlers
<1>4. /\ Displays(hs.loadSettings.steps[1])
      /\ {} \subseteq hs.loadSettings.steps[1].raises \cup hs.loadSettings.clears
  BY DEF SettingsHandlers, Handler, Show, Fill, Await, Step, Displays
<1>5. LoadOK(Settings)
  BY <1>4 DEF LoadOK, Settings, SamplePage, PageRecord
<1>6. ViewOK(Settings)
  BY DEF ViewOK, Settings, SamplePage, PageRecord, SettingsHandlers, SettingsView, Open, View,
         Handler, Show, Fill, Await, Step, AppFlags
<1>7. \A n \in Guarded(Settings) : n \in {"handleSave"}
  BY DEF Guarded, Started, Settings, SamplePage, PageRecord, SettingsHandlers, Handler,
         SettingsView, Open, View
<1>8. "isSaving" \in OwnFlags(Settings, "handleSave")
  BY DEF OwnFlags, Touches, Settings, SamplePage, PageRecord, SettingsHandlers, SettingsView,
         Open, View, Handler, Show, Fill, Await, Step
<1> QED
  BY <1>2, <1>3, <1>5, <1>6, <1>7, <1>8 DEF PageOK, GuardsOK, Settings, SamplePage, PageRecord

\* GeoProxyClusterMonitor.
LEMMA NetworkOK == PageOK(Network)
<1> DEFINE hs == NetworkHandlers
<1>1. /\ HandlerOK(hs.loadNetworkData)
      /\ HandlerOK(hs.handleRefresh)
      /\ HandlerOK(hs.handleFailoverProxy)
      /\ HandlerOK(hs.handleRotateTls)
      /\ HandlerOK(hs.handleRunProbe)
  BY OneStep, TwoSteps, HandlerOfSteps DEF NetworkHandlers, Show, Fill, Await
<1>2. \A n \in DOMAIN hs : HandlerOK(hs[n])
  BY <1>1 DEF NetworkHandlers
<1>3. NamesOK(Network)
  BY DEF NamesOK, Network, MountedPage, PageRecord, NetworkHandlers, NetworkView, FirstBehind,
         View, Handler, Show, Fill, Await, Step, AppHandlers
<1>4. /\ Displays(hs.loadNetworkData.steps[1])
      /\ {"isLoading"} \subseteq hs.loadNetworkData.steps[1].raises \cup hs.loadNetworkData.clears
  BY DEF NetworkHandlers, Handler, Show, Fill, Await, Step, Displays
<1>5. LoadOK(Network)
  BY <1>4 DEF LoadOK, Network, MountedPage, PageRecord
<1>6. ViewOK(Network)
  BY DEF ViewOK, Network, MountedPage, PageRecord, NetworkHandlers, NetworkView, FirstBehind,
         View, Handler, Show, Fill, Await, Step, AppFlags
<1>7. \A n \in Guarded(Network) : n \in {"handleRefresh", "handleFailoverProxy", "handleRotateTls"}
  BY DEF Guarded, Started, Network, MountedPage, PageRecord, NetworkHandlers, Handler,
         NetworkView, FirstBehind, View
<1>8. /\ "isRefreshing" \in OwnFlags(Network, "handleRefresh")
      /\ "isFailingOver" \in OwnFlags(Network, "handleFailoverProxy")
      /\ "isRotatingTls" \in OwnFlags(Network, "handleRotateTls")
  <2>1. "isRefreshing" \in OwnFlags(Network, "handleRefresh")
    BY DEF OwnFlags, Touches, Network, MountedPage, PageRecord, NetworkHandlers, NetworkView,
           FirstBehind, View, Handler, Show, Fill, Await, Step
  <2>2. "isFailingOver" \in OwnFlags(Network, "handleFailoverProxy")
    BY DEF OwnFlags, Touches, Network, MountedPage, PageRecord, NetworkHandlers, NetworkView,
           FirstBehind, View, Handler, Show, Fill, Await, Step
  <2>3. "isRotatingTls" \in OwnFlags(Network, "handleRotateTls")
    BY DEF OwnFlags, Touches, Network, MountedPage, PageRecord, NetworkHandlers, NetworkView,
           FirstBehind, View, Handler, Show, Fill, Await, Step
  <2> QED
    BY <2>1, <2>2, <2>3
<1> QED
  BY <1>2, <1>3, <1>5, <1>6, <1>7, <1>8 DEF PageOK, GuardsOK, Network, MountedPage, PageRecord

\* UnitEconomicsHub.
LEMMA EconomicsOK == PageOK(Economics)
<1> DEFINE hs == EconomicsHandlers
<1>1. /\ HandlerOK(hs.loadCacheStats)
      /\ HandlerOK(hs.handleClassify)
  BY OneStep, HandlerOfSteps DEF EconomicsHandlers, Show, Fill
<1>2. \A n \in DOMAIN hs : HandlerOK(hs[n])
  BY <1>1 DEF EconomicsHandlers
<1>3. NamesOK(Economics)
  BY DEF NamesOK, Economics, MountedPage, PageRecord, EconomicsHandlers, EconomicsView, Open,
         View, Handler, Show, Fill, Step, AppHandlers
<1>4. /\ Displays(hs.loadCacheStats.steps[1])
      /\ {} \subseteq hs.loadCacheStats.steps[1].raises \cup hs.loadCacheStats.clears
  BY DEF EconomicsHandlers, Handler, Show, Fill, Step, Displays
<1>5. LoadOK(Economics)
  BY <1>4 DEF LoadOK, Economics, MountedPage, PageRecord
<1>6. ViewOK(Economics)
  BY DEF ViewOK, Economics, MountedPage, PageRecord, EconomicsHandlers, EconomicsView, Open,
         View, Handler, Show, Fill, Step, AppFlags
<1>7. \A n \in Guarded(Economics) : n \in {"handleClassify"}
  BY DEF Guarded, Started, Economics, MountedPage, PageRecord, EconomicsHandlers, Handler,
         EconomicsView, Open, View
<1>8. "isClassifying" \in OwnFlags(Economics, "handleClassify")
  BY DEF OwnFlags, Touches, Economics, MountedPage, PageRecord, EconomicsHandlers,
         EconomicsView, Open, View, Handler, Show, Fill, Step
<1> QED
  BY <1>2, <1>3, <1>5, <1>6, <1>7, <1>8 DEF PageOK, GuardsOK, Economics, MountedPage, PageRecord

\* BillingUsagePortal.
LEMMA TerminalOK == PageOK(Terminal)
<1> DEFINE hs == TerminalHandlers
<1>1. HandlerOK(hs.handleExecute)
  BY OneStep, HandlerOfSteps DEF TerminalHandlers, Fill
<1>2. \A n \in DOMAIN hs : HandlerOK(hs[n])
  BY <1>1 DEF TerminalHandlers
<1>3. NamesOK(Terminal)
  BY DEF NamesOK, Terminal, MountedPage, PageRecord, TerminalHandlers, TerminalView, Open, View,
         Handler, Fill, Step, AppHandlers
<1>4. ViewOK(Terminal)
  BY DEF ViewOK, Terminal, MountedPage, PageRecord, TerminalHandlers, TerminalView, Open, View,
         Handler, Fill, Step, AppFlags
<1>5. \A n \in Guarded(Terminal) : n \in {"handleExecute"}
  BY DEF Guarded, Started, Terminal, MountedPage, PageRecord, TerminalHandlers, Handler,
         TerminalView, Open, View
<1>6. "isRunning" \in OwnFlags(Terminal, "handleExecute")
  BY DEF OwnFlags, Touches, Terminal, MountedPage, PageRecord, TerminalHandlers, TerminalView,
         Open, View, Handler, Fill, Step
<1> QED
  BY <1>2, <1>3, <1>4, <1>5, <1>6 DEF PageOK, GuardsOK, Terminal, MountedPage, PageRecord

\* BillingUsagePortal.
LEMMA AuditOK == PageOK(Audit)
<1> DEFINE hs == ShreddingHandlers
<1>1. HandlerOK(hs.handleShred)
  BY OneStep, HandlerOfSteps DEF ShreddingHandlers, Fill
<1>2. \A n \in DOMAIN hs : HandlerOK(hs[n])
  BY <1>1 DEF ShreddingHandlers
<1>3. NamesOK(Audit)
  BY DEF NamesOK, Audit, MountedPage, PageRecord, ShreddingHandlers, ShreddingView, Open, View,
         Handler, Fill, Step, AppHandlers
<1>4. ViewOK(Audit)
  BY DEF ViewOK, Audit, MountedPage, PageRecord, ShreddingHandlers, ShreddingView, Open, View,
         Handler, Fill, Step, AppFlags
<1>5. \A n \in Guarded(Audit) : n \in {"handleShred"}
  BY DEF Guarded, Started, Audit, MountedPage, PageRecord, ShreddingHandlers, Handler,
         ShreddingView, Open, View
<1>6. "isShredding" \in OwnFlags(Audit, "handleShred")
  BY DEF OwnFlags, Touches, Audit, MountedPage, PageRecord, ShreddingHandlers, ShreddingView,
         Open, View, Handler, Fill, Step
<1> QED
  BY <1>2, <1>3, <1>4, <1>5, <1>6 DEF PageOK, GuardsOK, Audit, MountedPage, PageRecord

\* SOC2ComplianceStudio.
LEMMA SOC2ComplianceOK == PageOK(SOC2Compliance)
<1> DEFINE hs == SOC2Handlers
<1>1. /\ HandlerOK(hs.fetchData)
      /\ HandlerOK(hs.handleVerifyProof)
      /\ HandlerOK(hs.handleExportPackage)
  BY OneStep, HandlerOfSteps DEF SOC2Handlers, Show, Fill, Await, AppFlags
<1>2. \A n \in DOMAIN hs : HandlerOK(hs[n])
  BY <1>1 DEF SOC2Handlers
<1>3. NamesOK(SOC2Compliance)
  BY DEF NamesOK, SOC2Compliance, Page, PageRecord, SOC2Handlers, SOC2View, Behind, View,
         Handler, Clearing, Show, Fill, Await, Step, AppHandlers
<1>4. /\ Displays(hs.fetchData.steps[1])
      /\ {"loading"} \subseteq hs.fetchData.steps[1].raises \cup hs.fetchData.clears
  BY DEF SOC2Handlers, Handler, Clearing, Show, Fill, Await, Step, Displays
<1>5. /\ HandlerOfBrand(hs.fetchData)
      /\ HandlerOfBrand(hs.handleVerifyProof)
      /\ HandlerOfBrand(hs.handleExportPackage)
  BY OneOfBrand DEF SOC2Handlers, Handler, Clearing, Show, Fill, Await, Get, Post,
         exportSOC2CompliancePackage, getMerkleAuditChain, getSOC2ComplianceReport,
         verifyMerkleProof
<1>6. LoadOK(SOC2Compliance)
  BY <1>4, <1>5 DEF LoadOK, SOC2Handlers, SOC2Compliance, Page, PageRecord
<1>7. ViewOK(SOC2Compliance)
  BY DEF ViewOK, SOC2Compliance, Page, PageRecord, SOC2Handlers, SOC2View, Behind, View,
         Handler, Clearing, Show, Fill, Await, Step, AppFlags
<1>8. \A n \in Guarded(SOC2Compliance) : n \in {"handleExportPackage"}
  BY DEF Guarded, Started, SOC2Compliance, Page, PageRecord, SOC2Handlers, Handler, Clearing,
         SOC2View, Behind, View
<1>9. "isExporting" \in OwnFlags(SOC2Compliance, "handleExportPackage")
  BY DEF OwnFlags, Touches, SOC2Compliance, Page, PageRecord, SOC2Handlers, SOC2View, Behind,
         View, Handler, Clearing, Show, Fill, Await, Step
<1> QED
  BY <1>2, <1>3, <1>6, <1>7, <1>8, <1>9 DEF PageOK, GuardsOK, SOC2Compliance, Page, PageRecord

\* A page that sends nothing.
LEMMA StillPageOK == PageOK(StillPage)
<1>1. NamesOK(StillPage)
  BY DEF NamesOK, StillPage, MountedPage, PageRecord, Open, View
<1>2. ViewOK(StillPage)
  BY DEF ViewOK, StillPage, MountedPage, PageRecord, Open, View
<1>3. DOMAIN StillPage.handlers = {} /\ StillPage.mount = "none"
  BY DEF StillPage, MountedPage, PageRecord
<1>4. GuardsOK(StillPage)
  BY <1>3 DEF GuardsOK, Guarded
<1> QED
  BY <1>1, <1>2, <1>3, <1>4 DEF PageOK

\* Every tab shows a page that keeps to the rules: above all, a load shows what it is
\* answered and lowers the flags its page begins with, what a page shows that follows
\* the brand was asked for that brand, and a button that a flag guards has a flag
\* that no other handler lowers (App.tsx, activeTab, and the pages of components/).
THEOREM EveryPageOK == \A t : PageOK(PageOf(t))
BY CounterPositioningOK, TribunalOK, CitationSeedsOK, AutopilotOK,
   SentinelOK, BuyerJourneyOK, SeismographOK, BoardReportOK,
   IndexWatchOK, IngestionOK, KnowledgeGraphOK, CanariesOK,
   SamplerOK, GitOpsOK, AttributionOK, PenTestOK,
   BotArmorOK, SchedulerOK, AccessSecurityOK, BillingOK,
   AgencyOK, SettingsOK, NetworkOK, EconomicsOK,
   TerminalOK, AuditOK, SOC2ComplianceOK,
   StillPageOK DEF PageOf

=============================================================================
