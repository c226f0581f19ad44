-------------------------- MODULE IntelligencePages --------------------------
(***************************************************************************)
(* The pages of components/Intelligence and CompetitiveIntelligence: for   *)
(* each its handlers, what it renders, and its state and effects.          *)
(***************************************************************************)
EXTENDS ApiClient, Handlers

(* MultiModelDisputeTribunalStudio *)

TribunalHandlers ==
  [loadData |-> Handler(<<Show({"isLoading"}, {getTribunalReport})>>),
   handleAdjudicateCase |-> Handler(<<Fill({"isAdjudicating"}, {reconcileDisputeCase})>>),
   handleDispatchErrata |-> Handler(<<Await({"isDispatching"}, {dispatchTribunalErrata})>>)]

TribunalView ==
  Open([loadData |-> {"isLoading"},
        handleAdjudicateCase |-> {"isAdjudicating"},
        handleDispatchErrata |-> {"isDispatching"}], {"loadData"})

Tribunal == Page(TribunalHandlers, TribunalView, "loadData", {"isLoading"})

(* CitationSeedNetworkStudio *)

SeedPlaybook == Fill({"isGeneratingPlaybook"}, {generateSeedingPlaybook})

SeedHandlers ==
  [loadData |->
     Handler(<<Show({"isLoading"}, {getCitationSeedReport}), Perhaps(SeedPlaybook)>>),
   handleGeneratePlaybook |-> Handler(<<SeedPlaybook>>),
   handleUpdateStatus |-> Handler(<<Mark({"isUpdatingStatus"}, {updateSeedingCampaign})>>)]

\* The row's playbook button looks at no flag.
SeedView ==
  Open([loadData |-> {"isLoading"},
        handleGeneratePlaybook |-> {},
        handleUpdateStatus |-> {"isUpdatingStatus"}], {"loadData"})

CitationSeeds == Page(SeedHandlers, SeedView, "loadData", {"isLoading"})

(* GeoVariantAutopilotStudio *)

AutopilotHandlers ==
  [loadReport |-> Handler(<<Show({"loading"}, {getAutopilotExperiments})>>),
   handleSimulate |-> Handler(<<Mark({"simulating"}, {simulateAutopilotEvaluation})>>),
   handlePromote |-> Handler(<<Mark({"promoting"}, {promoteAutopilotWinner})>>)]

AutopilotView ==
  Behind("loading", [handleSimulate |-> {"simulating"}, handlePromote |-> {"promoting"}])

Autopilot == Page(AutopilotHandlers, AutopilotView, "loadReport", {"loading"})

(* KnowledgePoisoningSentinelStudio *)

SentinelLoad == Show({"loading"}, {getPoisoningSentinelReport})

SentinelHandlers ==
  [loadReport |-> Handler(<<SentinelLoad>>),
   handleScan |-> Handler(<<Await({"scanning"}, {scanPoisoningThreats}), SentinelLoad>>),
   handleSynthesizePatch |->
     Handler(<<Mark({"synthesizing"}, {synthesizePoisoningCounterPatch})>>),
   handleDispatchNeutralization |->
     Handler(<<Mark({"dispatching"}, {dispatchPoisoningNeutralization})>>)]

\* The threat's row has a second, unguarded button for its patch.
SentinelView ==
  Behind("loading", [handleScan |-> {"scanning"}, handleSynthesizePatch |-> {},
                     handleDispatchNeutralization |-> {"dispatching"}])

Sentinel == Page(SentinelHandlers, SentinelView, "loadReport", {"loading"})

(* BuyerJourneySimulatorStudio *)

JourneyHandlers ==
  [loadReport |-> Handler(<<Show({"loading"}, {getBuyerJourneyReport})>>),
   handleRunSimulation |->
     Then(<<Await({"isSimulating"}, {runPersonaSimulation}), Fill({}, {})>>, "loadReport"),
   handleSynthesizePreemption |->
     Then(<<Await({"isSynthesizing"}, {synthesizeObjectionPreemption})>>, "loadReport")]

\* The persona's card has a second, unguarded button for its simulation.
JourneyView ==
  FirstBehind("loading", [handleRunSimulation |-> {},
                          handleSynthesizePreemption |-> {"isSynthesizing"}], {})

BuyerJourney == Page(JourneyHandlers, JourneyView, "loadReport", {"loading"})

(* SeismographNotificationStudio *)

SeismographHandlers ==
  [fetchTelemetry |->
     Clearing(<<Show({"refreshing"}, {getSeismographTelemetry})>>, {"loading"}),
   handleTestPing |->
     Then(<<Fill({"pingingChannelId"}, {testNotificationChannel})>>, "fetchTelemetry"),
   handleToggleChannel |->
     Then(<<Await({}, {updateNotificationChannel})>>, "fetchTelemetry"),
   handleBroadcastAlert |->
     Then(<<Await({"isBroadcasting"}, {dispatchPushAlert})>>, "fetchTelemetry")]

\* A channel's ping is disabled only while that very channel is pinged.
SeismographView ==
  Behind("loading", [fetchTelemetry |-> {"refreshing"}, handleTestPing |-> {},
                     handleToggleChannel |-> {}, handleBroadcastAlert |-> {"isBroadcasting"}])

Seismograph == Page(SeismographHandlers, SeismographView, "fetchTelemetry", {"loading"})

(* AlgorithmIndexWatchStudio *)

IndexWatchLoad == Show({"loading"}, {getIndexWatchRadar})

IndexWatchHandlers ==
  [loadRadarReport |-> Handler(<<IndexWatchLoad>>),
   handleDeployPlaybook |->
     Handler(<<Fill({"executingPlaybookId"}, {triggerEmergencyPlaybook}), IndexWatchLoad>>)]

\* Variant: the page does not wait for its first report.
WithoutSpinner ==
  View("never", "none", [loadRadarReport |-> {}, handleDeployPlaybook |-> {}], {}, TRUE)

\* The choice of the time window loads again; a playbook's button is disabled
\* only while that very playbook is executed.
IndexWatchView ==
  TrustingBehind("loading", [loadRadarReport |-> {}, handleDeployPlaybook |-> {}])

IndexWatch == Page(IndexWatchHandlers, IndexWatchView, "loadRadarReport", {"loading"})

(* CompetitorCounterPositioningStudio *)

CounterSynthesis == Fill({"isSynthesizing"}, {synthesizeCounterStrategy})
CounterSimulation == Fill({}, {simulateSiphoningLift})

CounterHandlers ==
  [loadData |->
     Handler(<<Show({"isLoading"}, {getCompetitorLandscape}), Perhaps(CounterSynthesis),
               CounterSimulation>>),
   handleSynthesize |-> Handler(<<CounterSynthesis, CounterSimulation>>)]

\* A competitor's and an angle's card synthesize without looking at the flag.
CounterView == Open([handleSynthesize |-> {}], {"handleSynthesize"})

CounterPositioning == Page(CounterHandlers, CounterView, "loadData", {"isLoading"})
=============================================================================
