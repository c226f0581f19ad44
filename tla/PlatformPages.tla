---------------------------- MODULE PlatformPages ----------------------------
(***************************************************************************)
(* The pages of components/Ingestion, Optimization, Reporting, Network and *)
(* Hardening.                                                              *)
(***************************************************************************)
EXTENDS ApiClient, Handlers

(* BrandIngestionStudio *)

\* The answers of a crawl are shown 2.2 seconds after they have arrived.
IngestionHandlers ==
  [loadData |-> Handler(<<Show({}, {getIngestedDomains, getHeadlessCrawlReport})>>),
   handleStartCrawl |->
     Then(<<Await({"isCrawling"}, {runHeadlessCrawl, crawlDomain}), Pick({}, {})>>,
          "reloadHistory"),
   reloadHistory |-> Handler(<<Await({}, {getIngestedDomains})>>),
   handleSelectArchiveBrand |-> Handler(<<Pick({}, {getHeadlessCrawlReport})>>)]

\* The presets and the archive's rows crawl without looking at the flag.
IngestionView ==
  Open([handleStartCrawl |-> {}, handleSelectArchiveBrand |-> {}],
       {"handleStartCrawl", "handleSelectArchiveBrand"})

Ingestion == Page(IngestionHandlers, IngestionView, "loadData", {})

(* KnowledgeGraphSyncStudio *)

GraphHandlers ==
  [loadKnowledgeGraph |-> Handler(<<Show({"isLoading"}, {getKnowledgeGraphEntity})>>),
   handleRunSparql |-> Handler(<<Fill({"isExecutingSparql"}, {executeSparqlQuery})>>),
   handleGeneratePatch |-> Handler(<<Fill({"isGeneratingPatch"}, {generateQuickStatements})>>),
   handleSyncToPlatform |-> Handler(<<Fill({"isSyncing"}, {syncKnowledgeGraph})>>)]

GraphView ==
  LET buttons == [handleRunSparql |-> {"isExecutingSparql"},
                  handleGeneratePatch |-> {"isGeneratingPatch"},
                  handleSyncToPlatform |-> {"isSyncing"}]
  IN FirstBehind("isLoading", buttons, DOMAIN buttons)

KnowledgeGraph == Page(GraphHandlers, GraphView, "loadKnowledgeGraph", {"isLoading"})

(* ExecutiveBoardReportHub *)

BoardHandlers ==
  [loadReport |-> Handler(<<Show({"isLoading"}, {getBoardDeck, getReportHistory})>>),
   handleRegenerateReport |-> Handler(<<Show({"isGenerating"}, {generateBoardDeck})>>)]

\* The choice of the report's type loads again.
BoardView ==
  LET buttons == [loadReport |-> {}, handleRegenerateReport |-> {"isGenerating"}]
  IN FirstBehind("isLoading", buttons, DOMAIN buttons)

\* The flag is down until the effect has run.
BoardReport == Page(BoardHandlers, BoardView, "loadReport", {})

(* BotTrafficArmorStudio *)

ArmorLoad == Show({"loading"}, {getBotArmorTelemetry})

ArmorHandlers ==
  [loadTelemetryReport |-> Handler(<<ArmorLoad>>),
   loadWafRules |-> Handler(<<Fill({}, {generateEdgeWafRules})>>),
   handleSwitchPolicy |->
     Handler(<<Fill({"switchingPolicy"}, {setBotArmorPolicy}), ArmorLoad>>)]

\* The choices of the horizon and of the provider load again, unguarded.
ArmorView ==
  TrustingBehind("loading", [loadTelemetryReport |-> {}, loadWafRules |-> {},
                             handleSwitchPolicy |-> {"switchingPolicy"}])

BotArmor ==
  ReportPage(ArmorHandlers, ArmorView, "loadTelemetryReport", "loadWafRules", {"loading"})

(* GeoProxyClusterMonitor *)

NetworkHandlers ==
  [loadNetworkData |->
     Handler(<<Show({"isLoading"}, {getProxyClusterStatus, getLatencyMatrix, getProbeHistory,
                                    getResilienceStatus})>>),
   handleRefresh |->
     Handler(<<Show({"isRefreshing"}, {getProxyClusterStatus, getLatencyMatrix,
                                       getResilienceStatus})>>),
   handleFailoverProxy |->
     Handler(<<Await({"isFailingOver"}, {failoverProxy}), Fill({}, {getResilienceStatus})>>),
   handleRotateTls |->
     Handler(<<Await({"isRotatingTls"}, {rotateTlsFingerprints}),
               Show({}, {getProxyClusterStatus})>>),
   handleRunProbe |-> Handler(<<Fill({"isProbing"}, {dispatchNetworkProbe})>>)]

\* A region's and an engine's row probe without looking at the flag.
NetworkView ==
  LET buttons == [handleRefresh |-> {"isRefreshing"}, handleFailoverProxy |-> {"isFailingOver"},
                  handleRotateTls |-> {"isRotatingTls"}, handleRunProbe |-> {}]
  IN FirstBehind("isLoading", buttons, DOMAIN buttons)

Network == MountedPage(NetworkHandlers, NetworkView, "loadNetworkData", {"isLoading"})

(* Hardening *)

CanaryLoad == Show({"isLoading"}, {getCanaryReport})

CanaryHandlers ==
  [loadReport |-> Handler(<<CanaryLoad>>),
   handleRunCalibration |-> Handler(<<Await({"autoCalibrating"}, {}), CanaryLoad>>)]

CanaryView ==
  Open([handleRunCalibration |-> {"autoCalibrating", "isLoading"}], {"handleRunCalibration"})

Canaries == MountedPage(CanaryHandlers, CanaryView, "loadReport", {})

SamplerHandlers ==
  [loadMetrics |-> Handler(<<Show({}, {getSamplerMetrics})>>),
   handleRunTest |-> Handler(<<Fill({"isSimulating"}, {testAdaptiveSample})>>)]

SamplerView == Open([handleRunTest |-> {"isSimulating"}], {"handleRunTest"})

Sampler == MountedPage(SamplerHandlers, SamplerView, "loadMetrics", {})

\* The third approval is a timer and a change of the page's own list.
GitOpsHandlers ==
  [loadData |-> Handler(<<Show({}, {getMultiSigWorkflow, getHeadlessConnectors})>>),
   handleCreatePr |-> Handler(<<Fill({"isCreatingPr"}, {createGitOpsPr})>>),
   handleApproveStage3 |-> Handler(<<Fill({"isSigning"}, {})>>)]

GitOpsView ==
  Open([handleCreatePr |-> {"isCreatingPr"}, handleApproveStage3 |-> {"isSigning"}],
       {"handleCreatePr"})

GitOps == MountedPage(GitOpsHandlers, GitOpsView, "loadData", {})

\* The report of 'Psychs', whichever brand is chosen.
AttributionHandlers ==
  [loadReport |-> Handler(<<ShowOwn({"isLoading"}, {getCausalAttribution})>>)]

Attribution == MountedPage(AttributionHandlers, Open(<<>>, {}), "loadReport", {})
=============================================================================
