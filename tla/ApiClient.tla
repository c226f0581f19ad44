------------------------------ MODULE ApiClient ------------------------------
(***************************************************************************)
(* services/api.ts: the client the demonstration front end uses.  An       *)
(* operation is what it sends: its method, its endpoint, and whether the   *)
(* request names a brand.  Each also carries a literal that was once shown *)
(* when the API could not be reached; requestAuthenticated ignores it.     *)
(***************************************************************************)

Get(endpoint, scope) == [method |-> "GET", endpoint |-> endpoint, scope |-> scope]
Post(endpoint, scope) == [method |-> "POST", endpoint |-> endpoint, scope |-> scope]

\* requestAuthenticated, for the operations a handler awaits together: they are
\* all answered, or one throws.  A timer alone cannot fail.
requestAuthenticated(ops) == IF ops = {} THEN {"answer"} ELSE {"answer", "failure"}

-----------------------------------------------------------------------------
getPerceptionScore == Get("/perception/score", "all")
runAudit == Post("/perception/audit", "brand")
getCanaryReport == Get("/canaries/report", "all")
getSamplerMetrics == Get("/sampler/metrics", "all")
testAdaptiveSample == Post("/sampler/adaptive", "all")
createGitOpsPr == Post("/gitops/pr", "all")
getMultiSigWorkflow == Get("/gitops/multisig", "all")
getHeadlessConnectors == Get("/gitops/connectors", "all")
getCausalAttribution == Get("/attribution/causal-report", "brand")
getSovAnalysis == Get("/intelligence/sov", "brand")
getCitationGaps == Get("/intelligence/citation-gaps", "brand")
getWinLossDiagnosis == Get("/intelligence/win-loss", "brand")
getKddDiff == Post("/optimization/kdd-diff", "brand")
getEntitySchemas == Get("/optimization/entity-schemas", "brand")
getLlmsTxt == Get("/optimization/llms-txt", "brand")
getWebhooks == Get("/optimization/webhooks", "all")
publishDiff == Post("/optimization/publish", "all")
getRemeasurement == Get("/optimization/remeasurement", "all")
getUnitEconomics == Get("/router/unit-economics", "all")
classifyTask == Post("/router/classify", "all")
getAuditLogs == Get("/audit/logs", "all")
getKmsTdkStatus == Get("/security/kms-tdk", "all")
executeCryptoShred == Post("/security/crypto-shred", "all")
getMcpTools == Get("/mcp/tools", "all")
executeMcpTool == Post("/mcp/execute", "all")
getApiSettings == Get("/settings/api-keys", "all")
updateApiSettings == Post("/settings/api-keys", "all")
testProviderConnection == Post("/settings/test-connection", "all")
getQueueJobs == Get("/scheduler/jobs", "all")
getQueueStats == Get("/scheduler/stats", "all")
enqueueJob == Post("/scheduler/jobs", "all")
getAuditSchedules == Get("/scheduler/schedules", "all")
createAuditSchedule == Post("/scheduler/schedules", "all")
triggerAuditSchedule == Post("/scheduler/schedules/trigger", "all")
getAlertWebhooks == Get("/webhooks/endpoints", "all")
createAlertWebhook == Post("/webhooks/endpoints", "all")
testPingWebhook == Post("/webhooks/test-ping", "all")
getSSOConfig == Get("/auth/sso/config", "all")
getUsers == Get("/auth/users", "all")
updateUserRole == Post("/auth/users/role", "all")
getActiveSessions == Get("/auth/sessions", "all")
revokeSession == Post("/auth/sessions/revoke", "all")
getSubscription == Get("/billing/subscription", "all")
getTokenUsage == Get("/billing/usage", "all")
getInvoices == Get("/billing/invoices", "all")
getBoardDeck == Get("/reports/board-deck", "brand")
generateBoardDeck == Post("/reports/generate", "brand")
getReportHistory == Get("/reports/history", "brand")
crawlDomain == Post("/ingestion/crawl", "all")
getIngestedDomains == Get("/ingestion/history", "all")
getProxyClusterStatus == Get("/network/proxy-cluster", "all")
getLatencyMatrix == Get("/network/latency-matrix", "all")
getProbeHistory == Get("/network/probes", "all")
dispatchNetworkProbe == Post("/network/ping-probe", "all")
rotateTlsFingerprints == Post("/network/rotate-tls", "all")
getPenTestReport == Get("/pentest/report", "brand")
getAttackVectors == Get("/pentest/vectors", "all")
runPenTest == Post("/pentest/run", "brand")
applyDefensiveHardening == Post("/pentest/harden", "brand")
getKnowledgeGraphEntity == Get("/knowledge-graph/entity", "brand")
executeSparqlQuery == Get("/knowledge-graph/sparql", "all")
syncKnowledgeGraph == Post("/knowledge-graph/sync", "brand")
generateQuickStatements == Post("/knowledge-graph/quickstatements", "brand")
getIndexWatchRadar == Get("/indexwatch/radar", "brand")
triggerEmergencyPlaybook == Post("/indexwatch/playbooks/trigger", "brand")
getBotArmorTelemetry == Get("/network/bot-armor/telemetry", "brand")
generateEdgeWafRules == Post("/network/bot-armor/waf-rules", "brand")
setBotArmorPolicy == Post("/network/bot-armor/set-policy", "all")
getAgencyOrganization == Get("/agency/organizations", "all")
getClientWorkspaces == Get("/agency/clients", "all")
createClientWorkspace == Post("/agency/clients/create", "brand")
updateWhiteLabelConfig == Post("/agency/clients/update-theme", "all")
verifyCustomDomain == Post("/agency/domains/verify", "all")
getAgencyUsers == Get("/agency/users", "all")
inviteAgencyUser == Post("/agency/users/invite", "all")
getReportDispatchSchedules == Get("/agency/reports/schedules", "all")
triggerTestReportDispatch == Post("/agency/reports/trigger-test", "all")
getCompetitorLandscape == Get("/intelligence/counter-positioning/landscape", "brand")
synthesizeCounterStrategy == Post("/intelligence/counter-positioning/synthesize", "brand")
simulateSiphoningLift == Post("/intelligence/counter-positioning/simulate-lift", "brand")
getTribunalReport == Get("/intelligence/tribunal/cases", "brand")
reconcileDisputeCase == Post("/intelligence/tribunal/reconcile", "brand")
dispatchTribunalErrata == Post("/intelligence/tribunal/dispatch-errata", "brand")
getCitationSeedReport == Get("/intelligence/citation-seeds/report", "brand")
generateSeedingPlaybook == Post("/intelligence/citation-seeds/generate-playbook", "brand")
updateSeedingCampaign == Post("/intelligence/citation-seeds/update-campaign", "brand")
getAutopilotExperiments == Get("/intelligence/ab-autopilot/experiments", "brand")
simulateAutopilotEvaluation == Post("/intelligence/ab-autopilot/simulate-evaluation", "brand")
promoteAutopilotWinner == Post("/intelligence/ab-autopilot/promote-winner", "brand")
getPoisoningSentinelReport == Get("/intelligence/poisoning-sentinel/report", "brand")
scanPoisoningThreats == Post("/intelligence/poisoning-sentinel/scan", "brand")
synthesizePoisoningCounterPatch == Post("/intelligence/poisoning-sentinel/synthesize-patch", "brand")
dispatchPoisoningNeutralization == Post("/intelligence/poisoning-sentinel/dispatch-neutralization", "brand")
getBuyerJourneyReport == Get("/intelligence/buyer-journey/report", "brand")
runPersonaSimulation == Post("/intelligence/buyer-journey/simulate-persona", "brand")
synthesizeObjectionPreemption == Post("/intelligence/buyer-journey/synthesize-preemption", "brand")
getHeadlessCrawlReport == Get("/ingestion/headless/report", "brand")
runHeadlessCrawl == Post("/ingestion/headless/crawl", "all")
getSeismographTelemetry == Get("/intelligence/seismograph/telemetry", "brand")
dispatchPushAlert == Post("/intelligence/seismograph/dispatch-alert", "brand")
testNotificationChannel == Post("/intelligence/seismograph/test-channel", "brand")
updateNotificationChannel == Post("/intelligence/seismograph/update-channel", "brand")
getSOC2ComplianceReport == Get("/compliance/soc2/report", "brand")
getMerkleAuditChain == Get("/compliance/soc2/merkle-chain", "brand")
verifyMerkleProof == Post("/compliance/soc2/verify-proof", "brand")
exportSOC2CompliancePackage == Post("/compliance/soc2/export-package", "brand")
getCacheStats == Get("/routing/cache/stats", "all")
getResilienceStatus == Get("/network/resilience-status", "all")
failoverProxy == Post("/network/failover-proxy", "all")
=============================================================================
