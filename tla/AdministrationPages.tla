------------------------- MODULE AdministrationPages -------------------------
(***************************************************************************)
(* The pages of components/Security, Compliance, Agency, Scheduler,        *)
(* Settings, Economics, Billing, AuditVault and McpAgentConsole.           *)
(***************************************************************************)
EXTENDS ApiClient, Handlers

(* AdversarialPenTestStudio *)

PenTestHandlers ==
  [loadPenTestData |-> Handler(<<Show({"isLoading"}, {getPenTestReport, getAttackVectors})>>),
   handleRunPenTest |-> Handler(<<Show({"isRunningSim"}, {runPenTest})>>),
   handleApplyHardening |->
     Handler(<<Fill({"isHardening"}, {applyDefensiveHardening}), Show({}, {getPenTestReport})>>)]

PenTestView ==
  LET buttons == [handleRunPenTest |-> {"isRunningSim"}, handleApplyHardening |-> {"isHardening"}]
  IN FirstBehind("isLoading", buttons, DOMAIN buttons)

PenTest == Page(PenTestHandlers, PenTestView, "loadPenTestData", {"isLoading"})

(* EnterpriseAccessSecurity: its users and sessions are the application's *)

AccessHandlers ==
  [handleRoleChange |->
     Then(<<Await({"updatingUserId"}, {updateUserRole}), Timer>>, "refreshOperationsData"),
   handleRevokeSession |->
     Then(<<Await({"revokingSessionId"}, {revokeSession}), Timer>>,
          "refreshOperationsData")]

\* A row is disabled only while that very row is updated.
AccessView ==
  LET buttons == [handleRoleChange |-> {}, handleRevokeSession |-> {}, refreshOperationsData |-> {}]
  IN Open(buttons, DOMAIN buttons)

AccessSecurity == MountedPage(AccessHandlers, AccessView, "none", {})

(* SOC2ComplianceStudio *)

SOC2Handlers ==
  [fetchData |->
     Clearing(<<Show({"refreshing"}, {getSOC2ComplianceReport, getMerkleAuditChain})>>,
              {"loading"}),
   handleVerifyProof |-> Handler(<<Fill({"isVerifyingProof"}, {verifyMerkleProof})>>),
   handleExportPackage |-> Handler(<<Await({"isExporting"}, {exportSOC2CompliancePackage})>>)]

SOC2View ==
  Behind("loading", [fetchData |-> {"refreshing"}, handleVerifyProof |-> {},
                     handleExportPackage |-> {"isExporting"}])

SOC2Compliance == Page(SOC2Handlers, SOC2View, "fetchData", {"loading"})

(* WhiteLabelAgencyPortal *)

AgencyHandlers ==
  [loadData |->
     Handler(<<Show({"isLoading"}, {getAgencyOrganization, getClientWorkspaces, getAgencyUsers,
                                    getReportDispatchSchedules})>>),
   handleSaveTheme |-> Handler(<<Mark({"isSavingTheme"}, {updateWhiteLabelConfig})>>),
   handleVerifyDomain |-> Handler(<<Mark({"isVerifyingDomain"}, {verifyCustomDomain})>>),
   handleCreateClient |-> Handler(<<Mark({}, {createClientWorkspace})>>),
   handleInviteUser |-> Handler(<<Fill({}, {inviteAgencyUser})>>),
   handleTriggerTestDispatch |->
     Handler(<<Fill({"isDispatchingTest"}, {triggerTestReportDispatch})>>)]

AgencyView ==
  Open([loadData |-> {"isLoading"}, handleSaveTheme |-> {"isSavingTheme"},
        handleVerifyDomain |-> {"isVerifyingDomain"}, handleCreateClient |-> {},
        handleInviteUser |-> {}, handleTriggerTestDispatch |-> {"isDispatchingTest"}],
       {"loadData", "handleSaveTheme", "handleCreateClient", "handleInviteUser"})

Agency == MountedPage(AgencyHandlers, AgencyView, "loadData", {"isLoading"})

(* BackgroundJobsMonitor: its jobs, schedules and webhooks are the application's *)

SchedulerHandlers ==
  [handleTriggerSchedule |->
     Then(<<Await({"isTriggering"}, {triggerAuditSchedule}), Timer>>,
          "refreshOperationsData"),
   handleTestPingWebhook |->
     Then(<<Await({"isPinging"}, {testPingWebhook}), Timer>>, "refreshOperationsData"),
   handleEnqueueManualAudit |->
     Then(<<Await({}, {enqueueJob}), Timer>>, "refreshOperationsData"),
   handleCreateScheduleSubmit |->
     Then(<<Await({}, {createAuditSchedule}), Timer>>, "refreshOperationsData"),
   handleCreateWebhookSubmit |->
     Then(<<Await({}, {createAlertWebhook}), Timer>>, "refreshOperationsData")]

\* refreshOperationsData is a button, and the three-second poll.
SchedulerView ==
  LET buttons == [handleTriggerSchedule |-> {}, handleTestPingWebhook |-> {},
                  handleEnqueueManualAudit |-> {}, handleCreateScheduleSubmit |-> {},
                  handleCreateWebhookSubmit |-> {}, refreshOperationsData |-> {}]
  IN Open(buttons, DOMAIN buttons)

Scheduler == MountedPage(SchedulerHandlers, SchedulerView, "none", {})

(* LiveApiSettings: the form is there, with a sample, before the settings are *)

SettingsHandlers ==
  [loadSettings |-> Handler(<<Show({}, {getApiSettings})>>),
   handleSave |-> Handler(<<Await({"isSaving"}, {updateApiSettings})>>),
   handleTestPing |-> Handler(<<Fill({"testingProvider"}, {testProviderConnection})>>)]

SettingsView ==
  LET buttons == [handleSave |-> {"isSaving"}, handleTestPing |-> {}]
  IN Open(buttons, DOMAIN buttons)

\* The sample names no brand.
SampleSettings == "all"

Settings ==
  SamplePage(SettingsHandlers, SettingsView, "loadSettings", SampleSettings)

(* UnitEconomicsHub *)

EconomicsHandlers ==
  [loadCacheStats |-> Handler(<<Show({"isRefreshingCache"}, {getCacheStats})>>),
   handleClassify |-> Handler(<<Fill({"isClassifying"}, {classifyTask})>>)]

EconomicsView ==
  LET buttons == [loadCacheStats |-> {"isRefreshingCache"}, handleClassify |-> {"isClassifying"}]
  IN Open(buttons, DOMAIN buttons)

Economics == MountedPage(EconomicsHandlers, EconomicsView, "loadCacheStats", {})

(* BillingUsagePortal, CryptoShreddingPanel and AutonomousAgentTerminal *)

BillingHandlers == [handleDownloadInvoice |-> Handler(<<Await({"downloadingId"}, {})>>)]

BillingView ==
  LET buttons == [handleDownloadInvoice |-> {}, refreshOperationsData |-> {}]
  IN Open(buttons, DOMAIN buttons)

Billing == MountedPage(BillingHandlers, BillingView, "none", {})

ShreddingHandlers == [handleShred |-> Handler(<<Fill({"isShredding"}, {executeCryptoShred})>>)]

ShreddingView == Open([handleShred |-> {"isShredding"}], {"handleShred"})

Audit == MountedPage(ShreddingHandlers, ShreddingView, "none", {})

TerminalHandlers == [handleExecute |-> Handler(<<Fill({"isRunning"}, {executeMcpTool})>>)]

TerminalView == Open([handleExecute |-> {"isRunning"}], {"handleExecute"})

Terminal == MountedPage(TerminalHandlers, TerminalView, "none", {})
=============================================================================
