------------------------------ MODULE LinksApi -------------------------------
(*****************************************************************************)
(* What leaves the firm: connectors, webhooks, plugins, alerts, reports and  *)
(* their schedules, help articles.                                           *)
(*****************************************************************************)
EXTENDS HttpSteps

Account == INSTANCE AccountApi

----------------------------------------------------------------------------
(* internal/integration *)

encryptSensitiveConfigFields ==
  In("integration", May({"ErrInvalidConnector", "ErrEncryptionKeyNotSet"}))
maskSensitiveConfigFields == In("integration", May({"ErrEncryptionKeyNotSet"}))
CreateConnector ==
  In("integration", May({"ErrInvalidConnector"})
    \o encryptSensitiveConfigFields \o InTx(Member \o Owner
    \o Put({"integration_connectors"})))
ListConnectors ==
  In("integration", InTx(Member) \o Maybe(maskSensitiveConfigFields))
UpdateConnector ==
  In("integration", May({"ErrInvalidConnector"}) \o InTx(Member \o Owner
    \o May({"ErrConnectorNotFound"}) \o encryptSensitiveConfigFields
    \o Put({"integration_connectors"})) \o maskSensitiveConfigFields)
DeleteConnector ==
  In("integration", InTx(Member \o Owner \o Put({"integration_connectors"})
    \o May({"ErrConnectorNotFound"})))
getConnectorWithDecryptedConfigTx ==
  In("integration", May({"ErrConnectorNotFound", "ErrEncryptionKeyNotSet"}))
TestConnection ==
  In("integration", InTx(Member \o Owner \o getConnectorWithDecryptedConfigTx)
    \o May({"ErrConnectionTestNotImplemented", "ErrInvalidConnector"})
    \o Reads)
validateTransformSpec == In("integration", May({"ErrInvalidTransform"}))
validateMappingInput ==
  In("integration", May({"ErrInvalidMapping"})
    \o Maybe(validateTransformSpec))
CreateMapping ==
  In("integration", validateMappingInput \o InTx(Member \o Owner
    \o May({"ErrConnectorNotFound"}) \o Put({"integration_mappings"})))
ListMappings == In("integration", InTx(Member))
UpdateMapping ==
  In("integration", validateMappingInput \o InTx(Member \o Owner
    \o Put({"integration_mappings"}) \o May({"ErrMappingNotFound"})))
DeleteMapping ==
  In("integration", InTx(Member \o Owner \o Put({"integration_mappings"})
    \o May({"ErrMappingNotFound"})))
activeOutboundMappingsForEntity == In("integration", InTx(Nothing))
applyOne == In("integration", May({"ErrInvalidTransform"}))
pushOne ==
  In("integration", May({"ErrConnectorTypeNotSupported"}) \o Maybe(applyOne)
    \o Reads)
finishSyncLogTx ==
  In("integration", Put({"integration_sync_logs", "integration_connectors"}))
deliverOutboundOne ==
  In("integration", InTx(Put({"integration_sync_logs"})
    \o getConnectorWithDecryptedConfigTx) \o Aside(pushOne)
    \o InTx(finishSyncLogTx))
DispatchOutbound ==
  In("integration", Aside(activeOutboundMappingsForEntity
    \o Maybe(deliverOutboundOne)))
ListSyncLogs == In("integration", InTx(Member))
writeIntegrationError ==
  Answers("integration", 404, {"ErrFirmNotFound", "ErrConnectorNotFound",
    "ErrMappingNotFound"}) @@
    Answers("integration", 403, {"ErrNotOwner"}) @@
    Answers("integration", 400, {"ErrInvalidConnector", "ErrInvalidMapping",
    "ErrInvalidTransform"}) @@
    Answers("integration", 500, {"ErrEncryptionKeyNotSet"}) @@
    Answers("integration", 501, {"ErrConnectionTestNotImplemented"})
handleListConnectors ==
  Handler(Caller \o ListConnectors, writeIntegrationError, 200)
handleCreateConnector ==
  Handler(Caller \o Inputs({"body"}) \o CreateConnector,
    writeIntegrationError, 201)
handleUpdateConnector ==
  Handler(Caller \o Inputs({"connectorID", "body"}) \o UpdateConnector,
    writeIntegrationError, 200)
handleDeleteConnector ==
  Handler(Caller \o Inputs({"connectorID"}) \o DeleteConnector,
    writeIntegrationError, 204)
handleTestConnection ==
  Handler(Caller \o Inputs({"connectorID"}) \o TestConnection,
    writeIntegrationError, 204)
handleListMappings ==
  Handler(Caller \o Inputs({"connectorId"}) \o ListMappings,
    writeIntegrationError, 200)
handleCreateMapping ==
  Handler(Caller \o Inputs({"body", "connectorId"}) \o CreateMapping,
    writeIntegrationError, 201)
handleUpdateMapping ==
  Handler(Caller \o Inputs({"mappingID", "body", "connectorId"})
    \o UpdateMapping, writeIntegrationError, 200)
handleDeleteMapping ==
  Handler(Caller \o Inputs({"mappingID"}) \o DeleteMapping,
    writeIntegrationError, 204)
handleListSyncLogs ==
  Handler(Caller \o Inputs({"connectorId"}) \o ListSyncLogs,
    writeIntegrationError, 200)

----------------------------------------------------------------------------
(* internal/webhook *)

ListDeliveries ==
  In("webhook", InTx(Member \o Owner \o May({"ErrWebhookNotFound"})))
validateWebhookInput == In("webhook", May({"ErrInvalidWebhook"}))
CreateWebhook ==
  In("webhook", validateWebhookInput \o InTx(Member \o Owner
    \o Put({"webhooks"}) \o Audit) \o Account!CompleteStep)
ListWebhooks == In("webhook", InTx(Member \o Owner))
UpdateWebhook ==
  In("webhook", validateWebhookInput \o InTx(Member \o Owner
    \o Put({"webhooks"}) \o May({"ErrWebhookNotFound"}) \o Audit))
DeleteWebhook ==
  In("webhook", InTx(Member \o Owner \o Put({"webhooks"})
    \o May({"ErrWebhookNotFound"}) \o Audit))
writeWebhookError ==
  Answers("webhook", 404, {"ErrFirmNotFound", "ErrWebhookNotFound"}) @@
    Answers("webhook", 403, {"ErrNotOwner"}) @@
    Answers("webhook", 400, {"ErrInvalidWebhook"})
handleListWebhooks == Handler(Caller \o ListWebhooks, writeWebhookError, 200)
handleCreateWebhook ==
  Handler(Caller \o Inputs({"body"}) \o CreateWebhook, writeWebhookError, 201)
handleUpdateWebhook ==
  Handler(Caller \o Inputs({"webhookID", "body"}) \o UpdateWebhook,
    writeWebhookError, 200)
handleDeleteWebhook ==
  Handler(Caller \o Inputs({"webhookID"}) \o DeleteWebhook, writeWebhookError,
    204)
handleListDeliveries ==
  Handler(Caller \o Inputs({"webhookID"}) \o ListDeliveries,
    writeWebhookError, 200)

----------------------------------------------------------------------------
(* internal/plugin *)

CreatePlugin == In("plugin", May({"ErrInvalidPlugin"}) \o OneTx("plugins"))
ListPlugins == In("plugin", Reads)
UpdatePlugin ==
  In("plugin", May({"ErrInvalidPlugin"}) \o OneTxOr("plugins",
    {"ErrPluginNotFound"}))
DeletePlugin == In("plugin", OneTxOr("plugins", {"ErrPluginNotFound"}))
UpsertFirmPluginConfig ==
  In("plugin", InTx(Member \o Owner \o May({"ErrPluginNotFound"})
    \o Put({"firm_plugin_configs"})))
ListFirmPluginConfigs == In("plugin", InTx(Member))
DeleteFirmPluginConfig ==
  In("plugin", InTx(Member \o Owner \o Put({"firm_plugin_configs"})
    \o May({"ErrFirmPluginConfigNotFound"})))
writePluginError ==
  Answers("plugin", 404, {"ErrFirmNotFound", "ErrPluginNotFound",
    "ErrFirmPluginConfigNotFound"}) @@
    Answers("plugin", 403, {"ErrNotOwner"}) @@
    Answers("plugin", 400, {"ErrInvalidPlugin"})
handleListPlugins == Handler(ListPlugins, writePluginError, 200)
handleCreatePlugin ==
  Handler(Allowed \o Inputs({"body"}) \o CreatePlugin, writePluginError, 201)
handleUpdatePlugin ==
  Handler(Allowed \o Inputs({"pluginID", "body"}) \o UpdatePlugin,
    writePluginError, 200)
handleDeletePlugin ==
  Handler(Allowed \o Inputs({"pluginID"}) \o DeletePlugin, writePluginError,
    204)
handleListFirmPluginConfigs ==
  Handler(Caller \o ListFirmPluginConfigs, writePluginError, 200)
handleUpsertFirmPluginConfig ==
  Handler(Caller \o Inputs({"body"}) \o UpsertFirmPluginConfig,
    writePluginError, 201)
handleDeleteFirmPluginConfig ==
  Handler(Caller \o Inputs({"pluginID"}) \o DeleteFirmPluginConfig,
    writePluginError, 204)

----------------------------------------------------------------------------
(* internal/analytics *)

IngestEvents ==
  In("analytics", May({"ErrInvalidEventBatch"}) \o InTx(Member
    \o Maybe(Put({"analytics_events"}))))
TimeSeriesQuery == In("analytics", May({"ErrInvalidQuery"}) \o InTx(Member))
TopByProperty == In("analytics", May({"ErrInvalidQuery"}) \o InTx(Member))
ActiveUserCount == In("analytics", InTx(Member))
writeAnalyticsError ==
  Answers("analytics", 404, {"ErrFirmNotFound"}) @@
    Answers("analytics", 400, {"ErrInvalidEventBatch", "ErrInvalidQuery"})
handleIngestEvents ==
  Handler(Caller \o Inputs({"body"}) \o IngestEvents, writeAnalyticsError,
    202)
handleTimeSeriesQuery ==
  Handler(Caller \o Inputs({"body", "from", "to"}) \o TimeSeriesQuery,
    writeAnalyticsError, 200)
handleTopByProperty ==
  Handler(Caller \o TopByProperty, writeAnalyticsError, 200)
handleActiveUserCount ==
  Handler(Caller \o ActiveUserCount, writeAnalyticsError, 200)

----------------------------------------------------------------------------
(* internal/alerting *)

CreateRule == In("alerting", May({"ErrInvalidRule"}) \o OneTx("alert_rules"))
ListRules == In("alerting", Reads)
UpdateRule ==
  In("alerting", May({"ErrInvalidRule"}) \o OneTxOr("alert_rules",
    {"ErrRuleNotFound"}))
DeleteRule == In("alerting", OneTxOr("alert_rules", {"ErrRuleNotFound"}))
ListRecentEvents == In("alerting", Reads)
writeAlertingError ==
  Answers("alerting", 400, {"ErrInvalidRule"}) @@
    Answers("alerting", 404, {"ErrRuleNotFound"})
handleListRules == Handler(Allowed \o ListRules, NoAnswers, 200)
handleCreateRule ==
  Handler(Allowed \o Inputs({"body"}) \o CreateRule, writeAlertingError, 201)
handleUpdateRule ==
  Handler(Allowed \o Inputs({"ruleID", "body"}) \o UpdateRule,
    writeAlertingError, 200)
handleDeleteRule ==
  Handler(Allowed \o Inputs({"ruleID"}) \o DeleteRule, writeAlertingError,
    204)
handleListEvents == Handler(Allowed \o ListRecentEvents, NoAnswers, 200)

----------------------------------------------------------------------------
(* internal/reports *)

CohortAnalysis ==
  In("reports", May({"ErrCohortSpecNotSupported"}) \o InTx(Member))
BuildQuery == In("reports", May({"ErrInvalidQuerySpec"}))
validateExternalQuerySpec == In("reports", May({"ErrInvalidQuerySpec"}))
validateQuerySpec ==
  In("reports", Either(Maybe(BuildQuery), validateExternalQuerySpec)
    \o May({"ErrInvalidQuerySpec"}))
CreateReportDefinition ==
  In("reports", May({"ErrInvalidQuerySpec"}) \o validateQuerySpec
    \o InTx(Member \o Put({"report_definitions"})))
ListReportDefinitions == In("reports", InTx(Member))
GetReportDefinition ==
  In("reports", InTx(Member \o May({"ErrReportDefinitionNotFound"})))
executeQuerySpec ==
  In("reports", Either(BuildQuery, validateExternalQuerySpec) \o Reads)
RunReport ==
  In("reports", InTx(Member \o May({"ErrReportDefinitionNotFound"})
    \o Put({"saved_report_runs"}) \o executeQuerySpec
    \o Put({"saved_report_runs"})) \o Account!CompleteStep)
GetDashboardKPIs == In("reports", InTx(Member))
writeReportsError ==
  Answers("reports", 404, {"ErrFirmNotFound",
    "ErrReportDefinitionNotFound"}) @@
    Answers("reports", 400, {"ErrInvalidQuerySpec",
    "ErrCohortSpecNotSupported"})
handleListReportDefinitions ==
  Handler(Caller \o ListReportDefinitions, writeReportsError, 200)
handleCreateReportDefinition ==
  Handler(Caller \o Inputs({"body"}) \o CreateReportDefinition,
    writeReportsError, 201)
handleGetReportDefinition ==
  Handler(Caller \o Inputs({"id"}) \o GetReportDefinition, writeReportsError,
    200)
handleRunReport ==
  Handler(Caller \o Inputs({"id"}) \o RunReport, writeReportsError, 200)
handleDashboardKPIs ==
  Handler(Inputs({"firmID"}) \o User \o GetDashboardKPIs, Answers("reports",
    404, {"ErrFirmNotFound"}), 200)
handleCohortAnalysis ==
  Handler(Caller \o CohortAnalysis, writeReportsError, 200)

----------------------------------------------------------------------------
(* internal/scheduledreports *)

CreateScheduledReport ==
  In("scheduledreports", May({"ErrInvalidScheduledReport"}) \o InTx(Member
    \o Owner \o May({"ErrInvalidScheduledReport"})
    \o Put({"scheduled_reports"})))
ListScheduledReports == In("scheduledreports", InTx(Member))
UpdateScheduledReport ==
  In("scheduledreports", May({"ErrInvalidScheduledReport"}) \o InTx(Member
    \o Owner \o Put({"scheduled_reports"})
    \o May({"ErrScheduledReportNotFound"})))
DeleteScheduledReport ==
  In("scheduledreports", InTx(Member \o Owner \o Put({"scheduled_reports"})
    \o May({"ErrScheduledReportNotFound"})))
writeScheduledReportsError ==
  Answers("scheduledreports", 404, {"ErrFirmNotFound",
    "ErrScheduledReportNotFound"}) @@
    Answers("scheduledreports", 403, {"ErrNotOwner"}) @@
    Answers("scheduledreports", 400, {"ErrInvalidScheduledReport"})
handleListScheduledReports ==
  Handler(Caller \o ListScheduledReports, writeScheduledReportsError, 200)
handleCreateScheduledReport ==
  Handler(Caller \o Inputs({"body"}) \o CreateScheduledReport,
    writeScheduledReportsError, 201)
handleUpdateScheduledReport ==
  Handler(Caller \o Inputs({"id", "body"}) \o UpdateScheduledReport,
    writeScheduledReportsError, 200)
handleDeleteScheduledReport ==
  Handler(Caller \o Inputs({"id"}) \o DeleteScheduledReport,
    writeScheduledReportsError, 204)

----------------------------------------------------------------------------
(* internal/helparticles *)

ListForRoute == In("helparticles", Reads)
handleList == Handler(ListForRoute, NoAnswers, 200)
handleSearch == Handler(Reads, NoAnswers, 200)

----------------------------------------------------------------------------
(* RegisterRoutes of each package. *)

integrationRoutes ==
  Of("integration", [handleListConnectors |-> handleListConnectors,
    handleCreateConnector |-> handleCreateConnector,
    handleUpdateConnector |-> handleUpdateConnector,
    handleDeleteConnector |-> handleDeleteConnector,
    handleTestConnection |-> handleTestConnection,
    handleListMappings |-> handleListMappings,
    handleCreateMapping |-> handleCreateMapping,
    handleUpdateMapping |-> handleUpdateMapping,
    handleDeleteMapping |-> handleDeleteMapping,
    handleListSyncLogs |-> handleListSyncLogs])
webhookRoutes ==
  Of("webhook", [handleListWebhooks |-> handleListWebhooks,
    handleCreateWebhook |-> handleCreateWebhook,
    handleUpdateWebhook |-> handleUpdateWebhook,
    handleDeleteWebhook |-> handleDeleteWebhook,
    handleListDeliveries |-> handleListDeliveries])
pluginRoutes ==
  Of("plugin", [handleListPlugins |-> Open(handleListPlugins),
    handleCreatePlugin |-> handleCreatePlugin,
    handleUpdatePlugin |-> handleUpdatePlugin,
    handleDeletePlugin |-> handleDeletePlugin,
    handleListFirmPluginConfigs |-> handleListFirmPluginConfigs,
    handleUpsertFirmPluginConfig |-> handleUpsertFirmPluginConfig,
    handleDeleteFirmPluginConfig |-> handleDeleteFirmPluginConfig])
analyticsRoutes ==
  Of("analytics", [handleIngestEvents |-> handleIngestEvents,
    handleTimeSeriesQuery |-> handleTimeSeriesQuery,
    handleTopByProperty |-> handleTopByProperty,
    handleActiveUserCount |-> handleActiveUserCount])
alertingRoutes ==
  Of("alerting", [handleListRules |-> handleListRules,
    handleCreateRule |-> handleCreateRule,
    handleUpdateRule |-> handleUpdateRule,
    handleDeleteRule |-> handleDeleteRule,
    handleListEvents |-> handleListEvents])
reportsRoutes ==
  Of("reports", [handleListReportDefinitions |-> handleListReportDefinitions,
    handleCreateReportDefinition |-> handleCreateReportDefinition,
    handleGetReportDefinition |-> handleGetReportDefinition,
    handleRunReport |-> handleRunReport,
    handleDashboardKPIs |-> handleDashboardKPIs,
    handleCohortAnalysis |-> handleCohortAnalysis])
scheduledreportsRoutes ==
  Of("scheduledreports",
    [handleListScheduledReports |-> handleListScheduledReports,
    handleCreateScheduledReport |-> handleCreateScheduledReport,
    handleUpdateScheduledReport |-> handleUpdateScheduledReport,
    handleDeleteScheduledReport |-> handleDeleteScheduledReport])
helparticlesRoutes ==
  Of("helparticles", [handleList |-> handleList,
    handleSearch |-> handleSearch])
Routes ==
  integrationRoutes @@
    webhookRoutes @@
    pluginRoutes @@
    analyticsRoutes @@
    alertingRoutes @@
    reportsRoutes @@
    scheduledreportsRoutes @@
    helparticlesRoutes
==============================================================================
