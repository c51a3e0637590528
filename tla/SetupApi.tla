------------------------------ MODULE SetupApi -------------------------------
(*****************************************************************************)
(* What reaches across the others: edge agents, search, AI suggestions, the  *)
(* wizard that creates a firm, export and import.                            *)
(*****************************************************************************)
EXTENDS HttpSteps

Account == INSTANCE AccountApi
Goods == INSTANCE GoodsApi
Trade == INSTANCE TradeApi
Flow == INSTANCE WorkflowApi
People == INSTANCE PeopleApi

----------------------------------------------------------------------------
(* internal/edgeagent *)

CreateAgent ==
  In("edgeagent", May({"ErrInvalidAgent"}) \o InTx(Member \o Owner
    \o Put({"edge_agents"}) \o Audit))
ListAgents == In("edgeagent", InTx(Member))
GetAgent == In("edgeagent", InTx(Member \o May({"ErrAgentNotFound"})))
CreateCommand ==
  In("edgeagent", May({"ErrInvalidCommand"}) \o InTx(Member \o Owner
    \o May({"ErrAgentNotFound"}) \o Put({"edge_agent_commands"}) \o Audit))
ListCommands == In("edgeagent", InTx(Member \o May({"ErrAgentNotFound"})))
withTokenTx(fn) ==
  In("edgeagent", InTx(May({"ErrInvalidToken"}) \o Vouched
    \o Put({"edge_agent_tokens"}) \o fn))
PollCommands ==
  In("edgeagent", withTokenTx(Maybe(Put({"edge_agent_commands"}))))
AckCommand ==
  In("edgeagent", withTokenTx(Put({"edge_agent_commands"})
    \o May({"ErrCommandNotFound"})))
Heartbeat ==
  In("edgeagent", May({"ErrInvalidAgent"}) \o withTokenTx(Put({"edge_agents"})
    \o May({"ErrAgentNotFound"})))
RecordEvent ==
  In("edgeagent", May({"ErrInvalidAgent"})
    \o withTokenTx(May({"ErrAgentNotFound"}) \o Put({"edge_events"}))
    \o Flow!EvaluateEdgeEventRules)
ListEvents == In("edgeagent", InTx(Member \o May({"ErrAgentNotFound"})))
bearerToken == Bad({"bearer token"}, 401)
IssueToken ==
  In("edgeagent", May({"ErrInvalidAgent"}) \o InTx(Member \o Owner
    \o May({"ErrAgentNotFound"}) \o Put({"edge_agent_tokens"}) \o Audit))
ListTokens ==
  In("edgeagent", InTx(Member \o Owner \o May({"ErrAgentNotFound"})))
writeEdgeAgentError ==
  Answers("edgeagent", 404, {"ErrFirmNotFound", "ErrAgentNotFound",
    "ErrCommandNotFound"}) @@
    Answers("edgeagent", 403, {"ErrNotOwner"}) @@
    Answers("edgeagent", 400, {"ErrInvalidAgent", "ErrInvalidCommand"})
handleCreateAgent ==
  Handler(Caller \o Inputs({"body"}) \o CreateAgent, writeEdgeAgentError, 201)
handleListAgents == Handler(Caller \o ListAgents, writeEdgeAgentError, 200)
handleGetAgent ==
  Handler(Caller \o Inputs({"agentID"}) \o GetAgent, writeEdgeAgentError, 200)
handleIssueToken ==
  Handler(Caller \o Inputs({"agentID", "body"}) \o IssueToken,
    writeEdgeAgentError, 201)
handleListTokens ==
  Handler(Caller \o Inputs({"agentID"}) \o ListTokens, writeEdgeAgentError,
    200)
handleListEvents ==
  Handler(Caller \o Inputs({"agentID"}) \o ListEvents, writeEdgeAgentError,
    200)
handleHeartbeat ==
  Handler(bearerToken \o Inputs({"body"}) \o Heartbeat, Answers("edgeagent",
    401, {"ErrInvalidToken"}) @@
    writeEdgeAgentError, 200)
handleRecordEvent ==
  Handler(bearerToken \o Inputs({"body"}) \o RecordEvent, Answers("edgeagent",
    401, {"ErrInvalidToken"}) @@
    writeEdgeAgentError, 201)
handleCreateCommand ==
  Handler(Caller \o Inputs({"agentID", "body"}) \o CreateCommand,
    writeEdgeAgentError, 201)
handleListCommands ==
  Handler(Caller \o Inputs({"agentID"}) \o ListCommands, writeEdgeAgentError,
    200)
handlePollCommands ==
  Handler(bearerToken \o PollCommands, Answers("edgeagent", 401,
    {"ErrInvalidToken"}) @@
    writeEdgeAgentError, 200)
handleAckCommand ==
  Handler(bearerToken \o Inputs({"commandID"}) \o AckCommand,
    Answers("edgeagent", 401, {"ErrInvalidToken"}) @@
    writeEdgeAgentError, 200)

----------------------------------------------------------------------------
(* internal/search *)

Search ==
  In("search", May({"ErrInvalidType"}) \o Maybe(Goods!ListProducts)
    \o Maybe(Trade!ListCustomers) \o Maybe(People!ListPeople)
    \o Maybe(Goods!ListSuppliers))
handleSearch ==
  Handler(Inputs({"firmID"}) \o User \o Search, Answers("search", 400,
    {"ErrInvalidType"}) @@
    Answers("inventory", 404, {"ErrFirmNotFound"}) @@
    Answers("crm", 404, {"ErrFirmNotFound"}) @@
    Answers("hr", 404, {"ErrFirmNotFound"}), 200)

----------------------------------------------------------------------------
(* internal/ai *)

CreateConfig ==
  In("ai", May({"ErrEncryptionKeyNotSet", "ErrInvalidConfig"}) \o InTx(Member
    \o Owner \o Put({"ai_configurations"}) \o Audit))
ListConfigs == In("ai", InTx(Member \o Owner))
DeleteConfig ==
  In("ai", InTx(Member \o Owner \o Put({"ai_configurations"})
    \o May({"ErrConfigNotFound"}) \o Audit))
RotateActiveConfigKey ==
  In("ai", May({"ErrEncryptionKeyNotSet", "ErrInvalidConfig"}) \o InTx(Member
    \o Owner \o Put({"ai_configurations"}) \o May({"ErrNoActiveConfig"})
    \o Audit))
getActiveConfigTx ==
  In("ai", May({"ErrNoActiveConfig", "ErrEncryptionKeyNotSet"}))
SuggestReport ==
  In("ai", May({"ErrInvalidConfig"}) \o InTx(Member \o Owner
    \o getActiveConfigTx) \o May({"ErrProviderNotImplemented",
    "ErrProviderCallFailed"}) \o InTx(Audit)
    \o May({"ErrInvalidAISuggestion"}))
SuggestWorkflow ==
  In("ai", May({"ErrInvalidConfig"}) \o InTx(Member \o Owner
    \o getActiveConfigTx) \o May({"ErrProviderNotImplemented",
    "ErrProviderCallFailed"}) \o InTx(Audit)
    \o May({"ErrInvalidAISuggestion"}))
writeAIError ==
  Answers("ai", 404, {"ErrFirmNotFound", "ErrConfigNotFound",
    "ErrNoActiveConfig"}) @@
    Answers("ai", 403, {"ErrNotOwner"}) @@
    Answers("ai", 400, {"ErrInvalidConfig"}) @@
    Answers("ai", 422, {"ErrInvalidAISuggestion"}) @@
    Answers("ai", 500, {"ErrEncryptionKeyNotSet"}) @@
    Answers("ai", 502, {"ErrProviderCallFailed", "ErrProviderNotImplemented"})
handleCreateConfig ==
  Handler(Caller \o Inputs({"body"}) \o CreateConfig, writeAIError, 201)
handleListConfigs == Handler(Caller \o ListConfigs, writeAIError, 200)
handleDeleteConfig ==
  Handler(Caller \o Inputs({"configID"}) \o DeleteConfig, writeAIError, 204)
handleRotateConfigKey ==
  Handler(Caller \o Inputs({"body"}) \o RotateActiveConfigKey, writeAIError,
    200)
handleSuggestWorkflow ==
  Handler(Caller \o Inputs({"body"}) \o SuggestWorkflow, writeAIError, 200)
handleSuggestReport ==
  Handler(Caller \o Inputs({"body"}) \o SuggestReport, writeAIError, 200)

----------------------------------------------------------------------------
(* internal/wizard *)

CreateDefaultFirm ==
  In("wizard", InTx(Put({"firms", "roles"})
    \o Account!RegisterReadPermissionTx \o Put({"warehouses",
    "warehouse_locations"}) \o Trade!SeedDefaultChartOfAccountsTx
    \o Maybe(Flow!DefineWorkflowTx) \o Put({"user_firm_roles"}) \o Audit))
writeNodeError ==
  Answers("wizard", 404, {"ErrNodeNotFound"}) @@
    Answers("wizard", 400, {"ErrNotQuestion", "ErrUnknownAnswer"})
handleGetNode ==
  Handler(MayOf("wizard", {"ErrNodeNotFound"}), writeNodeError, 200)
handleAnswerNode ==
  Handler(MayOf("wizard", {"ErrNodeNotFound"}) \o Inputs({"body"})
    \o MayOf("wizard", {"ErrNotQuestion", "ErrUnknownAnswer"}) \o Maybe(User
    \o Blamed("wizard", "firm not created", CreateDefaultFirm)),
    writeNodeError @@
    Answers("wizard", 400, {"firm not created"}), 200)

----------------------------------------------------------------------------
(* internal/portability *)

requireOwner == In("portability", InTx(Member \o Owner))
ExportFirm ==
  In("portability", requireOwner \o Account!Get \o Trade!ListAccounts
    \o Flow!ExportDefinitionSpecs \o Maybe(Flow!ListRulesForDefinition)
    \o People!ListPeople \o Goods!ListProducts \o Goods!ListSuppliers
    \o Goods!ListStockForFirm \o Trade!ListCustomers
    \o Maybe(Sure(Flow!LookupDefinitionByKey \o Flow!ListInstances))
    \o Trade!ListJournalEntries \o Trade!ListInvoicesWithLines
    \o Goods!ListDeliveries \o InTx(Audit))
withSavepoint(p, errs, fn) == Catching(p, errs, fn)
ImportConfiguration ==
  In("portability", May({"ErrInvalidExportDocument"}) \o InTx(Member \o Owner
    \o Reads \o Maybe(withSavepoint("workflow", {"ErrDefinitionKeyExists"},
    Flow!DefineWorkflowTx)) \o Maybe(Flow!CreateRuleTx)
    \o Maybe(withSavepoint("accounting", {"ErrAccountCodeExists"},
    Trade!CreateAccountTx)) \o Maybe(withSavepoint("inventory",
    {"ErrProductSKUExists"}, Goods!CreateProductTx)) \o Audit))
writePortabilityError ==
  Answers("portability", 404, {"ErrFirmNotFound"}) @@
    Answers("portability", 403, {"ErrNotOwner"}) @@
    Answers("portability", 400, {"ErrInvalidExportDocument"})
handleExport == Handler(Caller \o ExportFirm, writePortabilityError, 200)
handleImportConfiguration ==
  Handler(Caller \o Inputs({"body"}) \o ImportConfiguration,
    writePortabilityError, 200)

----------------------------------------------------------------------------
(* internal/apm *)

EndpointStatsSince == In("apm", Reads)
TopSlowestEndpoints == In("apm", Reads)
VolumeByHourSince == In("apm", Reads)
handleSummary == Handler(Allowed \o Reads, NoAnswers, 200)

----------------------------------------------------------------------------
(* RegisterRoutes of each package. *)

edgeagentRoutes ==
  Of("edgeagent", [handleCreateAgent |-> handleCreateAgent,
    handleListAgents |-> handleListAgents, handleGetAgent |-> handleGetAgent,
    handleIssueToken |-> handleIssueToken,
    handleListTokens |-> handleListTokens,
    handleListEvents |-> handleListEvents,
    handleHeartbeat |-> Open(handleHeartbeat),
    handleRecordEvent |-> Open(handleRecordEvent),
    handleCreateCommand |-> handleCreateCommand,
    handleListCommands |-> handleListCommands,
    handlePollCommands |-> Open(handlePollCommands),
    handleAckCommand |-> Open(handleAckCommand)])
searchRoutes == Of("search", [handleSearch |-> handleSearch])
aiRoutes ==
  Of("ai", [handleCreateConfig |-> handleCreateConfig,
    handleListConfigs |-> handleListConfigs,
    handleDeleteConfig |-> handleDeleteConfig,
    handleRotateConfigKey |-> handleRotateConfigKey,
    handleSuggestWorkflow |-> handleSuggestWorkflow,
    handleSuggestReport |-> handleSuggestReport])
wizardRoutes ==
  Of("wizard", [handleGetNode |-> handleGetNode,
    handleAnswerNode |-> handleAnswerNode])
portabilityRoutes ==
  Of("portability", [handleExport |-> handleExport,
    handleImportConfiguration |-> handleImportConfiguration])
apmRoutes == Of("apm", [handleSummary |-> handleSummary])
Routes ==
  edgeagentRoutes @@
    searchRoutes @@
    aiRoutes @@
    wizardRoutes @@
    portabilityRoutes @@
    apmRoutes
==============================================================================
