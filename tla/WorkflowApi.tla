----------------------------- MODULE WorkflowApi -----------------------------
(*****************************************************************************)
(* The workflow engine behind the API: definitions, instances, transitions   *)
(* with their side effects, rules, approvals. What the engine keeps is       *)
(* WorkflowEngine's and Approvals' business; here it is what one request may *)
(* do and answer.                                                            *)
(*****************************************************************************)
EXTENDS HttpSteps

Account == INSTANCE AccountApi
Goods == INSTANCE GoodsApi
Trade == INSTANCE TradeApi

----------------------------------------------------------------------------
(* internal/workflow *)

createPendingApprovalAndNotify ==
  In("workflow", InTx(May({"ErrNoSuchTransition"})
    \o Put({"pending_approvals"}) \o Maybe(Account!CreateTx)) \o Tell)
ListPendingApprovals == In("workflow", InTx(MemberOr("ErrApprovalNotFound")))
markExpired == In("workflow", Aside(InTx(Put({"pending_approvals"}))))
resolveAmountField == In("workflow", May({"ErrPayloadValidation"}))
resolveJournalLines ==
  In("workflow", May({"ErrPayloadValidation"}) \o Maybe(resolveAmountField))
resolveJournalDescription == In("workflow", May({"ErrPayloadValidation"}))
resolveStockAdjustment == In("workflow", May({"ErrPayloadValidation"}))
resolveDelivery == In("workflow", May({"ErrPayloadValidation"}))
resolveCustomer == In("workflow", May({"ErrPayloadValidation"}))
resolveInvoice == In("workflow", May({"ErrPayloadValidation"}))
resolveSalesOrder == In("workflow", May({"ErrPayloadValidation"}))
resolvePurchaseOrder == In("workflow", May({"ErrPayloadValidation"}))
executeTransitionTx ==
  In("workflow", MemberOr("ErrInstanceNotFound")
    \o May({"ErrInstanceNotFound", "ErrNoSuchTransition"})
    \o Holds("ErrPermissionDenied") \o Put({"workflow_instances"}) \o Audit
    \o Maybe(resolveJournalLines \o Maybe(resolveJournalDescription
    \o Trade!PostJournalEntryTx)) \o Maybe(resolveStockAdjustment
    \o Maybe(Goods!AdjustStockTx)) \o Maybe(resolveDelivery
    \o Maybe(Goods!CreateDeliveryTx)) \o Maybe(resolveCustomer
    \o Maybe(Trade!CreateCustomerTx)) \o Maybe(resolveInvoice
    \o Maybe(Trade!insertInvoiceTx)) \o Maybe(resolveSalesOrder
    \o Maybe(Trade!insertSalesOrderTx)) \o Maybe(resolvePurchaseOrder
    \o Maybe(Trade!insertPurchaseOrderTx)))
Evaluate ==
  In("workflow", Maybe(InTx(Nothing)) \o May({"ErrInvalidRule",
    "ErrConditionEvaluation"}))
writeRuleAuditEntry == In("workflow", Aside(InTx(Audit)))
setInstanceField == In("workflow", InTx(Put({"workflow_instances"}) \o Audit))
executeRuleActions ==
  In("workflow", Maybe(InTx(executeTransitionTx) \o Tell)
    \o Maybe(InTx(Audit)) \o Maybe(setInstanceField)
    \o May({"ErrInvalidRule"}))
EvaluateRules ==
  In("workflow", Aside(InTx(Nothing) \o Maybe(Aside(Evaluate
    \o Either(createPendingApprovalAndNotify, executeRuleActions))
    \o Maybe(writeRuleAuditEntry))))
ExecuteTransition ==
  In("workflow", InTx(executeTransitionTx) \o Tell \o EvaluateRules)
Approve ==
  In("workflow", Before({"ErrApprovalExpired"}, markExpired,
    InTx(MemberOr("ErrApprovalNotFound") \o May({"ErrApprovalNotFound"})
    \o Holds("ErrPermissionDenied") \o May({"ErrApprovalNotPending",
    "ErrApprovalExpired"}) \o Put({"pending_approvals"})))
    \o Undoing(Aside(InTx(Put({"pending_approvals"}))), ExecuteTransition))
Reject ==
  In("workflow", Before({"ErrApprovalExpired"}, markExpired,
    InTx(MemberOr("ErrApprovalNotFound") \o May({"ErrApprovalNotFound"})
    \o Holds("ErrPermissionDenied") \o May({"ErrApprovalNotPending",
    "ErrApprovalExpired"}) \o Put({"pending_approvals"})
    \o Account!CreateTx)))
BulkExecuteTransition ==
  In("workflow", May({"ErrBulkTransitionEmpty"})
    \o InTx(MemberOr("ErrInstanceNotFound") \o May({"ErrInstanceNotFound",
    "ErrBulkTransitionMixedDefinitions"}) \o executeTransitionTx
    \o Maybe(executeTransitionTx)) \o Tell)
ListInstancesByCustomer ==
  In("workflow", InTx(MemberOr("ErrDefinitionNotFound")))
upsertPermission == In("workflow", Put({"permissions", "role_permissions"}))
DefineWorkflowTx ==
  In("workflow", May({"ErrInvalidSpec"}) \o upsertPermission
    \o Maybe(upsertPermission) \o Put({"workflow_definitions"})
    \o May({"ErrDefinitionKeyExists"}) \o Maybe(Put({"workflow_states"}))
    \o Maybe(Put({"workflow_transitions"})))
DefineWorkflowForFirm ==
  In("workflow", InTx(MemberOr("ErrDefinitionNotFound")
    \o OwnerOr("ErrPermissionDenied") \o May({"ErrInvalidSpec"})
    \o DefineWorkflowTx \o Audit) \o Account!CompleteStep)
CreateInstance ==
  In("workflow", InTx(MemberOr("ErrDefinitionNotFound")
    \o May({"ErrDefinitionNotFound"}) \o Holds("ErrPermissionDenied")
    \o May({"ErrPayloadValidation"}) \o Put({"workflow_instances"}) \o Audit)
    \o Tell \o EvaluateRules)
CurrentState ==
  In("workflow", InTx(MemberOr("ErrInstanceNotFound")
    \o May({"ErrInstanceNotFound"})))
ListInstances ==
  In("workflow", InTx(MemberOr("ErrDefinitionNotFound") \o Audit
    \o May({"ErrInvalidFilter"})))
LookupDefinitionByKey ==
  In("workflow", InTx(MemberOr("ErrDefinitionNotFound")
    \o May({"ErrDefinitionNotFound"})))
ListDefinitions == In("workflow", InTx(MemberOr("ErrDefinitionNotFound")))
ExportDefinitionSpecs == In("workflow", InTx(MemberOr("ErrDefinitionNotFound")))
InstanceCountsByDefinition ==
  In("workflow", InTx(MemberOr("ErrDefinitionNotFound")))
ValidateExpressionTree == In("workflow", May({"ErrInvalidRule"}))
validateRuleShape ==
  In("workflow", May({"ErrInvalidRule"}) \o Maybe(ValidateExpressionTree)
    \o May({"ErrInvalidRule"}))
createRuleTx ==
  In("workflow", Put({"workflow_rules"})
    \o Maybe(Put({"scheduled_rule_runs"})))
CreateRuleTx == In("workflow", validateRuleShape \o createRuleTx)
checkObviousSelfReferentialLoop == In("workflow", May({"ErrInvalidRule"}))
CreateRuleForFirm ==
  In("workflow", InTx(MemberOr("ErrDefinitionNotFound")
    \o OwnerOr("ErrPermissionDenied") \o May({"ErrDefinitionNotFound"})
    \o validateRuleShape \o checkObviousSelfReferentialLoop \o createRuleTx
    \o Audit))
UpdateRuleForFirm ==
  In("workflow", InTx(MemberOr("ErrDefinitionNotFound")
    \o OwnerOr("ErrPermissionDenied") \o May({"ErrRuleNotFound"})
    \o validateRuleShape \o checkObviousSelfReferentialLoop
    \o Put({"workflow_rules"}) \o Audit))
DeleteRuleForFirm ==
  In("workflow", InTx(MemberOr("ErrDefinitionNotFound")
    \o OwnerOr("ErrPermissionDenied") \o May({"ErrRuleNotFound"})
    \o Put({"workflow_rules"}) \o Audit))
ListRulesForDefinition ==
  In("workflow", InTx(MemberOr("ErrDefinitionNotFound")))
EvaluateEdgeEventRules ==
  In("workflow", Aside(InTx(Nothing) \o Maybe(Evaluate)))
writeEngineError ==
  Answers("workflow", 404, {"ErrDefinitionNotFound", "ErrInstanceNotFound",
    "ErrRuleNotFound", "ErrApprovalNotFound"}) @@
    Answers("workflow", 403, {"ErrPermissionDenied"}) @@
    Answers("workflow", 400, {"ErrNoSuchTransition", "ErrInvalidSpec",
    "ErrPayloadValidation", "ErrInvalidRule", "ErrInvalidFilter"}) @@
    Answers("inventory", 400, {"ErrInsufficientStock",
    "ErrInvalidStockAdjustment"}) @@
    Answers("workflow", 409, {"ErrDefinitionKeyExists",
    "ErrApprovalNotPending", "ErrApprovalExpired"})
handleWorkflowDefinitions ==
  Handler(Inputs({"firmID"}) \o User \o Either(ListDefinitions,
    LookupDefinitionByKey), writeEngineError, 200)
handleInstanceCounts ==
  Handler(Inputs({"firmID"}) \o User \o InstanceCountsByDefinition,
    writeEngineError, 200)
handleDefineWorkflow ==
  Handler(Inputs({"firmID", "body"}) \o User \o DefineWorkflowForFirm,
    writeEngineError, 201)
handleListInstances ==
  Handler(Inputs({"firmID", "definitionID", "filters"}) \o User
    \o ListInstances \o Inputs({"fields"}), writeEngineError, 200)
handleCreateInstance ==
  Handler(Inputs({"firmID", "definitionID", "body"}) \o User \o CreateInstance
    \o Sure(CurrentState), writeEngineError, 201)
handleCurrentState ==
  Handler(Inputs({"firmID", "instanceID"}) \o User \o CurrentState,
    writeEngineError, 200)
handleInstanceInvoices ==
  Handler(Inputs({"firmID", "instanceID"}) \o User
    \o Trade!ListInvoicesBySourceInstance, Answers("invoicing", 404,
    {"ErrFirmNotFound"}), 200)
handleInstancesByCustomer ==
  Handler(Inputs({"firmID", "customerId"}) \o User \o ListInstancesByCustomer,
    writeEngineError, 200)
handleBulkTransition ==
  Handler(Inputs({"firmID"}) \o User \o Inputs({"body", "actionKey",
    "instance"}) \o BulkExecuteTransition, Answers("workflow", 400,
    {"ErrBulkTransitionEmpty", "ErrBulkTransitionMixedDefinitions"}) @@
    writeEngineError, 200)
handleListRules ==
  Handler(Inputs({"firmID", "definitionKey"}) \o User
    \o ListRulesForDefinition, writeEngineError, 200)
handleCreateRule ==
  Handler(Inputs({"firmID", "definitionKey", "body"}) \o User
    \o CreateRuleForFirm, writeEngineError, 201)
handleUpdateRule ==
  Handler(Inputs({"firmID", "definitionKey", "ruleID", "body"}) \o User
    \o UpdateRuleForFirm, writeEngineError, 200)
handleDeleteRule ==
  Handler(Inputs({"firmID", "definitionKey", "ruleID"}) \o User
    \o DeleteRuleForFirm, writeEngineError, 204)
handleExecuteTransition ==
  Handler(Inputs({"firmID", "instanceID", "actionKey", "body"}) \o User
    \o ExecuteTransition \o Sure(CurrentState), writeEngineError, 200)
handleListPendingApprovals ==
  Handler(Inputs({"firmID"}) \o User \o ListPendingApprovals,
    writeEngineError, 200)
handleApproveApproval ==
  Handler(Inputs({"firmID", "id"}) \o User \o Approve, writeEngineError, 200)
handleRejectApproval ==
  Handler(Inputs({"firmID", "id"}) \o User \o Reject, writeEngineError, 200)

----------------------------------------------------------------------------
(* RegisterRoutes of each package. *)

workflowRoutes ==
  Of("workflow", [handleWorkflowDefinitions |-> handleWorkflowDefinitions,
    handleInstanceCounts |-> handleInstanceCounts,
    handleDefineWorkflow |-> handleDefineWorkflow,
    handleListInstances |-> handleListInstances,
    handleCreateInstance |-> handleCreateInstance,
    handleCurrentState |-> handleCurrentState,
    handleInstanceInvoices |-> handleInstanceInvoices,
    handleInstancesByCustomer |-> handleInstancesByCustomer,
    handleBulkTransition |-> handleBulkTransition,
    handleListRules |-> handleListRules,
    handleCreateRule |-> handleCreateRule,
    handleUpdateRule |-> handleUpdateRule,
    handleDeleteRule |-> handleDeleteRule,
    handleExecuteTransition |-> handleExecuteTransition,
    handleListPendingApprovals |-> handleListPendingApprovals,
    handleApproveApproval |-> handleApproveApproval,
    handleRejectApproval |-> handleRejectApproval])
Routes == workflowRoutes
==============================================================================
