------------------------------ MODULE TradeApi -------------------------------
(*****************************************************************************)
(* The ledger: accounts and journal entries, the consolidation of several    *)
(* firms, exchange rates, cost centers and budgets; and the trade it books:  *)
(* customers, orders, purchases, invoices with their payments, contracts,    *)
(* and the documents rendered from them.                                     *)
(*****************************************************************************)
EXTENDS HttpSteps

Account == INSTANCE AccountApi
Links == INSTANCE LinksApi

----------------------------------------------------------------------------
(* internal/accounting *)

CreateAccount ==
  In("accounting", May({"ErrInvalidAccount"}) \o InTx(Member \o Owner
    \o May({"ErrInvalidAccount"}) \o Put({"accounts"})
    \o May({"ErrAccountCodeExists"}) \o Audit))
CreateAccountTx ==
  In("accounting", May({"ErrInvalidAccount"}) \o Put({"accounts"})
    \o May({"ErrAccountCodeExists"}))
UpdateAccount ==
  In("accounting", May({"ErrInvalidAccount"}) \o InTx(Member \o Owner
    \o Put({"accounts"}) \o May({"ErrAccountNotFound"}) \o Audit))
ListAccounts == In("accounting", InTx(Member))
GetAccountBalance ==
  In("accounting", InTx(Member \o May({"ErrAccountNotFound"})))
PostJournalEntryTx ==
  In("accounting", May({"ErrInvalidJournalEntry"}) \o Put({"journal_entries"})
    \o Maybe(May({"ErrAccountNotFound", "ErrAccountInactive"})
    \o MayOf("currency", {"ErrRateNotFound"}) \o Put({"journal_lines"}))
    \o May({"ErrUnbalancedEntry"}) \o Audit)
PostJournalEntry ==
  In("accounting", InTx(Member \o Owner \o PostJournalEntryTx))
ListJournalEntries ==
  In("accounting", InTx(Member \o May({"ErrInvalidFilter"})))
GetProfitAndLoss == In("accounting", InTx(Member))
GetBalanceSheet == In("accounting", InTx(Member))
SeedDefaultChartOfAccountsTx == In("accounting", Maybe(Put({"accounts"})))
writeAccountingError ==
  Answers("accounting", 404, {"ErrFirmNotFound", "ErrAccountNotFound"}) @@
    Answers("accounting", 403, {"ErrNotOwner"}) @@
    Answers("accounting", 400, {"ErrInvalidAccount", "ErrInvalidJournalEntry",
    "ErrAccountInactive", "ErrUnbalancedEntry", "ErrInvalidFilter"}) @@
    Answers("accounting", 409, {"ErrAccountCodeExists"})
handleListAccounts ==
  Handler(Inputs({"firmID"}) \o User \o ListAccounts, writeAccountingError,
    200)
handleCreateAccount ==
  Handler(Inputs({"firmID", "body"}) \o User \o CreateAccount,
    writeAccountingError, 201)
handleUpdateAccount ==
  Handler(Inputs({"firmID", "accountID", "body"}) \o User \o UpdateAccount,
    writeAccountingError, 200)
handleAccountBalance ==
  Handler(Inputs({"firmID", "accountID"}) \o User \o GetAccountBalance,
    writeAccountingError, 200)
handleListJournalEntries ==
  Handler(Inputs({"firmID", "filters"}) \o User \o ListJournalEntries,
    writeAccountingError, 200)
handlePostJournalEntry ==
  Handler(Inputs({"firmID", "body"}) \o User \o PostJournalEntry,
    writeAccountingError, 201)
handlePnLReport ==
  Handler(Inputs({"firmID", "range"}) \o User \o GetProfitAndLoss,
    writeAccountingError, 200)
handleBalanceSheetReport ==
  Handler(Inputs({"firmID", "as_of"}) \o User \o GetBalanceSheet,
    writeAccountingError, 200)

----------------------------------------------------------------------------
(* internal/consolidation *)

groupMemberFirmsWithNames == In("consolidation", Reads)
GetConsolidatedPnL ==
  In("consolidation", MayOf("platformadmin", {"ErrNotPlatformAdmin"})
    \o groupMemberFirmsWithNames \o Reads \o May({"ErrGroupNotFound"})
    \o Maybe(InTx(Nothing) \o Reads) \o Reads)
CreateFirmGroup ==
  In("consolidation", MayOf("platformadmin", {"ErrNotPlatformAdmin"})
    \o May({"ErrInvalidGroup"}) \o OneTx("firm_groups"))
ListFirmGroups ==
  In("consolidation", MayOf("platformadmin", {"ErrNotPlatformAdmin"})
    \o Reads)
AddGroupMember ==
  In("consolidation", MayOf("platformadmin", {"ErrNotPlatformAdmin"})
    \o May({"ErrInvalidGroup"}) \o Reads \o May({"ErrGroupNotFound"}) \o Reads
    \o May({"ErrFirmNotFound"}) \o OneTxOr("firm_group_members",
    {"ErrDuplicateMembership", "ErrInvalidGroup"}))
GetFirmGroupForFirm == In("consolidation", InTx(Member))
ensureAccountTx == In("consolidation", CreateAccountTx)
groupMemberFirmIDs == In("consolidation", Reads)
PostIntercompanyTransfer ==
  In("consolidation", MayOf("platformadmin", {"ErrNotPlatformAdmin"})
    \o May({"ErrInvalidTransfer"}) \o groupMemberFirmIDs
    \o May({"ErrGroupNotFound", "ErrFirmNotInGroup"}) \o User
    \o InTx(ensureAccountTx \o ensureAccountTx \o PostJournalEntryTx
    \o ensureAccountTx \o ensureAccountTx \o PostJournalEntryTx
    \o Put({"intercompany_transactions"})))
writeConsolidationError ==
  Answers("platformadmin", 404, {"ErrNotPlatformAdmin"}) @@
    Answers("consolidation", 404, {"ErrGroupNotFound", "ErrFirmNotFound"}) @@
    Answers("consolidation", 400, {"ErrInvalidGroup", "ErrInvalidTransfer",
    "ErrFirmNotInGroup", "ErrDuplicateMembership"})
handleListFirmGroups ==
  Handler(Allowed \o ListFirmGroups, writeConsolidationError, 200)
handleCreateFirmGroup ==
  Handler(Allowed \o Inputs({"body"}) \o CreateFirmGroup,
    writeConsolidationError, 201)
handleAddGroupMember ==
  Handler(Allowed \o Inputs({"groupID", "body", "firmId"}) \o AddGroupMember,
    writeConsolidationError, 201)
handleIntercompanyTransfer ==
  Handler(Allowed \o Inputs({"groupID", "body", "fromFirmId", "toFirmId"})
    \o PostIntercompanyTransfer, writeConsolidationError, 201)
handleConsolidatedPnL ==
  Handler(Allowed \o Inputs({"groupID", "range"}) \o GetConsolidatedPnL,
    writeConsolidationError, 200)
handleGetFirmGroupForFirm ==
  Handler(Inputs({"firmID"}) \o User \o GetFirmGroupForFirm,
    writeConsolidationError, 200)

----------------------------------------------------------------------------
(* internal/currency *)

CreateRate == In("currency", May({"ErrInvalidRate"}) \o OneTx("exchange_rates"))
ListRates == In("currency", Reads)
writeCurrencyError ==
  Answers("currency", 400, {"ErrInvalidRate"}) @@
    Answers("currency", 404, {"ErrRateNotFound"})
handleCreateRate ==
  Handler(Allowed \o Inputs({"body", "validFrom", "validTo"}) \o CreateRate,
    writeCurrencyError, 201)
handleListRates == Handler(Inputs({"at"}) \o ListRates, writeCurrencyError, 200)

----------------------------------------------------------------------------
(* internal/costcenter *)

CreateCostCenter ==
  In("costcenter", May({"ErrInvalidCostCenter"}) \o InTx(Member \o Owner
    \o May({"ErrInvalidCostCenter"}) \o Put({"cost_centers"})
    \o May({"ErrDuplicateCode"}) \o Audit))
UpdateCostCenter ==
  In("costcenter", May({"ErrInvalidCostCenter"}) \o InTx(Member \o Owner
    \o Put({"cost_centers"}) \o May({"ErrCostCenterNotFound"}) \o Audit))
ListCostCenters == In("costcenter", InTx(Member))
GetCostCenterPnL == In("costcenter", InTx(Member))
writeCostCenterError ==
  Answers("costcenter", 404, {"ErrFirmNotFound", "ErrCostCenterNotFound"}) @@
    Answers("costcenter", 403, {"ErrNotOwner"}) @@
    Answers("costcenter", 400, {"ErrInvalidCostCenter", "ErrDuplicateCode"})
handleListCostCenters ==
  Handler(Caller \o ListCostCenters, writeCostCenterError, 200)
handleCreateCostCenter ==
  Handler(Caller \o Inputs({"body"}) \o CreateCostCenter,
    writeCostCenterError, 201)
handleUpdateCostCenter ==
  Handler(Caller \o Inputs({"costCenterID", "body"}) \o UpdateCostCenter,
    writeCostCenterError, 200)
handleCostCenterPnL ==
  Handler(Caller \o Inputs({"range"}) \o GetCostCenterPnL,
    writeCostCenterError, 200)

----------------------------------------------------------------------------
(* internal/budget *)

CreateBudget ==
  In("budget", May({"ErrInvalidBudget"}) \o InTx(Member \o Owner
    \o Put({"budgets"}) \o Maybe(Put({"budgets"})) \o Audit))
UpdateBudget ==
  In("budget", May({"ErrInvalidBudget"}) \o InTx(Member \o Owner
    \o Put({"budgets"}) \o May({"ErrBudgetNotFound"})
    \o Maybe(Put({"budgets"})) \o Audit))
ApproveBudget ==
  In("budget", InTx(Member \o Owner \o May({"ErrBudgetNotFound",
    "ErrInvalidBudgetTransition"}) \o Put({"budgets"}) \o Audit))
ListBudgets == In("budget", InTx(Member))
GetBudget == In("budget", InTx(Member \o May({"ErrBudgetNotFound"})))
CreateBudgetLine ==
  In("budget", May({"ErrInvalidBudgetLine"}) \o InTx(Member \o Owner
    \o May({"ErrBudgetNotFound", "ErrInvalidBudgetLine"})
    \o Put({"budget_lines"}) \o May({"ErrBudgetLineNotFound",
    "ErrDuplicateBudgetLineAccount"}) \o Audit))
ListBudgetLines == In("budget", InTx(Member))
writeBudgetError ==
  Answers("budget", 404, {"ErrFirmNotFound", "ErrBudgetNotFound",
    "ErrBudgetLineNotFound"}) @@
    Answers("budget", 403, {"ErrNotOwner"}) @@
    Answers("budget", 400, {"ErrInvalidBudget", "ErrInvalidBudgetTransition",
    "ErrInvalidBudgetLine", "ErrDuplicateBudgetLineAccount"})
handleListBudgets == Handler(Caller \o ListBudgets, writeBudgetError, 200)
handleCreateBudget ==
  Handler(Caller \o Inputs({"body"}) \o CreateBudget, writeBudgetError, 201)
handleGetBudget ==
  Handler(Caller \o Inputs({"budgetID"}) \o GetBudget, writeBudgetError, 200)
handleUpdateBudget ==
  Handler(Caller \o Inputs({"budgetID", "body"}) \o UpdateBudget,
    writeBudgetError, 200)
handleApproveBudget ==
  Handler(Caller \o Inputs({"budgetID"}) \o ApproveBudget, writeBudgetError,
    200)
handleListBudgetLines ==
  Handler(Caller \o Inputs({"budgetID"}) \o ListBudgetLines, writeBudgetError,
    200)
handleCreateBudgetLine ==
  Handler(Caller \o Inputs({"budgetID", "body"}) \o CreateBudgetLine,
    writeBudgetError, 201)

----------------------------------------------------------------------------
(* internal/crm *)

CreateCustomer ==
  In("crm", May({"ErrInvalidCustomer"}) \o InTx(Member \o Owner
    \o Put({"customers"}) \o Audit) \o Tell)
UpdateCustomer ==
  In("crm", May({"ErrInvalidCustomer"}) \o InTx(Member \o Owner
    \o Put({"customers"}) \o May({"ErrCustomerNotFound"}) \o Audit))
ListCustomers == In("crm", InTx(Member))
GetCustomer == In("crm", InTx(Member \o May({"ErrCustomerNotFound"})))
CreateCustomerTx == In("crm", May({"ErrInvalidCustomer"}) \o Put({"customers"}))
CreateInteraction ==
  In("crm", May({"ErrInvalidInteraction"}) \o InTx(Member \o Owner
    \o May({"ErrInvalidInteraction"}) \o Put({"crm_interactions"}) \o Audit))
ListInteractions == In("crm", InTx(Member))
CreateOpportunity ==
  In("crm", May({"ErrInvalidOpportunity", "ErrInvalidCustomer"})
    \o InTx(Member \o Owner \o Put({"crm_opportunities"}) \o Audit))
ListOpportunities == In("crm", InTx(Member))
GetOpportunity == In("crm", InTx(Member \o May({"ErrOpportunityNotFound"})))
UpdateOpportunity ==
  In("crm", May({"ErrInvalidOpportunity", "ErrInvalidCustomer"})
    \o InTx(Member \o Owner \o Put({"crm_opportunities"})
    \o May({"ErrOpportunityNotFound"}) \o Audit))
UpdateOpportunityStage ==
  In("crm", May({"ErrInvalidOpportunity"}) \o InTx(Member \o Owner
    \o May({"ErrOpportunityNotFound", "ErrInvalidOpportunityTransition"})
    \o Put({"crm_opportunities"}) \o Audit))
GetCustomerTimeline == In("crm", InTx(Member))
writeCRMError ==
  Answers("crm", 404, {"ErrFirmNotFound", "ErrCustomerNotFound",
    "ErrInteractionNotFound", "ErrOpportunityNotFound"}) @@
    Answers("crm", 403, {"ErrNotOwner"}) @@
    Answers("crm", 400, {"ErrInvalidCustomer", "ErrInvalidInteraction",
    "ErrInvalidOpportunity", "ErrInvalidOpportunityTransition"})
handleListCustomers ==
  Handler(Caller \o Inputs({"updated_since"}) \o ListCustomers
    \o Inputs({"fields"}), writeCRMError, 200)
handleCreateCustomer ==
  Handler(Caller \o Inputs({"body"}) \o CreateCustomer, writeCRMError, 201)
handleGetCustomer ==
  Handler(Caller \o Inputs({"customerID"}) \o GetCustomer, writeCRMError, 200)
handleUpdateCustomer ==
  Handler(Caller \o Inputs({"customerID", "body"}) \o UpdateCustomer,
    writeCRMError, 200)
handleListInteractions ==
  Handler(Caller \o Inputs({"customerID"}) \o ListInteractions, writeCRMError,
    200)
handleCreateInteraction ==
  Handler(Caller \o Inputs({"customerID", "body"}) \o CreateInteraction,
    writeCRMError, 201)
handleListOpportunities ==
  Handler(Caller \o Inputs({"customerId"}) \o ListOpportunities,
    writeCRMError, 200)
handleCreateOpportunity ==
  Handler(Caller \o Inputs({"body"}) \o CreateOpportunity, writeCRMError, 201)
handleGetOpportunity ==
  Handler(Caller \o Inputs({"opportunityID"}) \o GetOpportunity,
    writeCRMError, 200)
handleUpdateOpportunity ==
  Handler(Caller \o Inputs({"opportunityID", "body"}) \o UpdateOpportunity,
    writeCRMError, 200)
handleUpdateOpportunityStage ==
  Handler(Caller \o Inputs({"opportunityID", "body"})
    \o UpdateOpportunityStage, writeCRMError, 200)
handleGetCustomerTimeline ==
  Handler(Caller \o Inputs({"customerID"}) \o GetCustomerTimeline,
    writeCRMError, 200)

----------------------------------------------------------------------------
(* internal/salesorders *)

salesordersRecomputeTotalsTx == In("salesorders", Put({"sales_orders"}))
insertSalesOrderTx ==
  In("salesorders", May({"ErrInvalidSalesOrder", "ErrInvalidSalesOrderLine"})
    \o Put({"sales_order_sequences", "sales_orders"})
    \o Maybe(Put({"sales_order_lines"})) \o salesordersRecomputeTotalsTx)
CreateSalesOrder ==
  In("salesorders", InTx(Member \o Owner \o insertSalesOrderTx \o Audit)
    \o Tell)
ListSalesOrders == In("salesorders", InTx(Member))
GetSalesOrder ==
  In("salesorders", InTx(Member \o May({"ErrSalesOrderNotFound"})))
UpdateSalesOrderStatus ==
  In("salesorders", May({"ErrInvalidSalesOrder"}) \o InTx(Member \o Owner
    \o May({"ErrSalesOrderNotFound", "ErrInvalidSalesOrder"})
    \o Put({"sales_orders"}) \o Audit))
writeSalesOrderError ==
  Answers("salesorders", 404, {"ErrFirmNotFound", "ErrSalesOrderNotFound"}) @@
    Answers("salesorders", 403, {"ErrNotOwner"}) @@
    Answers("salesorders", 400, {"ErrInvalidSalesOrder",
    "ErrInvalidSalesOrderLine"})
handleListSalesOrders ==
  Handler(Caller \o ListSalesOrders, writeSalesOrderError, 200)
handleCreateSalesOrder ==
  Handler(Caller \o Inputs({"body"}) \o CreateSalesOrder,
    writeSalesOrderError, 201)
handleGetSalesOrder ==
  Handler(Caller \o Inputs({"orderID"}) \o GetSalesOrder,
    writeSalesOrderError, 200)
handleUpdateSalesOrderStatus ==
  Handler(Caller \o Inputs({"orderID", "body"}) \o UpdateSalesOrderStatus,
    writeSalesOrderError, 200)

----------------------------------------------------------------------------
(* internal/procurement *)

procurementRecomputeTotalsTx == In("procurement", Put({"purchase_orders"}))
insertPurchaseOrderTx ==
  In("procurement", May({"ErrInvalidPurchaseOrder",
    "ErrInvalidPurchaseOrderLine"}) \o Put({"purchase_order_sequences",
    "purchase_orders"}) \o Maybe(Put({"purchase_order_lines"}))
    \o procurementRecomputeTotalsTx)
CreatePurchaseOrder ==
  In("procurement", InTx(Member \o Owner \o insertPurchaseOrderTx \o Audit)
    \o Tell)
ListPurchaseOrders == In("procurement", InTx(Member))
GetPurchaseOrder ==
  In("procurement", InTx(Member \o May({"ErrPurchaseOrderNotFound"})))
UpdatePurchaseOrderStatus ==
  In("procurement", May({"ErrInvalidPurchaseOrder"}) \o InTx(Member \o Owner
    \o May({"ErrPurchaseOrderNotFound", "ErrInvalidPurchaseOrder"})
    \o Put({"purchase_orders"}) \o Audit))
writePurchaseOrderError ==
  Answers("procurement", 404, {"ErrFirmNotFound",
    "ErrPurchaseOrderNotFound"}) @@
    Answers("procurement", 403, {"ErrNotOwner"}) @@
    Answers("procurement", 400, {"ErrInvalidPurchaseOrder",
    "ErrInvalidPurchaseOrderLine"})
handleListPurchaseOrders ==
  Handler(Caller \o ListPurchaseOrders, writePurchaseOrderError, 200)
handleCreatePurchaseOrder ==
  Handler(Caller \o Inputs({"body"}) \o CreatePurchaseOrder,
    writePurchaseOrderError, 201)
handleGetPurchaseOrder ==
  Handler(Caller \o Inputs({"orderID"}) \o GetPurchaseOrder,
    writePurchaseOrderError, 200)
handleUpdatePurchaseOrderStatus ==
  Handler(Caller \o Inputs({"orderID", "body"}) \o UpdatePurchaseOrderStatus,
    writePurchaseOrderError, 200)

----------------------------------------------------------------------------
(* internal/invoicing *)

resolveLineTaxRate ==
  In("invoicing", MayOf("localization", {"ErrTaxRateNotFound"}))
recomputeInvoiceTotalsTx == In("invoicing", Put({"invoices"}))
insertInvoiceTx ==
  In("invoicing", May({"ErrInvalidInvoice", "ErrInvalidInvoiceLine"})
    \o Put({"invoice_sequences", "invoices"}) \o Maybe(resolveLineTaxRate
    \o Put({"invoice_lines"})) \o recomputeInvoiceTotalsTx)
CreateInvoice ==
  In("invoicing", InTx(Member \o Owner \o insertInvoiceTx \o Audit) \o Tell)
ListInvoices == In("invoicing", InTx(Member \o May({"ErrInvalidFilter"})))
ListInvoicesWithLines == In("invoicing", InTx(Member))
ListInvoicesBySourceInstance == In("invoicing", InTx(Member))
GetInvoice == In("invoicing", InTx(Member \o May({"ErrInvoiceNotFound"})))
updateInvoiceStatusTx ==
  In("invoicing", May({"ErrInvalidInvoice"}) \o Member \o Owner
    \o May({"ErrInvoiceNotFound", "ErrInvalidInvoice"}) \o Put({"invoices"})
    \o Audit)
BulkUpdateInvoiceStatus ==
  In("invoicing", May({"ErrInvalidInvoice"}) \o InTx(updateInvoiceStatusTx
    \o Maybe(updateInvoiceStatusTx)))
requireInvoiceOwner == In("invoicing", Member \o Owner)
AddInvoiceLine ==
  In("invoicing", May({"ErrInvalidInvoiceLine"}) \o InTx(requireInvoiceOwner
    \o May({"ErrInvoiceNotFound"}) \o resolveLineTaxRate
    \o Put({"invoice_lines"}) \o recomputeInvoiceTotalsTx
    \o May({"ErrInvoiceNotFound"}) \o Audit))
UpdateInvoiceLine ==
  In("invoicing", May({"ErrInvalidInvoiceLine"}) \o InTx(requireInvoiceOwner
    \o May({"ErrInvoiceNotFound"}) \o resolveLineTaxRate
    \o Put({"invoice_lines"}) \o May({"ErrInvoiceLineNotFound"})
    \o recomputeInvoiceTotalsTx \o May({"ErrInvoiceNotFound"}) \o Audit))
DeleteInvoiceLine ==
  In("invoicing", InTx(requireInvoiceOwner \o May({"ErrInvoiceNotFound"})
    \o Put({"invoice_lines"}) \o May({"ErrInvoiceLineNotFound"})
    \o recomputeInvoiceTotalsTx \o May({"ErrInvoiceNotFound"}) \o Audit))
RecordPayment ==
  In("invoicing", May({"ErrInvalidPayment"}) \o InTx(requireInvoiceOwner
    \o May({"ErrInvoiceNotFound", "ErrInvalidInvoice"}) \o Put({"payments"})
    \o Audit \o Maybe(Put({"invoices"}) \o PostJournalEntryTx)
    \o May({"ErrInvoiceNotFound"})) \o Maybe(Tell \o Links!DispatchOutbound))
ListPayments == In("invoicing", InTx(Member \o May({"ErrInvoiceNotFound"})))
ReceivablesAging == In("invoicing", InTx(Member))
writeInvoicingError ==
  Answers("invoicing", 404, {"ErrFirmNotFound", "ErrInvoiceNotFound",
    "ErrInvoiceLineNotFound"}) @@
    Answers("invoicing", 403, {"ErrNotOwner"}) @@
    Answers("invoicing", 400, {"ErrInvalidInvoice", "ErrInvalidInvoiceLine",
    "ErrInvalidPayment", "ErrInvalidFilter"})
handleListInvoices ==
  Handler(Caller \o Inputs({"filters", "updated_since"}) \o ListInvoices
    \o Inputs({"fields"}), writeInvoicingError, 200)
handleCreateInvoice ==
  Handler(Caller \o Inputs({"body", "dueDate"}) \o CreateInvoice,
    writeInvoicingError, 201)
handleGetInvoice ==
  Handler(Caller \o Inputs({"invoiceID"}) \o GetInvoice, writeInvoicingError,
    200)
handleUpdateInvoiceStatus ==
  Handler(Caller \o Inputs({"invoiceID", "body"})
    \o InTx(updateInvoiceStatusTx), writeInvoicingError, 200)
handleBulkUpdateInvoiceStatus ==
  Handler(Caller \o Inputs({"body", "invoice"}) \o BulkUpdateInvoiceStatus,
    writeInvoicingError, 200)
handleAddInvoiceLine ==
  Handler(Caller \o Inputs({"invoiceID", "body"}) \o AddInvoiceLine,
    writeInvoicingError, 201)
handleUpdateInvoiceLine ==
  Handler(Caller \o Inputs({"invoiceID", "lineID", "body"})
    \o UpdateInvoiceLine, writeInvoicingError, 200)
handleDeleteInvoiceLine ==
  Handler(Caller \o Inputs({"invoiceID", "lineID"}) \o DeleteInvoiceLine,
    writeInvoicingError, 200)
handleRecordPayment ==
  Handler(Caller \o Inputs({"invoiceID", "body", "paidAt"}) \o RecordPayment,
    writeInvoicingError, 201)
handleListPayments ==
  Handler(Caller \o Inputs({"invoiceID"}) \o ListPayments,
    writeInvoicingError, 200)
handleReceivablesAging ==
  Handler(Caller \o ReceivablesAging, writeInvoicingError, 200)

----------------------------------------------------------------------------
(* internal/contracts *)

CreateContract ==
  In("contracts", May({"ErrInvalidContract"}) \o InTx(Member \o Owner
    \o Put({"contract_registry"}) \o May({"ErrDuplicateReferenceNumber"})
    \o Audit))
UpdateContract ==
  In("contracts", May({"ErrInvalidContract"}) \o InTx(Member \o Owner
    \o Put({"contract_registry"}) \o May({"ErrContractNotFound",
    "ErrDuplicateReferenceNumber"}) \o Audit))
ListContracts == In("contracts", InTx(Member))
GetContract == In("contracts", InTx(Member \o May({"ErrContractNotFound"})))
ListExpiringContracts == In("contracts", InTx(Member))
CreateDocument ==
  In("contracts", May({"ErrInvalidDocument"}) \o InTx(Member \o Owner
    \o May({"ErrContractNotFound"}) \o Put({"contract_documents"})
    \o May({"ErrDocumentNotFound"}) \o Audit))
ListDocuments == In("contracts", InTx(Member))
writeContractsError ==
  Answers("contracts", 404, {"ErrFirmNotFound", "ErrContractNotFound",
    "ErrDocumentNotFound"}) @@
    Answers("contracts", 403, {"ErrNotOwner"}) @@
    Answers("contracts", 400, {"ErrInvalidContract",
    "ErrDuplicateReferenceNumber", "ErrInvalidDocument"})
handleListContracts ==
  Handler(Caller \o ListContracts, writeContractsError, 200)
handleListExpiringContracts ==
  Handler(Caller \o Inputs({"days"}) \o ListExpiringContracts,
    writeContractsError, 200)
handleCreateContract ==
  Handler(Caller \o Inputs({"body"}) \o CreateContract, writeContractsError,
    201)
handleGetContract ==
  Handler(Caller \o Inputs({"contractID"}) \o GetContract,
    writeContractsError, 200)
handleUpdateContract ==
  Handler(Caller \o Inputs({"contractID", "body", "signedAt"})
    \o UpdateContract, writeContractsError, 200)
handleListDocuments ==
  Handler(Caller \o Inputs({"contractID"}) \o ListDocuments,
    writeContractsError, 200)
handleCreateDocument ==
  Handler(Caller \o Inputs({"contractID", "body"}) \o CreateDocument,
    writeContractsError, 201)

----------------------------------------------------------------------------
(* internal/documents *)

CreateDocumentTemplate ==
  In("documents", May({"ErrInvalidTemplate"}) \o InTx(Member \o Owner
    \o Maybe(Put({"document_templates"})) \o Put({"document_templates"})))
EnsureDefaultInvoiceTemplate ==
  In("documents", InTx(Member \o Put({"document_templates"})))
ListDocumentTemplates ==
  In("documents", EnsureDefaultInvoiceTemplate \o InTx(Member))
GetDocumentTemplate ==
  In("documents", InTx(Member \o May({"ErrTemplateNotFound"})))
UpdateDocumentTemplate ==
  In("documents", May({"ErrInvalidTemplate"}) \o InTx(Member \o Owner
    \o Maybe(Put({"document_templates"})) \o Put({"document_templates"})
    \o May({"ErrTemplateNotFound"})))
EnsureDefaultContractTemplate ==
  In("documents", InTx(Member \o Put({"document_templates"})))
getDefaultTemplate ==
  In("documents", ListDocumentTemplates \o May({"ErrTemplateNotFound"}))
RenderInvoice ==
  In("documents", GetInvoice \o Either(EnsureDefaultInvoiceTemplate
    \o getDefaultTemplate, GetDocumentTemplate)
    \o May({"ErrTemplateTypeMismatch"}) \o Account!Get
    \o Maybe(Catching("crm", {"ErrCustomerNotFound"}, GetCustomer)))
RenderContract ==
  In("documents", GetContract \o Either(EnsureDefaultContractTemplate
    \o getDefaultTemplate, GetDocumentTemplate)
    \o May({"ErrTemplateTypeMismatch"}) \o Account!Get)
writeDocumentsError ==
  Answers("documents", 404, {"ErrFirmNotFound", "ErrTemplateNotFound"}) @@
    Answers("invoicing", 404, {"ErrFirmNotFound", "ErrInvoiceNotFound"}) @@
    Answers("contracts", 404, {"ErrFirmNotFound", "ErrContractNotFound"}) @@
    Answers("documents", 403, {"ErrNotOwner"}) @@
    Answers("documents", 400, {"ErrInvalidTemplate",
    "ErrTemplateTypeMismatch"})
handleListDocumentTemplates ==
  Handler(Caller \o ListDocumentTemplates, writeDocumentsError, 200)
handleCreateDocumentTemplate ==
  Handler(Caller \o Inputs({"body"}) \o CreateDocumentTemplate,
    writeDocumentsError, 201)
handleGetDocumentTemplate ==
  Handler(Caller \o Inputs({"id"}) \o GetDocumentTemplate,
    writeDocumentsError, 200)
handleUpdateDocumentTemplate ==
  Handler(Caller \o Inputs({"id", "body"}) \o UpdateDocumentTemplate,
    writeDocumentsError, 200)
handleRenderInvoice ==
  Handler(Caller \o Inputs({"invoiceID"}) \o RenderInvoice,
    writeDocumentsError, 200)
handleRenderContract ==
  Handler(Caller \o Inputs({"contractID"}) \o RenderContract,
    writeDocumentsError, 200)

----------------------------------------------------------------------------
(* RegisterRoutes of each package. *)

accountingRoutes ==
  Of("accounting", [handleListAccounts |-> handleListAccounts,
    handleCreateAccount |-> handleCreateAccount,
    handleUpdateAccount |-> handleUpdateAccount,
    handleAccountBalance |-> handleAccountBalance,
    handleListJournalEntries |-> handleListJournalEntries,
    handlePostJournalEntry |-> handlePostJournalEntry,
    handlePnLReport |-> handlePnLReport,
    handleBalanceSheetReport |-> handleBalanceSheetReport])
consolidationRoutes ==
  Of("consolidation", [handleListFirmGroups |-> handleListFirmGroups,
    handleCreateFirmGroup |-> handleCreateFirmGroup,
    handleAddGroupMember |-> handleAddGroupMember,
    handleIntercompanyTransfer |-> handleIntercompanyTransfer,
    handleConsolidatedPnL |-> handleConsolidatedPnL,
    handleGetFirmGroupForFirm |-> handleGetFirmGroupForFirm])
currencyRoutes ==
  Of("currency", [handleCreateRate |-> handleCreateRate,
    handleListRates |-> Open(handleListRates)])
costcenterRoutes ==
  Of("costcenter", [handleListCostCenters |-> handleListCostCenters,
    handleCreateCostCenter |-> handleCreateCostCenter,
    handleUpdateCostCenter |-> handleUpdateCostCenter,
    handleCostCenterPnL |-> handleCostCenterPnL])
budgetRoutes ==
  Of("budget", [handleListBudgets |-> handleListBudgets,
    handleCreateBudget |-> handleCreateBudget,
    handleGetBudget |-> handleGetBudget,
    handleUpdateBudget |-> handleUpdateBudget,
    handleApproveBudget |-> handleApproveBudget,
    handleListBudgetLines |-> handleListBudgetLines,
    handleCreateBudgetLine |-> handleCreateBudgetLine])
crmRoutes ==
  Of("crm", [handleListCustomers |-> handleListCustomers,
    handleCreateCustomer |-> handleCreateCustomer,
    handleGetCustomer |-> handleGetCustomer,
    handleUpdateCustomer |-> handleUpdateCustomer,
    handleListInteractions |-> handleListInteractions,
    handleCreateInteraction |-> handleCreateInteraction,
    handleListOpportunities |-> handleListOpportunities,
    handleCreateOpportunity |-> handleCreateOpportunity,
    handleGetOpportunity |-> handleGetOpportunity,
    handleUpdateOpportunity |-> handleUpdateOpportunity,
    handleUpdateOpportunityStage |-> handleUpdateOpportunityStage,
    handleGetCustomerTimeline |-> handleGetCustomerTimeline])
salesordersRoutes ==
  Of("salesorders", [handleListSalesOrders |-> handleListSalesOrders,
    handleCreateSalesOrder |-> handleCreateSalesOrder,
    handleGetSalesOrder |-> handleGetSalesOrder,
    handleUpdateSalesOrderStatus |-> handleUpdateSalesOrderStatus])
procurementRoutes ==
  Of("procurement", [handleListPurchaseOrders |-> handleListPurchaseOrders,
    handleCreatePurchaseOrder |-> handleCreatePurchaseOrder,
    handleGetPurchaseOrder |-> handleGetPurchaseOrder,
    handleUpdatePurchaseOrderStatus |-> handleUpdatePurchaseOrderStatus])
invoicingRoutes ==
  Of("invoicing", [handleListInvoices |-> handleListInvoices,
    handleCreateInvoice |-> handleCreateInvoice,
    handleGetInvoice |-> handleGetInvoice,
    handleUpdateInvoiceStatus |-> handleUpdateInvoiceStatus,
    handleBulkUpdateInvoiceStatus |-> handleBulkUpdateInvoiceStatus,
    handleAddInvoiceLine |-> handleAddInvoiceLine,
    handleUpdateInvoiceLine |-> handleUpdateInvoiceLine,
    handleDeleteInvoiceLine |-> handleDeleteInvoiceLine,
    handleRecordPayment |-> handleRecordPayment,
    handleListPayments |-> handleListPayments,
    handleReceivablesAging |-> handleReceivablesAging])
contractsRoutes ==
  Of("contracts", [handleListContracts |-> handleListContracts,
    handleListExpiringContracts |-> handleListExpiringContracts,
    handleCreateContract |-> handleCreateContract,
    handleGetContract |-> handleGetContract,
    handleUpdateContract |-> handleUpdateContract,
    handleListDocuments |-> handleListDocuments,
    handleCreateDocument |-> handleCreateDocument])
documentsRoutes ==
  Of("documents",
    [handleListDocumentTemplates |-> handleListDocumentTemplates,
    handleCreateDocumentTemplate |-> handleCreateDocumentTemplate,
    handleGetDocumentTemplate |-> handleGetDocumentTemplate,
    handleUpdateDocumentTemplate |-> handleUpdateDocumentTemplate,
    handleRenderInvoice |-> handleRenderInvoice,
    handleRenderContract |-> handleRenderContract])
Routes ==
  accountingRoutes @@
    consolidationRoutes @@
    currencyRoutes @@
    costcenterRoutes @@
    budgetRoutes @@
    crmRoutes @@
    salesordersRoutes @@
    procurementRoutes @@
    invoicingRoutes @@
    contractsRoutes @@
    documentsRoutes
==============================================================================
