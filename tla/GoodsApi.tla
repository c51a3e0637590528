------------------------------ MODULE GoodsApi -------------------------------
(*****************************************************************************)
(* Goods: products and stock, warehouses with transfers and counts,          *)
(* deliveries, production, and the assets with their maintenance.            *)
(*****************************************************************************)
EXTENDS HttpSteps

Account == INSTANCE AccountApi
Trade == INSTANCE TradeApi

----------------------------------------------------------------------------
(* internal/inventory *)

CreateProduct ==
  In("inventory", May({"ErrInvalidProduct"}) \o InTx(Member \o Owner
    \o Put({"products"}) \o May({"ErrProductSKUExists"}) \o Audit) \o Tell
    \o Account!CompleteStep)
CreateProductTx ==
  In("inventory", May({"ErrInvalidProduct"}) \o Put({"products"})
    \o May({"ErrProductSKUExists"}))
UpdateProduct ==
  In("inventory", May({"ErrInvalidProduct"}) \o InTx(Member \o Owner
    \o Put({"products"}) \o May({"ErrProductNotFound"}) \o Audit) \o Tell)
ListProducts == In("inventory", InTx(Member))
GetProduct == In("inventory", InTx(Member \o May({"ErrProductNotFound"})))
AdjustStockTx ==
  In("inventory", May({"ErrInvalidStockAdjustment", "ErrNoDefaultLocation"})
    \o Put({"stock_levels"}) \o May({"ErrInsufficientStock"})
    \o Put({"stock_levels"}) \o May({"ErrInsufficientStock"})
    \o Put({"stock_movements"}))
GetStock == In("inventory", InTx(Member))
ListStockForFirm == In("inventory", InTx(Member))
ListStockMovements == In("inventory", InTx(Member))
CreateSupplier ==
  In("inventory", May({"ErrInvalidSupplier"}) \o InTx(Member \o Owner
    \o Put({"suppliers"}) \o Audit))
UpdateSupplier ==
  In("inventory", May({"ErrInvalidSupplier"}) \o InTx(Member \o Owner
    \o Put({"suppliers"}) \o May({"ErrSupplierNotFound"}) \o Audit))
ListSuppliers == In("inventory", InTx(Member))
GetSupplier == In("inventory", InTx(Member \o May({"ErrSupplierNotFound"})))
writeInventoryError ==
  Answers("inventory", 404, {"ErrFirmNotFound", "ErrProductNotFound",
    "ErrSupplierNotFound"}) @@
    Answers("inventory", 403, {"ErrNotOwner"}) @@
    Answers("inventory", 400, {"ErrInvalidProduct", "ErrInvalidSupplier",
    "ErrProductSKUExists"}) @@
    Answers("inventory", 409, {"ErrNoDefaultLocation"})
handleListProducts ==
  Handler(Caller \o Inputs({"updated_since"}) \o ListProducts
    \o Inputs({"fields"}), writeInventoryError, 200)
handleCreateProduct ==
  Handler(Caller \o Inputs({"body"}) \o CreateProduct, writeInventoryError,
    201)
handleGetProduct ==
  Handler(Caller \o Inputs({"productID"}) \o GetProduct, writeInventoryError,
    200)
handleUpdateProduct ==
  Handler(Caller \o Inputs({"productID", "body"}) \o UpdateProduct,
    writeInventoryError, 200)
handleGetStock ==
  Handler(Caller \o Inputs({"productID"}) \o GetStock, writeInventoryError,
    200)
handleListStockMovements ==
  Handler(Caller \o Inputs({"productId"}) \o ListStockMovements,
    writeInventoryError, 200)
handleListSuppliers ==
  Handler(Caller \o ListSuppliers, writeInventoryError, 200)
handleCreateSupplier ==
  Handler(Caller \o Inputs({"body"}) \o CreateSupplier, writeInventoryError,
    201)
handleGetSupplier ==
  Handler(Caller \o Inputs({"supplierID"}) \o GetSupplier,
    writeInventoryError, 200)
handleUpdateSupplier ==
  Handler(Caller \o Inputs({"supplierID", "body"}) \o UpdateSupplier,
    writeInventoryError, 200)

----------------------------------------------------------------------------
(* internal/warehouse *)

CreateCycleCountSession ==
  In("warehouse", May({"ErrInvalidCycleCount"}) \o InTx(Member \o Owner
    \o May({"ErrWarehouseNotFound"}) \o Put({"cycle_count_sessions"})
    \o Maybe(May({"ErrInvalidLocation"}) \o Put({"cycle_count_lines"}))
    \o Audit))
ListCycleCountSessions == In("warehouse", InTx(Member))
GetCycleCountSession ==
  In("warehouse", InTx(Member \o May({"ErrCycleCountSessionNotFound"})))
RecordCount ==
  In("warehouse", May({"ErrInvalidCycleCount"}) \o InTx(Member \o Owner
    \o May({"ErrCycleCountSessionNotFound", "ErrInvalidCycleCountTransition"})
    \o Put({"cycle_count_lines"}) \o May({"ErrCycleCountLineNotFound"})))
CompleteCycleCountSession ==
  In("warehouse", InTx(Member \o Owner \o May({"ErrCycleCountSessionNotFound",
    "ErrInvalidCycleCountTransition"}) \o Maybe(Maybe(AdjustStockTx
    \o Put({"cycle_count_lines"})) \o Maybe(Trade!PostJournalEntryTx))
    \o Put({"cycle_count_sessions"}) \o Audit))
CreateTransfer ==
  In("warehouse", May({"ErrInvalidTransfer"}) \o InTx(Member \o Owner
    \o May({"ErrInvalidLocation"}) \o Put({"inventory_transfers"}) \o Audit))
ListTransfers == In("warehouse", InTx(Member))
GetTransfer == In("warehouse", InTx(Member \o May({"ErrTransferNotFound"})))
CompleteTransfer ==
  In("warehouse", InTx(Member \o Owner \o May({"ErrTransferNotFound",
    "ErrInvalidTransferTransition"}) \o AdjustStockTx \o AdjustStockTx
    \o Put({"inventory_transfers"}) \o Audit))
CancelTransfer ==
  In("warehouse", InTx(Member \o Owner \o May({"ErrTransferNotFound",
    "ErrInvalidTransferTransition"}) \o Put({"inventory_transfers"})
    \o Audit))
CreateWarehouse ==
  In("warehouse", May({"ErrInvalidWarehouse"}) \o InTx(Member \o Owner
    \o Put({"warehouses"}) \o Audit))
UpdateWarehouse ==
  In("warehouse", May({"ErrInvalidWarehouse"}) \o InTx(Member \o Owner
    \o Put({"warehouses"}) \o May({"ErrWarehouseNotFound"}) \o Audit))
ListWarehouses == In("warehouse", InTx(Member))
GetWarehouse == In("warehouse", InTx(Member \o May({"ErrWarehouseNotFound"})))
CreateLocation ==
  In("warehouse", May({"ErrInvalidLocation"}) \o InTx(Member \o Owner
    \o May({"ErrWarehouseNotFound", "ErrInvalidLocation"})
    \o Put({"warehouse_locations"}) \o May({"ErrInvalidLocation"}) \o Audit))
UpdateLocation ==
  In("warehouse", May({"ErrInvalidLocation"}) \o InTx(Member \o Owner
    \o Put({"warehouse_locations"}) \o May({"ErrLocationNotFound"}) \o Audit))
ListLocations == In("warehouse", InTx(Member))
GetWarehouseStock ==
  In("warehouse", InTx(Member \o May({"ErrWarehouseNotFound"})))
writeWarehouseError ==
  Answers("warehouse", 404, {"ErrFirmNotFound", "ErrWarehouseNotFound",
    "ErrLocationNotFound", "ErrTransferNotFound",
    "ErrCycleCountSessionNotFound", "ErrCycleCountLineNotFound"}) @@
    Answers("warehouse", 403, {"ErrNotOwner"}) @@
    Answers("warehouse", 400, {"ErrInvalidWarehouse", "ErrInvalidLocation",
    "ErrInvalidTransfer", "ErrInvalidTransferTransition",
    "ErrInvalidCycleCount", "ErrInvalidCycleCountTransition"})
handleListWarehouses ==
  Handler(Caller \o ListWarehouses, writeWarehouseError, 200)
handleCreateWarehouse ==
  Handler(Caller \o Inputs({"body"}) \o CreateWarehouse, writeWarehouseError,
    201)
handleGetWarehouse ==
  Handler(Caller \o Inputs({"warehouseID"}) \o GetWarehouse,
    writeWarehouseError, 200)
handleUpdateWarehouse ==
  Handler(Caller \o Inputs({"warehouseID", "body"}) \o UpdateWarehouse,
    writeWarehouseError, 200)
handleGetWarehouseStock ==
  Handler(Caller \o Inputs({"warehouseID"}) \o GetWarehouseStock,
    writeWarehouseError, 200)
handleListLocations ==
  Handler(Caller \o Inputs({"warehouseID"}) \o ListLocations,
    writeWarehouseError, 200)
handleCreateLocation ==
  Handler(Caller \o Inputs({"warehouseID", "body"}) \o CreateLocation,
    writeWarehouseError, 201)
handleUpdateLocation ==
  Handler(Caller \o Inputs({"locationID", "body"}) \o UpdateLocation,
    writeWarehouseError, 200)
handleListTransfers ==
  Handler(Caller \o ListTransfers, writeWarehouseError, 200)
handleCreateTransfer ==
  Handler(Caller \o Inputs({"body"}) \o CreateTransfer, writeWarehouseError,
    201)
handleGetTransfer ==
  Handler(Caller \o Inputs({"transferID"}) \o GetTransfer,
    writeWarehouseError, 200)
handleCompleteTransfer ==
  Handler(Caller \o Inputs({"transferID"}) \o CompleteTransfer,
    writeWarehouseError, 200)
handleCancelTransfer ==
  Handler(Caller \o Inputs({"transferID"}) \o CancelTransfer,
    writeWarehouseError, 200)
handleListCycleCountSessions ==
  Handler(Caller \o ListCycleCountSessions, writeWarehouseError, 200)
handleCreateCycleCountSession ==
  Handler(Caller \o Inputs({"body"}) \o CreateCycleCountSession,
    writeWarehouseError, 201)
handleGetCycleCountSession ==
  Handler(Caller \o Inputs({"sessionID"}) \o GetCycleCountSession,
    writeWarehouseError, 200)
handleRecordCount ==
  Handler(Caller \o Inputs({"sessionID", "lineID", "body"}) \o RecordCount,
    writeWarehouseError, 200)
handleCompleteCycleCountSession ==
  Handler(Caller \o Inputs({"sessionID", "body"})
    \o CompleteCycleCountSession, writeWarehouseError, 200)

----------------------------------------------------------------------------
(* internal/logistics *)

CreateDelivery ==
  In("logistics", May({"ErrInvalidDelivery"}) \o InTx(Member \o Owner
    \o Put({"deliveries"}) \o Audit))
UpdateDelivery ==
  In("logistics", May({"ErrInvalidDelivery"}) \o InTx(Member \o Owner
    \o Put({"deliveries"}) \o May({"ErrDeliveryNotFound"}) \o Audit))
ListDeliveries == In("logistics", InTx(Member \o May({"ErrInvalidFilter"})))
GetDelivery == In("logistics", InTx(Member \o May({"ErrDeliveryNotFound"})))
CreateDeliveryTx == In("logistics", Put({"deliveries"}))
writeLogisticsError ==
  Answers("logistics", 404, {"ErrFirmNotFound", "ErrDeliveryNotFound"}) @@
    Answers("logistics", 403, {"ErrNotOwner"}) @@
    Answers("logistics", 400, {"ErrInvalidDelivery", "ErrInvalidFilter"})
handleListDeliveries ==
  Handler(Caller \o Inputs({"filters"}) \o ListDeliveries,
    writeLogisticsError, 200)
handleCreateDelivery ==
  Handler(Caller \o Inputs({"body"}) \o CreateDelivery, writeLogisticsError,
    201)
handleGetDelivery ==
  Handler(Caller \o Inputs({"deliveryID"}) \o GetDelivery,
    writeLogisticsError, 200)
handleUpdateDelivery ==
  Handler(Caller \o Inputs({"deliveryID", "body"}) \o UpdateDelivery,
    writeLogisticsError, 200)

----------------------------------------------------------------------------
(* internal/manufacturing *)

CreateBOM ==
  In("manufacturing", May({"ErrInvalidBOM", "ErrInvalidBOMLine"})
    \o InTx(Member \o Owner \o Put({"bom_headers"})
    \o Maybe(Put({"bom_headers"})) \o Maybe(Put({"bom_lines"})) \o Audit))
ListBOMs == In("manufacturing", InTx(Member))
GetBOM == In("manufacturing", InTx(Member \o May({"ErrBOMNotFound"})))
UpdateBOM ==
  In("manufacturing", InTx(Member \o Owner \o May({"ErrBOMNotFound"})
    \o Maybe(Put({"bom_headers"})) \o Audit))
DeleteBOM ==
  In("manufacturing", InTx(Member \o Owner \o Put({"bom_headers"})
    \o May({"ErrBOMNotFound"}) \o Audit))
AddBOMLine ==
  In("manufacturing", May({"ErrInvalidBOMLine"}) \o InTx(Member \o Owner
    \o May({"ErrBOMNotFound"}) \o Put({"bom_lines"})))
DeleteBOMLine ==
  In("manufacturing", InTx(Member \o Owner \o Put({"bom_lines"})
    \o May({"ErrBOMLineNotFound", "ErrBOMNotFound"})))
CreateProductionOrder ==
  In("manufacturing", May({"ErrInvalidProductionOrder"}) \o InTx(Member
    \o Owner \o May({"ErrBOMNotFound", "ErrInvalidProductionOrder"})
    \o Put({"production_order_sequences", "production_orders"}) \o Audit))
ListProductionOrders == In("manufacturing", InTx(Member))
GetProductionOrder ==
  In("manufacturing", InTx(Member \o May({"ErrProductionOrderNotFound"})))
CancelProductionOrder ==
  In("manufacturing", InTx(Member \o Owner
    \o May({"ErrProductionOrderNotFound",
    "ErrInvalidProductionOrderTransition"}) \o Put({"production_orders"})
    \o Audit))
StartProductionOrder ==
  In("manufacturing", InTx(Member \o Owner
    \o May({"ErrProductionOrderNotFound",
    "ErrInvalidProductionOrderTransition"}) \o Maybe(AdjustStockTx
    \o Put({"production_order_material_issues"}))
    \o Put({"production_orders"}) \o Audit))
CompleteProductionOrder ==
  In("manufacturing", May({"ErrInvalidProductionOrder"}) \o InTx(Member
    \o Owner \o May({"ErrProductionOrderNotFound",
    "ErrInvalidProductionOrderTransition"}) \o AdjustStockTx
    \o Maybe(Trade!PostJournalEntryTx) \o Put({"production_orders"})
    \o Audit))
writeManufacturingError ==
  Answers("manufacturing", 404, {"ErrFirmNotFound", "ErrBOMNotFound",
    "ErrBOMLineNotFound", "ErrProductionOrderNotFound"}) @@
    Answers("manufacturing", 403, {"ErrNotOwner"}) @@
    Answers("manufacturing", 400, {"ErrInvalidBOM", "ErrInvalidBOMLine",
    "ErrInvalidProductionOrder", "ErrInvalidProductionOrderTransition"})
handleListBOMs ==
  Handler(Caller \o Inputs({"productId"}) \o ListBOMs,
    writeManufacturingError, 200)
handleCreateBOM ==
  Handler(Caller \o Inputs({"body"}) \o CreateBOM, writeManufacturingError,
    201)
handleGetBOM ==
  Handler(Caller \o Inputs({"bomID"}) \o GetBOM, writeManufacturingError, 200)
handleUpdateBOM ==
  Handler(Caller \o Inputs({"bomID", "body"}) \o UpdateBOM,
    writeManufacturingError, 200)
handleDeleteBOM ==
  Handler(Caller \o Inputs({"bomID"}) \o DeleteBOM, writeManufacturingError,
    204)
handleAddBOMLine ==
  Handler(Caller \o Inputs({"bomID", "body"}) \o AddBOMLine,
    writeManufacturingError, 201)
handleDeleteBOMLine ==
  Handler(Caller \o Inputs({"bomID", "lineID"}) \o DeleteBOMLine,
    writeManufacturingError, 200)
handleListProductionOrders ==
  Handler(Caller \o ListProductionOrders, writeManufacturingError, 200)
handleCreateProductionOrder ==
  Handler(Caller \o Inputs({"body", "plannedStart", "plannedEnd"})
    \o CreateProductionOrder, writeManufacturingError, 201)
handleGetProductionOrder ==
  Handler(Caller \o Inputs({"orderID"}) \o GetProductionOrder,
    writeManufacturingError, 200)
handleStartProductionOrder ==
  Handler(Caller \o Inputs({"orderID"}) \o StartProductionOrder,
    writeManufacturingError, 200)
handleCompleteProductionOrder ==
  Handler(Caller \o Inputs({"orderID", "body"}) \o CompleteProductionOrder,
    writeManufacturingError, 200)
handleCancelProductionOrder ==
  Handler(Caller \o Inputs({"orderID"}) \o CancelProductionOrder,
    writeManufacturingError, 200)

----------------------------------------------------------------------------
(* internal/asset *)

CreateAsset ==
  In("asset", May({"ErrInvalidAsset"}) \o InTx(Member \o Owner
    \o Put({"assets"}) \o May({"ErrDuplicateAssetNumber"}) \o Audit))
UpdateAsset ==
  In("asset", May({"ErrInvalidAsset"}) \o InTx(Member \o Owner
    \o Put({"assets"}) \o May({"ErrAssetNotFound", "ErrDuplicateAssetNumber"})
    \o Audit))
ListAssets == In("asset", InTx(Member))
GetAsset == In("asset", InTx(Member \o May({"ErrAssetNotFound"})))
CreateMaintenanceSchedule ==
  In("asset", May({"ErrInvalidMaintenanceSchedule"}) \o InTx(Member \o Owner
    \o May({"ErrAssetNotFound"}) \o Put({"maintenance_schedules"}) \o Audit))
UpdateMaintenanceSchedule ==
  In("asset", May({"ErrInvalidMaintenanceSchedule"}) \o InTx(Member \o Owner
    \o Put({"maintenance_schedules"})
    \o May({"ErrMaintenanceScheduleNotFound"}) \o Audit))
ListMaintenanceSchedules == In("asset", InTx(Member))
CreateMaintenanceRecord ==
  In("asset", May({"ErrInvalidMaintenanceRecord"}) \o InTx(Member \o Owner
    \o May({"ErrAssetNotFound", "ErrMaintenanceScheduleNotFound",
    "ErrInvalidMaintenanceRecord"}) \o Put({"maintenance_records"})
    \o Maybe(Put({"maintenance_schedules"}))
    \o Maybe(Trade!PostJournalEntryTx) \o Audit))
ListMaintenanceRecords == In("asset", InTx(Member))
writeAssetError ==
  Answers("asset", 404, {"ErrFirmNotFound", "ErrAssetNotFound",
    "ErrMaintenanceScheduleNotFound"}) @@
    Answers("asset", 403, {"ErrNotOwner"}) @@
    Answers("asset", 400, {"ErrInvalidAsset", "ErrDuplicateAssetNumber",
    "ErrInvalidMaintenanceSchedule", "ErrInvalidMaintenanceRecord"})
handleListAssets == Handler(Caller \o ListAssets, writeAssetError, 200)
handleCreateAsset ==
  Handler(Caller \o Inputs({"body"}) \o CreateAsset, writeAssetError, 201)
handleGetAsset ==
  Handler(Caller \o Inputs({"assetID"}) \o GetAsset, writeAssetError, 200)
handleUpdateAsset ==
  Handler(Caller \o Inputs({"assetID", "body"}) \o UpdateAsset,
    writeAssetError, 200)
handleListMaintenanceSchedules ==
  Handler(Caller \o Inputs({"assetID"}) \o ListMaintenanceSchedules,
    writeAssetError, 200)
handleCreateMaintenanceSchedule ==
  Handler(Caller \o Inputs({"assetID", "body"}) \o CreateMaintenanceSchedule,
    writeAssetError, 201)
handleUpdateMaintenanceSchedule ==
  Handler(Caller \o Inputs({"scheduleID", "body"})
    \o UpdateMaintenanceSchedule, writeAssetError, 200)
handleListMaintenanceRecords ==
  Handler(Caller \o Inputs({"assetID"}) \o ListMaintenanceRecords,
    writeAssetError, 200)
handleCreateMaintenanceRecord ==
  Handler(Caller \o Inputs({"assetID", "body"}) \o CreateMaintenanceRecord,
    writeAssetError, 201)

----------------------------------------------------------------------------
(* RegisterRoutes of each package. *)

inventoryRoutes ==
  Of("inventory", [handleListProducts |-> handleListProducts,
    handleCreateProduct |-> handleCreateProduct,
    handleGetProduct |-> handleGetProduct,
    handleUpdateProduct |-> handleUpdateProduct,
    handleGetStock |-> handleGetStock,
    handleListStockMovements |-> handleListStockMovements,
    handleListSuppliers |-> handleListSuppliers,
    handleCreateSupplier |-> handleCreateSupplier,
    handleGetSupplier |-> handleGetSupplier,
    handleUpdateSupplier |-> handleUpdateSupplier])
warehouseRoutes ==
  Of("warehouse", [handleListWarehouses |-> handleListWarehouses,
    handleCreateWarehouse |-> handleCreateWarehouse,
    handleGetWarehouse |-> handleGetWarehouse,
    handleUpdateWarehouse |-> handleUpdateWarehouse,
    handleGetWarehouseStock |-> handleGetWarehouseStock,
    handleListLocations |-> handleListLocations,
    handleCreateLocation |-> handleCreateLocation,
    handleUpdateLocation |-> handleUpdateLocation,
    handleListTransfers |-> handleListTransfers,
    handleCreateTransfer |-> handleCreateTransfer,
    handleGetTransfer |-> handleGetTransfer,
    handleCompleteTransfer |-> handleCompleteTransfer,
    handleCancelTransfer |-> handleCancelTransfer,
    handleListCycleCountSessions |-> handleListCycleCountSessions,
    handleCreateCycleCountSession |-> handleCreateCycleCountSession,
    handleGetCycleCountSession |-> handleGetCycleCountSession,
    handleRecordCount |-> handleRecordCount,
    handleCompleteCycleCountSession |-> handleCompleteCycleCountSession])
logisticsRoutes ==
  Of("logistics", [handleListDeliveries |-> handleListDeliveries,
    handleCreateDelivery |-> handleCreateDelivery,
    handleGetDelivery |-> handleGetDelivery,
    handleUpdateDelivery |-> handleUpdateDelivery])
manufacturingRoutes ==
  Of("manufacturing", [handleListBOMs |-> handleListBOMs,
    handleCreateBOM |-> handleCreateBOM, handleGetBOM |-> handleGetBOM,
    handleUpdateBOM |-> handleUpdateBOM, handleDeleteBOM |-> handleDeleteBOM,
    handleAddBOMLine |-> handleAddBOMLine,
    handleDeleteBOMLine |-> handleDeleteBOMLine,
    handleListProductionOrders |-> handleListProductionOrders,
    handleCreateProductionOrder |-> handleCreateProductionOrder,
    handleGetProductionOrder |-> handleGetProductionOrder,
    handleStartProductionOrder |-> handleStartProductionOrder,
    handleCompleteProductionOrder |-> handleCompleteProductionOrder,
    handleCancelProductionOrder |-> handleCancelProductionOrder])
assetRoutes ==
  Of("asset", [handleListAssets |-> handleListAssets,
    handleCreateAsset |-> handleCreateAsset,
    handleGetAsset |-> handleGetAsset,
    handleUpdateAsset |-> handleUpdateAsset,
    handleListMaintenanceSchedules |-> handleListMaintenanceSchedules,
    handleCreateMaintenanceSchedule |-> handleCreateMaintenanceSchedule,
    handleUpdateMaintenanceSchedule |-> handleUpdateMaintenanceSchedule,
    handleListMaintenanceRecords |-> handleListMaintenanceRecords,
    handleCreateMaintenanceRecord |-> handleCreateMaintenanceRecord])
Routes ==
  inventoryRoutes @@
    warehouseRoutes @@
    logisticsRoutes @@
    manufacturingRoutes @@
    assetRoutes
==============================================================================
