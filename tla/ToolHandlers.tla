---------------------------- MODULE ToolHandlers ----------------------------
(***************************************************************************)
(* The dispatch table (buildDispatchTable and the handlers it takes from   *)
(* the vendor, merge, bulk, commerce and gap modules): the requests each   *)
(* tool sends to Autotask, in order.  A tool whose program is Ends sends   *)
(* none: it works on Postgres, on the shadow or on its arguments alone.    *)
(***************************************************************************)
EXTENDS ServiceRecords, TLC

\* Checks the time tools share.  A failed lookup lets the write proceed.
resolveTimeEntryRole == Tried(resolveWorkTimeEntryRole) \o Ends
checkWorkType == Tried(validateWorkType) \o Ends
workDate == Maybe(resolveResourceTimeZone)
\* A write whose known refusals end the tool with an explanation; any other failure throws.
explainTimeEntryWrite(s) == Either(s, Refused(s))

\* Tools with a path of their own.
backfill_history ==
  Ends \o Maybe(Look({"Tickets"}) \o Dry)
    \o Each(Glance({"FieldInfo", "Resources", "ThresholdInformation", "TicketHistory", "TicketNotes", "Tickets", "TimeEntries"}))
get_activity_feed ==
  Ends \o Maybe(Glance({"TicketHistory", "TicketNotes", "Tickets", "TimeEntries"})) \o Tried(getActorContext)
shadow_sync == Ends \o Maybe(Look({"Any"}))
search_companies ==
  Maybe(getPicklistValues \o Ends) \o Either(findCompanies, searchCompanies \o Glance({"FieldInfo"}))
create_ticket == Either(createTicketWithConfigurationItems, createTicket)
update_ticket ==
  Ends \o Maybe(Tried(getFieldInfo) \o Ends) \o updateTicket
    \o Tried(getTicket) \o Ends \o Maybe(Tried(getFieldInfo))
get_ticket_by_number == resolveTicketRef \o Ends \o getTicketFull
set_ticket_contract == resolveTicketRef \o Ends \o setTicketContract
get_ticket_change_history == resolveTicketRef \o Ends \o getTicketHistoryEvents
get_ticket_email_context == resolveTicketRef \o Ends \o getTicketEmailContext
create_time_entry ==
  Ends \o Maybe(resolveResourceByName) \o Maybe(getInternalBillingCodeNames \o Ends)
    \o resolveTimeEntryRole \o checkWorkType \o explainTimeEntryWrite(createTimeEntry)
    \o Tried(getTimeEntry) \o Maybe(Tried(getResource))
add_ticket_update ==
  Ends \o planTicketUpdate \o Ends \o Maybe(workDate \o resolveTimeEntryRole \o checkWorkType) \o Dry
    \o postTicketNoteOnce \o Maybe(explainTimeEntryWrite(logTimeIdempotent)) \o Maybe(updateTicket)
log_my_time ==
  Ends \o Maybe(resolveInternalBillingCodeByName \o Ends) \o resolveTimeEntryRole \o checkWorkType \o workDate
    \o explainTimeEntryWrite(logTimeIdempotent)
get_configuration_item == getConfigurationItem \o Ends \o Maybe(enrichConfigurationItemReferences)
\* Its program goes by the method, so the table holds the early return only.
raw_request(method) == Ends \o rawRequest(method)
search_ticket_notes == searchTicketNotes \o labelTicketNotes
create_ticket_note == Either(createTicketNoteIdempotent, createTicketNote)
create_quote == Maybe(Glance({"Companies"})) \o Maybe(Tried(searchOpportunities)) \o createQuote
create_quote_item == Maybe(Glance({"Products", "Services"})) \o createQuoteItem
update_time_entry ==
  Ends \o Maybe(getTimeEntry \o Ends \o resolveTimeEntryRole) \o checkWorkType
    \o explainTimeEntryWrite(updateTimeEntry) \o Maybe(Tried(getTimeEntry))
delete_time_entry ==
  getTimeEntry \o Ends \o DryFirst \o Ends \o Either(deleteTimeEntry, Refused(deleteTimeEntry))
    \o Tried(getTimeEntry)
delete_task_with_time ==
  inspectTaskForDelete \o Ends \o Tried(getTimeEntry) \o DryFirst
    \o Each(Tried(deleteTimeEntry)) \o Each(Tried(removeTaskResource)) \o Tried(inspectTaskForDelete)

ActivityHandlers ==
  [get_api_usage |-> getApiUsage, search_audit_activity |-> Ends, backfill_history |-> backfill_history,
   get_backpressure |-> Maybe(Tried(getApiUsage)), get_operations |-> Ends,
   get_activity_feed |-> get_activity_feed]
ShadowAndCompanyHandlers ==
  [report_resource_activity |-> Ends \o Maybe(Glance({"TicketHistory", "Tickets", "TimeEntries"})),
   report_resource_daily_audit |-> Ends \o Maybe(Glance({"TicketHistory", "Tickets", "TimeEntries"})) \o getResourceNames,
   shadow_status |-> Ends, shadow_query |-> Ends, shadow_aggregate |-> Ends, shadow_sync |-> shadow_sync,
   test_connection |-> testConnection, whoami |-> Look({"Resources"})]
CompanyAndContactHandlers ==
  [search_companies |-> search_companies, get_company |-> Ends \o getCompanyFull,
   get_contact |-> Ends \o getContactFull,
   find_company_contact_candidates |-> Ends \o findCompanyContactCandidates,
   find_duplicate_companies |-> Ends \o findDuplicateCompanies,
   find_duplicate_contacts |-> Ends \o findDuplicateContacts, create_company |-> createCompany,
   update_company |-> updateCompany, get_company_site_configuration |-> getCompanySiteConfigurations,
   update_company_site_configuration |-> updateCompanySiteConfiguration,
   search_contacts |-> Either(findContacts, searchContacts), create_contact |-> createContact,
   find_or_create_contact |-> findOrCreateContact, update_contact |-> updateContact]
TicketHandlers ==
  [search_tickets |-> searchTickets, get_ticket_details |-> getTicket, create_ticket |-> create_ticket,
   update_ticket |-> update_ticket, move_ticket_to_company |-> moveTicketToCompany,
   find_ticket_by_external_id |-> findTicketByExternalId,
   search_ticket_configuration_items |-> searchTicketConfigurationItems,
   add_ticket_configuration_item |-> addTicketConfigurationItem,
   remove_ticket_configuration_item |-> removeTicketConfigurationItem]
TicketChargeAndHistoryHandlers ==
  [get_ticket_charge |-> getTicketCharge, search_ticket_charges |-> searchTicketCharges,
   create_ticket_charge |-> createTicketCharge, update_ticket_charge |-> updateTicketCharge,
   delete_ticket_charge |-> deleteTicketCharge, get_ticket_history |-> getTicketHistory,
   search_ticket_history |-> searchTicketHistory, get_actor_roster |-> getActorRoster,
   get_ticket_by_number |-> get_ticket_by_number, set_ticket_contract |-> set_ticket_contract,
   get_ticket_change_history |-> get_ticket_change_history,
   get_ticket_email_context |-> get_ticket_email_context, get_picklists |-> Ends \o getPicklists,
   resolve_record_reference |-> resolveRecordReference]
ServiceCallHandlers ==
  [get_service_call |-> getServiceCall, search_service_calls |-> searchServiceCalls,
   reconcile_service_call |-> reconcileServiceCall,
   report_service_call_leakage |-> reportServiceCallLeakage,
   analyze_ticket_billing_gaps |-> analyzeTicketBillingGaps,
   report_ticket_billing_gaps |-> reportTicketBillingGaps, create_service_call |-> createServiceCall,
   update_service_call |-> updateServiceCall, delete_service_call |-> deleteServiceCall,
   search_service_call_tickets |-> searchServiceCallTickets,
   create_service_call_ticket |-> createServiceCallTicket,
   delete_service_call_ticket |-> deleteServiceCallTicket,
   search_service_call_ticket_resources |-> searchServiceCallTicketResources,
   create_service_call_ticket_resource |-> createServiceCallTicketResource,
   delete_service_call_ticket_resource |-> deleteServiceCallTicketResource,
   search_service_call_tasks |-> searchServiceCallTasks,
   create_service_call_task |-> createServiceCallTask, delete_service_call_task |-> deleteServiceCallTask,
   search_service_call_task_resources |-> searchServiceCallTaskResources,
   create_service_call_task_resource |-> createServiceCallTaskResource,
   delete_service_call_task_resource |-> deleteServiceCallTaskResource]
CompanyToDoHandlers ==
  [get_company_todo |-> getCompanyToDo, search_company_todos |-> searchCompanyToDos,
   create_company_todo |-> createCompanyToDo, update_company_todo |-> updateCompanyToDo,
   complete_company_todo |-> completeCompanyToDo, delete_company_todo |-> deleteCompanyToDo]
TimeHandlers ==
  [create_time_entry |-> create_time_entry,
   create_task_time_entries_bulk |-> Ends \o createTaskTimeEntriesBulk,
   log_ticket_collaboration |-> Ends \o logTicketCollaboration,
   get_time_entry_targets |-> Ends \o getTimeEntryTargets,
   list_regular_time_categories |-> getRegularTimeCategories, get_my_day |-> Ends \o getMyDay,
   start_work_on_ticket |-> Ends \o startWorkOnTicket]
UpdateAndProjectReadHandlers ==
  [add_ticket_update |-> add_ticket_update, log_my_time |-> log_my_time,
   search_projects |-> searchProjects, get_project |-> getProject,
   get_project_structure |-> getProjectStructure,
   get_complete_project_context |-> getCompleteProjectContext,
   get_project_labor_summary |-> getProjectLaborSummary,
   export_project_blueprint |-> exportProjectBlueprint]
PlanningAndWebhookHandlers ==
  [calculate_project_schedule |-> Ends, extract_project_scope |-> Ends, classify_project |-> Ends,
   list_webhook_entities |-> Ends, search_webhooks |-> searchWebhooks, get_webhook |-> getWebhook,
   create_webhook |-> createWebhook, update_webhook |-> updateWebhook, delete_webhook |-> deleteWebhook,
   set_webhook_excluded_resources |-> setWebhookExcludedResources, calculate_bom_labor |-> Ends,
   generate_project_labor_plan |-> Ends, create_project |-> createProject]
ProjectAndResourceHandlers ==
  [update_project |-> updateProject, create_configuration_item |-> createConfigurationItem,
   update_configuration_item |-> updateConfigurationItem,
   link_project_commercial |-> linkProjectCommercial, build_project_from_plan |-> buildProjectFromPlan,
   extend_project |-> extendProject, search_resources |-> searchResources, search_roles |-> searchRoles,
   get_resource_roles |-> getResourceRoles, report_resource_burden |-> reportResourceBurden,
   search_configuration_items |-> searchConfigurationItems,
   get_configuration_item |-> get_configuration_item,
   get_configuration_item_entitlement |-> getConfigurationItemEntitlement,
   search_configuration_item_coverage_gaps |-> searchConfigurationItemCoverageGaps,
   create_maintenance_ticket |-> createMaintenanceTicket]
ContractReportHandlers ==
  [search_contracts |-> searchContracts, get_contract |-> getContract,
   list_expiring_contracts |-> listExpiringContracts, report_block_hour_usage |-> getBlockHourUsage,
   report_ticket_charges |-> getTicketChargesReport, report_unbilled |-> getUnbilledReport,
   report_unbilled_time |-> reportUnbilledTime, report_sla_compliance |-> getSlaCompliance,
   generate_sla_framework |-> Ends, search_notification_history |-> searchNotificationHistory,
   report_activity_without_time |-> Ends \o reportActivityWithoutTime,
   report_time_entry_compliance |-> getTimeEntryComplianceReport,
   report_request_segmentation |-> getRequestSegmentation,
   report_ticket_throughput |-> getTicketThroughput,
   report_tickets_needing_scheduling |-> getTicketsNeedingScheduling,
   report_sla_coverage |-> getContractSlaCoverage, assign_contract_sla |-> assignContractSla]
ContractHandlers ==
  [report_project_pl |-> getProjectPL, report_inventory_reorder |-> getInventoryReorder,
   report_inventory_closeouts |-> getInventoryCloseouts, report_inventory_stale |-> getInventoryStale,
   create_contracts_bulk |-> createContracts, create_contract |-> createContract,
   update_contract |-> updateContract, create_contract_service |-> createContractService,
   update_contract_service |-> updateContractService, get_contract_service |-> getContractService,
   search_contract_services |-> searchContractServices,
   get_contract_billed_units |-> getContractBilledUnits,
   report_contract_recurring_revenue |-> getContractRecurringRevenue,
   report_contract_labour_basis |-> reportContractLabourBasis,
   get_contract_milestone |-> getContractMilestone,
   search_contract_milestones |-> searchContractMilestones,
   create_contract_milestone |-> createContractMilestone,
   update_contract_milestone |-> updateContractMilestone, raw_request |-> Ends,
   search_invoices |-> searchInvoices, get_invoice_details |-> getInvoiceDetails,
   search_tasks |-> searchTasks, create_task |-> createTask, get_task |-> getTask,
   get_task_by_number |-> getTaskByNumber, update_task |-> updateTask, complete_task |-> completeTask,
   verify_task_time_entries |-> Ends \o verifyTaskTimeEntries]
TaskHandlers ==
  [close_meeting_task |-> Ends \o closeMeetingTask, list_task_resources |-> listTaskResources,
   add_task_resource |-> addTaskResource, remove_task_resource |-> removeTaskResource,
   list_task_predecessors |-> listTaskPredecessors, add_task_predecessor |-> addTaskPredecessor,
   remove_task_predecessor |-> removeTaskPredecessor, get_task_predecessor |-> getTaskPredecessor,
   search_task_predecessors |-> searchTaskPredecessors, update_task_predecessor |-> updateTaskPredecessor,
   list_phases |-> searchPhases, create_phase |-> createPhase, get_phase |-> getPhase,
   update_phase |-> updatePhase, get_ticket_note |-> getTicketNote,
   search_ticket_notes |-> search_ticket_notes, create_ticket_note |-> create_ticket_note,
   search_ticket_checklist_items |-> searchTicketChecklistItems]
NoteHandlers ==
  [create_ticket_checklist_item |-> createTicketChecklistItem,
   update_ticket_checklist_item |-> updateTicketChecklistItem,
   delete_ticket_checklist_item |-> deleteTicketChecklistItem,
   search_checklist_libraries |-> searchChecklistLibraries, get_checklist_library |-> getChecklistLibrary,
   apply_checklist_library_to_ticket |-> applyChecklistLibraryToTicket,
   get_project_note |-> getProjectNote, search_project_notes |-> searchProjectNotes,
   create_project_note |-> createProjectNote, get_task_note |-> getTaskNote,
   search_task_notes |-> searchTaskNotes, create_task_note |-> createTaskNote,
   search_project_attachments |-> searchProjectAttachments,
   search_task_attachments |-> searchTaskAttachments, get_company_note |-> getCompanyNote,
   search_company_notes |-> searchCompanyNotes, create_company_note |-> createCompanyNote,
   get_ticket_attachment |-> getTicketAttachment, search_ticket_attachments |-> searchTicketAttachments,
   create_ticket_attachment |-> createTicketAttachment, get_project_attachment |-> getProjectAttachment,
   create_project_attachment |-> createProjectAttachment]
ExpenseAndProductHandlers ==
  [get_task_attachment |-> getTaskAttachment, create_task_attachment |-> createTaskAttachment,
   get_expense_report |-> getExpenseReport, search_expense_reports |-> searchExpenseReports,
   create_expense_report |-> createExpenseReport, create_expense_item |-> createExpenseItem,
   get_quote |-> getQuote, search_quotes |-> searchQuotes, create_quote |-> create_quote,
   get_opportunity |-> getOpportunity, search_opportunities |-> searchOpportunities,
   create_opportunity |-> createOpportunity, update_opportunity |-> updateOpportunity,
   get_product |-> getProduct, search_products |-> searchProducts, find_product |-> findProducts,
   list_product_categories |-> listProductCategories, find_catalog_gaps |-> findCatalogGaps,
   find_duplicate_products |-> findDuplicateProducts, bulk_update_products |-> bulkUpdateProducts,
   merge_products |-> mergeProducts]
InventoryHandlers ==
  [create_product |-> createProduct, update_product |-> updateProduct,
   search_inventory_products |-> searchInventoryProducts, get_inventory_product |-> getInventoryProduct,
   create_inventory_product |-> createInventoryProduct,
   update_inventory_product |-> updateInventoryProduct,
   search_inventory_locations |-> searchInventoryLocations,
   get_inventory_location |-> getInventoryLocation, create_inventory_location |-> createInventoryLocation,
   update_inventory_location |-> updateInventoryLocation,
   search_inventory_stocked_items |-> searchInventoryStockedItems,
   get_inventory_stocked_item |-> getInventoryStockedItem,
   search_inventory_transfers |-> searchInventoryTransfers,
   create_inventory_transfer |-> createInventoryTransfer, add_inventory_stock |-> addInventoryStock,
   remove_inventory_stock |-> removeInventoryStock, get_service |-> getService,
   search_services |-> searchServices, get_service_bundle |-> getServiceBundle,
   search_service_bundles |-> searchServiceBundles, get_quote_item |-> getQuoteItem,
   search_quote_items |-> searchQuoteItems, create_quote_item |-> create_quote_item,
   update_quote_item |-> updateQuoteItem, delete_quote_item |-> deleteQuoteItem,
   list_queues |-> getFieldInfo, list_ticket_statuses |-> getFieldInfo,
   list_ticket_priorities |-> getFieldInfo]
BillingHandlers ==
  [get_field_info |-> Ends \o getFieldInfo, resolve_picklist_value |-> resolvePicklistValue,
   search_billing_items |-> searchBillingItems, get_billing_item |-> getBillingItem,
   search_billing_item_approval_levels |-> searchBillingItemApprovalLevels,
   search_time_entries |-> searchTimeEntries, get_time_entry |-> getTimeEntry,
   update_time_entry |-> update_time_entry]
DeleteHandlers ==
  [delete_time_entry |-> delete_time_entry, delete_task |-> inspectTaskForDelete,
   delete_task_with_time |-> delete_task_with_time]
MetaHandlers ==
  [list_categories |-> Ends, list_category_tools |-> Ends, execute_tool |-> Ends, router |-> Ends]

\* Handlers of the other modules.
loadReconInput ==
  Ends \o Look({"BillingItems", "Companies", "ContractCharges", "ContractServiceBundleUnits", "ContractServiceBundles",
    "ContractServiceUnits", "ContractServices", "Contracts", "ServiceBundleServices", "ServiceBundles", "Services"})
dependencies ==
  Look({"BillingItems", "Companies", "CompanyAlerts", "CompanyLocations", "CompanyNotes", "CompanyToDos",
    "ConfigurationItems", "Contacts", "Contracts", "FieldInfo", "Invoices", "Opportunities", "Projects", "Quotes",
    "Resources", "SalesOrders", "ServiceCalls", "Tickets"})
\* One row of a plan.  A create looks past the cache for the record and for its effect.
createEntity ==
  Either(Create("Services"), Either(Create("ContractServices"), Either(Create("ContractServiceAdjustments"),
  Either(ChildCreate("Contracts", "ContractCharges"), Either(createCompany, Either(createContact,
  Either(createTicket, createTicketCharge)))))))
effect ==
  Peek({"Companies", "Contacts", "ContractCharges", "ContractServiceUnits", "ContractServices", "Contracts",
    "Services", "TicketCharges", "Tickets"})
createRow == effect \o Maybe(createEntity \o effect)
\* An update reads its target by id before and after it, through the cache.
updateEntity == Either(Update("Services"), Either(Update("ContractServices"), Update("ContractServiceBundles")))
target == Look({"ContractServiceBundles", "ContractServices", "Services"})
updateRow == target \o Maybe(updateEntity \o target)
executeRow == Either(createRow, updateRow)
change_plan_execute == Ends \o Each(Tried(executeRow))

VendorHandlers ==
  [vendor_list_sources |-> Ends, vendor_import_invoice |-> Ends, vendor_get_lines |-> Ends,
   reconcile_resolve_mapping |-> Ends \o Either(Look({"Companies"}), Look({"Services"}))]
CatalogHandlers ==
  [vendor_prices |-> Ends,
   catalog_plan_standardize |-> Ends \o Look({"ContractServiceUnits", "ContractServices", "Contracts", "Services"}),
   change_plan_review |-> Ends, change_plan_execute |-> change_plan_execute]
ReconHandlers ==
  [reconcile_vendor_to_autotask |-> loadReconInput, reconcile_get_exceptions |-> Ends,
   vendor_pricing_policy |-> Ends, reconcile_export_workbook |-> Ends,
   pricing_build_change_plan |-> Ends \o Look({"BillingCodes", "ContractServices", "Contracts", "Services"}),
   reconcile_check_sync_drift |-> Ends \o Look({"Companies", "ContractServices", "Contracts", "Services"})]
Pax8Handlers ==
  [vendor_sync |-> Ends]
ContractPlanHandlers ==
  [
   contract_plan_move_lines |-> Ends \o Look({"BillingItems", "Companies", "ContractServiceUnits", "ContractServices", "Contracts", "Services"}),
   contract_plan_wording |-> Ends \o Look({"Companies", "ContractServiceBundles", "ContractServices", "Contracts", "ServiceBundleServices", "ServiceBundles", "Services"}),
   change_plan_revert |-> Ends,
   vendor_monitor |-> Ends \o Look({"ContractServiceUnits", "ContractServices", "Contracts", "Services"})]
BillingProcessHandlers ==
  [pricing_customer_notices |-> Ends,
   billing_preinvoice_check |-> Ends \o Look({"Companies", "ContractCharges", "ContractServiceUnits", "ContractServices", "Contracts", "Services"})]
MergeHandlers ==
  [merge_discover |-> Ends \o dependencies, merge_dependency_inventory |-> Ends \o dependencies,
   merge_build_plan |-> Ends \o dependencies, merge_verify |-> Ends \o dependencies]
BulkHandlers ==
  [bulk_inactivate |-> Ends]
CommerceHandlers ==
  [commerce_offerings |-> Ends \o Glance({"BillingCodes", "Services"}),
   commerce_quote |-> Ends \o Glance({"Services"}),
   commerce_order |-> Ends \o Either(Look({"BillingItems", "Invoices"}), Look({"Companies", "Services"}))]
GapHandlers ==
  [report_gap |-> Ends]

\* getDispatchTable: the program of each tool.
Dispatch ==
  ActivityHandlers @@ ShadowAndCompanyHandlers @@ CompanyAndContactHandlers @@ TicketHandlers
    @@ TicketChargeAndHistoryHandlers @@ ServiceCallHandlers @@ CompanyToDoHandlers @@ TimeHandlers
    @@ UpdateAndProjectReadHandlers @@ PlanningAndWebhookHandlers @@ ProjectAndResourceHandlers
    @@ ContractReportHandlers @@ ContractHandlers @@ TaskHandlers @@ NoteHandlers
    @@ ExpenseAndProductHandlers @@ InventoryHandlers @@ BillingHandlers @@ DeleteHandlers
    @@ MetaHandlers @@ VendorHandlers @@ CatalogHandlers @@ ReconHandlers @@ Pax8Handlers
    @@ ContractPlanHandlers @@ BillingProcessHandlers @@ MergeHandlers @@ BulkHandlers
    @@ CommerceHandlers @@ GapHandlers
==============================================================================
