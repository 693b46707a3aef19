---------------------------- MODULE ServiceRecords ----------------------------
(***************************************************************************)
(* The rest of the service's operations, those on the records around a     *)
(* ticket, project or contract: notes, attachments, expenses, quotes,      *)
(* products, configuration items, billing and service calls, and the       *)
(* request passed through as it is.  Written as in ServiceRequests.        *)
(***************************************************************************)
EXTENDS ServiceRequests

\* Notes
getNoteImpl(note) == Look({note})
searchNotesImpl(note) == Look({note})
getTicketNote == getNoteImpl("TicketNotes")
searchTicketNotes == searchNotesImpl("TicketNotes")
getProjectNote == getNoteImpl("ProjectNotes")
searchProjectNotes == searchNotesImpl("ProjectNotes")
createProjectNote == createNoteImpl("Projects", "ProjectNotes")
getCompanyNote == getNoteImpl("CompanyNotes")
searchCompanyNotes == searchNotesImpl("CompanyNotes")
createCompanyNote == createNoteImpl("Companies", "CompanyNotes")
searchProjectAttachments == Look({"ProjectAttachments"})
searchTaskAttachments == Look({"TaskAttachments"})
getTaskNote == getNoteImpl("TaskNotes")
searchTaskNotes == searchNotesImpl("TaskNotes")

\* Checklists
searchTicketChecklistItems == Look({"TicketChecklistItems"})
createTicketChecklistItem == ChildCreate("Tickets", "TicketChecklistItems")
updateTicketChecklistItem == ChildUpdate("Tickets", "TicketChecklistItems")
deleteTicketChecklistItem == ChildDelete("Tickets", "TicketChecklistItems")
searchChecklistLibraries == Look({"ChecklistLibraries"})
getChecklistLibrary == Look({"ChecklistLibraries", "ChecklistLibraryChecklistItems"})
applyChecklistLibraryToTicket ==
  Look({"ChecklistLibraryChecklistItems"}) \o Each(Tried(createTicketChecklistItem))

\* Entitlement and maintenance tickets
getConfigurationItemEntitlement == Look({"ConfigurationItems", "ContractServices", "Contracts", "FieldInfo"})
searchConfigurationItemCoverageGaps == Look({"ConfigurationItems"})
createMaintenanceTicket ==
  Glance({"Companies"}) \o Ends
    \o Look({"ConfigurationItems", "ContractServices", "Contracts", "FieldInfo", "Tickets"}) \o Ends \o Dry
    \o Either(createTicketWithConfigurationItems, createTicket) \o Maybe(applyChecklistLibraryToTicket) \o Glance({"Tickets"})

\* Attachments
getChildAttachmentImpl(attachment) == Look({attachment})
createChildAttachmentImpl(parent, attachment) == ChildCreate(parent, attachment)
getProjectAttachment == getChildAttachmentImpl("ProjectAttachments")
createProjectAttachment == createChildAttachmentImpl("Projects", "ProjectAttachments")
getTaskAttachment == getChildAttachmentImpl("TaskAttachments")
createTaskAttachment == createChildAttachmentImpl("Tasks", "TaskAttachments")
getTicketAttachment == Look({"TicketAttachments"})
searchTicketAttachments == Look({"TicketAttachments"})
createTicketAttachment == ChildCreate("Tickets", "TicketAttachments")
getExpenseReport == Look({"ExpenseReports"})
searchExpenseReports == Look({"ExpenseReports"})

\* Expenses, quotes, opportunities and products
createExpenseReport == Create("ExpenseReports")
createExpenseItem == Create("ExpenseItems")
getQuote == Look({"Quotes"})
searchQuotes == Look({"Quotes"})
createQuote == Maybe(Glance({"CompanyLocations"})) \o Create("Quotes")
getOpportunity == Look({"Opportunities"})
searchOpportunities == Look({"Opportunities"})
createOpportunity == Create("Opportunities")
updateOpportunity == Update("Opportunities")
getProduct == Look({"Products"})
searchProducts == Look({"Products"})
createProduct == Create("Products")
updateProduct == Update("Products")
searchInventoryProducts == Look({"InventoryProducts"})
getInventoryProduct == Look({"InventoryProducts"})
createInventoryProduct == Create("InventoryProducts")
updateInventoryProduct == Update("InventoryProducts")
searchInventoryLocations == Look({"InventoryLocations"})
getInventoryLocation == Look({"InventoryLocations"})
createInventoryLocation == Create("InventoryLocations")
updateInventoryLocation == Update("InventoryLocations")
searchInventoryStockedItems == Look({"InventoryStockedItems"})
getInventoryStockedItem == Look({"InventoryStockedItems"})
searchInventoryTransfers == Look({"InventoryTransfers"})
createInventoryTransfer == Create("InventoryTransfers")
addInventoryStock == Create("InventoryStockedItemsAdd")
removeInventoryStock == Create("InventoryStockedItemsRemove")
bulkUpdateProducts == Ends \o Look({"Products"}) \o DryFirst \o Each(Tried(updateProduct))
mergeProducts ==
  Ends \o Look({"InventoryProducts", "Products"}) \o Ends \o DryFirst
    \o Maybe(Tried(updateProduct)) \o Each(Tried(updateProduct))
listProductCategories == Look({"FieldInfo", "Products"})
findCatalogGaps == Look({"Products"})
findDuplicateProducts == Look({"Products"})
findProducts == Look({"Products"})

\* Inventory, services and billing
getInventoryReorder == Look({"InventoryLocations", "InventoryProducts", "Products"})
getInventoryCloseouts == Look({"InventoryProducts", "Products", "TicketCharges"})
getInventoryStale == Look({"InventoryProducts", "InventoryStockedItems", "Products"})
getService == Look({"Services"})
searchServices == Look({"Services"})
getServiceBundle == Look({"ServiceBundles"})
searchServiceBundles == Look({"ServiceBundles"})
getQuoteItem == Look({"QuoteItems"})
searchQuoteItems == Look({"QuoteItems"})
createQuoteItem == ChildCreate("Quotes", "QuoteItems")
updateQuoteItem == Update("QuoteItems")
deleteQuoteItem == ChildDelete("Quotes", "QuoteItems")
getBillingItem == Look({"BillingItems"})
searchBillingItems == Look({"BillingItems"})
searchBillingItemApprovalLevels == Look({"BillingItemApprovalLevels"})
searchTimeEntries == Look({"TimeEntries"})
getProjectPL == Look({"BillingItems", "Resources", "Tasks", "TimeEntries"})
getSlaCompliance == Look({"Tickets"})
getTimeEntryComplianceReport == Look({"Resources", "TimeEntries"})
searchNotificationHistory == Look({"FieldInfo", "NotificationHistory", "Resources"})
reportActivityWithoutTime ==
  Look({"Companies", "FieldInfo", "InternalLocations", "NotificationHistory", "Resources", "TicketNotes",
    "Tickets", "TimeEntries"})

\* Reports, webhooks and service calls
getTicketsNeedingScheduling == Look({"ServiceCallTickets", "ServiceCalls", "Tickets"})
getTicketThroughput == Look({"FieldInfo", "Tickets"})
getRequestSegmentation == Look({"Tickets"})
searchWebhooks == Look({"Webhooks"})
getWebhook == Look({"WebhookExcludedResources", "WebhookFields", "Webhooks"})
createWebhook ==
  Ends \o Maybe(Glance({"Resources"})) \o DryFirst \o Create("Webhooks")
    \o Each(Tried(Create("WebhookFields"))) \o Each(Tried(Create("WebhookExcludedResources")))
getActorContext == Look({"FieldInfo", "Resources"})
getActorRoster == Look({"FieldInfo", "Resources"})
updateWebhook == Ends \o DryFirst \o Update("Webhooks")
deleteWebhook == Delete("Webhooks")
setWebhookExcludedResources ==
  Ends \o Look({"WebhookExcludedResources"}) \o DryFirst
    \o Each(Tried(Create("WebhookExcludedResources"))) \o Each(Tried(Delete("WebhookExcludedResources")))
getContractSlaCoverage == Look({"Contracts", "FieldInfo"})
assignContractSla ==
  Ends \o Look({"Contracts", "FieldInfo"}) \o Ends \o DryFirst \o Each(Tried(updateContract))
getServiceCall == Look({"ServiceCalls"})
searchServiceCalls == Look({"ServiceCalls"})
reconcileServiceCall ==
  Look({"ServiceCallTickets", "ServiceCalls", "TicketCharges", "TicketHistory", "Tickets", "TimeEntries"})
reportServiceCallLeakage ==
  Look({"ServiceCallTickets", "ServiceCalls", "TicketCharges", "TicketHistory", "Tickets", "TimeEntries"})
createServiceCall == Create("ServiceCalls")
updateServiceCall == Update("ServiceCalls")
deleteServiceCall == Delete("ServiceCalls")
searchServiceCallTickets == Look({"ServiceCallTickets"})
createServiceCallTicket == ChildCreate("ServiceCalls", "ServiceCallTickets")
deleteServiceCallTicket == Delete("ServiceCallTickets")
searchServiceCallTicketResources == Look({"ServiceCallTicketResources"})
createServiceCallTicketResource == ChildCreate("ServiceCallTickets", "ServiceCallTicketResources")
deleteServiceCallTicketResource == Delete("ServiceCallTicketResources")
searchServiceCallTasks == Look({"ServiceCallTasks"})
createServiceCallTask == ChildCreate("ServiceCalls", "ServiceCallTasks")
deleteServiceCallTask == Delete("ServiceCallTasks")
searchServiceCallTaskResources == Look({"ServiceCallTaskResources"})
createServiceCallTaskResource == ChildCreate("ServiceCallTasks", "ServiceCallTaskResources")
deleteServiceCallTaskResource == Delete("ServiceCallTaskResources")
getCompanyToDo == Look({"CompanyToDos"})
searchCompanyToDos == Look({"CompanyToDos"})
createCompanyToDo == Maybe(Look({"FieldInfo"})) \o ChildCreate("Companies", "CompanyToDos")
updateCompanyToDo ==
  Maybe(Look({"CompanyToDos"})) \o Maybe(Look({"FieldInfo"})) \o ChildUpdate("Companies", "CompanyToDos")
completeCompanyToDo == Maybe(Look({"CompanyToDos"})) \o ChildUpdate("Companies", "CompanyToDos")
deleteCompanyToDo == Maybe(Look({"CompanyToDos"})) \o ChildDelete("Companies", "CompanyToDos")
analyzeTicketBillingGaps == Look({"BillingCodes", "Contracts", "TicketNotes", "Tickets", "TimeEntries"})
reportTicketBillingGaps == Look({"BillingCodes", "Contracts", "TicketNotes", "Tickets", "TimeEntries"})
getFieldInfo == Look({"FieldInfo"})
resolvePicklistValue == Look({"FieldInfo"})
getCompanySiteConfigurations == Look({"CompanySiteConfigurations"})
updateCompanySiteConfiguration == Update("CompanySiteConfigurations")
rawRequest(method) ==
  CASE method = "GET" -> Look({"Any"})
    [] method = "POST" -> Either(Look({"Any"}), Create("Any"))
    [] method = "PATCH" -> Update("Any")
    [] method = "DELETE" -> Delete("Any")
==============================================================================
