--------------------------- MODULE ServiceRequests ---------------------------
(***************************************************************************)
(* The requests each operation of the service sends to Autotask            *)
(* (services/autotask.service.ts), in the order it sends them.  The data   *)
(* is left out: a field, a filter or a page is not told apart, a record is *)
(* its entity, also when it is reached by a child route, and a run of      *)
(* reads with no write or catch between them is one step that reads all    *)
(* their entities, followed by the early returns among them.               *)
(***************************************************************************)
EXTENDS ToolPrograms

\* Companies
getRecordFull(e) == Look({e}) \o Glance({"Companies", "FieldInfo", "Resources"})
getCompanyFull == getRecordFull("Companies")
getContactFull == getRecordFull("Contacts")
findCompanies == Look({"Companies", "Contacts", "FieldInfo", "Resources"})
findContacts == Look({"Companies", "Contacts"})
findCompanyContactCandidates == Look({"Companies", "Contacts", "FieldInfo", "Resources"})
findDuplicateCompanies == Look({"Companies", "Contacts", "FieldInfo", "Resources"})
findDuplicateContacts == Look({"Companies", "Contacts"})
searchCompanies == Look({"Companies"})
createCompany == Create("Companies")
updateCompany == Update("Companies")

\* Contacts
getResourceNames == Look({"Resources"})
getApiUsage == Look({"ThresholdInformation"})
searchContacts == Look({"Contacts"})
createContact == ChildCreate("Companies", "Contacts")
updateContact ==
  Either(Update("Contacts"),
         Maybe(Look({"Contacts"})) \o ChildUpdate("Companies", "Contacts"))
\* Mutant: the contact is read again and returned whole.
readsItBack == Maybe(Look({"Contacts"})) \o Ends \o Either(updateContact, createContact) \o Look({"Contacts"})
findOrCreateContact == Maybe(Look({"Contacts"})) \o Ends \o Either(updateContact, createContact)

\* Tickets
getTicket == Look({"Tickets"})
searchTickets == Look({"Tickets"})
createTicket == Create("Tickets")
updateTicket == Update("Tickets")

\* Ticket audit
resolveTicketRef == Look({"Tickets"})
getTicketFull ==
  Maybe(Look({"Tickets"})) \o Ends
    \o Glance({"BillingCodes", "Companies", "CompanyLocations", "ConfigurationItems", "Contacts", "Contracts",
               "FieldInfo", "Opportunities", "Projects", "Resources", "Roles", "Tickets"})
getTicketHistoryEvents == Look({"FieldInfo", "Resources", "TicketHistory"})
getTicketEmailContext == Look({"Contacts", "FieldInfo", "Resources", "TicketAttachments", "Tickets"})
labelTicketNotes == Look({"Contacts", "FieldInfo", "Resources"})
getPicklists == Look({"FieldInfo"})
updateTimeEntry == Update("TimeEntries")
setTicketContract ==
  Look({"Contracts", "Tickets", "TimeEntries"}) \o Ends \o DryFirst
    \o Maybe(Refused(updateTicket)) \o Each(Tried(updateTimeEntry)) \o Look({"Tickets", "TimeEntries"})
findTicketByExternalId == Look({"Tickets"})

\* Ticket configuration items, company moves and reports
searchTicketConfigurationItems == Look({"TicketAdditionalConfigurationItems"})
addTicketConfigurationItem == Create("TicketAdditionalConfigurationItems")
removeTicketConfigurationItem == Delete("TicketAdditionalConfigurationItems")
createTicketWithConfigurationItems ==
  createTicket \o Each(Tried(addTicketConfigurationItem))
    \o Glance({"TicketAdditionalConfigurationItems", "Tickets"})
moveTicketToCompany ==
  Look({"CompanyLocations", "Tickets"}) \o Ends \o Glance({"Contracts"}) \o updateTicket \o
    Look({"Tickets"})

\* Ticket charges
getTicketCharge == Look({"TicketCharges"})
searchTicketCharges == Look({"TicketCharges"})
getTicketChargesReport == Look({"Companies", "TicketCharges", "Tickets"})
getUnbilledReport == Look({"BillingItems", "Companies"})
createTicketCharge == ChildCreate("Tickets", "TicketCharges")
updateTicketCharge == Update("TicketCharges")
deleteTicketCharge == ChildDelete("Tickets", "TicketCharges")

\* Ticket history
getTicketHistory == Look({"TicketHistory"})
searchTicketHistory == Look({"TicketHistory"})

\* Time entries
resolveResourceTimeZone == Look({"InternalLocations", "Resources"})
createTimeEntry == Glance({"InternalLocations", "Resources"}) \o Create("TimeEntries")
getTimeEntry == Look({"TimeEntries"})
reportUnbilledTime == Look({"Contracts", "Resources", "Roles", "TimeEntries"})
deleteTimeEntry == Delete("TimeEntries")
inspectTaskForDelete ==
  Look({"TaskAttachments", "TaskNotes", "TaskPredecessors", "TaskSecondaryResources", "Tasks",
    "TimeEntries"})

\* Time logged for the caller, a ticket or a task
getMyDay ==
  Look({"CompanyToDos", "InternalLocations", "Resources", "ServiceCallTicketResources",
    "ServiceCallTickets", "ServiceCalls", "Tasks", "Tickets", "TimeEntries"})
getPicklistValues == Look({"FieldInfo"})
startWorkOnTicket == Look({"FieldInfo", "Resources", "Tickets"}) \o Ends \o Dry \o updateTicket
planTicketUpdate == Look({"FieldInfo", "Tickets"})
createNoteImpl(parent, note) == ChildCreate(parent, note)
createTicketNote == createNoteImpl("Tickets", "TicketNotes")
postTicketNoteOnce == Glance({"TicketNotes"}) \o Maybe(createTicketNote)
getTimeEntryTargets == Look({"Projects", "Tasks", "Tickets"})
logTimeIdempotent == Glance({"TimeEntries"}) \o Maybe(createTimeEntry)
createTaskTimeEntriesBulk ==
  Glance({"TimeEntries"})
    \o Each(Maybe(Look({"Resources"})) \o Glance({"Departments", "FieldInfo", "ResourceRoles", "Resources", "Roles"}))
    \o Dry \o Ends \o Each(Tried(logTimeIdempotent))
createTicketNoteIdempotent == Maybe(Look({"TicketNotes"}) \o Ends) \o createTicketNote
logTicketCollaboration ==
  Glance({"TimeEntries"})
    \o Each(Maybe(Look({"Resources"})) \o Glance({"Departments", "FieldInfo", "ResourceRoles", "Resources", "Roles"}))
    \o Dry \o Ends \o Each(Tried(logTimeIdempotent)) \o Maybe(Either(createTicketNoteIdempotent, createTicketNote))
resolveResourceByName == Look({"Resources"})

\* Regular time and billing codes
getRegularTimeCategories == Look({"BillingCodes"})
validateWorkType == Look({"BillingCodes"})
getInternalBillingCodeNames == Look({"BillingCodes"})
resolveInternalBillingCodeByName == Look({"BillingCodes"})

\* Projects
getProject == Look({"Projects"})
searchProjects == Look({"Projects"})
createProject == Create("Projects")
updateProject == Update("Projects")
linkProjectCommercial ==
  Glance({"Projects"}) \o Look({"Contracts", "FieldInfo", "Opportunities"}) \o Ends \o Dry \o
    updateProject \o Glance({"Projects"})
createPhase == ChildCreate("Projects", "Phases")
createTask == ChildCreate("Projects", "Tasks")
addTaskPredecessor == Create("TaskPredecessors")
applyPlanToProject ==
  Maybe(Glance({"Phases", "Tasks"})) \o Each(Tried(createPhase)) \o Each(Tried(createTask))
    \o Each(Tried(Maybe(Look({"TaskPredecessors"})) \o Maybe(addTaskPredecessor)))
buildProjectFromPlan ==
  Look({"Companies", "Projects"}) \o Ends \o DryFirst \o Maybe(createProject) \o applyPlanToProject
extendProject == Look({"Projects"}) \o Ends \o Refused(Look({"Phases", "Tasks"})) \o DryFirst \o applyPlanToProject
getProjectStructure == Look({"Phases", "Projects", "Tasks"})
getProjectLaborSummary == Look({"Tasks", "TimeEntries"})
exportProjectBlueprint == Look({"Phases", "Projects", "Tasks"})
getCompleteProjectContext ==
  Look({"Companies", "ConfigurationItems", "ContractMilestones", "Contracts", "Opportunities", "Phases",
    "ProjectAttachments", "ProjectNotes", "Projects", "TaskPredecessors", "Tasks", "TimeEntries"})

\* Resources
getResource == Look({"Resources"})
reportResourceBurden == Look({"FieldInfo", "Resources"})

\* Roles
searchRoles == Look({"Roles"})
getResourceRoles == Look({"Departments", "FieldInfo", "ResourceRoles", "Resources", "Roles"})
resolveResourceDefaultRole == Look({"Resources"})
resolveWorkTimeEntryRole == Look({"Departments", "FieldInfo", "ResourceRoles", "Resources", "Roles"})
searchResources == Look({"Resources"})

\* Configuration items
getConfigurationItem == Look({"ConfigurationItems"})
createConfigurationItem ==
  Maybe(Look({"ConfigurationItems", "Contracts"})) \o ChildCreate("Companies", "ConfigurationItems")
updateConfigurationItem == Update("ConfigurationItems")
enrichConfigurationItemReferences ==
  Look({"Companies", "ConfigurationItems", "ContractServices", "Contracts", "Products", "Services"})
searchConfigurationItems == Look({"ConfigurationItems"})

\* Contracts
getContract == Look({"Contracts"})
searchContracts == Look({"Contracts"})
reportContractLabourBasis == Look({"Contracts", "FieldInfo"})
listExpiringContracts == Look({"Contracts"})
createContract == Create("Contracts")
createContracts == Each(Tried(createContract))
updateContract == Update("Contracts")
createContractService == Create("ContractServices")
updateContractService == Update("ContractServices")
getContractService == Look({"ContractServices"})
searchContractServices == Look({"ContractServices"})
getContractBilledUnits ==
  Look({"ContractServiceBundleUnits", "ContractServiceUnits", "ServiceBundles", "Services"})
getContractRecurringRevenue ==
  Look({"ContractServiceBundleUnits", "ContractServiceBundles", "ContractServiceUnits",
    "ContractServices", "ServiceBundles", "Services"})

\* Contract milestones
getContractMilestone == Look({"ContractMilestones"})
searchContractMilestones == Look({"ContractMilestones"})
createContractMilestone == Create("ContractMilestones")
updateContractMilestone == Update("ContractMilestones")
getBlockHourUsage == Look({"ContractBlocks", "Contracts", "TimeEntries"})

\* Invoices
searchInvoices == Look({"Invoices"})
getInvoiceDetails == Look({"BillingItems", "Invoices"})

\* Tasks
getTask == Look({"Tasks"})
getTaskByNumber == Look({"Tasks"})
searchTasks == Look({"Tasks"})
resolveRecordReference == Look({"Tasks", "Tickets"})
updateTask == ChildUpdate("Projects", "Tasks")
completeTask == Maybe(Look({"Tasks"})) \o Maybe(Look({"FieldInfo"})) \o updateTask
verifyTaskTimeEntries == Look({"TimeEntries"})
createTaskNote == createNoteImpl("Tasks", "TaskNotes")
closeMeetingTask ==
  Look({"Tasks", "Tickets", "TimeEntries"}) \o Ends \o DryFirst \o Ends
    \o Maybe(Look({"TaskNotes"}) \o Maybe(createTaskNote)) \o completeTask \o Look({"Tasks"})
listTaskResources == Look({"TaskSecondaryResources"})
addTaskResource == Create("TaskSecondaryResources")
removeTaskResource == Delete("TaskSecondaryResources")
listTaskPredecessors == Look({"TaskPredecessors"})
removeTaskPredecessor == Delete("TaskPredecessors")
getTaskPredecessor == Look({"TaskPredecessors"})
searchTaskPredecessors == Look({"TaskPredecessors"})
updateTaskPredecessor == Update("TaskPredecessors")

\* Phases
getPhase == Look({"Phases"})
updatePhase == Update("Phases")
searchPhases == Look({"Phases"})

\* Utility
testConnection == Look({"Companies"})
=============================================================================
