------------------------------ MODULE ToolTable ------------------------------
(***************************************************************************)
(* The tools and what is said of them before one is run: the hints of      *)
(* TOOL_DEFINITIONS (a tool without one is Plain), whether the tool offers *)
(* dryRun, its category, and the classifications the gates use, which are  *)
(* made from the name, from the hints and from hand-kept lists.  The       *)
(* prefix autotask_ of every name is left out.                             *)
(***************************************************************************)
EXTENDS Integers, TLC

Hinted(S, hint) == [t \in S |-> [hint |-> hint, dry |-> FALSE]]
ReadOnly(S) == Hinted(S, "readOnly")
Plain(S) == Hinted(S, "none")
Destructive(S) == Hinted(S, "destructive")
\* The tools of f that offer dryRun.
Preview(f) == [t \in DOMAIN f |-> [f[t] EXCEPT !.dry = TRUE]]

VendorBillingTools ==
  ReadOnly({"vendor_list_sources", "vendor_get_lines", "reconcile_vendor_to_autotask",
    "reconcile_export_workbook", "pricing_build_change_plan", "reconcile_check_sync_drift",
    "contract_plan_move_lines", "contract_plan_wording", "change_plan_revert", "billing_preinvoice_check",
    "vendor_monitor"}) @@ Plain({"vendor_import_invoice", "reconcile_resolve_mapping",
    "reconcile_get_exceptions", "vendor_pricing_policy", "vendor_sync", "pricing_customer_notices",
    "report_gap", "vendor_prices"})
CatalogPlanAndDeskTools ==
  ReadOnly({"catalog_plan_standardize", "get_api_usage", "get_company", "find_company_contact_candidates",
    "find_duplicate_companies", "commerce_quote", "merge_discover", "merge_dependency_inventory",
    "merge_verify"}) @@ Plain({"change_plan_review", "change_plan_execute", "test_connection",
    "search_companies", "bulk_inactivate", "commerce_offerings", "commerce_order", "merge_build_plan"})
CompanyCreateTools == Plain({"create_company"})
CompanyUpdateTools == Plain({"update_company"})
SiteAndContactTools ==
  ReadOnly({"get_contact", "find_duplicate_contacts"}) @@ Plain({"get_company_site_configuration",
    "update_company_site_configuration", "search_contacts", "create_contact", "find_or_create_contact"})
ContactUpdateTools == Plain({"update_contact"})
TicketSearchTools == Plain({"search_tickets", "get_ticket_details"})
TicketCreateTools == Plain({"create_ticket"})
\* Mutant: a delete has the annotations of an update.
PlainDelete ==
  ReadOnly({"find_ticket_by_external_id", "search_ticket_configuration_items"}) @@
    Plain({"add_ticket_configuration_item", "update_ticket", "remove_ticket_configuration_item"})
TicketUpdateTools ==
  ReadOnly({"find_ticket_by_external_id", "search_ticket_configuration_items"}) @@
    Plain({"add_ticket_configuration_item", "update_ticket"}) @@
    Destructive({"remove_ticket_configuration_item"})
TicketMoveAndChargeTools ==
  Plain({"move_ticket_to_company", "get_ticket_charge", "search_ticket_charges", "create_ticket_charge"})
ChargeAndHistoryTools ==
  ReadOnly({"search_audit_activity", "get_backpressure"}) @@ Preview(ReadOnly({"backfill_history"})) @@
    Plain({"update_ticket_charge", "get_ticket_history"}) @@ Destructive({"delete_ticket_charge"})
ActivityAndShadowTools ==
  ReadOnly({"get_operations", "get_activity_feed", "report_resource_activity",
    "report_resource_daily_audit", "shadow_status", "shadow_query", "shadow_aggregate",
    "get_actor_roster"}) @@ Plain({"shadow_sync"})
TicketContextTools ==
  ReadOnly({"get_ticket_by_number", "get_ticket_change_history", "get_ticket_email_context",
    "get_picklists"}) @@ Plain({"search_ticket_history", "get_time_entry_targets",
    "list_regular_time_categories"}) @@ Preview(Plain({"set_ticket_contract"}))
TimeEntryCreateTools == Plain({"create_time_entry"}) @@ Preview(Plain({"create_task_time_entries_bulk"}))
MyTimeTools ==
  ReadOnly({"get_my_day", "get_time_entry"}) @@ Plain({"log_my_time"}) @@
    Preview(Plain({"log_ticket_collaboration", "start_work_on_ticket", "add_ticket_update"}))
TimeEntryAndProjectTools ==
  ReadOnly({"get_project", "get_project_structure", "get_complete_project_context",
    "get_project_labor_summary", "export_project_blueprint"}) @@ Plain({"update_time_entry",
    "search_projects"}) @@ Preview(Destructive({"delete_time_entry"}))
ProjectScopeTools == ReadOnly({"calculate_project_schedule", "extract_project_scope", "classify_project"})
ProjectPlanTools ==
  ReadOnly({"calculate_bom_labor", "generate_project_labor_plan"}) @@
    Preview(Plain({"build_project_from_plan"}))
ProjectCreateTools ==
  Plain({"create_project"}) @@ Preview(Plain({"extend_project", "link_project_commercial"}))
ProjectAndResourceTools ==
  ReadOnly({"search_roles", "get_resource_roles"}) @@ Plain({"update_project", "search_resources"})
TicketNoteTools ==
  ReadOnly({"report_resource_burden"}) @@ Plain({"get_ticket_note", "search_ticket_notes",
    "create_ticket_note", "search_ticket_checklist_items", "create_ticket_checklist_item"})
ChecklistTools ==
  ReadOnly({"search_checklist_libraries", "get_checklist_library"}) @@
    Plain({"update_ticket_checklist_item", "apply_checklist_library_to_ticket", "get_project_note",
    "search_project_notes"}) @@ Destructive({"delete_ticket_checklist_item"})
ProjectAndTaskNoteTools ==
  ReadOnly({"get_task_note", "search_task_notes", "search_project_attachments", "search_task_attachments",
    "get_project_attachment", "get_task_attachment"}) @@ Plain({"create_project_note", "create_task_note",
    "create_project_attachment"})
CompanyNoteTools ==
  Plain({"create_task_attachment", "get_company_note", "search_company_notes", "create_company_note",
    "get_ticket_attachment", "search_ticket_attachments"})
ExpenseTools ==
  Plain({"create_ticket_attachment", "get_expense_report", "search_expense_reports",
    "create_expense_report", "create_expense_item", "get_quote"})
QuoteTools == Plain({"search_quotes", "create_quote", "get_opportunity", "search_opportunities"})
OpportunityTools == Plain({"create_opportunity", "update_opportunity", "get_product", "search_products"})
ProductTools ==
  ReadOnly({"find_product", "list_product_categories", "find_catalog_gaps", "find_duplicate_products",
    "search_inventory_products", "get_inventory_product", "search_inventory_locations",
    "get_inventory_location"}) @@ Plain({"create_product", "update_product", "create_inventory_product",
    "update_inventory_product"}) @@ Preview(Plain({"bulk_update_products", "merge_products"}))
InventoryTools ==
  ReadOnly({"search_inventory_stocked_items", "get_inventory_stocked_item", "search_inventory_transfers",
    "report_inventory_reorder", "report_inventory_closeouts", "report_inventory_stale"}) @@
    Plain({"create_inventory_location", "update_inventory_location", "create_inventory_transfer",
    "add_inventory_stock", "get_service", "search_services", "get_service_bundle"}) @@
    Destructive({"remove_inventory_stock"})
QuoteItemTools ==
  Plain({"search_service_bundles", "get_quote_item", "search_quote_items", "create_quote_item"})
ConfigurationItemSearchTools ==
  Plain({"update_quote_item", "search_configuration_items"}) @@ Destructive({"delete_quote_item"})
ConfigurationItemTools ==
  ReadOnly({"get_configuration_item_entitlement", "search_configuration_item_coverage_gaps"}) @@
    Plain({"create_configuration_item", "update_configuration_item", "get_configuration_item"}) @@
    Preview(Plain({"create_maintenance_ticket"}))
ContractTools ==
  ReadOnly({"report_block_hour_usage", "report_ticket_charges", "report_unbilled"}) @@
    Plain({"search_contracts", "get_contract", "list_expiring_contracts"})
ReportTools ==
  ReadOnly({"report_unbilled_time", "report_sla_compliance", "generate_sla_framework",
    "report_sla_coverage", "report_time_entry_compliance"}) @@ Preview(Plain({"assign_contract_sla"}))
NotificationAndSchedulingTools ==
  ReadOnly({"search_notification_history", "report_activity_without_time",
    "report_tickets_needing_scheduling", "report_ticket_throughput", "report_request_segmentation",
    "report_project_pl"}) @@ Plain({"search_invoices"})
InvoiceAndTaskTools ==
  ReadOnly({"get_task", "get_task_by_number"}) @@ Plain({"get_invoice_details", "search_tasks",
    "create_task"})
TaskTools ==
  ReadOnly({"delete_task", "verify_task_time_entries", "list_task_resources", "list_task_predecessors"})
    @@ Plain({"update_task", "complete_task", "add_task_resource", "add_task_predecessor"}) @@
    Preview(Plain({"close_meeting_task"})) @@ Destructive({"remove_task_resource"}) @@
    Preview(Destructive({"delete_task_with_time"}))
PredecessorAndPhaseTools ==
  ReadOnly({"get_task_predecessor", "search_task_predecessors", "get_phase"}) @@
    Plain({"update_task_predecessor", "list_phases", "create_phase", "update_phase", "list_queues"}) @@
    Destructive({"remove_task_predecessor"})
PicklistTools ==
  ReadOnly({"resolve_picklist_value", "resolve_record_reference", "whoami"}) @@
    Plain({"list_ticket_statuses", "list_ticket_priorities", "get_field_info"})
BillingItemTools == Plain({"search_billing_items", "get_billing_item", "search_billing_item_approval_levels"})
DiscoveryTools ==
  Plain({"search_time_entries", "list_categories", "list_category_tools", "execute_tool", "router",
    "get_service_call"})
ServiceCallTools ==
  ReadOnly({"reconcile_service_call", "report_service_call_leakage", "analyze_ticket_billing_gaps",
    "report_ticket_billing_gaps"}) @@ Plain({"search_service_calls", "create_service_call"})
ServiceCallTicketTools ==
  Plain({"update_service_call", "search_service_call_tickets", "create_service_call_ticket"}) @@
    Destructive({"delete_service_call", "delete_service_call_ticket"})
ServiceCallResourceTools ==
  Plain({"search_service_call_ticket_resources", "create_service_call_ticket_resource",
    "search_service_call_tasks", "create_service_call_task", "search_service_call_task_resources",
    "create_service_call_task_resource"}) @@ Destructive({"delete_service_call_ticket_resource",
    "delete_service_call_task"})
ToDoTools ==
  ReadOnly({"get_company_todo", "search_company_todos"}) @@ Plain({"create_company_todo",
    "update_company_todo", "complete_company_todo"}) @@ Destructive({"delete_service_call_task_resource",
    "delete_company_todo"})
ContractWriteTools ==
  ReadOnly({"get_contract_service", "search_contract_services", "get_contract_billed_units"}) @@
    Plain({"create_contract", "create_contracts_bulk", "update_contract", "create_contract_service",
    "update_contract_service"})
MilestoneAndRawTools ==
  ReadOnly({"report_contract_recurring_revenue", "report_contract_labour_basis", "get_contract_milestone",
    "search_contract_milestones", "list_webhook_entities", "search_webhooks", "get_webhook"}) @@
    Plain({"create_contract_milestone", "update_contract_milestone", "raw_request"})
WebhookTools ==
  Preview(Plain({"create_webhook", "update_webhook", "set_webhook_excluded_resources"})) @@
    Destructive({"delete_webhook"})

\* Every tool with its hints (TOOL_DEFINITIONS).
Hints ==
  VendorBillingTools @@ CatalogPlanAndDeskTools @@ CompanyCreateTools @@ CompanyUpdateTools @@
  SiteAndContactTools @@ ContactUpdateTools @@ TicketSearchTools @@ TicketCreateTools @@ TicketUpdateTools
  @@ TicketMoveAndChargeTools @@ ChargeAndHistoryTools @@ ActivityAndShadowTools @@ TicketContextTools @@
  TimeEntryCreateTools @@ MyTimeTools @@ TimeEntryAndProjectTools @@ ProjectScopeTools @@ ProjectPlanTools
  @@ ProjectCreateTools @@ ProjectAndResourceTools @@ TicketNoteTools @@ ChecklistTools @@
  ProjectAndTaskNoteTools @@ CompanyNoteTools @@ ExpenseTools @@ QuoteTools @@ OpportunityTools @@
  ProductTools @@ InventoryTools @@ QuoteItemTools @@ ConfigurationItemSearchTools @@
  ConfigurationItemTools @@ ContractTools @@ ReportTools @@ NotificationAndSchedulingTools @@
  InvoiceAndTaskTools @@ TaskTools @@ PredecessorAndPhaseTools @@ PicklistTools @@ BillingItemTools @@
  DiscoveryTools @@ ServiceCallTools @@ ServiceCallTicketTools @@ ServiceCallResourceTools @@ ToDoTools @@
  ContractWriteTools @@ MilestoneAndRawTools @@ WebhookTools
AllTools == DOMAIN Hints

\* Tool groups the console can switch off (TOOL_CATEGORIES).
Categories ==
  [vendor_billing |-> {"vendor_list_sources", "vendor_import_invoice", "vendor_get_lines",
     "reconcile_resolve_mapping", "vendor_prices", "catalog_plan_standardize", "change_plan_review",
     "change_plan_execute", "reconcile_vendor_to_autotask", "reconcile_get_exceptions",
     "vendor_pricing_policy", "reconcile_export_workbook", "pricing_build_change_plan",
     "reconcile_check_sync_drift", "vendor_sync", "contract_plan_move_lines", "contract_plan_wording",
     "change_plan_revert", "vendor_monitor", "billing_preinvoice_check", "pricing_customer_notices"},
   utility |-> {"test_connection", "report_gap", "get_api_usage", "get_actor_roster",
     "get_operations", "get_backpressure", "shadow_status", "shadow_query", "shadow_aggregate",
     "shadow_sync", "list_queues", "list_ticket_statuses", "list_ticket_priorities", "get_field_info",
     "get_picklists", "resolve_picklist_value", "resolve_record_reference", "whoami"},
   companies |-> {"search_companies", "get_company", "find_company_contact_candidates",
     "find_duplicate_companies", "merge_discover", "merge_dependency_inventory", "merge_build_plan",
     "merge_verify", "bulk_inactivate", "create_company", "update_company",
     "get_company_site_configuration", "update_company_site_configuration"},
   contacts |-> {"search_contacts", "get_contact", "find_duplicate_contacts", "create_contact",
     "update_contact", "find_or_create_contact"},
   tickets |-> {"search_tickets", "get_ticket_details", "set_ticket_contract", "get_ticket_by_number",
     "get_ticket_change_history", "get_ticket_email_context", "create_ticket", "update_ticket",
     "start_work_on_ticket", "add_ticket_update", "move_ticket_to_company",
     "find_ticket_by_external_id", "search_ticket_configuration_items",
     "add_ticket_configuration_item", "remove_ticket_configuration_item", "get_ticket_note",
     "search_ticket_notes", "create_ticket_note", "get_ticket_attachment",
     "search_ticket_attachments", "create_ticket_attachment", "get_ticket_charge",
     "search_ticket_charges", "create_ticket_charge", "update_ticket_charge", "delete_ticket_charge",
     "get_ticket_history", "search_ticket_history", "search_notification_history",
     "report_ticket_throughput", "report_request_segmentation", "search_checklist_libraries",
     "get_checklist_library", "apply_checklist_library_to_ticket", "create_maintenance_ticket",
     "search_ticket_checklist_items", "create_ticket_checklist_item", "update_ticket_checklist_item",
     "delete_ticket_checklist_item"},
   projects |-> {"search_projects", "get_project", "update_project", "get_project_structure",
     "get_complete_project_context", "get_project_labor_summary", "export_project_blueprint",
     "calculate_project_schedule", "extract_project_scope", "classify_project", "calculate_bom_labor",
     "generate_project_labor_plan", "build_project_from_plan", "extend_project", "create_project",
     "link_project_commercial", "search_tasks", "get_task", "get_task_by_number", "create_task",
     "update_task", "complete_task", "delete_task", "delete_task_with_time",
     "verify_task_time_entries", "close_meeting_task", "list_task_resources", "add_task_resource",
     "remove_task_resource", "list_task_predecessors", "add_task_predecessor",
     "remove_task_predecessor", "get_task_predecessor", "search_task_predecessors",
     "update_task_predecessor", "list_phases", "create_phase", "get_phase", "update_phase",
     "get_project_note", "search_project_notes", "create_project_note", "get_task_note",
     "search_task_notes", "create_task_note", "search_project_attachments", "search_task_attachments",
     "get_project_attachment", "create_project_attachment", "get_task_attachment",
     "create_task_attachment"},
   time_and_billing |-> {"create_time_entry", "create_task_time_entries_bulk",
     "log_ticket_collaboration", "log_my_time", "list_regular_time_categories",
     "get_time_entry_targets", "get_my_day", "search_time_entries", "get_time_entry",
     "update_time_entry", "delete_time_entry", "search_billing_items", "get_billing_item",
     "search_billing_item_approval_levels", "report_time_entry_compliance",
     "report_activity_without_time", "search_audit_activity", "get_activity_feed", "backfill_history",
     "report_resource_activity", "report_resource_daily_audit", "report_unbilled_time",
     "get_expense_report", "search_expense_reports", "create_expense_report", "create_expense_item"},
   financial |-> {"get_quote", "search_quotes", "create_quote", "get_quote_item",
     "search_quote_items", "create_quote_item", "update_quote_item", "delete_quote_item",
     "get_opportunity", "search_opportunities", "create_opportunity", "update_opportunity",
     "search_invoices", "get_invoice_details", "search_contracts", "get_contract",
     "list_expiring_contracts", "create_contract", "create_contracts_bulk", "update_contract",
     "create_contract_service", "update_contract_service", "get_contract_service",
     "search_contract_services", "get_contract_billed_units", "report_contract_recurring_revenue",
     "report_contract_labour_basis", "get_contract_milestone", "search_contract_milestones",
     "create_contract_milestone", "update_contract_milestone", "report_block_hour_usage",
     "report_ticket_charges", "report_unbilled", "report_project_pl", "report_sla_compliance",
     "generate_sla_framework", "report_sla_coverage", "assign_contract_sla",
     "analyze_ticket_billing_gaps", "report_ticket_billing_gaps"},
   products_and_services |-> {"get_product", "search_products", "find_product",
     "list_product_categories", "find_catalog_gaps", "find_duplicate_products",
     "bulk_update_products", "merge_products", "create_product", "update_product",
     "search_inventory_products", "get_inventory_product", "create_inventory_product",
     "update_inventory_product", "search_inventory_locations", "get_inventory_location",
     "create_inventory_location", "update_inventory_location", "search_inventory_stocked_items",
     "get_inventory_stocked_item", "search_inventory_transfers", "create_inventory_transfer",
     "add_inventory_stock", "remove_inventory_stock", "report_inventory_reorder",
     "report_inventory_closeouts", "report_inventory_stale", "get_service", "search_services",
     "get_service_bundle", "search_service_bundles"},
   resources |-> {"search_resources", "search_roles", "get_resource_roles", "report_resource_burden"},
   configuration_items |-> {"search_configuration_items", "get_configuration_item",
     "create_configuration_item", "update_configuration_item", "get_configuration_item_entitlement",
     "search_configuration_item_coverage_gaps"},
   company_notes |-> {"get_company_note", "search_company_notes", "create_company_note"},
   service_calls |-> {"reconcile_service_call", "report_service_call_leakage",
     "report_tickets_needing_scheduling", "search_service_calls", "get_service_call",
     "create_service_call", "update_service_call", "delete_service_call",
     "search_service_call_tickets", "create_service_call_ticket", "delete_service_call_ticket",
     "search_service_call_ticket_resources", "create_service_call_ticket_resource",
     "delete_service_call_ticket_resource", "search_service_call_tasks", "create_service_call_task",
     "delete_service_call_task", "search_service_call_task_resources",
     "create_service_call_task_resource", "delete_service_call_task_resource"},
   company_todos |-> {"get_company_todo", "search_company_todos", "create_company_todo",
     "update_company_todo", "complete_company_todo", "delete_company_todo"},
   commerce |-> {"commerce_offerings", "commerce_quote", "commerce_order"},
   webhooks |-> {"list_webhook_entities", "search_webhooks", "get_webhook", "create_webhook",
     "update_webhook", "delete_webhook", "set_webhook_excluded_resources"}]

\* Names that begin with a read prefix: get_ search_ list_ find_ query_ count_ report_.
ReadNamed ==
  {"report_gap", "get_api_usage", "search_companies", "get_company", "find_company_contact_candidates",
   "find_duplicate_companies", "get_company_site_configuration", "search_contacts", "get_contact",
   "find_duplicate_contacts", "find_or_create_contact", "search_tickets", "get_ticket_details",
   "find_ticket_by_external_id", "search_ticket_configuration_items", "get_ticket_charge",
   "search_ticket_charges", "get_ticket_history", "search_audit_activity", "get_backpressure",
   "get_operations", "get_activity_feed", "report_resource_activity", "report_resource_daily_audit",
   "get_actor_roster", "get_ticket_by_number", "get_ticket_change_history", "get_ticket_email_context",
   "get_picklists", "search_ticket_history", "get_time_entry_targets", "list_regular_time_categories",
   "get_my_day", "get_time_entry", "search_projects", "get_project", "get_project_structure",
   "get_complete_project_context", "get_project_labor_summary", "search_resources", "search_roles",
   "get_resource_roles", "report_resource_burden", "get_ticket_note", "search_ticket_notes",
   "search_ticket_checklist_items", "search_checklist_libraries", "get_checklist_library",
   "get_project_note", "search_project_notes", "get_task_note", "search_task_notes",
   "search_project_attachments", "search_task_attachments", "get_project_attachment",
   "get_task_attachment", "get_company_note", "search_company_notes", "get_ticket_attachment",
   "search_ticket_attachments", "get_expense_report", "search_expense_reports", "get_quote",
   "search_quotes", "get_opportunity", "search_opportunities", "get_product", "search_products",
   "find_product", "list_product_categories", "find_catalog_gaps", "find_duplicate_products",
   "search_inventory_products", "get_inventory_product", "search_inventory_locations",
   "get_inventory_location", "search_inventory_stocked_items", "get_inventory_stocked_item",
   "search_inventory_transfers", "report_inventory_reorder", "report_inventory_closeouts",
   "report_inventory_stale", "get_service", "search_services", "get_service_bundle",
   "search_service_bundles", "get_quote_item", "search_quote_items", "search_configuration_items",
   "get_configuration_item", "get_configuration_item_entitlement",
   "search_configuration_item_coverage_gaps", "search_contracts", "get_contract",
   "list_expiring_contracts", "report_block_hour_usage", "report_ticket_charges", "report_unbilled",
   "report_unbilled_time", "report_sla_compliance", "report_sla_coverage",
   "report_time_entry_compliance", "search_notification_history", "report_activity_without_time",
   "report_tickets_needing_scheduling", "report_ticket_throughput", "report_request_segmentation",
   "report_project_pl", "search_invoices", "get_invoice_details", "search_tasks", "get_task",
   "get_task_by_number", "list_task_resources", "list_task_predecessors", "get_task_predecessor",
   "search_task_predecessors", "list_phases", "get_phase", "list_queues", "list_ticket_statuses",
   "list_ticket_priorities", "get_field_info", "search_billing_items", "get_billing_item",
   "search_billing_item_approval_levels", "search_time_entries", "list_categories",
   "list_category_tools", "get_service_call", "search_service_calls", "report_service_call_leakage",
   "report_ticket_billing_gaps", "search_service_call_tickets", "search_service_call_ticket_resources",
   "search_service_call_tasks", "search_service_call_task_resources", "get_company_todo",
   "search_company_todos", "get_contract_service", "search_contract_services",
   "get_contract_billed_units", "report_contract_recurring_revenue", "report_contract_labour_basis",
   "get_contract_milestone", "search_contract_milestones", "list_webhook_entities", "search_webhooks",
   "get_webhook"}

\* What idempotency.ts lists as not mutating whatever its name.
NON_MUTATING_TOOLS ==
  {"router", "whoami", "test_connection", "execute_tool", "backfill_history", "vendor_import_invoice",
   "reconcile_resolve_mapping", "vendor_prices", "catalog_plan_standardize", "change_plan_review",
   "reconcile_vendor_to_autotask", "reconcile_get_exceptions", "vendor_pricing_policy",
   "reconcile_export_workbook", "pricing_build_change_plan", "reconcile_check_sync_drift",
   "vendor_sync", "contract_plan_move_lines", "contract_plan_wording", "change_plan_revert",
   "vendor_monitor", "change_plan_execute", "raw_request"}
\* Names with a verb that writes (WRITE_VERB of tool-gate.ts), find_or_create_contact among them.
WriteNamed ==
  {"pricing_build_change_plan", "contract_plan_move_lines", "merge_build_plan", "create_company",
   "update_company", "update_company_site_configuration", "create_contact", "find_or_create_contact",
   "update_contact", "create_ticket", "add_ticket_configuration_item",
   "remove_ticket_configuration_item", "update_ticket", "move_ticket_to_company",
   "create_ticket_charge", "update_ticket_charge", "delete_ticket_charge", "set_ticket_contract",
   "create_time_entry", "create_task_time_entries_bulk", "log_ticket_collaboration", "log_my_time",
   "start_work_on_ticket", "add_ticket_update", "update_time_entry", "delete_time_entry",
   "get_complete_project_context", "build_project_from_plan", "extend_project", "create_project",
   "link_project_commercial", "update_project", "create_ticket_note", "create_ticket_checklist_item",
   "update_ticket_checklist_item", "delete_ticket_checklist_item", "apply_checklist_library_to_ticket",
   "create_project_note", "create_task_note", "create_project_attachment", "create_task_attachment",
   "create_company_note", "create_ticket_attachment", "create_expense_report", "create_expense_item",
   "create_quote", "create_opportunity", "update_opportunity", "bulk_update_products", "create_product",
   "update_product", "create_inventory_product", "update_inventory_product",
   "create_inventory_location", "update_inventory_location", "create_inventory_transfer",
   "add_inventory_stock", "remove_inventory_stock", "create_quote_item", "update_quote_item",
   "delete_quote_item", "create_configuration_item", "update_configuration_item",
   "create_maintenance_ticket", "assign_contract_sla", "create_task", "update_task", "complete_task",
   "delete_task", "delete_task_with_time", "close_meeting_task", "add_task_resource",
   "remove_task_resource", "add_task_predecessor", "remove_task_predecessor", "update_task_predecessor",
   "create_phase", "update_phase", "create_service_call", "update_service_call", "delete_service_call",
   "create_service_call_ticket", "delete_service_call_ticket", "create_service_call_ticket_resource",
   "delete_service_call_ticket_resource", "create_service_call_task", "delete_service_call_task",
   "create_service_call_task_resource", "delete_service_call_task_resource", "create_company_todo",
   "update_company_todo", "complete_company_todo", "delete_company_todo", "create_contract",
   "create_contracts_bulk", "update_contract", "create_contract_service", "update_contract_service",
   "create_contract_milestone", "update_contract_milestone", "create_webhook", "update_webhook",
   "delete_webhook", "set_webhook_excluded_resources"}
isMutatingTool(t) == t \notin NON_MUTATING_TOOLS /\ t \notin ReadNamed

ALWAYS_ON ==
  {"list_categories", "list_category_tools", "execute_tool", "router", "test_connection", "whoami", "report_gap"}
isWriteTool(t) ==
  \/ t \in {"raw_request", "bulk_inactivate"}
  \/ t # "shadow_sync" /\ Hints[t].hint # "readOnly" /\ (isMutatingTool(t) \/ t \in WriteNamed)

\* toolBlockReason: an administrator's switches, checked again inside execute_tool.
CategoriesOf(t) == {c \in DOMAIN Categories : t \in Categories[c]}
Blocked(t, writesEnabled, disabled) ==
  t \notin ALWAYS_ON /\ ((~writesEnabled /\ isWriteTool(t)) \/ CategoriesOf(t) \cap disabled # {})

\* mayWrite: which calls claim a durable key (raw_request by its method).
mayWrite(t, method) ==
  IF t = "raw_request" THEN method # "GET" ELSE t = "find_or_create_contact" \/ isMutatingTool(t)

\* Risk classes (utils/risk.ts), which decide who may run a tool and what needs confirm:true.
FINANCIAL_TOOLS ==
  {"create_contract", "create_contracts_bulk", "update_contract", "create_contract_service",
   "update_contract_service", "create_contract_milestone", "update_contract_milestone", "create_quote",
   "create_quote_item", "update_quote_item", "create_opportunity", "update_opportunity",
   "create_ticket_charge", "update_ticket_charge", "set_ticket_contract", "create_expense_report",
   "create_expense_item", "change_plan_execute"}
INVENTORY_MOVEMENT_TOOLS == {"create_inventory_transfer", "add_inventory_stock"}
classifyRisk(t) ==
  CASE Hints[t].hint = "readOnly" -> "read-only"
    [] Hints[t].hint = "destructive" -> "destructive"
    [] t \in FINANCIAL_TOOLS -> "financial"
    [] t \in INVENTORY_MOVEMENT_TOOLS -> "inventory-movement"
    [] OTHER -> "reversible-update"
requiresExplicitConfirmation(t) == classifyRisk(t) \in {"destructive", "financial", "inventory-movement"}

\* Roles (utils/permissions.ts): the highest risk a role may run; an unmapped caller only reads.
RISK_RANK ==
  ("read-only" :> 0) @@ ("reversible-update" :> 1) @@ ("external-communication" :> 2) @@ ("financial" :> 3)
    @@ ("inventory-movement" :> 4) @@ ("destructive" :> 5)
ROLE_MAX_RISK ==
  ("staff" :> "reversible-update") @@ ("dispatcher" :> "reversible-update")
    @@ ("project-manager" :> "reversible-update") @@ ("sales" :> "financial") @@ ("finance" :> "financial")
    @@ ("executive" :> "inventory-movement") @@ ("administrator" :> "destructive")
evaluatePermission(role, risk) ==
  \/ risk = "read-only"
  \/ role \in DOMAIN ROLE_MAX_RISK /\ RISK_RANK[risk] <= RISK_RANK[ROLE_MAX_RISK[role]]

\* Tools that are a dry run unless dryRun is false, so the gate lets them plan unconfirmed.
DRY_RUN_FIRST_TOOLS == {"delete_time_entry", "delete_task", "delete_task_with_time", "set_ticket_contract"}

\* Tools that act for the caller, those that fill in a role, and those read back after a create.
ACTING_RESOURCE_TOOLS ==
  {"create_time_entry", "create_company_todo", "update_company_todo", "create_ticket", "update_ticket",
   "log_my_time", "get_my_day", "start_work_on_ticket", "add_ticket_update"}
ACTING_ROLE_FIELDS == {"create_ticket", "update_ticket", "create_time_entry", "log_my_time"}
VerifyRead ==
  ("create_project" :> "Projects") @@ ("create_configuration_item" :> "ConfigurationItems")
    @@ ("create_contract_milestone" :> "ContractMilestones") @@ ("create_task" :> "Tasks")
    @@ ("create_phase" :> "Phases")
==============================================================================
