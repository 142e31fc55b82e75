-------------------------- MODULE OperationsPages --------------------------
(***************************************************************************)
(* The pages an operator watches: dashboard, cluster, alerts, audit, the    *)
(* reconciliation page and the bulk import.                                 *)
(***************************************************************************)
EXTENDS PageControls

\* Dashboard.tsx.  It has query keys of its own ("cluster-status", not clusterKeys.status()),
\* which no mutation of the console invalidates; all three are polled.
DashboardPage ==
  Page({"home.cluster", "home.audit", "home.summary"}, {}, {}, {}, {"alerts", "elsewhere"})

(***************************************************************************)
(* ClusterPage.tsx: every tab reads the status, the tabs sync and queue a   *)
(* key of their own.                                                        *)
(***************************************************************************)
\* NodesTab deletes after a window.confirm, which blocks the tab, so that no dialog is left
\* when the call starts; one mutation serves all rows and locks all of them.
NodeButtons == {Locked(Button("deleteNode", "useDeleteNode", "picked"))}

\* AddNodeForm stays open to show the command it was answered with.
AddNodeForm == Then(Form("addNode", "useProvisionNode", "none"), "stay")

ClusterPage ==
  Page({"cluster.status", "cluster.queue", "cluster.syncState"}, {},
       {"cluster.status", "cluster.queue", "cluster.syncState"},
       NodeButtons \cup {AddNodeForm}, {"home", "elsewhere"})

(***************************************************************************)
(* AlertsPage.tsx and AlertEventDetail.tsx.  The two dialogs of AckResolve- *)
(* Dialog.tsx bind their mutation to the event they were opened for on the  *)
(* list, and to the event of the page on the detail page.                   *)
(***************************************************************************)
AckAlertDialog(row)     == Keeps(Form("ack", "useAcknowledgeAlert", row), "mutation")
ResolveAlertDialog(row) == Keeps(Form("resolve", "useResolveAlert", row), "mutation")

\* RuleEditDialog.tsx sends the fields that differ from the rule it was opened with.
RuleEditDialog == Form("editRule", "useUpdateAlertRule", "none")

\* The toggle of a rule is locked by the mutation of its own row only.
RuleRow == Button("toggleRule", "toggleMut", "none")

AlertsPage ==
  Page({"alerts.rules", "alerts.events"}, {}, {"alerts.rules", "alerts.events"},
       {AckAlertDialog("picked"), ResolveAlertDialog("picked"), RuleEditDialog, RuleRow},
       {"alert", "home", "elsewhere"})

AlertEventDetail ==
  Page({"alerts.rules", "alerts.event"}, {"alerts.event"}, {},
       {AckAlertDialog("page"), ResolveAlertDialog("page")}, {"alerts", "elsewhere"})

(***************************************************************************)
(* AuditEvents.tsx and AuditEventDetail.tsx only read.                      *)
(***************************************************************************)
AuditEvents ==
  Page({"audit.events", "audit.filters", "audit.summary"}, {}, {"audit.events"}, {},
       {"auditEvent", "elsewhere"})
AuditEventDetail == Page({"audit.event"}, {"audit.event"}, {}, {}, {"audit"})

(***************************************************************************)
(* SyncPage.tsx and ResolveDiscrepancyDialog.tsx.                           *)
(***************************************************************************)
ResolveDiscrepancyDialog ==
  Keeps(Form("resolveDiscrepancy", "useResolveSyncDiscrepancy", "none"), "mutation")

SyncPage ==
  Page({"sync.status"}, {"sync.status"}, {"sync.status"},
       {Locked(Button("scan", "useTriggerSyncScan", "none")), ResolveDiscrepancyDialog},
       {"users", "elsewhere"})

(***************************************************************************)
(* BulkImport.tsx and BulkJobStatus.tsx: the accepted upload leads to the   *)
(* page of its job.                                                         *)
(***************************************************************************)
BulkImport ==
  Page({}, {}, {}, {Then(Locked(Button("import", "useImportUsersCsv", "none")), "bulkJob")},
       {"elsewhere"})
BulkJobStatus == Page({"bulk.job"}, {"bulk.job"}, {}, {}, {"elsewhere"})
=============================================================================
