------------------------------ MODULE Console ------------------------------
(***************************************************************************)
(* The pages of the console by the names the router (App.tsx) gives them.   *)
(***************************************************************************)
EXTENDS ConsoleCalls, DirectoryPages, AdminPages, OperationsPages, SystemPages, FiniteSets

\* The groups of pages that share keys, with the kind of row their detail page is about.
Pages ==
  [users  |-> UsersList,   user  |-> UserDetail,  userNew  |-> UserCreate,
   groups |-> GroupsList,  group |-> GroupDetail,
   admins |-> AdminsList,  admin |-> AdminDetail, adminNew |-> AdminCreate,
   roles  |-> RolesList,   role  |-> RoleDetail,
   audit  |-> AuditEvents, auditEvent |-> AuditEventDetail,
   alerts |-> AlertsPage,  alert |-> AlertEventDetail,
   cluster |-> ClusterPage, home |-> DashboardPage, sync |-> SyncPage,
   bulk   |-> BulkImport,  bulkJob |-> BulkJobStatus,
   shield |-> ShieldPage, certificate |-> CertDetailModal, settings |-> SettingsPage]

\* Any page without a query of its own.
Elsewhere == Page({}, {}, {}, {}, DOMAIN Pages)
PageOf(name) == IF name \in DOMAIN Pages THEN Pages[name] ELSE Elsewhere

RowedPages == {"user", "group", "admin", "role", "auditEvent", "alert", "bulkJob", "certificate"}

\* Every page the side bar leads to; the links of a page and the side bar lead to the rest.
SidebarPages == {"home", "users", "groups", "admins", "roles", "audit", "alerts", "cluster",
                 "sync", "shield", "settings"}
=============================================================================
