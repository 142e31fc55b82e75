---------------------------- MODULE ConsoleCalls ----------------------------
(***************************************************************************)
(* What the console reads and writes through lib/api*.ts and how hooks/*.ts *)
(* keep the React Query cache in step with it.                              *)
(*                                                                         *)
(* A query key is a name; a rowed key has one cache entry per row (user,    *)
(* group, administrator, ...), the others have one entry.  A call is one    *)
(* mutation of one hook:                                                    *)
(*   kind         whose rows it is about                                    *)
(*   affects      the keys whose answer the accepted call changes           *)
(*   invalidates  the keys its onSuccess invalidates                        *)
(*   sets         the key it fills with the answer of the call              *)
(*   removes      the keys it drops from the cache                          *)
(*   awaits       onSuccess returns the promise of the refetch, so that the *)
(*                mutation stays pending until the refetch is over          *)
(***************************************************************************)
EXTENDS Naturals, Functions

\* A call that only invalidates, and the ways it can differ from that.
Call(kind, affects, invalidates) ==
  [kind |-> kind, affects |-> affects, invalidates |-> invalidates,
   sets |-> {}, removes |-> {}, awaits |-> FALSE]
Sets(call, keys)    == [call EXCEPT !.sets = keys]
Removes(call, keys) == [call EXCEPT !.removes = keys]
Awaits(call)        == [call EXCEPT !.awaits = TRUE]

(***************************************************************************)
(* Keys.  A detail key is the prefix of the keys under it: invalidating or  *)
(* removing userKeys.detail(uid) reaches userKeys.groups(uid) as well.      *)
(***************************************************************************)
UserKeys     == {"users.list", "users.detail", "users.groups"}
GroupKeys    == {"groups.list", "groups.detail"}
AdminKeys    == {"admins.list", "admins.detail"}
RoleKeys     == {"roles.list", "roles.detail", "permissions.grouped"}
AlertKeys    == {"alerts.rules", "alerts.events", "alerts.event"}
AuditKeys    == {"audit.events", "audit.event", "audit.filters", "audit.summary"}
ClusterKeys  == {"cluster.status", "cluster.nodes", "cluster.queue", "cluster.syncState"}
SyncKeys     == {"sync.status"}
SettingsKeys == {"settings.list", "settings.systemInfo", "session.policy"}
ShieldKeys   == {"shield.overview", "shield.certificates", "shield.certificate", "shield.csr"}
BulkKeys     == {"bulk.job"}
HomeKeys     == {"home.cluster", "home.audit", "home.summary"}

KeyNames == UserKeys \cup GroupKeys \cup AdminKeys \cup RoleKeys \cup AlertKeys \cup AuditKeys
              \cup ClusterKeys \cup SyncKeys \cup SettingsKeys \cup ShieldKeys \cup BulkKeys
              \cup HomeKeys

UserRowKeys == {"users.detail", "users.groups"}

\* The keys with one entry per row, and whose rows they are about.
RowedKinds ==
  [users  |-> UserRowKeys, groups |-> {"groups.detail"}, admins |-> {"admins.detail"},
   roles  |-> {"roles.detail"}, alerts |-> {"alerts.event"}, audit |-> {"audit.event"},
   shield |-> {"shield.certificate"}, bulk |-> {"bulk.job"}]
RowedKeys == UNION Range(RowedKinds)
RowedOf(kind) == IF kind \in DOMAIN RowedKinds THEN RowedKinds[kind] ELSE {}

\* The keys a page that shows them asks for again on a timer.
PolledKeys == {"alerts.events", "audit.summary", "cluster.status", "cluster.nodes",
               "cluster.queue", "cluster.syncState", "settings.systemInfo", "shield.overview",
               "bulk.job"} \cup HomeKeys

(***************************************************************************)
(* Calls.                                                                   *)
(***************************************************************************)
\* Mutant: the hooks of the detail page refresh the lists only.
UserStatusCallForLists == Call("users", {"users.list", "users.detail"}, {"users.list"})

\* A status change reaches the list and the row.
UserStatusCall == Call("users", {"users.list", "users.detail"}, {"users.list"} \cup UserRowKeys)

\* The list page has mutations of its own, which invalidate the lists only.
UserListStatusCall == Call("users", {"users.list", "users.detail"}, {"users.list"})

UserCalls ==
  [useCreateUser        |-> Awaits(Call("users", {"users.list"}, {"users.list"})),
   useUpdateUser        |-> Sets(Call("users", {"users.list", "users.detail"}, {"users.list"}),
                                 {"users.detail"}),
   useDeleteUser        |-> Removes(Call("users", {"users.list"} \cup UserRowKeys,
                                         {"users.list"}), UserRowKeys),
   useActivateUser      |-> UserStatusCall,
   useDeactivateUser    |-> UserStatusCall,
   useLockUser          |-> UserStatusCall,
   useUnlockUser        |-> UserStatusCall,
   useResetUserPassword |-> Call("users", {"users.list", "users.detail"}, {}),
   useResetUserMfa      |-> Awaits(Call("users", {"users.list", "users.detail"}, UserRowKeys))]

UserListCalls ==
  [activateMut   |-> UserListStatusCall,
   deactivateMut |-> UserListStatusCall,
   lockMut       |-> UserListStatusCall,
   unlockMut     |-> UserListStatusCall,
   resetMfaMut   |-> UserListStatusCall,
   resetPassword |-> Call("users", {"users.list", "users.detail"}, {})]

\* The groups of a user are filtered out of the group list by the browser, so that every
\* change of a group can change them; nothing in useGroups.ts invalidates them.
MembershipKeys == {"groups.list", "groups.detail", "users.groups"}

GroupCalls ==
  [useCreateGroup       |-> Awaits(Call("groups", {"groups.list"}, {"groups.list"})),
   useUpdateGroup       |-> Sets(Call("groups", MembershipKeys, {"groups.list"}),
                                 {"groups.detail"}),
   useDeleteGroup       |-> Removes(Call("groups", MembershipKeys, {"groups.list"}),
                                    {"groups.detail"}),
   useAddGroupMember    |-> Sets(Call("groups", MembershipKeys, {}), {"groups.detail"}),
   useRemoveGroupMember |-> Sets(Call("groups", MembershipKeys, {}), {"groups.detail"})]

AdminCalls ==
  LET both == {"admins.list", "admins.detail"} IN
  [useCreateAdmin        |-> Awaits(Call("admins", {"admins.list"}, {"admins.list"})),
   useUpdateAdmin        |-> Sets(Call("admins", both, {"admins.list"}), {"admins.detail"}),
   useDeleteAdmin        |-> Removes(Call("admins", both, {"admins.list"}), {"admins.detail"}),
   useAssignAdminRole    |-> Call("admins", both, both),
   useRevokeAdminRole    |-> Call("admins", both, both),
   useResetAdminPassword |-> Call("admins", {"admins.detail"}, {}),
   useResetAdminMfa      |-> Awaits(Call("admins", both, {"admins.detail"}))]

AlertCalls ==
  LET event == Sets(Call("alerts", {"alerts.events", "alerts.event", "home.summary"},
                         {"alerts.events"}), {"alerts.event"}) IN
  LET rule == Awaits(Call("alerts", {"alerts.rules"}, {"alerts.rules"})) IN
  [useUpdateAlertRule  |-> rule,
   toggleMut           |-> rule,
   useAcknowledgeAlert |-> event,
   useResolveAlert     |-> event]

\* No page calls useAddNode.
ClusterCalls ==
  LET nodes == {"cluster.nodes", "cluster.status", "cluster.syncState"} IN
  [useProvisionNode |-> Call("cluster", nodes \cup {"home.cluster"}, nodes),
   useDeleteNode    |-> Call("cluster", nodes \cup {"home.cluster"}, nodes)]

\* Resolving a discrepancy changes the directory or the database behind the user pages.
SyncCalls ==
  [useTriggerSyncScan        |-> Awaits(Call("sync", {"sync.status"}, {"sync.status"})),
   useResolveSyncDiscrepancy |-> Awaits(Call("sync", {"sync.status", "users.list", "users.detail"},
                                             {"sync.status"}))]

\* The answer to a settings update is the list of all settings.  The tests change nothing.
SettingsCalls ==
  LET test == Call("settings", {}, {}) IN
  [useUpdateSetting     |-> Sets(Call("settings", {"settings.list", "session.policy"}, {}),
                                 {"settings.list"}),
   useSmtpTest          |-> test,
   useSmsTest           |-> test,
   useNotificationsTest |-> test]

ShieldCalls ==
  LET all == {"shield.overview", "shield.certificates", "shield.csr"}
      certificate == Call("shield", all \cup {"shield.certificate"}, all) IN
  [useUploadCertificate   |-> certificate,
   useDeleteCertificate   |-> certificate,
   useActivateCertificate |-> certificate,
   useTransitionActivate  |-> certificate,
   useGenerateCsr         |-> Call("shield", {"shield.overview", "shield.csr"}, all),
   useResignCsr           |-> certificate]

BulkCalls ==
  [useImportUsersCsv |-> Awaits(Call("bulk", {"users.list"}, {"bulk.job"}))]

\* The calls of one module beside those of others; no name is in two.
With(f, g) == [c \in DOMAIN f \cup DOMAIN g |-> IF c \in DOMAIN f THEN f[c] ELSE g[c]]

Calls ==
  With(UserCalls, With(UserListCalls, With(GroupCalls, With(AdminCalls, With(AlertCalls,
    With(ClusterCalls, With(SyncCalls, With(SettingsCalls, With(ShieldCalls, BulkCalls)))))))))
=============================================================================
