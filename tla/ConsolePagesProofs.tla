------------------------- MODULE ConsolePagesProofs -------------------------
(***************************************************************************)
(* The pages of the console and their cache for any rows, slices and        *)
(* bounds: the variables keep their types, what an idle page shows includes *)
(* the tab's own writes, and a held dialog is closed by nobody's answer but *)
(* its own.  All rest on the tables of ConsoleCalls and of the pages, which *)
(* are gone through first.                                                  *)
(***************************************************************************)
EXTENDS ConsolePages, TLAPS, FiniteSetTheorems

(***************************************************************************)
(* The table of the calls.                                                  *)
(***************************************************************************)
LEMMA CallFields ==
  \A kind, a, i :
     LET call == Call(kind, a, i) IN
     /\ call.affects = a /\ call.invalidates = i
     /\ call.sets = {} /\ call.removes = {}
  BY DEF Call

LEMMA SetsFields ==
  \A kind, a, i, k :
     LET call == Sets(Call(kind, a, i), k) IN
     /\ call.affects = a /\ call.invalidates = i
     /\ call.sets = k /\ call.removes = {}
  BY DEF Call, Sets

LEMMA RemovesFields ==
  \A kind, a, i, k :
     LET call == Removes(Call(kind, a, i), k) IN
     /\ call.affects = a /\ call.invalidates = i
     /\ call.sets = {} /\ call.removes = k
  BY DEF Call, Removes

LEMMA AwaitsFields ==
  \A kind, a, i :
     LET call == Awaits(Call(kind, a, i)) IN
     /\ call.affects = a /\ call.invalidates = i
     /\ call.sets = {} /\ call.removes = {}
  BY DEF Call, Awaits

LEMMA CallNames ==
  /\ DOMAIN UserCalls =
       {"useCreateUser", "useUpdateUser", "useDeleteUser", "useActivateUser", "useDeactivateUser",
        "useLockUser", "useUnlockUser", "useResetUserPassword", "useResetUserMfa"}
  /\ DOMAIN UserListCalls =
       {"activateMut", "deactivateMut", "lockMut", "unlockMut", "resetMfaMut", "resetPassword"}
  /\ DOMAIN GroupCalls =
       {"useCreateGroup", "useUpdateGroup", "useDeleteGroup", "useAddGroupMember",
        "useRemoveGroupMember"}
  /\ DOMAIN AdminCalls =
       {"useCreateAdmin", "useUpdateAdmin", "useDeleteAdmin", "useAssignAdminRole",
        "useRevokeAdminRole", "useResetAdminPassword", "useResetAdminMfa"}
  /\ DOMAIN AlertCalls =
       {"useUpdateAlertRule", "toggleMut", "useAcknowledgeAlert", "useResolveAlert"}
  /\ DOMAIN ClusterCalls = {"useProvisionNode", "useDeleteNode"}
  /\ DOMAIN SyncCalls = {"useTriggerSyncScan", "useResolveSyncDiscrepancy"}
  /\ DOMAIN SettingsCalls = {"useUpdateSetting", "useSmtpTest", "useSmsTest", "useNotificationsTest"}
  /\ DOMAIN ShieldCalls =
       {"useUploadCertificate", "useDeleteCertificate", "useActivateCertificate",
        "useTransitionActivate", "useGenerateCsr", "useResignCsr"}
  /\ DOMAIN BulkCalls = {"useImportUsersCsv"}
  BY DEF UserCalls, UserListCalls, GroupCalls, AdminCalls, AlertCalls, ClusterCalls, SyncCalls,
         SettingsCalls, ShieldCalls, BulkCalls

LEMMA AllCalls ==
  DOMAIN Calls = DOMAIN UserCalls \cup DOMAIN UserListCalls \cup DOMAIN GroupCalls
                   \cup DOMAIN AdminCalls \cup DOMAIN AlertCalls \cup DOMAIN ClusterCalls
                   \cup DOMAIN SyncCalls \cup DOMAIN SettingsCalls \cup DOMAIN ShieldCalls
                   \cup DOMAIN BulkCalls
  BY DEF Calls, With

LEMMA UnfollowedMeans ==
  \A c, k : <<c, k>> \in Unfollowed <=>
    (\/ c \in DOMAIN Calls /\ k \in {"home.cluster", "home.summary", "session.policy", "shield.certificate"}
     \/ c \in DOMAIN UserListCalls /\ k = "users.detail"
     \/ c \in {"resetPassword", "useResetUserPassword", "useResetUserMfa"} /\ k = "users.list"
     \/ c \in DOMAIN GroupCalls /\ k = "users.groups"
     \/ c \in {"useAddGroupMember", "useRemoveGroupMember"} /\ k = "groups.list"
     \/ c \in {"useResolveSyncDiscrepancy", "useImportUsersCsv"} /\ k \in {"users.list", "users.detail"}
     \/ c = "useResetUserPassword" /\ k = "users.detail"
     \/ c = "useResetAdminPassword" /\ k = "admins.detail"
     \/ c = "useResetAdminMfa" /\ k = "admins.list")
  BY DEF Unfollowed

\* The hook of a call takes care of every key the call changes, but for the pairs of
\* Unfollowed, and fills no key the call does not change.
FollowedUp(c, call) ==
  /\ \A k \in call.affects :
       <<c, k>> \notin Unfollowed => k \in call.sets \cup call.invalidates \cup call.removes
  /\ \A k \in call.sets : k \in call.affects /\ <<c, k>> \notin Unfollowed

LEMMA UserTable == \A c \in DOMAIN UserCalls : FollowedUp(c, UserCalls[c])
<1> SUFFICES ASSUME NEW c \in DOMAIN UserCalls PROVE FollowedUp(c, UserCalls[c])
  OBVIOUS
<1>1. c \in DOMAIN Calls /\ c \notin DOMAIN UserListCalls /\ c \notin DOMAIN GroupCalls
  BY AllCalls, CallNames
<1>2. QED
  BY <1>1, UnfollowedMeans, CallNames, CallFields, SetsFields, RemovesFields, AwaitsFields
     DEF FollowedUp, UserCalls, UserStatusCall, UserRowKeys

LEMMA UserListTable == \A c \in DOMAIN UserListCalls : FollowedUp(c, UserListCalls[c])
<1> SUFFICES ASSUME NEW c \in DOMAIN UserListCalls PROVE FollowedUp(c, UserListCalls[c])
  OBVIOUS
<1>1. c \in DOMAIN Calls
  BY AllCalls
<1>2. QED
  BY <1>1, UnfollowedMeans, CallNames, CallFields DEF FollowedUp, UserListCalls, UserListStatusCall

LEMMA GroupTable == \A c \in DOMAIN GroupCalls : FollowedUp(c, GroupCalls[c])
<1> SUFFICES ASSUME NEW c \in DOMAIN GroupCalls PROVE FollowedUp(c, GroupCalls[c])
  OBVIOUS
<1>1. c \in DOMAIN Calls /\ c \notin DOMAIN UserListCalls
  BY AllCalls, CallNames
<1>2. QED
  BY <1>1, UnfollowedMeans, CallNames, CallFields, SetsFields, RemovesFields, AwaitsFields
     DEF FollowedUp, GroupCalls, MembershipKeys

LEMMA AdminTable == \A c \in DOMAIN AdminCalls : FollowedUp(c, AdminCalls[c])
<1> SUFFICES ASSUME NEW c \in DOMAIN AdminCalls PROVE FollowedUp(c, AdminCalls[c])
  OBVIOUS
<1>1. c \in DOMAIN Calls /\ c \notin DOMAIN UserListCalls /\ c \notin DOMAIN GroupCalls
  BY AllCalls, CallNames
<1>2. QED
  BY <1>1, UnfollowedMeans, CallNames, CallFields, SetsFields, RemovesFields, AwaitsFields
     DEF FollowedUp, AdminCalls

LEMMA AlertTable == \A c \in DOMAIN AlertCalls : FollowedUp(c, AlertCalls[c])
<1> SUFFICES ASSUME NEW c \in DOMAIN AlertCalls PROVE FollowedUp(c, AlertCalls[c])
  OBVIOUS
<1>1. c \in DOMAIN Calls /\ c \notin DOMAIN UserListCalls /\ c \notin DOMAIN GroupCalls
  BY AllCalls, CallNames
<1>2. QED
  BY <1>1, UnfollowedMeans, CallNames, SetsFields, AwaitsFields DEF FollowedUp, AlertCalls

LEMMA ClusterTable == \A c \in DOMAIN ClusterCalls : FollowedUp(c, ClusterCalls[c])
<1> SUFFICES ASSUME NEW c \in DOMAIN ClusterCalls PROVE FollowedUp(c, ClusterCalls[c])
  OBVIOUS
<1>1. c \in DOMAIN Calls
  BY AllCalls
<1>2. QED
  BY <1>1, UnfollowedMeans, CallNames, CallFields DEF FollowedUp, ClusterCalls

LEMMA SyncTable == \A c \in DOMAIN SyncCalls : FollowedUp(c, SyncCalls[c])
<1> SUFFICES ASSUME NEW c \in DOMAIN SyncCalls PROVE FollowedUp(c, SyncCalls[c])
  OBVIOUS
<1>1. c \in DOMAIN Calls
  BY AllCalls
<1>2. QED
  BY <1>1, UnfollowedMeans, CallNames, AwaitsFields DEF FollowedUp, SyncCalls

LEMMA SettingsTable == \A c \in DOMAIN SettingsCalls : FollowedUp(c, SettingsCalls[c])
<1> SUFFICES ASSUME NEW c \in DOMAIN SettingsCalls PROVE FollowedUp(c, SettingsCalls[c])
  OBVIOUS
<1>1. c \in DOMAIN Calls /\ c \notin DOMAIN UserListCalls /\ c \notin DOMAIN GroupCalls
  BY AllCalls, CallNames
<1>2. QED
  BY <1>1, UnfollowedMeans, CallNames, CallFields, SetsFields DEF FollowedUp, SettingsCalls

LEMMA ShieldTable == \A c \in DOMAIN ShieldCalls : FollowedUp(c, ShieldCalls[c])
<1> SUFFICES ASSUME NEW c \in DOMAIN ShieldCalls PROVE FollowedUp(c, ShieldCalls[c])
  OBVIOUS
<1>1. c \in DOMAIN Calls
  BY AllCalls
<1>2. QED
  BY <1>1, UnfollowedMeans, CallNames, CallFields DEF FollowedUp, ShieldCalls

LEMMA BulkTable == \A c \in DOMAIN BulkCalls : FollowedUp(c, BulkCalls[c])
<1> SUFFICES ASSUME NEW c \in DOMAIN BulkCalls PROVE FollowedUp(c, BulkCalls[c])
  OBVIOUS
<1>1. c \in DOMAIN Calls
  BY AllCalls
<1>2. QED
  BY <1>1, UnfollowedMeans, CallNames, AwaitsFields DEF FollowedUp, BulkCalls

\* What is said of every call of two tables is said of the calls of both.
LEMMA WithBoth ==
  ASSUME NEW f, NEW g,
         \A c \in DOMAIN f : FollowedUp(c, f[c]), \A c \in DOMAIN g : FollowedUp(c, g[c])
  PROVE  \A c \in DOMAIN With(f, g) : FollowedUp(c, With(f, g)[c])
<1> SUFFICES ASSUME NEW c \in DOMAIN With(f, g) PROVE FollowedUp(c, With(f, g)[c])
  OBVIOUS
<1>1. c \in DOMAIN f \cup DOMAIN g
  BY DEF With
<1>2. With(f, g)[c] = IF c \in DOMAIN f THEN f[c] ELSE g[c]
  BY <1>1 DEF With
<1>3. QED
  BY <1>1, <1>2

LEMMA CallTable == \A c \in DOMAIN Calls : FollowedUp(c, Calls[c])
<1>1. \A c \in DOMAIN With(ShieldCalls, BulkCalls) :
        FollowedUp(c, With(ShieldCalls, BulkCalls)[c])
  BY ShieldTable, BulkTable, WithBoth
<1> DEFINE Settings == With(SettingsCalls, With(ShieldCalls, BulkCalls))
<1>2. \A c \in DOMAIN Settings : FollowedUp(c, Settings[c])
  BY <1>1, SettingsTable, WithBoth
<1> DEFINE Sync == With(SyncCalls, Settings)
<1> HIDE DEF Settings
<1>3. \A c \in DOMAIN Sync : FollowedUp(c, Sync[c])
  BY <1>2, SyncTable, WithBoth
<1> DEFINE Cluster == With(ClusterCalls, Sync)
<1> HIDE DEF Sync
<1>4. \A c \in DOMAIN Cluster : FollowedUp(c, Cluster[c])
  BY <1>3, ClusterTable, WithBoth
<1> DEFINE Alert == With(AlertCalls, Cluster)
<1> HIDE DEF Cluster
<1>5. \A c \in DOMAIN Alert : FollowedUp(c, Alert[c])
  BY <1>4, AlertTable, WithBoth
<1> DEFINE Admin == With(AdminCalls, Alert)
<1> HIDE DEF Alert
<1>6. \A c \in DOMAIN Admin : FollowedUp(c, Admin[c])
  BY <1>5, AdminTable, WithBoth
<1> DEFINE Group == With(GroupCalls, Admin)
<1> HIDE DEF Admin
<1>7. \A c \in DOMAIN Group : FollowedUp(c, Group[c])
  BY <1>6, GroupTable, WithBoth
<1> DEFINE UserList == With(UserListCalls, Group)
<1> HIDE DEF Group
<1>8. \A c \in DOMAIN UserList : FollowedUp(c, UserList[c])
  BY <1>7, UserListTable, WithBoth
<1>9. \A c \in DOMAIN With(UserCalls, UserList) : FollowedUp(c, With(UserCalls, UserList)[c])
  <2> HIDE DEF UserList
  <2>1. QED
    BY <1>8, UserTable, WithBoth
<1>10. Calls = With(UserCalls, UserList)
  BY DEF Calls, UserList, Group, Admin, Alert, Cluster, Sync, Settings
<1>11. QED
  BY <1>9, <1>10

(***************************************************************************)
(* The table of the pages.                                                  *)
(***************************************************************************)
IsControl(x) == DOMAIN x = {"name", "call", "row", "dialog", "locks", "held", "after", "keeps"}

LEMMA ButtonFields ==
  ASSUME NEW n, NEW c, NEW r
  PROVE  LET x == Button(n, c, r) IN
         /\ IsControl(x) /\ x.name = n /\ x.call = c /\ x.row = r
         /\ ~x.dialog /\ ~x.locks /\ ~x.held /\ x.after = "stay"
<1> DEFINE x == Button(n, c, r)
<1>1. x.name = n /\ x.call = c /\ x.row = r /\ x.after = "stay"
  BY DEF Button
<1>2. ~x.dialog /\ ~x.locks /\ ~x.held
  BY DEF Button
<1>3. IsControl(x)
  BY DEF Button, IsControl
<1>4. QED
  BY <1>1, <1>2, <1>3

LEMMA HeldFields ==
  ASSUME NEW x, IsControl(x)
  PROVE  /\ IsControl(Held(x))
         /\ Held(x).name = x.name /\ Held(x).call = x.call /\ Held(x).row = x.row
         /\ Held(x).dialog <=> x.dialog
         /\ Held(x).locks <=> x.locks
         /\ Held(x).held
         /\ Held(x).after = x.after
  BY DEF Held, IsControl

LEMMA LockedFields ==
  ASSUME NEW x, IsControl(x)
  PROVE  /\ IsControl(Locked(x))
         /\ Locked(x).name = x.name /\ Locked(x).call = x.call /\ Locked(x).row = x.row
         /\ Locked(x).dialog <=> x.dialog
         /\ Locked(x).locks
         /\ Locked(x).held <=> x.held
         /\ Locked(x).after = x.after
  BY DEF Locked, IsControl

LEMMA EagerFields ==
  ASSUME NEW x, IsControl(x)
  PROVE  /\ IsControl(Eager(x))
         /\ Eager(x).name = x.name /\ Eager(x).call = x.call /\ Eager(x).row = x.row
         /\ Eager(x).dialog <=> x.dialog
         /\ ~Eager(x).locks
         /\ Eager(x).held <=> x.held
         /\ Eager(x).after = x.after
  BY DEF Eager, IsControl

LEMMA ThenFields ==
  ASSUME NEW x, IsControl(x), NEW a
  PROVE  /\ IsControl(Then(x, a))
         /\ Then(x, a).name = x.name /\ Then(x, a).call = x.call /\ Then(x, a).row = x.row
         /\ Then(x, a).dialog <=> x.dialog
         /\ Then(x, a).locks <=> x.locks
         /\ Then(x, a).held <=> x.held
         /\ Then(x, a).after = a
  BY DEF Then, IsControl

LEMMA KeepsFields ==
  ASSUME NEW x, IsControl(x), NEW w
  PROVE  /\ IsControl(Keeps(x, w))
         /\ Keeps(x, w).name = x.name /\ Keeps(x, w).call = x.call /\ Keeps(x, w).row = x.row
         /\ Keeps(x, w).dialog <=> x.dialog
         /\ Keeps(x, w).locks <=> x.locks
         /\ Keeps(x, w).held <=> x.held
         /\ Keeps(x, w).after = x.after
  BY DEF Keeps, IsControl

LEMMA FormFields ==
  ASSUME NEW n, NEW c, NEW r
  PROVE  LET x == Form(n, c, r) IN
         /\ IsControl(x) /\ x.name = n /\ x.call = c /\ x.row = r
         /\ x.dialog /\ x.locks /\ ~x.held /\ x.after = "close"
<1> DEFINE b == Button(n, c, r)
           x == [b EXCEPT !.dialog = TRUE]
           y == [x EXCEPT !.locks = TRUE]
           z == [y EXCEPT !.after = "close"]
<1>1. /\ IsControl(b) /\ b.name = n /\ b.call = c /\ b.row = r /\ ~b.held
  BY ButtonFields
<1>2. /\ IsControl(x) /\ x.name = n /\ x.call = c /\ x.row = r /\ x.dialog /\ ~x.held
  <2> HIDE DEF b
  <2>1. QED
    BY <1>1 DEF IsControl
<1>3. /\ IsControl(y) /\ y.name = n /\ y.call = c /\ y.row = r /\ y.dialog /\ y.locks /\ ~y.held
  <2> HIDE DEF x
  <2>1. QED
    BY <1>2 DEF IsControl
<1>4. /\ IsControl(z) /\ z.name = n /\ z.call = c /\ z.row = r /\ z.dialog /\ z.locks /\ ~z.held
      /\ z.after = "close"
  <2> HIDE DEF y
  <2>1. QED
    BY <1>3 DEF IsControl
<1>5. Form(n, c, r) = z
  BY Zenon DEF Form
<1> HIDE DEF z
<1>6. QED
  BY <1>4, <1>5

LEMMA ConfirmFields ==
  ASSUME NEW n, NEW c, NEW r
  PROVE  LET x == Confirm(n, c, r) IN
         /\ IsControl(x) /\ x.name = n /\ x.call = c /\ x.row = r
         /\ x.dialog /\ x.locks /\ x.held /\ x.after = "close"
  BY FormFields, HeldFields, KeepsFields DEF Confirm

LEMMA PageNames ==
  DOMAIN Pages =
    {"users", "user", "userNew", "groups", "group", "admins", "admin", "adminNew", "roles", "role",
     "audit", "auditEvent", "alerts", "alert", "cluster", "home", "sync", "bulk", "bulkJob",
     "shield", "certificate", "settings"}
  BY DEF Pages

\* A control starts a call of the table, leads to no page under a modal, and locks if it is a
\* dialog that is held; a page tells its controls apart by their names.
WellMade(c) ==
  /\ c.call \in DOMAIN Calls /\ c.name # "none"
  /\ c.after \in {"stay", "close"} \cup (DOMAIN Pages \ {"shield", "certificate"})
  /\ c.held => c.dialog /\ c.locks

Composed(controls) ==
  \A c \in controls : WellMade(c) /\ \A d \in controls : c.name = d.name => c = d

LEMMA PageFields ==
  \A shows, gate, refresh, controls, links :
     LET page == Page(shows, gate, refresh, controls, links) IN
     page.shows = shows /\ page.gate = gate /\ page.controls = controls
  BY DEF Page

LEMMA UserPages ==
  Composed(UsersList.controls) /\ Composed(UserDetail.controls) /\ Composed(UserCreate.controls)
<1>1. Composed(UsersList.controls)
  <2>1. UsersList.controls = UserRowButtons \cup {Confirm("delete", "useDeleteUser", "picked"),
                               Form("resetPassword", "resetPassword", "picked")}
    BY PageFields DEF UsersList
  <2>2. \A c \in UsersList.controls : WellMade(c)
    BY <2>1, AllCalls, CallNames, PageNames, ButtonFields, FormFields, ConfirmFields
       DEF UserRowButtons, WellMade
  <2>3. \A c, d \in UsersList.controls : c.name = d.name => c = d
    BY <2>1, ButtonFields, FormFields, ConfirmFields DEF UserRowButtons
  <2>4. QED
    BY <2>2, <2>3 DEF Composed
<1>2. Composed(UserDetail.controls)
  <2>1. UserDetail.controls = UserButtons \cup UserDialogs
    BY PageFields DEF UserDetail
  <2>2. \A c \in UserDetail.controls : WellMade(c)
    BY <2>1, AllCalls, CallNames, PageNames, ButtonFields, FormFields, ConfirmFields, ThenFields
       DEF UserButtons, UserDialogs, WellMade
  <2>3. \A c, d \in UserDetail.controls : c.name = d.name => c = d
    BY <2>1, ButtonFields, FormFields, ConfirmFields, ThenFields DEF UserButtons, UserDialogs
  <2>4. QED
    BY <2>2, <2>3 DEF Composed
<1>3. Composed(UserCreate.controls)
  BY PageFields, AllCalls, CallNames, PageNames, ButtonFields, LockedFields, ThenFields
     DEF UserCreate, Composed, WellMade
<1>4. QED
  BY <1>1, <1>2, <1>3

LEMMA GroupPages ==
  /\ Composed(GroupsList.controls)
  /\ Composed(GroupDetail.controls)
<1>1. Composed(GroupsList.controls)
  <2>1. GroupsList.controls = {Then(Form("create", "useCreateGroup", "none"), "group"),
                                Confirm("delete", "useDeleteGroup", "picked")}
    BY PageFields DEF GroupsList
  <2>2. \A c \in GroupsList.controls : WellMade(c)
    BY <2>1, AllCalls, CallNames, PageNames, ButtonFields, FormFields, ConfirmFields, HeldFields, LockedFields,
       EagerFields, ThenFields, KeepsFields
       DEF WellMade
  <2>3. \A c, d \in GroupsList.controls : c.name = d.name => c = d
    BY <2>1, ButtonFields, FormFields, ConfirmFields, HeldFields, LockedFields,
       EagerFields, ThenFields, KeepsFields
  <2>4. QED
    BY <2>2, <2>3 DEF Composed
<1>2. Composed(GroupDetail.controls)
  <2>1. GroupDetail.controls = MemberControls \cup GroupDialogs
    BY PageFields DEF GroupDetail
  <2>2. \A c \in GroupDetail.controls : WellMade(c)
    BY <2>1, AllCalls, CallNames, PageNames, ButtonFields, FormFields, ConfirmFields, HeldFields, LockedFields,
       EagerFields, ThenFields, KeepsFields
       DEF MemberControls, GroupDialogs, WellMade
  <2>3. \A c, d \in GroupDetail.controls : c.name = d.name => c = d
    BY <2>1, ButtonFields, FormFields, ConfirmFields, HeldFields, LockedFields,
       EagerFields, ThenFields, KeepsFields DEF MemberControls, GroupDialogs
  <2>4. QED
    BY <2>2, <2>3 DEF Composed
<1>3. QED
  BY <1>1, <1>2

LEMMA AdminsPages ==
  /\ Composed(AdminsList.controls)
  /\ Composed(RolesList.controls)
  /\ Composed(RoleDetail.controls)
  /\ Composed(AdminCreate.controls)
  /\ Composed(AdminDetail.controls)
<1>1. Composed(AdminsList.controls) /\ Composed(RolesList.controls) /\ Composed(RoleDetail.controls)
  BY PageFields DEF AdminsList, RolesList, RoleDetail, Composed
<1>2. Composed(AdminCreate.controls)
  BY PageFields, AllCalls, CallNames, PageNames, ButtonFields, FormFields, ConfirmFields, HeldFields, LockedFields,
       EagerFields, ThenFields, KeepsFields DEF AdminCreate, Composed, WellMade
<1>3. Composed(AdminDetail.controls)
  <2>1. AdminDetail.controls = AdminButtons \cup AdminDialogs \cup RoleDialogs
    BY PageFields DEF AdminDetail
  <2>2. \A c \in AdminDetail.controls : WellMade(c)
    BY <2>1, AllCalls, CallNames, PageNames, ButtonFields, FormFields, ConfirmFields, HeldFields, LockedFields,
       EagerFields, ThenFields, KeepsFields
       DEF AdminButtons, AdminDialogs, RoleDialogs, WellMade
  <2>3. \A c, d \in AdminDetail.controls : c.name = d.name => c = d
    BY <2>1, ButtonFields, FormFields, ConfirmFields, HeldFields, LockedFields,
       EagerFields, ThenFields, KeepsFields DEF AdminButtons, AdminDialogs, RoleDialogs
  <2>4. QED
    BY <2>2, <2>3 DEF Composed
<1>4. QED
  BY <1>1, <1>2, <1>3

LEMMA WatchPages ==
  /\ Composed(DashboardPage.controls)
  /\ Composed(AuditEvents.controls)
  /\ Composed(AuditEventDetail.controls)
  /\ Composed(BulkJobStatus.controls)
  /\ Composed(ClusterPage.controls)
  /\ Composed(AlertsPage.controls)
  /\ Composed(AlertEventDetail.controls)
  /\ Composed(SyncPage.controls)
  /\ Composed(BulkImport.controls)
<1>1. Composed(DashboardPage.controls) /\ Composed(AuditEvents.controls) /\ Composed(AuditEventDetail.controls) /\ Composed(BulkJobStatus.controls)
  BY PageFields DEF DashboardPage, AuditEvents, AuditEventDetail, BulkJobStatus, Composed
<1>2. Composed(ClusterPage.controls)
  <2>1. ClusterPage.controls = NodeButtons \cup {AddNodeForm}
    BY PageFields DEF ClusterPage
  <2>2. \A c \in ClusterPage.controls : WellMade(c)
    BY <2>1, AllCalls, CallNames, PageNames, ButtonFields, FormFields, ConfirmFields, HeldFields, LockedFields,
       EagerFields, ThenFields, KeepsFields
       DEF NodeButtons, AddNodeForm, WellMade
  <2>3. \A c, d \in ClusterPage.controls : c.name = d.name => c = d
    BY <2>1, ButtonFields, FormFields, ConfirmFields, HeldFields, LockedFields,
       EagerFields, ThenFields, KeepsFields DEF NodeButtons, AddNodeForm
  <2>4. QED
    BY <2>2, <2>3 DEF Composed
<1>3. Composed(AlertsPage.controls)
  <2>1. AlertsPage.controls = {AckAlertDialog("picked"), ResolveAlertDialog("picked"),
                                RuleEditDialog, RuleRow}
    BY PageFields DEF AlertsPage
  <2>2. \A c \in AlertsPage.controls : WellMade(c)
    BY <2>1, AllCalls, CallNames, PageNames, ButtonFields, FormFields, ConfirmFields, HeldFields, LockedFields,
       EagerFields, ThenFields, KeepsFields
       DEF AckAlertDialog, ResolveAlertDialog, RuleEditDialog, RuleRow, WellMade
  <2>3. \A c, d \in AlertsPage.controls : c.name = d.name => c = d
    BY <2>1, ButtonFields, FormFields, ConfirmFields, HeldFields, LockedFields,
       EagerFields, ThenFields, KeepsFields DEF AckAlertDialog, ResolveAlertDialog, RuleEditDialog, RuleRow
  <2>4. QED
    BY <2>2, <2>3 DEF Composed
<1>4. Composed(AlertEventDetail.controls)
  <2>1. AlertEventDetail.controls = {AckAlertDialog("page"), ResolveAlertDialog("page")}
    BY PageFields DEF AlertEventDetail
  <2>2. \A c \in AlertEventDetail.controls : WellMade(c)
    BY <2>1, AllCalls, CallNames, PageNames, ButtonFields, FormFields, ConfirmFields, HeldFields, LockedFields,
       EagerFields, ThenFields, KeepsFields
       DEF AckAlertDialog, ResolveAlertDialog, WellMade
  <2>3. \A c, d \in AlertEventDetail.controls : c.name = d.name => c = d
    BY <2>1, ButtonFields, FormFields, ConfirmFields, HeldFields, LockedFields,
       EagerFields, ThenFields, KeepsFields DEF AckAlertDialog, ResolveAlertDialog
  <2>4. QED
    BY <2>2, <2>3 DEF Composed
<1>5. Composed(SyncPage.controls)
  <2>1. SyncPage.controls = {Locked(Button("scan", "useTriggerSyncScan", "none")),
                              ResolveDiscrepancyDialog}
    BY PageFields DEF SyncPage
  <2>2. \A c \in SyncPage.controls : WellMade(c)
    BY <2>1, AllCalls, CallNames, PageNames, ButtonFields, FormFields, ConfirmFields, HeldFields, LockedFields,
       EagerFields, ThenFields, KeepsFields
       DEF ResolveDiscrepancyDialog, WellMade
  <2>3. \A c, d \in SyncPage.controls : c.name = d.name => c = d
    BY <2>1, ButtonFields, FormFields, ConfirmFields, HeldFields, LockedFields,
       EagerFields, ThenFields, KeepsFields DEF ResolveDiscrepancyDialog
  <2>4. QED
    BY <2>2, <2>3 DEF Composed
<1>6. Composed(BulkImport.controls)
  BY PageFields, AllCalls, CallNames, PageNames, ButtonFields, FormFields, ConfirmFields, HeldFields, LockedFields,
       EagerFields, ThenFields, KeepsFields DEF BulkImport, Composed, WellMade
<1>7. QED
  BY <1>1, <1>2, <1>3, <1>4, <1>5, <1>6

LEMMA MaintenancePages ==
  /\ Composed(CertDetailModal.controls)
  /\ Composed(ShieldPage.controls)
  /\ Composed(SettingsPage.controls)
<1>1. Composed(CertDetailModal.controls)
  BY PageFields DEF CertDetailModal, Composed
<1>2. Composed(ShieldPage.controls)
  <2>1. ShieldPage.controls = {UploadCertDialog, GenerateCsrDialog, CaTransitionWizard}
                                \cup CertificateConfirms \cup CsrButtons
    BY PageFields DEF ShieldPage
  <2>2. \A c \in ShieldPage.controls : WellMade(c)
    BY <2>1, AllCalls, CallNames, PageNames, ButtonFields, FormFields, ConfirmFields, HeldFields, LockedFields,
       EagerFields, ThenFields, KeepsFields
       DEF UploadCertDialog, GenerateCsrDialog, CaTransitionWizard, CertificateConfirms, CsrButtons, WellMade
  <2>3. \A c, d \in ShieldPage.controls : c.name = d.name => c = d
    BY <2>1, ButtonFields, FormFields, ConfirmFields, HeldFields, LockedFields,
       EagerFields, ThenFields, KeepsFields DEF UploadCertDialog, GenerateCsrDialog, CaTransitionWizard, CertificateConfirms, CsrButtons
  <2>4. QED
    BY <2>2, <2>3 DEF Composed
<1>3. Composed(SettingsPage.controls)
  <2>1. SettingsPage.controls = {SettingValueEditor, ResetToDefault, SmtpTestDialog,
                                  SmsTestDialog, NotificationsTestDialog}
    BY PageFields DEF SettingsPage
  <2>2. \A c \in SettingsPage.controls : WellMade(c)
    BY <2>1, AllCalls, CallNames, PageNames, ButtonFields, FormFields, ConfirmFields, HeldFields, LockedFields,
       EagerFields, ThenFields, KeepsFields
       DEF SettingValueEditor, ResetToDefault, SmtpTestDialog, SmsTestDialog,
           NotificationsTestDialog, WellMade
  <2>3. \A c, d \in SettingsPage.controls : c.name = d.name => c = d
    BY <2>1, ButtonFields, FormFields, ConfirmFields, HeldFields, LockedFields,
       EagerFields, ThenFields, KeepsFields DEF SettingValueEditor, ResetToDefault, SmtpTestDialog, SmsTestDialog,
           NotificationsTestDialog
  <2>4. QED
    BY <2>2, <2>3 DEF Composed
<1>4. QED
  BY <1>1, <1>2, <1>3

LEMMA PageTable == \A p \in DOMAIN Pages : Composed(Pages[p].controls)
  BY PageNames, UserPages, GroupPages, AdminsPages, WatchPages, MaintenancePages DEF Pages

(***************************************************************************)
(* The cache entry and what is done to it.                                  *)
(***************************************************************************)
Entries == [data : Nat \cup {NoData}, stale : BOOLEAN, failed : BOOLEAN,
            fetch : {"idle", "asked", "answered"}, snap : Nat]

LEMMA EmptyFields ==
  /\ Empty \in Entries /\ Empty.data = NoData
  /\ ~Empty.stale /\ ~Empty.failed
  /\ Empty.fetch = "idle" /\ Empty.snap = 0
<1>1. Empty \in Entries
  BY DEF Empty, Entries, NoData
<1>2. Empty.data = NoData /\ Empty.fetch = "idle" /\ Empty.snap = 0
  BY DEF Empty
<1>3. ~Empty.stale /\ ~Empty.failed
  BY DEF Empty
<1>4. QED
  BY <1>1, <1>2, <1>3

LEMMA AskedFields ==
  ASSUME NEW e \in Entries
  PROVE  /\ Asked(e) \in Entries /\ Asked(e).data = e.data
         /\ Asked(e).stale <=> e.stale
         /\ Asked(e).failed <=> e.failed
         /\ Asked(e).fetch = "asked" /\ Asked(e).snap = 0
  BY DEF Asked, Entries

LEMMA MarkedFields ==
  ASSUME NEW e \in Entries
  PROVE  /\ Marked(e) \in Entries /\ Marked(e).data = e.data
         /\ Marked(e).stale
         /\ Marked(e).failed <=> e.failed
         /\ Marked(e).fetch = e.fetch /\ Marked(e).snap = e.snap
  BY DEF Marked, Entries

LEMMA FilledFields ==
  ASSUME NEW e \in Entries, NEW v \in Nat
  PROVE  /\ Filled(e, v) \in Entries /\ Filled(e, v).data = v
         /\ ~Filled(e, v).stale
         /\ ~Filled(e, v).failed
         /\ Filled(e, v).fetch = e.fetch /\ Filled(e, v).snap = e.snap
  BY DEF Filled, Entries

LEMMA ReadFields ==
  ASSUME NEW e \in Entries, NEW v \in Nat
  PROVE  LET x == [e EXCEPT !.fetch = "answered", !.snap = v] IN
         /\ x \in Entries /\ x.data = e.data
         /\ x.stale <=> e.stale
         /\ x.failed <=> e.failed
         /\ x.fetch = "answered" /\ x.snap = v
  BY DEF Entries

LEMMA ReceivedFields ==
  ASSUME NEW v \in Nat
  PROVE  LET x == [Empty EXCEPT !.data = v] IN
         /\ x \in Entries /\ x.data = v
         /\ ~x.stale /\ ~x.failed
         /\ x.fetch = "idle" /\ x.snap = 0
<1> DEFINE e == Empty
           x == [e EXCEPT !.data = v]
<1>1. e \in Entries /\ ~e.stale /\ ~e.failed /\ e.fetch = "idle" /\ e.snap = 0
  BY EmptyFields
<1>2. /\ x \in Entries /\ x.data = v
      /\ ~x.stale /\ ~x.failed
      /\ x.fetch = "idle" /\ x.snap = 0
  <2> HIDE DEF e
  <2>1. QED
    BY <1>1 DEF Entries
<1>3. QED
  BY <1>2

LEMMA FailedFields ==
  ASSUME NEW e \in Entries
  PROVE  LET x == [e EXCEPT !.fetch = "idle", !.snap = 0, !.failed = TRUE] IN
         /\ x \in Entries /\ x.data = e.data
         /\ x.stale <=> e.stale
         /\ x.failed
         /\ x.fetch = "idle" /\ x.snap = 0
  BY DEF Entries

\* What an invalidation and a page that mounts leave of an entry.
LEMMA InvalidatedFields ==
  ASSUME NEW e \in Entries
  PROVE  /\ Invalidated(e) \in Entries /\ Invalidated(e).data = e.data
         /\ \/ ~Mounted /\ Invalidated(e) = Marked(e)
            \/ Mounted /\ e.data = NoData /\ e.fetch # "idle" /\ Invalidated(e) = e
            \/ /\ Mounted
               /\ Invalidated(e).stale /\ Invalidated(e).fetch = "asked" /\ Invalidated(e).snap = 0
<1> DEFINE m == Marked(e)
<1>1. m \in Entries /\ m.data = e.data /\ m.stale
  BY MarkedFields
<1>2. /\ Asked(m) \in Entries /\ Asked(m).data = e.data /\ Asked(m).stale
      /\ Asked(m).fetch = "asked" /\ Asked(m).snap = 0
  <2> HIDE DEF m
  <2>1. QED
    BY <1>1, AskedFields
<1>3. CASE ~Mounted
  BY <1>1, <1>3 DEF Invalidated
<1>4. CASE Mounted /\ e.data = NoData /\ e.fetch # "idle"
  BY <1>4 DEF Invalidated
<1>5. CASE Mounted /\ ~(e.data = NoData /\ e.fetch # "idle")
  BY <1>2, <1>5 DEF Invalidated
<1>6. QED
  BY <1>3, <1>4, <1>5

LEMMA OnMountFields ==
  ASSUME NEW e \in Entries
  PROVE  /\ OnMount(e) \in Entries
         /\ \/ e.fetch # "idle" /\ OnMount(e) = e
            \/ e.data # NoData /\ ~e.stale /\ OnMount(e) = e
            \/ e.fetch = "idle" /\ OnMount(e) = Asked(e)
<1>1. CASE e.fetch = "idle" /\ (e.data = NoData \/ e.stale)
  BY <1>1, AskedFields DEF OnMount
<1>2. CASE ~(e.fetch = "idle" /\ (e.data = NoData \/ e.stale))
  BY <1>2 DEF OnMount
<1>3. QED
  BY <1>1, <1>2

LEMMA DroppedFields == Dropped \in Entries /\ Dropped.data = NoData /\ Dropped.snap = 0
<1> DEFINE e == Empty
<1>1. e \in Entries /\ e.data = NoData /\ e.snap = 0
  BY EmptyFields
<1>2. Asked(e) \in Entries /\ Asked(e).data = NoData /\ Asked(e).snap = 0
  <2> HIDE DEF e
  <2>1. QED
    BY <1>1, AskedFields
<1>3. QED
  BY <1>1, <1>2 DEF Dropped

(***************************************************************************)
(* The calls of the tab and what is done to one of them.                    *)
(***************************************************************************)
Phases == {"unused", "sent", "done", "awaiting", "over"}

IsRequest(x) ==
  /\ DOMAIN x = {"phase", "control", "row", "bound", "mount", "vers", "waits"}
  /\ x.phase \in Phases /\ x.mount \in Nat /\ x.vers \in Nat

\* Two states of a call that differ in what it is bound to or waits for.
Alike(x, y) ==
  /\ x.phase = y.phase /\ x.control = y.control /\ x.row = y.row
  /\ x.mount = y.mount /\ x.vers = y.vers

LEMMA UnusedFields ==
  IsRequest(Unused) /\ Unused.phase = "unused" /\ Unused.mount = 0 /\ Unused.vers = 0
  BY DEF Unused, IsRequest, Phases

LEMMA OverFields == IsRequest(Over) /\ Over.phase = "over" /\ Over.mount = 0 /\ Over.vers = 0
<1> DEFINE x == Unused
<1>1. IsRequest(x) /\ x.mount = 0 /\ x.vers = 0
  BY UnusedFields
<1> DEFINE y == [x EXCEPT !.phase = "over"]
<1>2. IsRequest(y) /\ y.phase = "over" /\ y.mount = 0 /\ y.vers = 0
  <2> HIDE DEF x
  <2>1. QED
    BY <1>1 DEF IsRequest, Phases
<1>3. QED
  BY <1>2 DEF Over

SentCall(c, row, m) ==
  [Unused EXCEPT !.phase = "sent", !.control = c, !.row = row, !.bound = row, !.mount = m]

LEMMA SentFields ==
  ASSUME NEW c, NEW row, NEW m \in Nat
  PROVE  LET y == SentCall(c, row, m) IN
         /\ IsRequest(y) /\ y.phase = "sent" /\ y.control = c /\ y.row = row
         /\ y.mount = m /\ y.vers = 0
<1> DEFINE x == Unused
           y == [x EXCEPT !.phase = "sent", !.control = c, !.row = row, !.bound = row, !.mount = m]
<1>1. IsRequest(x) /\ x.vers = 0
  BY UnusedFields
<1>2. /\ IsRequest(y) /\ y.phase = "sent" /\ y.control = c /\ y.row = row
      /\ y.mount = m /\ y.vers = 0
  <2> HIDE DEF x
  <2>1. QED
    BY <1>1 DEF IsRequest, Phases
<1>3. QED
  BY <1>2 DEF SentCall

LEMMA WaitsFields ==
  ASSUME NEW x, IsRequest(x), NEW w
  PROVE  IsRequest([x EXCEPT !.waits = w]) /\ Alike([x EXCEPT !.waits = w], x)
  BY DEF IsRequest, Alike

LEMMA BoundFields ==
  ASSUME NEW x, IsRequest(x), NEW row
  PROVE  IsRequest([x EXCEPT !.bound = row]) /\ Alike([x EXCEPT !.bound = row], x)
  BY DEF IsRequest, Alike

LEMMA DoneFields ==
  ASSUME NEW x, IsRequest(x), NEW v \in Nat
  PROVE  LET y == [x EXCEPT !.phase = "done", !.vers = v] IN
         /\ IsRequest(y) /\ y.phase = "done" /\ y.vers = v
         /\ y.control = x.control /\ y.row = x.row /\ y.mount = x.mount
  BY DEF IsRequest, Phases

LEMMA AwaitingFields ==
  ASSUME NEW x, IsRequest(x), NEW w
  PROVE  LET y == [x EXCEPT !.phase = "awaiting", !.waits = w] IN
         /\ IsRequest(y) /\ y.phase = "awaiting" /\ y.vers = x.vers
         /\ y.control = x.control /\ y.row = x.row /\ y.mount = x.mount
  BY DEF IsRequest, Phases

CallsTyped == DOMAIN requests = RequestIds /\ \A r \in RequestIds : IsRequest(requests[r])
SameCalls  == \A r \in RequestIds : Alike(requests'[r], requests[r])

LEMMA UnchangedCalls == CallsTyped /\ requests' = requests => CallsTyped' /\ SameCalls
  BY DEF CallsTyped, SameCalls, Alike, RequestIds

LEMMA ToldCalls ==
  ASSUME CallsTyped
  PROVE  /\ \A r \in RequestIds : IsRequest(Told[r]) /\ Alike(Told[r], requests[r])
         /\ requests' = Told => CallsTyped' /\ SameCalls
<1>1. \A r \in RequestIds : IsRequest(Told[r]) /\ Alike(Told[r], requests[r])
  BY WaitsFields DEF Told, CallsTyped
<1>2. ASSUME requests' = Told PROVE CallsTyped' /\ SameCalls
  BY <1>1, <1>2 DEF CallsTyped, SameCalls, Told, RequestIds
<1>3. QED
  BY <1>1, <1>2

LEMMA ReboundCalls ==
  ASSUME CallsTyped, NEW row, requests' = Rebound(row)
  PROVE  CallsTyped' /\ SameCalls
<1>1. \A r \in RequestIds : IsRequest(Rebound(row)[r]) /\ Alike(Rebound(row)[r], requests[r])
  <2> SUFFICES ASSUME NEW r \in RequestIds
               PROVE  IsRequest(Rebound(row)[r]) /\ Alike(Rebound(row)[r], requests[r])
    OBVIOUS
  <2>1. IsRequest(requests[r]) /\ Alike(requests[r], requests[r])
    BY DEF CallsTyped, Alike
  <2>2. Rebound(row)[r] = [requests[r] EXCEPT !.bound = row] \/ Rebound(row)[r] = requests[r]
    BY DEF Rebound
  <2>3. QED
    BY <2>1, <2>2, BoundFields
<1>2. QED
  BY <1>1 DEF CallsTyped, SameCalls, Rebound, RequestIds

LEMMA DialogCalls ==
  ASSUME CallsTyped, NEW c, NEW row, requests' = BoundToDialog(c, row)
  PROVE  CallsTyped' /\ SameCalls
<1>1. \A r \in RequestIds : /\ IsRequest(BoundToDialog(c, row)[r])
                            /\ Alike(BoundToDialog(c, row)[r], requests[r])
  <2> SUFFICES ASSUME NEW r \in RequestIds
               PROVE  /\ IsRequest(BoundToDialog(c, row)[r])
                      /\ Alike(BoundToDialog(c, row)[r], requests[r])
    OBVIOUS
  <2>1. IsRequest(requests[r]) /\ Alike(requests[r], requests[r])
    BY DEF CallsTyped, Alike
  <2>2. \/ BoundToDialog(c, row)[r] = [requests[r] EXCEPT !.bound = row]
        \/ BoundToDialog(c, row)[r] = requests[r]
    BY DEF BoundToDialog
  <2>3. QED
    BY <2>1, <2>2, BoundFields
<1>2. QED
  BY <1>1 DEF CallsTyped, SameCalls, BoundToDialog, RequestIds

OthersAlike(r) == \A q \in RequestIds \ {r} : Alike(requests'[q], requests[q])

Sends(r, c, row) == requests' = [requests EXCEPT ![r] = SentCall(c, row, mount)]

LEMMA SubmitCalls ==
  ASSUME CallsTyped, mount \in Nat, NEW c, NEW row, NEW r \in RequestIds, Sends(r, c, row)
  PROVE  /\ CallsTyped' /\ OthersAlike(r)
         /\ requests'[r].phase = "sent" /\ requests'[r].control = c /\ requests'[r].row = row
         /\ requests'[r].mount = mount /\ requests'[r].vers = 0
<1> DEFINE x == SentCall(c, row, mount)
<1>1. /\ IsRequest(x) /\ x.phase = "sent" /\ x.control = c /\ x.row = row
      /\ x.mount = mount /\ x.vers = 0
  BY SentFields
<1>2. requests' = [requests EXCEPT ![r] = x]
  BY DEF Sends
<1> HIDE DEF x
<1>3. /\ DOMAIN requests' = RequestIds /\ requests'[r] = x
      /\ \A q \in RequestIds \ {r} : requests'[q] = requests[q]
  BY <1>2 DEF CallsTyped
<1>4. QED
  BY <1>1, <1>3 DEF CallsTyped, OthersAlike, Alike, RequestIds

LEMMA CommitCalls ==
  ASSUME CallsTyped, NEW r \in RequestIds, NEW v \in Nat,
         requests' = [requests EXCEPT ![r].phase = "done", ![r].vers = v]
  PROVE  /\ CallsTyped' /\ OthersAlike(r)
         /\ requests'[r].phase = "done" /\ requests'[r].vers = v
         /\ requests'[r].control = requests[r].control /\ requests'[r].row = requests[r].row
         /\ requests'[r].mount = requests[r].mount
<1>1. DOMAIN requests = RequestIds /\ IsRequest(requests[r])
  BY DEF CallsTyped
<1>2. DOMAIN requests' = RequestIds
  BY <1>1
<1>3. requests'[r] = [requests[r] EXCEPT !.phase = "done", !.vers = v]
  BY <1>1
<1>4. \A q \in RequestIds \ {r} : requests'[q] = requests[q]
  BY <1>1
<1> DEFINE x == [requests[r] EXCEPT !.phase = "done", !.vers = v]
<1>5. /\ IsRequest(x) /\ x.phase = "done" /\ x.vers = v /\ x.control = requests[r].control
      /\ x.row = requests[r].row /\ x.mount = requests[r].mount
  BY <1>1, DoneFields
<1>6. requests'[r] = x
  BY <1>3
<1> HIDE DEF x
<1>7. QED
  BY <1>2, <1>4, <1>5, <1>6 DEF CallsTyped, OthersAlike, Alike, RequestIds

LEMMA OverCalls ==
  ASSUME CallsTyped, NEW r \in RequestIds, requests' = [requests EXCEPT ![r] = Over]
  PROVE  CallsTyped' /\ OthersAlike(r) /\ requests'[r] = Over
<1>1. /\ DOMAIN requests' = RequestIds /\ requests'[r] = Over
      /\ \A q \in RequestIds \ {r} : requests'[q] = requests[q]
  BY DEF CallsTyped
<1>2. QED
  BY <1>1, OverFields DEF CallsTyped, OthersAlike, Alike, RequestIds

\* What an answer does to the calls: it is over, or its mutation waits for the refetch.
HeardCall(r) ==
  \/ CallOf(r).awaits /\ /\ requests'[r].phase = "awaiting"
                         /\ requests'[r].vers = requests[r].vers
                         /\ requests'[r].control = requests[r].control
                         /\ requests'[r].row = requests[r].row
                         /\ requests'[r].mount = requests[r].mount
  \/ ~CallOf(r).awaits /\ requests'[r] = Over

LEMMA AnswerCalls ==
  ASSUME CallsTyped, NEW r \in RequestIds, Answer(r)
  PROVE  CallsTyped' /\ OthersAlike(r) /\ HeardCall(r)
<1> DEFINE refetch == Updated(r) # entry
           waits   == CallOf(r).awaits /\ refetch /\ Updated(r).fetch # "idle"
           x       == [requests[r] EXCEPT !.phase = "awaiting", !.waits = waits]
<1>1. requests' = [q \in RequestIds |->
        IF q # r THEN IF refetch THEN Told[q] ELSE requests[q]
        ELSE IF CallOf(r).awaits THEN x ELSE Over]
  BY DEF Answer
<1>2. /\ IsRequest(x) /\ x.phase = "awaiting" /\ x.vers = requests[r].vers
      /\ x.control = requests[r].control /\ x.row = requests[r].row
      /\ x.mount = requests[r].mount
  BY AwaitingFields DEF CallsTyped
<1> HIDE DEF refetch, x
<1>3. \A q \in RequestIds \ {r} : requests'[q] = Told[q] \/ requests'[q] = requests[q]
  BY <1>1
<1>4. requests'[r] = IF CallOf(r).awaits THEN x ELSE Over
  BY <1>1
<1>5. DOMAIN requests' = RequestIds
  BY <1>1
<1>6. OthersAlike(r) /\ \A q \in RequestIds \ {r} : IsRequest(requests'[q])
  BY <1>3, ToldCalls DEF CallsTyped, OthersAlike, Alike
<1>7. IsRequest(requests'[r])
  BY <1>2, <1>4, OverFields
<1>8. CallsTyped'
  BY <1>5, <1>6, <1>7 DEF CallsTyped, RequestIds
<1>9. HeardCall(r)
  BY <1>2, <1>4 DEF HeardCall
<1>10. QED
  BY <1>6, <1>8, <1>9

(***************************************************************************)
(* The kinds of the variables, as far as what follows needs them.           *)
(***************************************************************************)
KeyKinds == \A c \in key.uses : WellMade(c)
EntryKinds ==
  /\ KeyKinds
  /\ written \in Nat /\ due \in Nat /\ mount \in Nat
  /\ gone \in BOOLEAN /\ missed \in BOOLEAN
  /\ entry \in Entries
  /\ CallsTyped

\* The four things an answer can do to the entry.
LEMMA UpdatedFields ==
  ASSUME EntryKinds, NEW r \in RequestIds
  PROVE  /\ Updated(r) \in Entries
         /\ LET call == CallOf(r)
                bound == requests[r].bound IN
            \/ Deletes(r) /\ Updated(r) = Dropped
            \/ /\ ~Deletes(r) /\ Reaches(call.sets, call, bound)
               /\ Updated(r) = Filled(entry, requests[r].vers)
            \/ /\ ~Deletes(r) /\ ~Reaches(call.sets, call, bound)
               /\ Reaches(call.invalidates, call, bound)
               /\ Updated(r) = Invalidated(entry)
            \/ /\ ~Deletes(r) /\ ~Reaches(call.sets, call, bound)
               /\ ~Reaches(call.invalidates, call, bound)
               /\ Updated(r) = entry
<1>1. entry \in Entries /\ requests[r].vers \in Nat
  BY DEF EntryKinds, CallsTyped, IsRequest
<1>2. /\ Dropped \in Entries /\ Filled(entry, requests[r].vers) \in Entries
      /\ Invalidated(entry) \in Entries
  BY <1>1, DroppedFields, FilledFields, InvalidatedFields
<1> DEFINE call == CallOf(r)
           bound == requests[r].bound
<1>3. Updated(r) = IF Deletes(r) THEN Dropped
                   ELSE IF Reaches(call.sets, call, bound) THEN Filled(entry, requests[r].vers)
                   ELSE IF Reaches(call.invalidates, call, bound) THEN Invalidated(entry)
                   ELSE entry
  BY DEF Updated
<1>4. QED
  BY <1>1, <1>2, <1>3

\* Whether the page shows the key once the address is another one.
LEMMA ArriveMounted ==
  ASSUME key' = key, NEW to, NEW row, Arrive(to, row)
  PROVE  Mounted' <=> ShowsKey(to, row)
<1>1. route'.page = to /\ route'.row = row
  BY DEF Arrive
<1>2. QED
  BY <1>1 DEF Mounted, ShowsKey, KeyRowed

\* What a page that mounts makes of the entry, and what one that does not.
MountsWith(e) ==
  \/ entry' = e /\ (Mounted' => Mounted)
  \/ entry' = OnMount(e) /\ ~Mounted

LEMMA FinishesEntry ==
  ASSUME key' = key, mount \in Nat, NEW r \in RequestIds, NEW e \in Entries, Finishes(r, e)
  PROVE  entry' \in Entries /\ mount' \in Nat /\ MountsWith(e)
<1>1. OnMount(e) \in Entries
  BY OnMountFields
<1> DEFINE after == requests[r].control.after
<1>2. CASE after \in {"stay", "close"}
  <2>1. entry' = e /\ route' = route /\ mount' = mount
    BY <1>2 DEF Finishes
  <2>2. QED
    BY <2>1 DEF MountsWith, Mounted, ShowsKey, KeyRowed
<1>3. CASE after \notin {"stay", "close"}
  <2>1. PICK row \in PageRows(after) :
          /\ Arrive(after, row)
          /\ entry' = IF ShowsKey(after, row) /\ ~Mounted THEN OnMount(e) ELSE e
    BY <1>3 DEF Finishes
  <2>2. mount' \in Nat
    BY <2>1 DEF Arrive
  <2>3. Mounted' <=> ShowsKey(after, row)
    BY <2>1, ArriveMounted
  <2>4. QED
    BY <1>1, <2>1, <2>2, <2>3 DEF MountsWith
<1>4. QED
  BY <1>2, <1>3

LEMMA NavigateEntry ==
  ASSUME EntryKinds, NEW to, NEW row, Navigate(to, row)
  PROVE  entry' \in Entries /\ mount' \in Nat /\ MountsWith(entry)
<1>1. key' = key /\ Arrive(to, row)
      /\ entry' = IF ShowsKey(to, row) /\ ~Mounted THEN OnMount(entry) ELSE entry
  BY DEF Navigate
<1>2. entry \in Entries /\ OnMount(entry) \in Entries /\ mount \in Nat
  BY OnMountFields DEF EntryKinds
<1>3. mount' \in Nat
  BY <1>1, <1>2 DEF Arrive
<1>4. Mounted' <=> ShowsKey(to, row)
  BY <1>1, ArriveMounted
<1>5. QED
  BY <1>1, <1>2, <1>3, <1>4 DEF MountsWith

LEMMA KindsInit == Init => EntryKinds
<1> SUFFICES ASSUME Init PROVE EntryKinds
  OBVIOUS
<1>1. PICK slice \in Slices, row \in Rows, warm \in BOOLEAN :
        /\ key = [name |-> slice.name,
                  row |-> IF slice.name \in RowedKeys THEN CHOOSE r \in Rows : TRUE ELSE NoRow,
                  uses |-> slice.uses]
        /\ entry = IF warm THEN [Empty EXCEPT !.data = 0]
                   ELSE IF ShowsKey(slice.page, route.row) THEN Asked(Empty) ELSE Empty
  BY DEF Init
<1>2. /\ written = 0 /\ gone = FALSE /\ mount = 0 /\ due = 0 /\ missed = FALSE
      /\ requests = [r \in RequestIds |-> Unused]
  BY DEF Init
<1>3. KeyKinds
  BY <1>1, ConsoleAssumption, PageTable DEF KeyKinds, Composed
<1>4. entry \in Entries
  BY <1>1, ReceivedFields, EmptyFields, AskedFields
<1>5. CallsTyped
  BY <1>2, UnusedFields DEF CallsTyped, RequestIds
<1>6. QED
  BY <1>2, <1>3, <1>4, <1>5 DEF EntryKinds

LEMMA KindsStep == EntryKinds /\ [Next]_vars => EntryKinds'
<1> SUFFICES ASSUME EntryKinds, [Next]_vars PROVE EntryKinds'
  OBVIOUS
<1>0. /\ KeyKinds /\ written \in Nat /\ due \in Nat /\ mount \in Nat
      /\ gone \in BOOLEAN /\ missed \in BOOLEAN
      /\ entry \in Entries /\ CallsTyped
  BY DEF EntryKinds
<1>1. key' = key => KeyKinds'
  BY <1>0 DEF KeyKinds
<1>2. requests' = requests => CallsTyped'
  BY <1>0, UnchangedCalls
<1>3. ASSUME NEW c, NEW row, OpenDialog(c, row) PROVE EntryKinds'
  <2>1. requests' = BoundToDialog(c, row)
    BY <1>3 DEF OpenDialog
  <2>2. CallsTyped'
    BY <1>0, <2>1, DialogCalls
  <2>3. QED
    BY <1>0, <1>1, <1>3, <2>2 DEF OpenDialog, EntryKinds
<1>4. ASSUME NEW c, NEW row, Submit(c, row) PROVE EntryKinds'
  <2>1. PICK r \in RequestIds : Sends(r, c, row)
    BY <1>4 DEF Submit, Sends, SentCall
  <2>2. CallsTyped'
    BY <1>0, <2>1, SubmitCalls
  <2>3. QED
    BY <1>0, <1>1, <1>4, <2>2 DEF Submit, EntryKinds
<1>5. ASSUME NEW c, CloseDialog(c) PROVE EntryKinds'
  <2>1. requests' = BoundToDialog(c, NoRow)
    BY <1>5 DEF CloseDialog
  <2>2. CallsTyped'
    BY <1>0, <2>1, DialogCalls
  <2>3. QED
    BY <1>0, <1>1, <1>5, <2>2 DEF CloseDialog, EntryKinds
<1>6. ASSUME NEW to, NEW row, Navigate(to, row) PROVE EntryKinds'
  <2>1. CallsTyped'
    BY <1>0, <1>2, <1>6, ReboundCalls DEF Navigate
  <2>2. entry' \in Entries /\ mount' \in Nat
    BY <1>6, NavigateEntry
  <2>3. QED
    BY <1>0, <1>1, <1>6, <2>1, <2>2 DEF Navigate, EntryKinds
<1>7. CASE Refresh
  <2>1. entry' \in Entries
    BY <1>0, <1>7, AskedFields DEF Refresh
  <2>2. QED
    BY <1>0, <1>1, <1>2, <1>7, <2>1 DEF Refresh, EntryKinds
<1>8. CASE Poll
  <2>1. entry' \in Entries
    BY <1>0, <1>8, AskedFields DEF Poll
  <2>2. QED
    BY <1>0, <1>1, <1>2, <1>8, <2>1 DEF Poll, EntryKinds
<1>9. CASE TimePasses
  <2>1. entry' \in Entries
    BY <1>0, <1>9, MarkedFields DEF TimePasses
  <2>2. QED
    BY <1>0, <1>1, <1>2, <1>9, <2>1 DEF TimePasses, EntryKinds
<1>10. CASE Receive
  <2>1. entry.snap \in Nat
    BY <1>0 DEF Entries
  <2>2. entry' \in Entries
    BY <1>10, <2>1, ReceivedFields DEF Receive
  <2>3. CallsTyped'
    BY <1>0, <1>10, ToldCalls DEF Receive
  <2>4. QED
    BY <1>0, <1>1, <1>10, <2>2, <2>3 DEF Receive, EntryKinds
<1>11. CASE FetchFails
  <2>1. entry' \in Entries
    BY <1>0, <1>11, FailedFields DEF FetchFails
  <2>2. CallsTyped'
    BY <1>0, <1>11, ToldCalls DEF FetchFails
  <2>3. QED
    BY <1>0, <1>1, <1>11, <2>1, <2>2 DEF FetchFails, EntryKinds
<1>12. CASE ServerReads
  <2>1. entry' \in Entries
    BY <1>0, <1>12, ReadFields DEF ServerReads
  <2>2. QED
    BY <1>0, <1>1, <1>2, <1>12, <2>1 DEF ServerReads, EntryKinds
<1>13. CASE OthersWrite
  BY <1>0, <1>1, <1>2, <1>13 DEF OthersWrite, EntryKinds
<1>14. ASSUME NEW r \in RequestIds, Commit(r) PROVE EntryKinds'
  <2>1. written' \in Nat /\ gone' \in BOOLEAN
    BY <1>0, <1>14 DEF Commit
  <2>2. PICK v \in Nat : v = written'
    BY <2>1
  <2>3. requests' = [requests EXCEPT ![r].phase = "done", ![r].vers = v]
    BY <1>14, <2>2 DEF Commit
  <2>4. CallsTyped'
    BY <1>0, <2>3, CommitCalls
  <2>5. QED
    BY <1>0, <1>1, <1>14, <2>1, <2>4 DEF Commit, EntryKinds
<1>15. ASSUME NEW r \in RequestIds, Answer(r) PROVE EntryKinds'
  <2>1. CallsTyped' /\ requests[r].vers \in Nat
    BY <1>0, <1>15, AnswerCalls DEF CallsTyped, IsRequest
  <2>2. Updated(r) \in Entries /\ key' = key
    BY <1>15, UpdatedFields DEF Answer
  <2>3. entry' \in Entries /\ mount' \in Nat
    BY <1>0, <1>15, <2>2, FinishesEntry DEF Answer
  <2>4. due' \in Nat /\ missed' \in BOOLEAN
    BY <1>0, <1>15, <2>1 DEF Answer
  <2>5. QED
    BY <1>0, <1>1, <1>15, <2>1, <2>3, <2>4 DEF Answer, EntryKinds
<1>16. ASSUME NEW r \in RequestIds, Fails(r) PROVE EntryKinds'
  <2>1. CallsTyped'
    BY <1>0, <1>16, OverCalls DEF Fails
  <2>2. QED
    BY <1>0, <1>1, <1>16, <2>1 DEF Fails, EntryKinds
<1>17. ASSUME NEW r \in RequestIds, Settle(r) PROVE EntryKinds'
  <2>1. CallsTyped'
    BY <1>0, <1>17, OverCalls DEF Settle
  <2>2. entry' \in Entries /\ mount' \in Nat
    BY <1>0, <1>17, FinishesEntry DEF Settle
  <2>3. QED
    BY <1>0, <1>1, <1>17, <2>1, <2>2 DEF Settle, EntryKinds
<1>18. CASE UNCHANGED vars
  BY <1>0, <1>1, <1>2, <1>18 DEF vars, EntryKinds
<1>19. QED
  BY <1>3, <1>4, <1>5, <1>6, <1>7, <1>8, <1>9, <1>10, <1>11, <1>12, <1>13, <1>14, <1>15, <1>16,
     <1>17, <1>18 DEF Next, User, Query, Server, Client

\* The kinds of the variables: the cache entry and every call keep their fields, and every
\* control in use is one that a page declares.
THEOREM ConsoleKinds == Spec => []EntryKinds
  BY KindsInit, KindsStep, PTL DEF Spec

(***************************************************************************)
(* What the calls of the tab carry.                                         *)
(***************************************************************************)
\* A call in flight was sent by a control in use, and what was accepted of it is behind the
\* key: a delete in that the row is gone.
Known(r) ==
  /\ InFlight(r) => requests[r].control \in key.uses
  /\ requests[r].phase \in {"done", "awaiting"} => requests[r].vers <= written
  /\ requests[r].phase = "done" /\ Deletes(r) => gone
CallsKnown == \A r \in RequestIds : Known(r)

LEMMA AlikeKnown ==
  ASSUME key' = key, written \in Nat, written' \in Nat, written <= written', gone => gone',
         NEW r \in RequestIds, IsRequest(requests[r]), Alike(requests'[r], requests[r]), Known(r)
  PROVE  Known(r)'
<1>1. CallOf(r)' = CallOf(r) /\ (InFlight(r)' <=> InFlight(r))
  BY DEF CallOf, Alike, InFlight
<1>2. Deletes(r)' <=> Deletes(r)
  BY <1>1 DEF Deletes, Reaches, Alike, KeyRowed
<1>3. requests[r].vers \in Nat
  BY DEF IsRequest
<1>4. requests'[r].phase \in {"done", "awaiting"} => requests'[r].vers <= written'
  BY <1>3 DEF Known, Alike
<1>5. QED
  BY <1>1, <1>2, <1>4 DEF Known, Alike

LEMMA SameKnown ==
  ASSUME key' = key, written \in Nat, written' \in Nat, written <= written', gone => gone',
         CallsTyped, SameCalls, CallsKnown
  PROVE  CallsKnown'
<1>1. ASSUME NEW r \in RequestIds PROVE Known(r)'
  BY AlikeKnown DEF CallsTyped, SameCalls, CallsKnown
<1>2. QED
  BY <1>1 DEF CallsKnown, RequestIds

\* All calls but one stay as they are.
LEMMA OneKnown ==
  ASSUME key' = key, written \in Nat, written' \in Nat, written <= written', gone => gone',
         CallsTyped, NEW r \in RequestIds, OthersAlike(r), Known(r)', CallsKnown
  PROVE  CallsKnown'
<1>1. ASSUME NEW q \in RequestIds \ {r} PROVE Known(q)'
  BY AlikeKnown DEF CallsTyped, OthersAlike, CallsKnown
<1>2. ASSUME NEW q \in RequestIds PROVE Known(q)'
  BY <1>1
<1>3. QED
  BY <1>2 DEF CallsKnown, RequestIds

LEMMA OverKnown == \A r \in RequestIds : requests'[r] = Over => Known(r)'
  BY OverFields DEF Known, InFlight

LEMMA KnownInit == Init => CallsKnown
<1> SUFFICES ASSUME Init, NEW r \in RequestIds PROVE Known(r)
  BY DEF CallsKnown
<1>1. requests[r] = Unused
  BY DEF Init
<1>2. QED
  BY <1>1, UnusedFields DEF Known, InFlight

LEMMA KnownStep == EntryKinds /\ CallsKnown /\ [Next]_vars => CallsKnown'
<1> SUFFICES ASSUME EntryKinds, CallsKnown, [Next]_vars PROVE CallsKnown'
  OBVIOUS
<1>1. written \in Nat /\ CallsTyped /\ mount \in Nat
  BY DEF EntryKinds
<1>2. ASSUME requests' = requests, key' = key, written' \in Nat, written <= written', gone' = gone
      PROVE  CallsKnown'
  BY <1>1, <1>2, UnchangedCalls, SameKnown
<1>3. ASSUME NEW c, NEW row, OpenDialog(c, row) PROVE CallsKnown'
  <2>1. SameCalls
    BY <1>1, <1>3, DialogCalls DEF OpenDialog
  <2>2. QED
    BY <1>1, <1>3, <2>1, SameKnown DEF OpenDialog
<1>4. ASSUME NEW c \in key.uses, NEW row, Submit(c, row) PROVE CallsKnown'
  <2>1. PICK r \in RequestIds : Sends(r, c, row)
    BY <1>4 DEF Submit, Sends, SentCall
  <2>2. OthersAlike(r) /\ requests'[r].phase = "sent" /\ requests'[r].control = c
    BY <1>1, <2>1, SubmitCalls
  <2>3. key' = key /\ written' = written /\ gone' = gone
    BY <1>4 DEF Submit
  <2>4. Known(r)'
    BY <2>2, <2>3 DEF Known
  <2>5. QED
    BY <1>1, <2>2, <2>3, <2>4, OneKnown
<1>5. ASSUME NEW c, CloseDialog(c) PROVE CallsKnown'
  <2>1. SameCalls
    BY <1>1, <1>5, DialogCalls DEF CloseDialog
  <2>2. QED
    BY <1>1, <1>5, <2>1, SameKnown DEF CloseDialog
<1>6. ASSUME NEW to, NEW row, Navigate(to, row) PROVE CallsKnown'
  <2>1. SameCalls
    BY <1>1, <1>6, ReboundCalls, UnchangedCalls DEF Navigate
  <2>2. QED
    BY <1>1, <1>6, <2>1, SameKnown DEF Navigate
<1>7. CASE Refresh \/ Poll \/ TimePasses \/ ServerReads \/ OthersWrite
  BY <1>1, <1>2, <1>7 DEF Refresh, Poll, TimePasses, ServerReads, OthersWrite
<1>8. CASE Receive \/ FetchFails
  <2>1. SameCalls
    BY <1>1, <1>8, ToldCalls DEF Receive, FetchFails
  <2>2. QED
    BY <1>1, <1>8, <2>1, SameKnown DEF Receive, FetchFails
<1>9. ASSUME NEW r \in RequestIds, Commit(r) PROVE CallsKnown'
  <2>1. /\ key' = key /\ written' \in Nat /\ written <= written'
        /\ gone' = (gone \/ Deletes(r))
        /\ requests[r].phase = "sent"
    BY <1>1, <1>9 DEF Commit
  <2>2. PICK v \in Nat : v = written'
    BY <2>1
  <2>3. requests' = [requests EXCEPT ![r].phase = "done", ![r].vers = v]
    BY <1>9, <2>2 DEF Commit
  <2>4. /\ OthersAlike(r) /\ requests'[r].phase = "done" /\ requests'[r].vers = written'
        /\ requests'[r].control = requests[r].control /\ requests'[r].row = requests[r].row
    BY <1>1, <2>2, <2>3, CommitCalls
  <2>5. Deletes(r)' <=> Deletes(r)
    BY <2>1, <2>4 DEF Deletes, CallOf, Reaches, KeyRowed
  <2>6. requests[r].control \in key.uses
    BY <2>1 DEF CallsKnown, Known, InFlight
  <2>7. requests'[r].vers <= written'
    BY <2>1, <2>4
  <2>8. Known(r)'
    BY <2>1, <2>4, <2>5, <2>6, <2>7 DEF Known
  <2>9. QED
    BY <1>1, <2>1, <2>4, <2>8, OneKnown
<1>10. ASSUME NEW r \in RequestIds, Answer(r) PROVE CallsKnown'
  <2>1. OthersAlike(r) /\ HeardCall(r)
    BY <1>1, <1>10, AnswerCalls
  <2>2. key' = key /\ written' = written /\ gone' = gone /\ requests[r].phase = "done"
    BY <1>10 DEF Answer
  <2>3. requests[r].control \in key.uses /\ requests[r].vers <= written
    BY <2>2 DEF CallsKnown, Known, InFlight
  <2>4. CASE requests'[r] = Over
    BY <1>1, <2>1, <2>2, <2>4, OverKnown, OneKnown
  <2>5. CASE /\ requests'[r].phase = "awaiting" /\ requests'[r].vers = requests[r].vers
             /\ requests'[r].control = requests[r].control
    <3>1. Known(r)'
      BY <2>2, <2>3, <2>5 DEF Known
    <3>2. QED
      BY <1>1, <2>1, <2>2, <3>1, OneKnown
  <2>6. QED
    BY <2>1, <2>4, <2>5 DEF HeardCall
<1>11. ASSUME NEW r \in RequestIds, Fails(r) \/ Settle(r) PROVE CallsKnown'
  <2>1. /\ requests' = [requests EXCEPT ![r] = Over]
        /\ key' = key /\ written' = written /\ gone' = gone
    BY <1>11 DEF Fails, Settle
  <2>2. OthersAlike(r) /\ requests'[r] = Over
    BY <1>1, <2>1, OverCalls
  <2>3. Known(r)'
    BY <2>2, OverKnown
  <2>4. QED
    BY <1>1, <2>1, <2>2, <2>3, OneKnown
<1>12. CASE UNCHANGED vars
  BY <1>1, <1>2, <1>12 DEF vars
<1>13. QED
  BY <1>3, <1>4, <1>5, <1>6, <1>7, <1>8, <1>9, <1>10, <1>11, <1>12
     DEF Next, User, Query, Server, Client

(***************************************************************************)
(* What the entry reflects.                                                 *)
(***************************************************************************)
\* A fetch reflects every acknowledged write (d is the newest); the entry does, or is known
\* not to; what an idle page shows does.
FetchCurrent(e, d) == e.fetch = "answered" => e.snap >= d /\ e.snap <= written
EntryCurrent(e, d) == e.data = NoData \/ e.stale \/ e.data >= d
ShownCurrent(e, d) == (Mounted /\ e.fetch = "idle" /\ ~e.failed) => e.data # NoData /\ e.data >= d
CurrentAt(e, d)    == FetchCurrent(e, d) /\ EntryCurrent(e, d) /\ ShownCurrent(e, d)

Current == due <= written /\ (~missed /\ ~gone => CurrentAt(entry, due))

\* The same, once the page may be another one, for what it makes of the entry.
LEMMA MountsCurrent ==
  ASSUME EntryKinds, written' = written, NEW e \in Entries, MountsWith(e), NEW d \in Nat, CurrentAt(e, d)
  PROVE  /\ entry'.fetch = "answered" => entry'.snap >= d /\ entry'.snap <= written'
         /\ entry'.data = NoData \/ entry'.stale \/ entry'.data >= d
         /\ (Mounted' /\ entry'.fetch = "idle" /\ ~entry'.failed)
              => entry'.data # NoData /\ entry'.data >= d
<1>1. CASE entry' = e /\ (Mounted' => Mounted)
  BY <1>1 DEF CurrentAt, FetchCurrent, EntryCurrent, ShownCurrent
<1>2. CASE entry' = OnMount(e) /\ ~Mounted
  <2>1. CASE e.fetch # "idle" /\ OnMount(e) = e
    BY <1>2, <2>1 DEF CurrentAt, FetchCurrent, EntryCurrent
  <2>2. CASE e.data # NoData /\ ~e.stale /\ OnMount(e) = e
    BY <1>2, <2>2 DEF CurrentAt, FetchCurrent, EntryCurrent
  <2>3. CASE e.fetch = "idle" /\ OnMount(e) = Asked(e)
    BY <1>2, <2>3, AskedFields DEF CurrentAt, EntryCurrent
  <2>4. QED
    BY <2>1, <2>2, <2>3, OnMountFields
<1>3. QED
  BY <1>1, <1>2 DEF MountsWith

\* What an answer that is not missed leaves in the entry is current.
LEMMA UpdatedCurrent ==
  ASSUME EntryKinds, CallsKnown, Current, NEW r \in RequestIds, requests[r].phase = "done",
         ~missed, ~gone, ~Misplaced(r), ~(Follows(r) /\ Overtaken(r)),
         NEW d, d = IF Follows(r) /\ requests[r].vers > due THEN requests[r].vers ELSE due
  PROVE  d \in Nat /\ d <= written /\ CurrentAt(Updated(r), d)
<1> DEFINE call  == CallOf(r)
           row   == requests[r].row
           bound == requests[r].bound
           vers  == requests[r].vers
           c     == requests[r].control.call
<1>1. /\ entry \in Entries /\ due \in Nat /\ written \in Nat /\ vers \in Nat
      /\ due <= written /\ CurrentAt(entry, due)
  BY DEF EntryKinds, CallsTyped, IsRequest, Current
<1>2. vers <= written /\ ~Deletes(r) /\ requests[r].control \in key.uses
  BY DEF CallsKnown, Known, InFlight
<1>3. c \in DOMAIN Calls
  BY <1>2 DEF EntryKinds, KeyKinds, WellMade
<1>4. /\ \A k \in call.affects :
            <<c, k>> \notin Unfollowed => k \in call.sets \cup call.invalidates \cup call.removes
      /\ \A k \in call.sets : k \in call.affects /\ <<c, k>> \notin Unfollowed
  BY <1>3, CallTable DEF FollowedUp, CallOf
<1>5. d \in Nat /\ d <= written /\ due <= d /\ (d = due \/ (Follows(r) /\ d = vers))
  BY <1>1, <1>2
<1>6. CASE ~Follows(r)
  <2>1. d = due
    BY <1>6
  <2>2. ~Reaches(call.sets, call, bound)
    BY <1>4, <1>6 DEF Misplaced, Follows, Reaches
  <2>3. CASE Updated(r) = entry
    BY <1>1, <2>1, <2>3
  <2>4. CASE Updated(r) = Invalidated(entry)
    BY <1>1, <2>1, <2>4, InvalidatedFields, MarkedFields
       DEF CurrentAt, FetchCurrent, EntryCurrent, ShownCurrent
  <2>5. QED
    BY <1>2, <1>5, <2>2, <2>3, <2>4, UpdatedFields
<1>7. CASE Follows(r)
  <2>1. /\ bound = row
        /\ Updated(r).fetch = "answered" => Updated(r).snap >= vers
        /\ ~(Reaches(call.sets, call, row) /\ vers < due)
    <3>1. ~Overtaken(r)
      BY <1>7
    <3>2. Updated(r).snap \in Nat
      BY UpdatedFields DEF Entries
    <3>3. QED
      BY <1>1, <3>1, <3>2 DEF Overtaken
  <2>2. \/ Reaches(call.sets, call, row) \/ Reaches(call.invalidates, call, row)
    BY <1>2, <1>4, <1>7 DEF Follows, Reaches, Deletes
  <2>3. CASE Updated(r) = Filled(entry, vers) /\ Reaches(call.sets, call, row)
    <3>1. d = vers
      BY <1>1, <1>7, <2>1, <2>3
    <3>2. /\ Updated(r).data = d /\ Updated(r).fetch = entry.fetch
          /\ Updated(r).snap = entry.snap
      <4>1. LET x == Filled(entry, vers) IN
            x.data = vers /\ x.fetch = entry.fetch /\ x.snap = entry.snap
        BY <1>1, FilledFields
      <4>2. QED
        BY <2>3, <3>1, <4>1
    <3>3. d # NoData /\ d >= d
      BY <1>5 DEF NoData
    <3>4. EntryCurrent(Updated(r), d) /\ ShownCurrent(Updated(r), d)
      BY <3>2, <3>3 DEF EntryCurrent, ShownCurrent
    <3>5. FetchCurrent(Updated(r), d)
      BY <1>1, <2>1, <3>1, <3>2 DEF CurrentAt, FetchCurrent
    <3>6. QED
      BY <1>5, <3>4, <3>5 DEF CurrentAt
  <2>4. CASE Updated(r) = Invalidated(entry)
    <3>1. Updated(r).fetch = "answered" => Updated(r).snap >= d
      BY <1>1, <1>5, <2>1, <2>4, InvalidatedFields, MarkedFields
         DEF CurrentAt, FetchCurrent, Entries
    <3>2. QED
      BY <1>1, <1>5, <2>4, <3>1, InvalidatedFields, MarkedFields
         DEF CurrentAt, FetchCurrent, EntryCurrent, ShownCurrent
  <2>5. QED
    BY <1>2, <1>5, <2>1, <2>2, <2>3, <2>4, UpdatedFields
<1>8. QED
  BY <1>5, <1>6, <1>7

LEMMA CurrentInit == Init => Current
<1> SUFFICES ASSUME Init PROVE Current
  OBVIOUS
<1>1. PICK slice \in Slices, row \in Rows, warm \in BOOLEAN :
        /\ key = [name |-> slice.name,
                  row |-> IF slice.name \in RowedKeys THEN CHOOSE r \in Rows : TRUE ELSE NoRow,
                  uses |-> slice.uses]
        /\ route = [page |-> slice.page, row |-> IF slice.page \in RowedPages THEN row ELSE NoRow]
        /\ entry = IF warm THEN [Empty EXCEPT !.data = 0]
                   ELSE IF ShowsKey(slice.page, route.row) THEN Asked(Empty) ELSE Empty
  BY DEF Init
<1>2. written = 0 /\ due = 0
  BY DEF Init
<1>3. route.page = slice.page
  BY <1>1
<1>4. CASE warm
  <2>1. /\ entry.data = 0 /\ ~entry.stale /\ entry.fetch = "idle"
    BY <1>1, <1>4, ReceivedFields
  <2>2. QED
    BY <1>2, <2>1 DEF Current, CurrentAt, FetchCurrent, EntryCurrent, ShownCurrent, NoData
<1>5. CASE ~warm /\ Mounted
  <2>1. entry = Asked(Empty)
    BY <1>1, <1>3, <1>5 DEF Mounted
  <2>2. entry.data = NoData /\ entry.fetch = "asked"
    BY <2>1, EmptyFields, AskedFields
  <2>3. QED
    BY <1>2, <2>2 DEF Current, CurrentAt, FetchCurrent, EntryCurrent, ShownCurrent
<1>6. CASE ~warm /\ ~Mounted
  <2>1. entry = Empty
    BY <1>1, <1>3, <1>6 DEF Mounted
  <2>2. entry.data = NoData /\ entry.fetch = "idle"
    BY <2>1, EmptyFields
  <2>3. QED
    BY <1>2, <1>6, <2>2 DEF Current, CurrentAt, FetchCurrent, EntryCurrent, ShownCurrent
<1>7. QED
  BY <1>4, <1>5, <1>6

\* A step that leaves the entry and the page alone, whatever is written meanwhile.
LEMMA KeptCurrent ==
  ASSUME EntryKinds, Current, written' \in Nat, written <= written', gone => gone',
         UNCHANGED <<key, entry, route, due, missed>>
  PROVE  Current'
<1>1. due \in Nat /\ written \in Nat /\ entry \in Entries
  BY DEF EntryKinds
<1>2. entry.snap \in Nat
  BY <1>1 DEF Entries
<1>3. due' <= written'
  BY <1>1 DEF Current
<1>4. Mounted' <=> Mounted
  BY DEF Mounted, ShowsKey, KeyRowed
<1>5. ASSUME ~missed, ~gone PROVE CurrentAt(entry, due)'
  <2>1. CurrentAt(entry, due)
    BY <1>5 DEF Current
  <2>2. FetchCurrent(entry, due)'
    BY <1>1, <1>2, <2>1 DEF CurrentAt, FetchCurrent
  <2>3. EntryCurrent(entry, due)'
    BY <2>1 DEF CurrentAt, EntryCurrent
  <2>4. ShownCurrent(entry, due)'
    BY <1>4, <2>1 DEF CurrentAt, ShownCurrent
  <2>5. QED
    BY <2>2, <2>3, <2>4 DEF CurrentAt
<1>6. QED
  BY <1>3, <1>5 DEF Current

\* A step that only changes the entry.
LEMMA ChangedCurrent ==
  ASSUME Current, UNCHANGED <<key, written, gone, route, due, missed>>,
         /\ CurrentAt(entry, due) =>
              /\ entry'.fetch = "answered" => entry'.snap >= due /\ entry'.snap <= written
              /\ entry'.data = NoData \/ entry'.stale \/ entry'.data >= due
              /\ (Mounted /\ entry'.fetch = "idle" /\ ~entry'.failed)
                   => entry'.data # NoData /\ entry'.data >= due
  PROVE  Current'
<1>1. Mounted' <=> Mounted
  BY DEF Mounted, ShowsKey, KeyRowed
<1>2. QED
  BY <1>1 DEF Current, CurrentAt, FetchCurrent, EntryCurrent, ShownCurrent

LEMMA CurrentStep == EntryKinds /\ CallsKnown /\ Current /\ [Next]_vars => Current'
<1> SUFFICES ASSUME EntryKinds, CallsKnown, Current, [Next]_vars PROVE Current'
  OBVIOUS
<1>1. /\ entry \in Entries /\ due \in Nat /\ written \in Nat /\ mount \in Nat
      /\ entry.snap \in Nat
  BY DEF EntryKinds, Entries
<1>2. ASSUME UNCHANGED <<key, written, gone, entry, route, due, missed>> PROVE Current'
  BY <1>1, <1>2, KeptCurrent
<1>3. ASSUME MountsWith(entry), UNCHANGED <<key, written, gone, due, missed>> PROVE Current'
  <2>1. CASE missed \/ gone
    BY <1>3, <2>1 DEF Current
  <2>2. CASE ~missed /\ ~gone
    <3>1. CurrentAt(entry, due)
      BY <2>2 DEF Current
    <3>2. PICK e \in Entries, d \in Nat : e = entry /\ d = due
      BY <1>1
    <3>3. MountsWith(e) /\ CurrentAt(e, d)
      BY <1>3, <3>1, <3>2 DEF MountsWith
    <3>4. /\ entry'.fetch = "answered" => entry'.snap >= d /\ entry'.snap <= written'
          /\ entry'.data = NoData \/ entry'.stale \/ entry'.data >= d
          /\ (Mounted' /\ entry'.fetch = "idle" /\ ~entry'.failed)
               => entry'.data # NoData /\ entry'.data >= d
      BY <1>3, <3>2, <3>3, MountsCurrent
    <3>5. QED
      BY <1>3, <3>2, <3>4 DEF Current, CurrentAt, FetchCurrent, EntryCurrent, ShownCurrent
  <2>3. QED
    BY <2>1, <2>2
<1>4. ASSUME NEW c, NEW row, OpenDialog(c, row) \/ Submit(c, row) PROVE Current'
  BY <1>2, <1>4 DEF OpenDialog, Submit
<1>5. ASSUME NEW c, CloseDialog(c) PROVE Current'
  BY <1>2, <1>5 DEF CloseDialog
<1>6. ASSUME NEW to, NEW row, Navigate(to, row) PROVE Current'
  BY <1>3, <1>6, NavigateEntry DEF Navigate
<1>7. CASE Refresh \/ Poll
  <2>1. entry' = Asked(entry) /\ UNCHANGED <<key, written, gone, route, due, missed>>
    BY <1>7 DEF Refresh, Poll
  <2>2. QED
    BY <1>1, <2>1, AskedFields, ChangedCurrent DEF CurrentAt, EntryCurrent
<1>8. CASE TimePasses
  <2>1. entry' = Marked(entry) /\ UNCHANGED <<key, written, gone, route, due, missed>>
    BY <1>8 DEF TimePasses
  <2>2. QED
    BY <1>1, <2>1, MarkedFields, ChangedCurrent
       DEF CurrentAt, FetchCurrent, EntryCurrent, ShownCurrent
<1>9. CASE Receive
  <2>1. /\ entry' = [Empty EXCEPT !.data = entry.snap]
        /\ UNCHANGED <<key, written, gone, route, due, missed>>
        /\ entry.fetch = "answered"
    BY <1>9 DEF Receive
  <2>2. entry'.data = entry.snap /\ entry'.fetch = "idle"
    BY <1>1, <2>1, ReceivedFields
  <2>3. entry.snap # NoData
    BY <1>1 DEF NoData
  <2>4. QED
    BY <2>1, <2>2, <2>3, ChangedCurrent DEF CurrentAt, FetchCurrent
<1>10. CASE FetchFails
  <2>1. /\ entry' = [entry EXCEPT !.fetch = "idle", !.snap = 0, !.failed = TRUE]
        /\ UNCHANGED <<key, written, gone, route, due, missed>>
    BY <1>10 DEF FetchFails
  <2>2. /\ entry'.data = entry.data /\ entry'.failed /\ entry'.fetch = "idle"
        /\ entry'.stale <=> entry.stale
    BY <1>1, <2>1, FailedFields
  <2>3. QED
    BY <2>1, <2>2, ChangedCurrent DEF CurrentAt, EntryCurrent
<1>11. CASE ServerReads
  <2>1. /\ entry' = [entry EXCEPT !.fetch = "answered", !.snap = written]
        /\ UNCHANGED <<key, written, gone, route, due, missed>>
    BY <1>11 DEF ServerReads
  <2>2. /\ entry'.data = entry.data /\ entry'.fetch = "answered" /\ entry'.snap = written
        /\ entry'.stale <=> entry.stale
    BY <1>1, <2>1, ReadFields
  <2>3. due <= written
    BY DEF Current
  <2>4. QED
    BY <1>1, <2>1, <2>2, <2>3, ChangedCurrent DEF CurrentAt, EntryCurrent
<1>12. CASE OthersWrite
  <2>1. written' \in Nat /\ written <= written'
    BY <1>1, <1>12 DEF OthersWrite
  <2>2. QED
    BY <1>12, <2>1, KeptCurrent DEF OthersWrite
<1>13. ASSUME NEW r \in RequestIds, Commit(r) PROVE Current'
  <2>1. written' \in Nat /\ written <= written' /\ gone' = (gone \/ Deletes(r))
    BY <1>1, <1>13 DEF Commit
  <2>2. gone => gone'
    BY <2>1
  <2>3. QED
    BY <1>13, <2>1, <2>2, KeptCurrent DEF Commit
<1>14. ASSUME NEW r \in RequestIds, Answer(r) PROVE Current'
  <2>1. /\ UNCHANGED <<key, written, gone>> /\ requests[r].phase = "done"
        /\ due' = IF Follows(r) /\ requests[r].vers > due THEN requests[r].vers ELSE due
        /\ missed' = (missed \/ Misplaced(r) \/ (Follows(r) /\ Overtaken(r)))
    BY <1>14 DEF Answer
  <2>2. requests[r].vers <= written /\ due <= written /\ requests[r].vers \in Nat
    BY <2>1 DEF CallsKnown, Known, Current, EntryKinds, CallsTyped, IsRequest
  <2>3. due' \in Nat /\ due' <= written'
    BY <1>1, <2>1, <2>2
  <2>4. CASE missed' \/ gone'
    BY <2>3, <2>4 DEF Current
  <2>5. CASE ~missed' /\ ~gone'
    <3>1. ~missed /\ ~gone /\ ~Misplaced(r) /\ ~(Follows(r) /\ Overtaken(r))
      BY <2>1, <2>5
    <3>2. PICK d \in Nat : d = due'
      BY <2>3
    <3>3. CurrentAt(Updated(r), d)
      BY <2>1, <3>1, <3>2, UpdatedCurrent
    <3>4. Updated(r) \in Entries
      BY UpdatedFields
    <3>5. MountsWith(Updated(r))
      <4>1. CASE CallOf(r).awaits
        BY <1>14, <2>1, <4>1 DEF Answer, MountsWith, Mounted, ShowsKey, KeyRowed
      <4>2. CASE ~CallOf(r).awaits
        BY <1>1, <1>14, <2>1, <3>4, <4>2, FinishesEntry DEF Answer
      <4>3. QED
        BY <4>1, <4>2
    <3>6. /\ entry'.fetch = "answered" => entry'.snap >= d /\ entry'.snap <= written'
          /\ entry'.data = NoData \/ entry'.stale \/ entry'.data >= d
          /\ (Mounted' /\ entry'.fetch = "idle" /\ ~entry'.failed)
               => entry'.data # NoData /\ entry'.data >= d
      <4>1. PICK e \in Entries : e = Updated(r)
        BY <3>4
      <4>2. MountsWith(e) /\ CurrentAt(e, d)
        BY <3>3, <3>5, <4>1 DEF MountsWith
      <4>3. QED
        BY <2>1, <4>2, MountsCurrent
    <3>7. QED
      BY <2>3, <3>2, <3>6 DEF Current, CurrentAt, FetchCurrent, EntryCurrent, ShownCurrent
  <2>6. QED
    BY <2>4, <2>5
<1>15. ASSUME NEW r \in RequestIds, Fails(r) PROVE Current'
  BY <1>2, <1>15 DEF Fails
<1>16. ASSUME NEW r \in RequestIds, Settle(r) PROVE Current'
  <2>1. Finishes(r, entry) /\ UNCHANGED <<key, written, gone, due, missed>>
    BY <1>16 DEF Settle
  <2>2. MountsWith(entry)
    BY <1>1, <2>1, FinishesEntry
  <2>3. QED
    BY <1>3, <2>1, <2>2
<1>17. CASE UNCHANGED vars
  BY <1>2, <1>17 DEF vars
<1>18. QED
  BY <1>4, <1>5, <1>6, <1>7, <1>8, <1>9, <1>10, <1>11, <1>12, <1>13, <1>14, <1>15, <1>16, <1>17
     DEF Next, User, Query, Server, Client

\* A tab that was told its write was accepted shows it, or is asking for it, on every page it
\* opens afterwards (the onSuccess of every hook against fetches under way, staleTime, polling
\* and navigation), whatever the rows, the controls in use and the number of calls and links.
THEOREM OwnWritesAreShown == Spec => []OwnWritesShown
<1>1. Init => EntryKinds /\ CallsKnown /\ Current
  BY KindsInit, KnownInit, CurrentInit
<1>2. EntryKinds /\ CallsKnown /\ Current /\ [Next]_vars => (EntryKinds /\ CallsKnown /\ Current)'
  BY KindsStep, KnownStep, CurrentStep
<1>3. Current => OwnWritesShown
  BY DEF Current, CurrentAt, ShownCurrent, OwnWritesShown
<1>4. QED
  BY <1>1, <1>2, <1>3, PTL DEF Spec

(***************************************************************************)
(* The page of the address and the dialog open on it.                       *)
(***************************************************************************)
PageNamed == DOMAIN Pages \cup {"elsewhere"}
AnyRow    == Rows \cup {NoRow}

IsDialog(x) == DOMAIN x = {"name", "row", "sent"} /\ x.row \in AnyRow /\ x.sent \subseteq RequestIds

\* A dialog that is open is one of the page.
OnPage(x, page) == x = Closed \/ \E c \in PageOf(page).controls : c.dialog /\ c.name = x.name

Places ==
  /\ route.page \in PageNamed /\ route.row \in AnyRow
  /\ IsDialog(dialog) /\ OnPage(dialog, route.page)

LEMMA ClosedFields == IsDialog(Closed) /\ Closed.name = "none" /\ Closed.sent = {}
  BY DEF Closed, IsDialog, AnyRow

LEMMA EmptiedFields ==
  ASSUME NEW x, IsDialog(x)
  PROVE  LET y == [x EXCEPT !.sent = {}] IN
         /\ IsDialog(y) /\ y.name = x.name /\ y.row = x.row /\ y.sent = {}
         /\ x = Closed => y = Closed
<1>1. LET y == [x EXCEPT !.sent = {}] IN
      IsDialog(y) /\ y.name = x.name /\ y.row = x.row /\ y.sent = {}
  BY DEF IsDialog
<1>2. [Closed EXCEPT !.sent = {}] = Closed
  BY DEF Closed
<1>3. QED
  BY <1>1, <1>2

\* What is left of the dialog of the page once a call is over.
LEMMA WithoutFields ==
  ASSUME IsDialog(dialog), NEW r
  PROVE  /\ IsDialog(Without(r)) /\ Without(r).name = dialog.name
         /\ \/ Without(r).sent = dialog.sent \ {r}
            \/ /\ Without(r).sent = {} /\ r \in local
               /\ requests[r].control.name = dialog.name
         /\ dialog = Closed => Without(r) = Closed
<1> DEFINE sent == IF /\ r \in local /\ requests[r].control.keeps = "flag"
                      /\ requests[r].control.name = dialog.name
                   THEN {} ELSE dialog.sent \ {r}
           y    == [dialog EXCEPT !.sent = sent]
<1>1. Without(r) = y
  BY DEF Without
<1>2. sent \subseteq dialog.sent
  OBVIOUS
<1>3. \/ sent = dialog.sent \ {r}
      \/ sent = {} /\ r \in local /\ requests[r].control.name = dialog.name
  OBVIOUS
<1>4. dialog = Closed => y = Closed
  <2>1. dialog = Closed => sent = {}
    BY <1>2, ClosedFields
  <2> HIDE DEF sent
  <2>2. QED
    BY <2>1 DEF Closed
<1>5. IsDialog(y) /\ y.name = dialog.name /\ y.sent = sent
  <2> HIDE DEF sent
  <2>1. QED
    BY <1>2 DEF IsDialog
<1> HIDE DEF sent, y
<1>6. QED
  BY <1>1, <1>3, <1>4, <1>5

LEMMA WithFields ==
  ASSUME NEW x, IsDialog(x), NEW r \in RequestIds
  PROVE  LET y == [x EXCEPT !.sent = @ \cup {r}] IN
         IsDialog(y) /\ y.name = x.name /\ y.row = x.row /\ y.sent = x.sent \cup {r}
  BY DEF IsDialog

LEMMA KeptFields ==
  ASSUME IsDialog(dialog), NEW row \in AnyRow
  PROVE  /\ IsDialog(Kept(row))
         /\ \/ dialog.name = "none" /\ Kept(row) = Closed
            \/ /\ dialog.name # "none"
               /\ Kept(row).name = dialog.name /\ Kept(row).sent = dialog.sent
<1>1. CASE dialog.name = "none"
  BY <1>1, ClosedFields DEF Kept
<1>2. CASE dialog.name # "none"
  <2> DEFINE y == [dialog EXCEPT !.row = row]
  <2>1. IsDialog(y) /\ y.name = dialog.name /\ y.sent = dialog.sent
    BY DEF IsDialog
  <2>2. Kept(row) = y
    BY <1>2 DEF Kept
  <2> HIDE DEF y
  <2>3. QED
    BY <1>2, <2>1, <2>2
<1>3. QED
  BY <1>1, <1>2

\* The controls of a page are those of the table; the pages beside it have none.
LEMMA ControlsOfPage ==
  ASSUME NEW page
  PROVE  /\ \A c \in PageOf(page).controls : WellMade(c)
         /\ \A c, d \in PageOf(page).controls : c.name = d.name => c = d
         /\ page = "certificate" => PageOf(page).controls = {}
<1>1. CASE page \in DOMAIN Pages
  <2>1. PageOf(page) = Pages[page]
    BY <1>1 DEF PageOf
  <2>2. page = "certificate" => PageOf(page).controls = {}
    BY <2>1, PageFields DEF Pages, CertDetailModal
  <2>3. QED
    BY <1>1, <2>1, <2>2, PageTable DEF Composed
<1>2. CASE page \notin DOMAIN Pages
  <2>1. PageOf(page).controls = {}
    BY <1>2, PageFields DEF PageOf, Elsewhere
  <2>2. QED
    BY <2>1
<1>3. QED
  BY <1>1, <1>2

LEMMA PageRowsKnown == \A page : PageRows(page) \subseteq AnyRow
<1>1. RowsMet \subseteq Rows
  BY ConsoleAssumption DEF RowsMet
<1>2. QED
  BY <1>1 DEF PageRows, AnyRow

\* What a step leaves of a dialog: it is emptied when the page no longer shows it.
LEMMA RenderedFields ==
  ASSUME NEW calls, NEW d, IsDialog(d), Rendered(calls, d)
  PROVE  /\ IsDialog(dialog') /\ dialog'.name = d.name
         /\ d = Closed => dialog' = Closed
         /\ dialog'.sent = {} \/ dialog'.sent = d.sent
         /\ local' = {} \/ local' = calls
         /\ mount' # mount => dialog'.sent = {} /\ local' = {}
<1>1. \/ mount' = mount /\ dialog' = d /\ local' = calls
      \/ dialog' = [d EXCEPT !.sent = {}] /\ local' = {}
  BY DEF Rendered
<1>2. CASE mount' = mount /\ dialog' = d /\ local' = calls
  BY <1>2
<1>3. CASE dialog' = [d EXCEPT !.sent = {}] /\ local' = {}
  BY <1>3, EmptiedFields
<1>4. QED
  BY <1>1, <1>2, <1>3

LEMMA RenderedPlaces ==
  ASSUME route'.page \in PageNamed, route'.row \in AnyRow,
         NEW calls, NEW d, IsDialog(d), OnPage(d, route'.page), Rendered(calls, d)
  PROVE  Places'
<1>1. IsDialog(dialog') /\ dialog'.name = d.name /\ (d = Closed => dialog' = Closed)
  BY RenderedFields
<1>2. QED
  BY <1>1 DEF Places, OnPage

\* The dialog a step leads to another page with: kept on the page it belongs to, for another
\* row, and gone from every other one.
LEMMA CarriedFields ==
  ASSUME Places, NEW to, NEW row \in AnyRow
  PROVE  IsDialog(CarriedTo(to, row)) /\ OnPage(CarriedTo(to, row), to)
<1>1. CASE route.page = to
  <2>1. CarriedTo(to, row) = Kept(row)
    BY <1>1 DEF CarriedTo
  <2>2. IsDialog(dialog) /\ OnPage(dialog, to)
    BY <1>1 DEF Places
  <2>3. CASE dialog.name = "none"
    BY <2>1, <2>2, <2>3, KeptFields, ClosedFields DEF OnPage
  <2>4. CASE dialog.name # "none"
    <3>1. IsDialog(Kept(row)) /\ Kept(row).name = dialog.name
      BY <2>2, <2>4, KeptFields
    <3>2. PICK c \in PageOf(to).controls : c.dialog /\ c.name = dialog.name
      BY <2>2, <2>4, ClosedFields DEF OnPage
    <3>3. QED
      BY <2>1, <3>1, <3>2 DEF OnPage
  <2>5. QED
    BY <2>3, <2>4
<1>2. CASE route.page # to
  BY <1>2, ClosedFields DEF CarriedTo, OnPage
<1>3. QED
  BY <1>1, <1>2

LEMMA ArrivePlaces ==
  ASSUME Places, NEW to \in PageNamed, NEW row \in AnyRow, Arrive(to, row),
         NEW calls, Rendered(calls, CarriedTo(to, row))
  PROVE  Places'
<1>1. route'.page = to /\ route'.row = row
  BY DEF Arrive
<1>2. PICK d : d = CarriedTo(to, row)
  OBVIOUS
<1>3. IsDialog(d) /\ OnPage(d, to) /\ Rendered(calls, d)
  BY <1>2, CarriedFields
<1>4. QED
  BY <1>1, <1>3, RenderedPlaces

LEMMA KeptPlaces ==
  ASSUME Places, route' = route, IsDialog(dialog'), dialog' = Closed \/ dialog'.name = dialog.name,
         dialog = Closed => dialog' = Closed
  PROVE  Places'
<1>1. CASE dialog' = Closed
  BY <1>1 DEF Places, OnPage
<1>2. CASE dialog' # Closed /\ dialog'.name = dialog.name
  <2>1. PICK c \in PageOf(route.page).controls : c.dialog /\ c.name = dialog.name
    BY <1>2 DEF Places, OnPage
  <2>2. QED
    BY <1>2, <2>1 DEF Places, OnPage
<1>3. QED
  BY <1>1, <1>2

\* A page that stays, with a dialog that is closed or as it was.
LEMMA StayPlaces ==
  ASSUME Places, route' = route, NEW calls, NEW d, IsDialog(d), Rendered(calls, d),
         d = Closed \/ d.name = dialog.name, dialog = Closed => d = Closed
  PROVE  Places'
<1>1. OnPage(d, route.page)
  <2>1. CASE d = Closed
    BY <2>1 DEF OnPage
  <2>2. CASE d # Closed /\ d.name = dialog.name
    <3>1. PICK c \in PageOf(route.page).controls : c.dialog /\ c.name = dialog.name
      BY <2>2 DEF Places, OnPage
    <3>2. QED
      BY <2>2, <3>1 DEF OnPage
  <2>3. QED
    BY <2>1, <2>2
<1>2. route'.page = route.page /\ route'.page \in PageNamed /\ route'.row \in AnyRow
  BY DEF Places
<1>3. OnPage(d, route'.page)
  BY <1>1, <1>2
<1>4. QED
  BY <1>2, <1>3, RenderedPlaces

\* A call in flight leads to a page of its own mount and to no page under a modal.
LEMMA AfterKnown ==
  ASSUME EntryKinds, CallsKnown, NEW r \in RequestIds, InFlight(r)
  PROVE  requests[r].control.after \in {"stay", "close"} \cup (DOMAIN Pages \ {"shield", "certificate"})
  BY DEF EntryKinds, KeyKinds, CallsKnown, Known, WellMade

LEMMA FinishesPlaces ==
  ASSUME EntryKinds, CallsKnown, Places, NEW r \in RequestIds, InFlight(r), NEW e, Finishes(r, e)
  PROVE  Places'
<1> DEFINE after == requests[r].control.after
<1>1. CASE after \in {"stay", "close"}
  <2>1. PICK d : /\ d = Closed \/ d = Without(r)
                 /\ Rendered(local \ {r}, d) /\ route' = route
    BY <1>1 DEF Finishes
  <2>2. IsDialog(d) /\ (d = Closed \/ d.name = dialog.name) /\ (dialog = Closed => d = Closed)
    BY <2>1, ClosedFields, WithoutFields DEF Places
  <2>3. QED
    BY <2>1, <2>2, StayPlaces
<1>2. CASE after \notin {"stay", "close"}
  <2>1. PICK row \in PageRows(after) :
          Arrive(after, row) /\ Rendered(local \ {r}, CarriedTo(after, row))
    BY <1>2 DEF Finishes
  <2>2. after \in PageNamed /\ row \in AnyRow
    BY <1>2, AfterKnown, PageRowsKnown DEF PageNamed
  <2>3. PICK to \in PageNamed : to = after
    BY <2>2
  <2>4. QED
    BY <2>1, <2>2, <2>3, ArrivePlaces
<1>3. QED
  BY <1>1, <1>2

LEMMA OpenPlaces ==
  ASSUME Places, NEW c \in Here.controls, NEW row, OpenDialog(c, row)
  PROVE  Places' /\ dialog'.name = c.name /\ dialog'.sent = {}
<1>1. row \in AnyRow
  BY ConsoleAssumption DEF OpenDialog, RowsOf, RowsMet, Places, AnyRow
<1>2. dialog' = [name |-> c.name, row |-> row, sent |-> {}] /\ route' = route /\ c.dialog
  BY DEF OpenDialog
<1>3. IsDialog(dialog') /\ dialog'.name = c.name /\ dialog'.sent = {}
  BY <1>1, <1>2 DEF IsDialog
<1>4. c \in PageOf(route.page).controls
  BY DEF Here
<1>5. QED
  BY <1>2, <1>3, <1>4 DEF Places, OnPage

LEMMA SubmitPlaces ==
  ASSUME Places, NEW c \in Here.controls, NEW r \in RequestIds, route' = route,
         c.dialog => dialog.name = c.name,
         dialog' = IF c.dialog THEN [dialog EXCEPT !.sent = @ \cup {r}] ELSE dialog
  PROVE  /\ Places' /\ dialog'.name = dialog.name
         /\ c.dialog => dialog'.sent = dialog.sent \cup {r}
         /\ ~c.dialog => dialog' = dialog
<1>1. CASE c.dialog
  <2>1. IsDialog(dialog)
    BY DEF Places
  <2>2. IsDialog(dialog') /\ dialog'.name = dialog.name /\ dialog'.sent = dialog.sent \cup {r}
    BY <1>1, <2>1, WithFields
  <2>3. c.name # "none" /\ c \in PageOf(route.page).controls
    BY ControlsOfPage DEF Here, WellMade
  <2>4. dialog # Closed
    BY <1>1, <2>3, ClosedFields
  <2>5. QED
    BY <1>1, <2>2, <2>4, KeptPlaces
<1>2. CASE ~c.dialog
  BY <1>2, KeptPlaces DEF Places
<1>3. QED
  BY <1>1, <1>2

LEMMA PlacesInit == Init => Places
<1> SUFFICES ASSUME Init PROVE Places
  OBVIOUS
<1>1. PICK slice \in Slices, row \in Rows :
        route = [page |-> slice.page, row |-> IF slice.page \in RowedPages THEN row ELSE NoRow]
  BY DEF Init
<1>2. dialog = Closed
  BY DEF Init
<1>3. route.page \in PageNamed /\ route.row \in AnyRow
  BY <1>1, ConsoleAssumption DEF PageNamed, AnyRow
<1>4. QED
  BY <1>2, <1>3, ClosedFields DEF Places, OnPage

LEMMA PlacesStep == EntryKinds /\ CallsKnown /\ Places /\ [Next]_vars => Places'
<1> SUFFICES ASSUME EntryKinds, CallsKnown, Places, [Next]_vars PROVE Places'
  OBVIOUS
<1>1. ASSUME dialog' = dialog, route' = route PROVE Places'
  BY <1>1, KeptPlaces DEF Places
<1>2. ASSUME NEW c \in Here.controls, NEW row, OpenDialog(c, row) PROVE Places'
  BY <1>2, OpenPlaces
<1>3. ASSUME NEW c \in Here.controls, NEW row, Submit(c, row) PROVE Places'
  <2>1. PICK r \in RequestIds :
          /\ c.dialog => dialog.name = c.name
          /\ dialog' = IF c.dialog THEN [dialog EXCEPT !.sent = @ \cup {r}] ELSE dialog
          /\ route' = route
    BY <1>3 DEF Submit
  <2>2. QED
    BY <2>1, SubmitPlaces
<1>4. ASSUME NEW c, CloseDialog(c) PROVE Places'
  BY <1>4, ClosedFields, KeptPlaces DEF CloseDialog
<1>5. ASSUME NEW to \in PageNamed, NEW row \in PageRows(to), Navigate(to, row) PROVE Places'
  <2>1. Arrive(to, row) /\ Rendered(local, CarriedTo(to, row)) /\ row \in AnyRow
    BY <1>5, PageRowsKnown DEF Navigate
  <2>2. QED
    BY <2>1, ArrivePlaces
<1>6. ASSUME Rendered(local, dialog), route' = route PROVE Places'
  <2>1. PICK d : d = dialog
    OBVIOUS
  <2>2. IsDialog(d) /\ Rendered(local, d) /\ d.name = dialog.name /\ (dialog = Closed => d = Closed)
    BY <1>6, <2>1 DEF Places
  <2>3. QED
    BY <1>6, <2>2, StayPlaces
<1>7. CASE Refresh \/ Receive \/ Poll \/ TimePasses \/ ServerReads \/ OthersWrite
  BY <1>1, <1>7 DEF Refresh, Receive, Poll, TimePasses, ServerReads, OthersWrite
<1>8. CASE FetchFails
  BY <1>6, <1>8 DEF FetchFails
<1>9. ASSUME NEW r \in RequestIds, Commit(r) PROVE Places'
  BY <1>1, <1>9 DEF Commit
<1>10. ASSUME NEW r \in RequestIds, Answer(r) PROVE Places'
  <2>1. InFlight(r)
    BY <1>10 DEF Answer, InFlight
  <2>2. CASE CallOf(r).awaits
    BY <1>10, <1>6, <2>2 DEF Answer
  <2>3. CASE ~CallOf(r).awaits
    <3>1. PICK e : e = Updated(r)
      OBVIOUS
    <3>2. Finishes(r, e)
      BY <1>10, <2>3, <3>1 DEF Answer
    <3>3. QED
      BY <2>1, <3>2, FinishesPlaces
  <2>4. QED
    BY <2>2, <2>3
<1>11. ASSUME NEW r \in RequestIds, Fails(r) PROVE Places'
  <2>1. dialog' = Without(r) /\ route' = route
    BY <1>11 DEF Fails
  <2>2. IsDialog(dialog') /\ dialog'.name = dialog.name /\ (dialog = Closed => dialog' = Closed)
    BY <2>1, WithoutFields DEF Places
  <2>3. QED
    BY <2>1, <2>2, KeptPlaces
<1>12. ASSUME NEW r \in RequestIds, Settle(r) PROVE Places'
  <2>1. InFlight(r)
    BY <1>12 DEF Settle, InFlight
  <2>2. PICK e : e = entry
    OBVIOUS
  <2>3. Finishes(r, e)
    BY <1>12, <2>2 DEF Settle
  <2>4. QED
    BY <2>1, <2>3, FinishesPlaces
<1>13. CASE UNCHANGED vars
  BY <1>1, <1>13 DEF vars
<1>14. QED
  BY <1>2, <1>3, <1>4, <1>5, <1>7, <1>9, <1>10, <1>11, <1>12, <1>13, <1>8
     DEF Next, User, Query, Server, Client, PageNamed

(***************************************************************************)
(* Whose answers an open dialog can meet.                                   *)
(***************************************************************************)
\* The controls of the component the page of the address is mounted with.
MountedWith(page) == PageOf(IF page = "certificate" THEN "shield" ELSE page).controls

\* The calls of the mounted component: its controls sent them, and as long as the page has not
\* unmounted a pending dialog, those of a held one are sent one at a time and belong to the
\* dialog that is open.
OfMount(r)   == InFlight(r) /\ requests[r].mount = mount
MountsKnown  == \A r \in RequestIds : requests[r].mount <= mount
OwnControls  == \A r \in RequestIds : OfMount(r) => requests[r].control \in MountedWith(route.page)
HeldAreSent  == \A r \in RequestIds : OfMount(r) /\ requests[r].control.held => r \in dialog.sent
SentAreNamed == \A r \in RequestIds :
                  r \in dialog.sent /\ InFlight(r) => requests[r].control.name = dialog.name
HeldOnce     == \A q, r \in RequestIds :
                  OfMount(q) /\ OfMount(r) /\ requests[q].control = requests[r].control
                  /\ requests[r].control.held => q = r
LocalMounted == \A r \in RequestIds : r \in local /\ InFlight(r) => requests[r].mount = mount

DialogsKnown ==
  /\ MountsKnown /\ OwnControls /\ SentAreNamed /\ LocalMounted
  /\ ~orphaned => HeldAreSent /\ HeldOnce

\* What a step may do to a call that it does not send.
Persists(q) ==
  /\ requests'[q].mount \in Nat /\ requests'[q].mount <= mount
  /\ InFlight(q)' => /\ InFlight(q) /\ requests'[q].control = requests[q].control
                     /\ requests'[q].mount = requests[q].mount

LEMMA AlikePersists ==
  ASSUME MountsKnown, NEW q \in RequestIds, IsRequest(requests[q]), Alike(requests'[q], requests[q])
  PROVE  Persists(q)
  BY DEF MountsKnown, IsRequest, Alike, Persists, InFlight

LEMMA SamePersist ==
  ASSUME CallsTyped, MountsKnown, SameCalls
  PROVE  \A q \in RequestIds : Persists(q)
  BY AlikePersists DEF CallsTyped, SameCalls

LEMMA OnePersists ==
  ASSUME CallsTyped, MountsKnown, mount \in Nat, NEW r \in RequestIds, OthersAlike(r),
         requests'[r] = Over \/ (HeardCall(r) /\ InFlight(r))
  PROVE  \A q \in RequestIds : Persists(q)
<1>1. ASSUME NEW q \in RequestIds \ {r} PROVE Persists(q)
  BY AlikePersists DEF CallsTyped, OthersAlike
<1>2. Persists(r)
  <2>1. CASE requests'[r] = Over
    BY <2>1, OverFields DEF Persists, InFlight
  <2>2. CASE HeardCall(r) /\ InFlight(r) /\ requests'[r] # Over
    BY <2>2 DEF HeardCall, Persists, InFlight, MountsKnown, CallsTyped, IsRequest
  <2>3. QED
    BY <2>1, <2>2
<1>3. QED
  BY <1>1, <1>2

\* The component stays, and the dialog loses only what is over.
LEMMA StayDialogs ==
  ASSUME DialogsKnown, \A q \in RequestIds : Persists(q), mount' = mount,
         MountedWith(route'.page) = MountedWith(route.page),
         ~orphaned' => ~orphaned, local' \subseteq local,
         \A q \in RequestIds : InFlight(q)' /\ q \in dialog'.sent =>
                                q \in dialog.sent /\ dialog'.name = dialog.name,
         ~orphaned' => \A q \in RequestIds :
                         OfMount(q) /\ InFlight(q)' /\ requests[q].control.held
                         /\ q \in dialog.sent => q \in dialog'.sent
  PROVE  DialogsKnown'
<1>1. \A q \in RequestIds : OfMount(q)' => OfMount(q) /\ requests'[q].control = requests[q].control
  BY DEF OfMount, Persists
<1>2. MountsKnown'
  BY DEF Persists, MountsKnown, RequestIds
<1>3. OwnControls'
  BY <1>1 DEF DialogsKnown, OwnControls, RequestIds
<1>4. ~orphaned' => HeldAreSent'
  BY <1>1 DEF DialogsKnown, HeldAreSent, OfMount, RequestIds
<1>5. SentAreNamed'
  BY DEF DialogsKnown, SentAreNamed, Persists, RequestIds
<1>6. ~orphaned' => HeldOnce'
  BY <1>1 DEF DialogsKnown, HeldOnce, RequestIds
<1>7. LocalMounted'
  BY DEF DialogsKnown, LocalMounted, Persists, RequestIds
<1>8. QED
  BY <1>2, <1>3, <1>4, <1>5, <1>6, <1>7 DEF DialogsKnown

\* The component stays and shows what the step leaves of its dialog, or an error instead.
LEMMA ShownDialogs ==
  ASSUME DialogsKnown, \A q \in RequestIds : Persists(q), mount' = mount,
         MountedWith(route'.page) = MountedWith(route.page),
         NEW calls, calls \subseteq local, NEW d, IsDialog(d), Rendered(calls, d),
         \A q \in RequestIds : InFlight(q)' /\ q \in d.sent =>
                                q \in dialog.sent /\ d.name = dialog.name,
         ~orphaned => \A q \in RequestIds :
                        OfMount(q) /\ InFlight(q)' /\ requests[q].control.held
                        /\ q \in dialog.sent => q \in d.sent
  PROVE  DialogsKnown'
<1>1. /\ dialog'.name = d.name /\ (dialog'.sent = {} \/ dialog'.sent = d.sent)
      /\ local' \subseteq local
  BY RenderedFields
<1>2. \/ dialog' = d /\ orphaned' = orphaned
      \/ orphaned' = (\/ orphaned
                      \/ \E r \in d.sent : InFlight(r) /\ requests[r].control.held)
  BY DEF Rendered
<1>3. ~orphaned' => ~orphaned
  BY <1>2
<1>4. ASSUME NEW q \in RequestIds, InFlight(q)', q \in dialog'.sent
      PROVE  q \in dialog.sent /\ dialog'.name = dialog.name
  BY <1>1, <1>4
<1>5. ASSUME ~orphaned', NEW q \in RequestIds, OfMount(q), InFlight(q)', requests[q].control.held,
             q \in dialog.sent
      PROVE  q \in dialog'.sent
  <2>1. q \in d.sent /\ InFlight(q)
    BY <1>3, <1>5 DEF OfMount
  <2>2. QED
    BY <1>2, <1>5, <2>1
<1>6. QED
  BY <1>1, <1>3, <1>4, <1>5, StayDialogs

\* Another component is mounted: no call is its own yet.
LEMMA MovedDialogs ==
  ASSUME DialogsKnown, \A q \in RequestIds : Persists(q), mount \in Nat, mount' = mount + 1,
         NEW calls, NEW d, IsDialog(d), Rendered(calls, d)
  PROVE  DialogsKnown'
<1>1. \A q \in RequestIds : ~OfMount(q)' /\ requests'[q].mount <= mount'
  BY DEF Persists, OfMount
<1>2. dialog'.sent = {} /\ local' = {}
  BY RenderedFields
<1>3. QED
  BY <1>1, <1>2 DEF DialogsKnown, MountsKnown, OwnControls, HeldAreSent, SentAreNamed, HeldOnce,
                    LocalMounted, RequestIds

\* Two controls of the mounted component of one name are the same, and a control that is held
\* locks.
LEMMA MountedControls ==
  ASSUME NEW page
  PROVE  /\ PageOf(page).controls \subseteq MountedWith(page)
         /\ \A c, d \in MountedWith(page) : c.name = d.name => c = d
         /\ \A c \in MountedWith(page) : c.held => c.dialog /\ c.locks
<1>1. CASE page = "certificate"
  <2>1. PageOf(page).controls = {} /\ MountedWith(page) = PageOf("shield").controls
    BY <1>1, ControlsOfPage DEF MountedWith
  <2>2. QED
    BY <2>1, ControlsOfPage DEF WellMade
<1>2. CASE page # "certificate"
  <2>1. MountedWith(page) = PageOf(page).controls
    BY <1>2 DEF MountedWith
  <2>2. QED
    BY <2>1, ControlsOfPage DEF WellMade
<1>3. QED
  BY <1>1, <1>2

LEMMA CloseDialogs ==
  ASSUME EntryKinds, Places, DialogsKnown, NEW c \in Here.controls, CloseDialog(c)
  PROVE  DialogsKnown'
<1>1. SameCalls
  BY DialogCalls DEF CloseDialog, EntryKinds
<1>2. \A q \in RequestIds : Persists(q)
  BY <1>1, SamePersist DEF EntryKinds, DialogsKnown
<1>3. c \in MountedWith(route.page)
  BY MountedControls DEF Here
<1>4. ASSUME ~orphaned, NEW q \in RequestIds, OfMount(q), requests[q].control.held PROVE FALSE
  <2>1. q \in dialog.sent /\ InFlight(q)
    BY <1>4 DEF DialogsKnown, HeldAreSent, OfMount
  <2>2. requests[q].control.name = c.name
    BY <2>1 DEF DialogsKnown, SentAreNamed, CloseDialog
  <2>3. requests[q].control \in MountedWith(route.page)
    BY <1>4 DEF DialogsKnown, OwnControls
  <2>4. requests[q].control = c
    BY <1>3, <2>2, <2>3, MountedControls
  <2>5. QED
    BY <1>4, <2>1, <2>4 DEF CloseDialog, DialogPending
<1>5. /\ dialog' = Closed /\ dialog'.sent = {} /\ local' = local /\ orphaned' = orphaned
      /\ mount' = mount /\ route' = route
  BY ClosedFields DEF CloseDialog
<1>6. QED
  BY <1>2, <1>4, <1>5, StayDialogs

LEMMA OpenDialogs ==
  ASSUME EntryKinds, Places, DialogsKnown, NEW c \in Here.controls, NEW row, OpenDialog(c, row)
  PROVE  DialogsKnown'
<1>1. SameCalls
  BY DialogCalls DEF OpenDialog, EntryKinds
<1>2. \A q \in RequestIds : Persists(q)
  BY <1>1, SamePersist DEF EntryKinds, DialogsKnown
<1>3. dialog.sent = {} /\ dialog'.sent = {}
  BY OpenPlaces, ClosedFields DEF OpenDialog
<1>4. mount' = mount /\ route' = route /\ local' = local /\ orphaned' = orphaned
  BY DEF OpenDialog
<1>5. QED
  BY <1>2, <1>3, <1>4, StayDialogs

LEMMA SubmitDialogs ==
  ASSUME EntryKinds, Places, DialogsKnown, NEW c \in Here.controls, NEW row, Submit(c, row)
  PROVE  DialogsKnown'
<1>1. PICK r \in RequestIds :
        /\ Sends(r, c, row)
        /\ c.locks => ~Pending(c)
        /\ c.dialog => dialog.name = c.name
        /\ ~c.dialog => dialog = Closed
        /\ dialog' = IF c.dialog THEN [dialog EXCEPT !.sent = @ \cup {r}] ELSE dialog
        /\ route' = route /\ mount' = mount /\ local' = local \cup {r} /\ orphaned' = orphaned
  BY DEF Submit, Sends, SentCall
<1>2. CallsTyped /\ mount \in Nat /\ MountsKnown
  BY DEF EntryKinds, DialogsKnown
<1>3. /\ OthersAlike(r) /\ requests'[r].phase = "sent" /\ requests'[r].control = c
      /\ requests'[r].mount = mount
  BY <1>1, <1>2, SubmitCalls
<1>4. /\ dialog'.name = dialog.name
      /\ c.dialog => dialog'.sent = dialog.sent \cup {r}
      /\ ~c.dialog => dialog'.sent = {} /\ dialog.sent = {}
  BY <1>1, SubmitPlaces, ClosedFields
<1>5. ASSUME NEW q \in RequestIds \ {r}
      PROVE  /\ requests'[q].mount <= mount
             /\ InFlight(q)' => InFlight(q) /\ requests'[q].control = requests[q].control
             /\ OfMount(q)' => OfMount(q) /\ requests'[q].control = requests[q].control
  <2>1. Persists(q)
    BY <1>2, <1>3, AlikePersists DEF CallsTyped, OthersAlike
  <2>2. QED
    BY <1>1, <2>1 DEF Persists, OfMount
<1>6. c \in MountedWith(route.page) /\ (c.held => c.dialog /\ c.locks)
  BY MountedControls DEF Here
<1>7. MountsKnown'
  BY <1>1, <1>2, <1>3, <1>5 DEF MountsKnown, RequestIds
<1>8. OwnControls'
  BY <1>1, <1>3, <1>5, <1>6 DEF DialogsKnown, OwnControls, RequestIds
<1>9. ~orphaned' => HeldAreSent'
  BY <1>1, <1>3, <1>4, <1>5, <1>6 DEF DialogsKnown, HeldAreSent, RequestIds
<1>10. SentAreNamed'
  BY <1>1, <1>3, <1>4, <1>5 DEF DialogsKnown, SentAreNamed, RequestIds
\* A held dialog knows its pending call by its own opening: every call in flight of its control
\* belongs to that, as long as none was taken away from it.
<1>11. ASSUME ~orphaned, NEW q \in RequestIds \ {r}, OfMount(q)', requests'[q].control = c, c.held
       PROVE  FALSE
  <2>1. OfMount(q) /\ requests[q].control = c
    BY <1>5, <1>11
  <2>2. q \in dialog.sent
    BY <1>11, <2>1 DEF DialogsKnown, HeldAreSent
  <2>3. QED
    BY <1>1, <1>6, <1>11, <2>1, <2>2 DEF Pending, OfMount
<1>12. ~orphaned' => HeldOnce'
  BY <1>1, <1>3, <1>5, <1>11 DEF DialogsKnown, HeldOnce, RequestIds
<1>13. LocalMounted'
  <2>1. ASSUME NEW q \in RequestIds \ {r}, q \in local', InFlight(q)'
        PROVE  requests'[q].mount = mount'
    <3>1. InFlight(q) /\ q \in local
      BY <1>1, <1>5, <2>1
    <3>2. OfMount(q)
      BY <3>1 DEF DialogsKnown, LocalMounted, OfMount
    <3>3. Persists(q)
      BY <1>2, <1>3, AlikePersists DEF CallsTyped, OthersAlike
    <3>4. QED
      BY <1>1, <2>1, <3>2, <3>3 DEF Persists, OfMount
  <2>2. requests'[r].mount = mount'
    BY <1>1, <1>3
  <2>3. QED
    BY <2>1, <2>2 DEF LocalMounted, RequestIds
<1>14. QED
  BY <1>7, <1>8, <1>9, <1>10, <1>12, <1>13 DEF DialogsKnown

LEMMA ArriveDialogs ==
  ASSUME EntryKinds, Places, DialogsKnown, \A q \in RequestIds : Persists(q),
         NEW to, NEW row \in AnyRow, Arrive(to, row), to = "certificate" => dialog = Closed,
         NEW calls, calls \subseteq local, Rendered(calls, CarriedTo(to, row))
  PROVE  DialogsKnown'
<1>1. route'.page = to /\ mount \in Nat
  BY DEF Arrive, EntryKinds
<1> PICK d : d = CarriedTo(to, row)
  OBVIOUS
<1>2. IsDialog(d) /\ Rendered(calls, d)
  BY CarriedFields
<1>3. CASE route.page = to
  <2>1. d = Kept(row) /\ mount' = mount
    BY <1>3 DEF Arrive, SameMount, CarriedTo
  <2>2. d.sent = dialog.sent /\ (d.name = dialog.name \/ dialog.sent = {})
    <3>1. CASE dialog.name = "none"
      <4>1. dialog = Closed
        BY <3>1, ControlsOfPage DEF Places, OnPage, WellMade
      <4>2. d = Closed
        BY <2>1, <3>1 DEF Kept
      <4>3. QED
        BY <4>1, <4>2, ClosedFields
    <3>2. CASE dialog.name # "none"
      BY <2>1, <3>2, KeptFields DEF Places
    <3>3. QED
      BY <3>1, <3>2
  <2>3. QED
    BY <1>1, <1>3, <1>2, <2>1, <2>2, ShownDialogs
<1>4. CASE route.page # to /\ SameMount(route.page, to)
  <2>1. d = Closed /\ mount' = mount
    BY <1>4 DEF Arrive, CarriedTo
  <2>2. \/ route.page = "shield" /\ to = "certificate"
        \/ route.page = "certificate" /\ to = "shield"
    BY <1>4 DEF SameMount
  <2>3. dialog = Closed
    BY <2>2, ControlsOfPage DEF Places, OnPage
  <2>4. MountedWith(to) = MountedWith(route.page)
    BY <2>2 DEF MountedWith
  <2>5. QED
    BY <1>1, <1>2, <2>1, <2>3, <2>4, ShownDialogs
<1>5. CASE route.page # to /\ ~SameMount(route.page, to)
  <2>1. mount' = mount + 1
    BY <1>5 DEF Arrive
  <2>2. QED
    BY <1>1, <1>2, <2>1, MovedDialogs
<1>6. QED
  BY <1>3, <1>4, <1>5

\* A call of a held dialog is the only one that the mounted component has of it.
LEMMA OwnHeld ==
  ASSUME EntryKinds, Places, DialogsKnown, ~orphaned, NEW r \in RequestIds, OfMount(r),
         dialog.name = requests[r].control.name,
         NEW q \in RequestIds, OfMount(q), requests[q].control.held
  PROVE  q = r
<1>1. q \in dialog.sent /\ InFlight(q)
  BY DEF DialogsKnown, HeldAreSent, OfMount
<1>2. requests[q].control.name = requests[r].control.name
  BY <1>1 DEF DialogsKnown, SentAreNamed
<1>3. /\ requests[q].control \in MountedWith(route.page)
      /\ requests[r].control \in MountedWith(route.page)
  BY DEF DialogsKnown, OwnControls
<1>4. requests[q].control = requests[r].control
  BY <1>2, <1>3, MountedControls
<1>5. QED
  BY <1>4 DEF DialogsKnown, HeldOnce

\* What a call that is over takes from its dialog.
LEMMA WithoutSent ==
  ASSUME EntryKinds, Places, DialogsKnown, NEW r \in RequestIds, InFlight(r)
  PROVE  /\ Without(r).sent \subseteq dialog.sent
         /\ ~orphaned => \A q \in RequestIds \ {r} :
                            OfMount(q) /\ requests[q].control.held /\ q \in dialog.sent
                              => q \in Without(r).sent
<1>1. \/ Without(r).sent = dialog.sent \ {r}
      \/ Without(r).sent = {} /\ r \in local /\ requests[r].control.name = dialog.name
  BY WithoutFields DEF Places
<1>2. CASE Without(r).sent = dialog.sent \ {r}
  BY <1>2
<1>3. CASE Without(r).sent = {} /\ r \in local /\ requests[r].control.name = dialog.name
  <2>1. OfMount(r)
    BY <1>3 DEF DialogsKnown, LocalMounted, OfMount
  <2>2. QED
    BY <1>3, <2>1, OwnHeld
<1>4. QED
  BY <1>1, <1>2, <1>3

\* The answer of a call closes the dialog of its own control only.
LEMMA FinishesDialogs ==
  ASSUME EntryKinds, CallsKnown, Places, DialogsKnown, NEW r \in RequestIds, InFlight(r),
         \A q \in RequestIds : Persists(q), requests'[r] = Over, NEW e, Finishes(r, e)
  PROVE  DialogsKnown'
<1> DEFINE after == requests[r].control.after
<1>1. ~InFlight(r)'
  BY OverFields DEF InFlight
<1>2. CASE after \in {"stay", "close"}
  <2>1. PICK d, calls :
          /\ calls \in SUBSET local
          /\ route' = route /\ mount' = mount /\ Rendered(calls, d)
          /\ \/ /\ d = Closed
                /\ dialog.name = requests[r].control.name /\ requests[r].mount = mount
             \/ d = Without(r)
    <3> DEFINE shown == IF /\ after = "close" /\ requests[r].mount = mount
                           /\ dialog.name = requests[r].control.name
                        THEN Closed ELSE Without(r)
    <3>1. route' = route /\ mount' = mount /\ Rendered(local \ {r}, shown)
      BY <1>2 DEF Finishes
    <3>2. \/ /\ shown = Closed
             /\ dialog.name = requests[r].control.name /\ requests[r].mount = mount
          \/ shown = Without(r)
      OBVIOUS
    <3>3. local \ {r} \in SUBSET local
      OBVIOUS
    <3> HIDE DEF shown
    <3>4. QED
      BY <3>1, <3>2, <3>3
  <2>2. CASE /\ d = Closed
             /\ dialog.name = requests[r].control.name /\ requests[r].mount = mount
    <3>1. OfMount(r)
      BY <2>2 DEF OfMount
    <3>2. ASSUME ~orphaned, NEW q \in RequestIds, OfMount(q), requests[q].control.held PROVE q = r
      BY <2>2, <3>1, <3>2, OwnHeld
    <3>3. IsDialog(d) /\ d.sent = {}
      BY <2>2, ClosedFields
    <3>4. QED
      BY <1>1, <2>1, <3>2, <3>3, ShownDialogs
  <2>3. CASE d = Without(r)
    <3>1. IsDialog(d) /\ d.name = dialog.name /\ d.sent \subseteq dialog.sent
      BY <2>3, WithoutFields, WithoutSent DEF Places
    <3>2. ~orphaned => \A q \in RequestIds :
            OfMount(q) /\ InFlight(q)' /\ requests[q].control.held /\ q \in dialog.sent => q \in d.sent
      BY <1>1, <2>3, WithoutSent
    <3>3. QED
      BY <2>1, <3>1, <3>2, ShownDialogs
  <2>4. QED
    BY <2>1, <2>2, <2>3
<1>3. CASE after \notin {"stay", "close"}
  <2>1. PICK row \in PageRows(after), calls \in SUBSET local :
          Arrive(after, row) /\ Rendered(calls, CarriedTo(after, row))
    BY <1>3 DEF Finishes
  <2>2. after # "certificate" /\ row \in AnyRow
    BY <1>3, AfterKnown, PageRowsKnown
  <2>3. PICK to : to = after
    OBVIOUS
  <2>4. QED
    BY <2>1, <2>2, <2>3, ArriveDialogs
<1>4. QED
  BY <1>2, <1>3

LEMMA DialogsInit == Init => DialogsKnown
<1> SUFFICES ASSUME Init PROVE DialogsKnown
  OBVIOUS
<1>1. mount = 0 /\ requests = [r \in RequestIds |-> Unused]
  BY DEF Init
<1>2. \A r \in RequestIds : ~InFlight(r) /\ requests[r].mount <= mount
  BY <1>1, UnusedFields DEF InFlight
<1>3. QED
  BY <1>2 DEF DialogsKnown, MountsKnown, OwnControls, HeldAreSent, SentAreNamed, HeldOnce,
              LocalMounted, OfMount

LEMMA DialogsStep ==
  EntryKinds /\ CallsKnown /\ Places /\ DialogsKnown /\ [Next]_vars => DialogsKnown'
<1> SUFFICES ASSUME EntryKinds, CallsKnown, Places, DialogsKnown, [Next]_vars PROVE DialogsKnown'
  OBVIOUS
<1>1. CallsTyped /\ mount \in Nat /\ MountsKnown
  BY DEF EntryKinds, DialogsKnown
<1>2. ASSUME \A q \in RequestIds : Persists(q), UNCHANGED <<dialog, local, orphaned, route, mount>>
      PROVE  DialogsKnown'
  BY <1>2, StayDialogs
<1>3. ASSUME requests' = requests, UNCHANGED <<dialog, local, orphaned, route, mount>>
      PROVE  DialogsKnown'
  BY <1>1, <1>2, <1>3, SamePersist, UnchangedCalls
<1>4. ASSUME \A q \in RequestIds : Persists(q), UNCHANGED <<route, mount>>, Rendered(local, dialog)
      PROVE  DialogsKnown'
  <2>1. PICK d : d = dialog
    OBVIOUS
  <2>2. IsDialog(d) /\ Rendered(local, d)
    BY <1>4, <2>1 DEF Places
  <2>3. QED
    BY <1>4, <2>1, <2>2, ShownDialogs
<1>5. ASSUME NEW c \in Here.controls, NEW row, OpenDialog(c, row) PROVE DialogsKnown'
  BY <1>5, OpenDialogs
<1>6. ASSUME NEW c \in Here.controls, NEW row, Submit(c, row) PROVE DialogsKnown'
  BY <1>6, SubmitDialogs
<1>7. ASSUME NEW c \in Here.controls, CloseDialog(c) PROVE DialogsKnown'
  BY <1>7, CloseDialogs
<1>8. ASSUME NEW to, NEW row \in PageRows(to), Navigate(to, row) PROVE DialogsKnown'
  <2>1. SameCalls
    BY <1>1, <1>8, ReboundCalls, UnchangedCalls DEF Navigate
  <2>2. \A q \in RequestIds : Persists(q)
    BY <1>1, <2>1, SamePersist
  <2>3. /\ Arrive(to, row) /\ Rendered(local, CarriedTo(to, row))
        /\ to = "certificate" => dialog = Closed
        /\ row \in AnyRow
    BY <1>8, PageRowsKnown DEF Navigate
  <2>4. QED
    BY <2>2, <2>3, ArriveDialogs
<1>9. CASE Receive \/ FetchFails
  <2>1. \A q \in RequestIds : Persists(q)
    BY <1>1, <1>9, ToldCalls, SamePersist DEF Receive, FetchFails
  <2>2. QED
    BY <1>2, <1>4, <1>9, <2>1 DEF Receive, FetchFails
<1>10. CASE Refresh \/ Poll \/ TimePasses \/ ServerReads \/ OthersWrite
  BY <1>3, <1>10 DEF Refresh, Poll, TimePasses, ServerReads, OthersWrite
<1>11. ASSUME NEW r \in RequestIds, Commit(r) PROVE DialogsKnown'
  <2>1. /\ written' \in Nat /\ requests[r].phase = "sent"
        /\ UNCHANGED <<dialog, local, orphaned, route, mount>>
    BY <1>11 DEF Commit, EntryKinds
  <2>2. PICK v \in Nat : v = written'
    BY <2>1
  <2>3. requests' = [requests EXCEPT ![r].phase = "done", ![r].vers = v]
    BY <1>11, <2>2 DEF Commit
  <2>4. /\ OthersAlike(r) /\ requests'[r].control = requests[r].control
        /\ requests'[r].mount = requests[r].mount
    BY <1>1, <2>3, CommitCalls
  <2>5. InFlight(r)
    BY <2>1 DEF InFlight
  <2>6. Persists(r)
    BY <1>1, <2>4, <2>5 DEF Persists, MountsKnown, CallsTyped, IsRequest
  <2>7. \A q \in RequestIds \ {r} : Persists(q)
    BY <1>1, <2>4, AlikePersists DEF CallsTyped, OthersAlike
  <2>8. \A q \in RequestIds : Persists(q)
    BY <2>6, <2>7
  <2>9. QED
    BY <1>2, <2>1, <2>8
<1>12. ASSUME NEW r \in RequestIds, Answer(r) PROVE DialogsKnown'
  <2>1. InFlight(r)
    BY <1>12 DEF Answer, InFlight
  <2>2. OthersAlike(r) /\ HeardCall(r)
    BY <1>1, <1>12, AnswerCalls
  <2>3. \A q \in RequestIds : Persists(q)
    BY <1>1, <2>1, <2>2, OnePersists
  <2>4. CASE CallOf(r).awaits
    BY <1>12, <1>4, <2>3, <2>4 DEF Answer
  <2>5. CASE ~CallOf(r).awaits
    <3>1. requests'[r] = Over
      BY <2>2, <2>5 DEF HeardCall
    <3>2. PICK e : e = Updated(r)
      OBVIOUS
    <3>3. Finishes(r, e)
      BY <1>12, <2>5, <3>2 DEF Answer
    <3>4. QED
      BY <2>1, <2>3, <3>1, <3>3, FinishesDialogs
  <2>6. QED
    BY <2>4, <2>5
<1>13. ASSUME NEW r \in RequestIds, Fails(r) PROVE DialogsKnown'
  <2>1. /\ requests' = [requests EXCEPT ![r] = Over]
        /\ dialog' = Without(r) /\ local' \subseteq local /\ orphaned' = orphaned
        /\ route' = route /\ mount' = mount /\ InFlight(r)
    BY <1>13 DEF Fails, InFlight
  <2>2. OthersAlike(r) /\ requests'[r] = Over
    BY <1>1, <2>1, OverCalls
  <2>3. \A q \in RequestIds : Persists(q)
    BY <1>1, <2>2, OnePersists
  <2>4. ~InFlight(r)'
    BY <2>2, OverFields DEF InFlight
  <2>5. dialog'.name = dialog.name /\ dialog'.sent \subseteq dialog.sent
    BY <2>1, WithoutFields, WithoutSent DEF Places
  <2>6. ~orphaned => \A q \in RequestIds :
          OfMount(q) /\ InFlight(q)' /\ requests[q].control.held /\ q \in dialog.sent => q \in dialog'.sent
    BY <2>1, <2>4, WithoutSent
  <2>7. QED
    BY <2>1, <2>3, <2>5, <2>6, StayDialogs
<1>14. ASSUME NEW r \in RequestIds, Settle(r) PROVE DialogsKnown'
  <2>1. InFlight(r)
    BY <1>14 DEF Settle, InFlight
  <2>2. OthersAlike(r) /\ requests'[r] = Over
    BY <1>1, <1>14, OverCalls DEF Settle
  <2>3. \A q \in RequestIds : Persists(q)
    BY <1>1, <2>2, OnePersists
  <2>4. PICK e : e = entry
    OBVIOUS
  <2>5. Finishes(r, e)
    BY <1>14, <2>4 DEF Settle
  <2>6. QED
    BY <2>1, <2>2, <2>3, <2>5, FinishesDialogs
<1>15. CASE UNCHANGED vars
  BY <1>3, <1>15 DEF vars
<1>16. QED
  BY <1>5, <1>6, <1>7, <1>8, <1>9, <1>10, <1>11, <1>12, <1>13, <1>14, <1>15
     DEF Next, User, Query, Server, Client

\* A held dialog that an answer closes, on a page that stays and has unmounted no pending one,
\* was waiting for that answer.
LEMMA FinishesOwn ==
  ASSUME EntryKinds, CallsKnown, Places, DialogsKnown, ~orphaned, NEW r \in RequestIds, InFlight(r),
         NEW e, Finishes(r, e), dialog # Closed, dialog' = Closed, route' = route,
         NEW c \in Here.controls, c.held, c.name = dialog.name
  PROVE  r \in dialog.sent
<1> DEFINE after == requests[r].control.after
<1>1. dialog.name # "none"
  BY ControlsOfPage DEF Here, WellMade
<1>2. CASE after \in {"stay", "close"}
  <2>1. PICK d, calls : /\ Rendered(calls, d)
                        /\ \/ /\ dialog.name = requests[r].control.name /\ requests[r].mount = mount
                              /\ d = Closed
                           \/ d = Without(r)
    BY <1>2 DEF Finishes
  <2>2. d # Without(r)
    <3>1. ASSUME d = Without(r) PROVE FALSE
      <4>1. IsDialog(d) /\ d.name = dialog.name
        BY <3>1, WithoutFields DEF Places
      <4>2. dialog'.name = dialog.name
        BY <2>1, <4>1, RenderedFields
      <4>3. QED
        BY <1>1, <4>2, ClosedFields
    <3>2. QED
      BY <3>1
  <2>3. OfMount(r) /\ requests[r].control.name = c.name
    BY <2>1, <2>2 DEF OfMount
  <2>4. requests[r].control \in MountedWith(route.page) /\ c \in MountedWith(route.page)
    BY <2>3, MountedControls DEF DialogsKnown, OwnControls, Here
  <2>5. requests[r].control = c
    BY <2>3, <2>4, MountedControls
  <2>6. QED
    BY <2>3, <2>5 DEF DialogsKnown, HeldAreSent
<1>3. CASE after \notin {"stay", "close"}
  <2>1. PICK row, calls, d :
          /\ row \in PageRows(after) /\ d = CarriedTo(after, row)
          /\ Arrive(after, row) /\ Rendered(calls, d)
    BY <1>3 DEF Finishes
  <2>2. route.page = after
    BY <2>1 DEF Arrive
  <2>3. d = Kept(row) /\ row \in AnyRow
    BY <2>1, <2>2, PageRowsKnown DEF CarriedTo
  <2>4. dialog'.name = dialog.name
    <3>1. IsDialog(d) /\ d.name = dialog.name
      BY <1>1, <2>3, KeptFields DEF Places
    <3>2. QED
      BY <2>1, <3>1, RenderedFields
  <2>5. QED
    BY <1>1, <2>4, ClosedFields
<1>4. QED
  BY <1>2, <1>3

\* Only a step that ends a call makes it over.
LEMMA EndsCall ==
  ASSUME EntryKinds, [Next]_vars, NEW r \in RequestIds, InFlight(r), requests'[r] = Over
  PROVE  Answer(r) \/ Fails(r) \/ Settle(r)
<1>1. CallsTyped /\ mount \in Nat
  BY DEF EntryKinds
<1>2. requests'[r].phase = "over" /\ requests[r].phase # "over" /\ requests[r].phase # "unused"
  BY OverFields DEF InFlight
<1>3. ASSUME Alike(requests'[r], requests[r]) PROVE FALSE
  BY <1>2, <1>3 DEF Alike
<1>4. ASSUME SameCalls PROVE FALSE
  BY <1>3, <1>4 DEF SameCalls
<1>5. ASSUME NEW q \in RequestIds, q # r, OthersAlike(q) PROVE FALSE
  BY <1>3, <1>5 DEF OthersAlike
<1>6. ASSUME NEW c, NEW row, OpenDialog(c, row) PROVE FALSE
  BY <1>1, <1>4, <1>6, DialogCalls DEF OpenDialog
<1>7. ASSUME NEW c, NEW row, Submit(c, row) PROVE FALSE
  <2>1. PICK q \in RequestIds : Sends(q, c, row) /\ IsNext(q)
    BY <1>7 DEF Submit, Sends, SentCall
  <2>2. q # r /\ OthersAlike(q)
    BY <1>1, <1>2, <2>1, SubmitCalls DEF IsNext
  <2>3. QED
    BY <1>5, <2>2
<1>8. ASSUME NEW c, CloseDialog(c) PROVE FALSE
  BY <1>1, <1>4, <1>8, DialogCalls DEF CloseDialog
<1>9. ASSUME NEW to, NEW row, Navigate(to, row) PROVE FALSE
  BY <1>1, <1>4, <1>9, ReboundCalls, UnchangedCalls DEF Navigate
<1>10. CASE Receive \/ FetchFails
  BY <1>1, <1>4, <1>10, ToldCalls DEF Receive, FetchFails
<1>11. CASE Refresh \/ Poll \/ TimePasses \/ ServerReads \/ OthersWrite \/ UNCHANGED vars
  BY <1>1, <1>4, <1>11, UnchangedCalls
     DEF Refresh, Poll, TimePasses, ServerReads, OthersWrite, vars
<1>12. ASSUME NEW q \in RequestIds, Commit(q) PROVE FALSE
  <2>1. PICK v \in Nat : v = written'
    BY <1>12 DEF Commit, EntryKinds
  <2>2. requests' = [requests EXCEPT ![q].phase = "done", ![q].vers = v]
    BY <1>12, <2>1 DEF Commit
  <2>3. OthersAlike(q) /\ requests'[q].phase = "done"
    BY <1>1, <2>2, CommitCalls
  <2>4. QED
    BY <1>2, <1>5, <2>3
<1>13. ASSUME NEW q \in RequestIds, Answer(q) \/ Fails(q) \/ Settle(q) PROVE q = r
  <2>1. OthersAlike(q)
    BY <1>1, <1>13, AnswerCalls, OverCalls DEF Fails, Settle
  <2>2. QED
    BY <1>5, <2>1
<1>14. QED
  BY <1>6, <1>7, <1>8, <1>9, <1>10, <1>11, <1>12, <1>13 DEF Next, User, Query, Server, Client

ClosesOnItsAnswer(r) ==
  (/\ ~orphaned /\ InFlight(r) /\ requests'[r] = Over
   /\ dialog # Closed /\ dialog' = Closed /\ route' = route
   /\ \E c \in Here.controls : c.held /\ c.name = dialog.name)
  => r \in dialog.sent

LEMMA HeldStep ==
  EntryKinds /\ CallsKnown /\ Places /\ DialogsKnown /\ [Next]_vars
    => [\A r \in RequestIds : ClosesOnItsAnswer(r)]_vars
<1> SUFFICES ASSUME EntryKinds, CallsKnown, Places, DialogsKnown, [Next]_vars,
                    NEW r \in RequestIds, ~orphaned, InFlight(r), requests'[r] = Over,
                    dialog # Closed, dialog' = Closed, route' = route,
                    NEW c \in Here.controls, c.held, c.name = dialog.name
             PROVE  r \in dialog.sent
  BY DEF ClosesOnItsAnswer
<1>1. dialog.name # "none"
  BY ControlsOfPage DEF Here, WellMade
<1>2. CASE Answer(r)
  <2>1. HeardCall(r)
    BY <1>2, AnswerCalls DEF EntryKinds
  <2>2. requests'[r].phase = "over"
    BY OverFields
  <2>3. ~CallOf(r).awaits
    BY <2>1, <2>2 DEF HeardCall
  <2>4. PICK e : e = Updated(r)
    OBVIOUS
  <2>5. Finishes(r, e)
    BY <1>2, <2>3, <2>4 DEF Answer
  <2>6. QED
    BY <2>5, FinishesOwn
<1>3. CASE Fails(r)
  <2>1. dialog'.name = dialog.name
    BY <1>3, WithoutFields DEF Fails, Places
  <2>2. QED
    BY <1>1, <2>1, ClosedFields
<1>4. CASE Settle(r)
  <2>1. PICK e : e = entry
    OBVIOUS
  <2>2. Finishes(r, e)
    BY <1>4, <2>1 DEF Settle
  <2>3. QED
    BY <2>2, FinishesOwn
<1>5. QED
  BY <1>2, <1>3, <1>4, EndsCall

\* A dialog that cannot be closed while it is pending (ConfirmDialog and the certificate
\* dialogs) is never closed by the answer to another opening of it, unless its page unmounted
\* one that was pending (GroupDetail.tsx:85-94), whatever the rows, the controls in use and
\* the number of calls and links.
THEOREM HeldDialogsWait == Spec => HeldDialogsCloseOnTheirAnswer
<1>1. Init => EntryKinds /\ CallsKnown /\ Places /\ DialogsKnown
  BY KindsInit, KnownInit, PlacesInit, DialogsInit
<1>2. EntryKinds /\ CallsKnown /\ Places /\ DialogsKnown /\ [Next]_vars
        => (EntryKinds /\ CallsKnown /\ Places /\ DialogsKnown)'
  BY KindsStep, KnownStep, PlacesStep, DialogsStep
<1>3. Spec => [][\A r \in RequestIds : ClosesOnItsAnswer(r)]_vars
  BY <1>1, <1>2, HeldStep, PTL DEF Spec
<1>4. QED
  BY <1>3 DEF HeldDialogsCloseOnTheirAnswer, ClosesOnItsAnswer

(***************************************************************************)
(* The bounds: what the cache and the calls carry is behind what was        *)
(* written, and there is a call or a link for everything that is counted.   *)
(***************************************************************************)
Behind(e)  == e.data <= written /\ e.snap <= written
AllBehind  == Behind(entry) /\ \A r \in RequestIds : requests[r].vers <= written

LEMMA UpdatedBehind ==
  ASSUME EntryKinds, AllBehind, NEW r \in RequestIds
  PROVE  Behind(Updated(r))
<1>1. /\ entry \in Entries /\ written \in Nat /\ requests[r].vers \in Nat
      /\ requests[r].vers <= written /\ Behind(entry)
  BY DEF EntryKinds, CallsTyped, IsRequest, AllBehind
<1>2. CASE Updated(r) = Dropped
  BY <1>1, <1>2, DroppedFields DEF Behind, NoData
<1>3. CASE Updated(r) = Filled(entry, requests[r].vers)
  <2>1. LET x == Filled(entry, requests[r].vers) IN
        x.data = requests[r].vers /\ x.snap = entry.snap
    BY <1>1, FilledFields
  <2>2. QED
    BY <1>1, <1>3, <2>1 DEF Behind
<1>4. CASE Updated(r) = Invalidated(entry)
  <2>1. /\ Invalidated(entry).data = entry.data
        /\ Invalidated(entry).snap = entry.snap \/ Invalidated(entry).snap = 0
    BY <1>1, InvalidatedFields, MarkedFields
  <2>2. QED
    BY <1>1, <1>4, <2>1 DEF Behind
<1>5. CASE Updated(r) = entry
  BY <1>1, <1>5
<1>6. QED
  BY <1>2, <1>3, <1>4, <1>5, UpdatedFields

LEMMA MountsBehind ==
  ASSUME written \in Nat, written' = written, NEW e \in Entries, MountsWith(e), Behind(e)
  PROVE  entry'.data <= written' /\ entry'.snap <= written'
<1>1. CASE entry' = e
  BY <1>1 DEF Behind
<1>2. CASE entry' = OnMount(e)
  <2>1. OnMount(e).data = e.data /\ (OnMount(e).snap = e.snap \/ OnMount(e).snap = 0)
    BY OnMountFields, AskedFields
  <2>2. QED
    BY <1>2, <2>1 DEF Behind
<1>3. QED
  BY <1>1, <1>2 DEF MountsWith

\* The calls stay behind when none is sent or accepted.
LEMMA CallsBehind ==
  ASSUME EntryKinds, AllBehind, written' \in Nat, written <= written',
         \A r \in RequestIds : requests'[r].vers = requests[r].vers \/ requests'[r].vers = 0
  PROVE  \A r \in RequestIds : requests'[r].vers <= written'
<1> SUFFICES ASSUME NEW r \in RequestIds PROVE requests'[r].vers <= written'
  OBVIOUS
<1>1. requests[r].vers \in Nat /\ requests[r].vers <= written /\ written \in Nat
  BY DEF EntryKinds, CallsTyped, IsRequest, AllBehind
<1>2. QED
  BY <1>1

LEMMA BehindInit == Init => AllBehind
<1> SUFFICES ASSUME Init PROVE AllBehind
  OBVIOUS
<1>1. PICK slice \in Slices, warm \in BOOLEAN :
        entry = IF warm THEN [Empty EXCEPT !.data = 0]
                ELSE IF ShowsKey(slice.page, route.row) THEN Asked(Empty) ELSE Empty
  BY DEF Init
<1>2. written = 0 /\ requests = [r \in RequestIds |-> Unused]
  BY DEF Init
<1>3. entry.data <= 0 /\ entry.snap <= 0
  BY <1>1, ReceivedFields, EmptyFields, AskedFields DEF NoData
<1>4. QED
  BY <1>2, <1>3, UnusedFields DEF AllBehind, Behind

LEMMA BehindStep == EntryKinds /\ AllBehind /\ [Next]_vars => AllBehind'
<1> SUFFICES ASSUME EntryKinds, AllBehind, [Next]_vars PROVE AllBehind'
  OBVIOUS
<1>1. /\ CallsTyped /\ mount \in Nat /\ written \in Nat /\ entry \in Entries /\ Behind(entry)
      /\ entry.snap \in Nat /\ entry.data \in Nat \cup {NoData}
  BY DEF EntryKinds, AllBehind, Entries
<1>2. ASSUME SameCalls, written' \in Nat, written <= written'
      PROVE  \A r \in RequestIds : requests'[r].vers <= written'
  BY <1>2, CallsBehind DEF SameCalls, Alike
<1>3. ASSUME NEW r \in RequestIds, OthersAlike(r), written' = written,
             requests'[r].vers = requests[r].vers \/ requests'[r].vers = 0
      PROVE  \A q \in RequestIds : requests'[q].vers <= written'
  BY <1>1, <1>3, CallsBehind DEF OthersAlike, Alike
<1>4. requests' = requests => SameCalls
  BY <1>1, UnchangedCalls
<1>5. ASSUME entry' = entry, written' \in Nat, written <= written' PROVE Behind(entry)'
  BY <1>1, <1>5 DEF Behind, NoData
<1>6. ASSUME MountsWith(entry), written' = written PROVE Behind(entry)'
  <2>1. PICK e \in Entries : e = entry
    BY <1>1
  <2>2. MountsWith(e) /\ Behind(e)
    BY <1>1, <1>6, <2>1 DEF MountsWith
  <2>3. QED
    BY <1>1, <1>6, <2>2, MountsBehind DEF Behind
<1>7. ASSUME NEW c, NEW row, OpenDialog(c, row) PROVE AllBehind'
  BY <1>1, <1>2, <1>5, <1>7, DialogCalls DEF OpenDialog, AllBehind
<1>8. ASSUME NEW c, NEW row, Submit(c, row) PROVE AllBehind'
  <2>1. PICK r \in RequestIds : Sends(r, c, row)
    BY <1>8 DEF Submit, Sends, SentCall
  <2>2. OthersAlike(r) /\ requests'[r].vers = 0
    BY <1>1, <2>1, SubmitCalls
  <2>3. QED
    BY <1>1, <1>3, <1>5, <1>8, <2>2 DEF Submit, AllBehind
<1>9. ASSUME NEW c, CloseDialog(c) PROVE AllBehind'
  BY <1>1, <1>2, <1>5, <1>9, DialogCalls DEF CloseDialog, AllBehind
<1>10. ASSUME NEW to, NEW row, Navigate(to, row) PROVE AllBehind'
  <2>1. SameCalls
    BY <1>1, <1>10, ReboundCalls, UnchangedCalls DEF Navigate
  <2>2. Behind(entry)'
    BY <1>6, <1>10, NavigateEntry DEF Navigate
  <2>3. QED
    BY <1>1, <1>2, <1>10, <2>1, <2>2 DEF Navigate, AllBehind
<1>11. ASSUME entry'.data = entry.data, entry'.snap \in {entry.snap, 0, written}, written' = written
       PROVE  Behind(entry)'
  BY <1>1, <1>11 DEF Behind
<1>12. CASE Refresh \/ Poll
  <2>1. entry' = Asked(entry) /\ requests' = requests /\ written' = written
    BY <1>12 DEF Refresh, Poll
  <2>2. QED
    BY <1>1, <1>2, <1>4, <1>11, <2>1, AskedFields DEF AllBehind
<1>13. CASE TimePasses
  <2>1. entry' = Marked(entry) /\ requests' = requests /\ written' = written
    BY <1>13 DEF TimePasses
  <2>2. QED
    BY <1>1, <1>2, <1>4, <1>11, <2>1, MarkedFields DEF AllBehind
<1>14. CASE Receive
  <2>1. entry' = [Empty EXCEPT !.data = entry.snap] /\ requests' = Told /\ written' = written
    BY <1>14 DEF Receive
  <2>2. entry'.data = entry.snap /\ entry'.snap = 0
    BY <1>1, <2>1, ReceivedFields
  <2>3. Behind(entry)'
    BY <1>1, <2>1, <2>2 DEF Behind
  <2>4. QED
    BY <1>1, <1>2, <2>1, <2>3, ToldCalls DEF AllBehind
<1>15. CASE FetchFails
  <2>1. /\ entry' = [entry EXCEPT !.fetch = "idle", !.snap = 0, !.failed = TRUE]
        /\ requests' = Told /\ written' = written
    BY <1>15 DEF FetchFails
  <2>2. entry'.data = entry.data /\ entry'.snap = 0
    BY <1>1, <2>1, FailedFields
  <2>3. QED
    BY <1>1, <1>2, <1>11, <2>1, <2>2, ToldCalls DEF AllBehind
<1>16. CASE ServerReads
  <2>1. /\ entry' = [entry EXCEPT !.fetch = "answered", !.snap = written]
        /\ requests' = requests /\ written' = written
    BY <1>16 DEF ServerReads
  <2>2. entry'.data = entry.data /\ entry'.snap = written
    BY <1>1, <2>1, ReadFields
  <2>3. QED
    BY <1>1, <1>2, <1>4, <1>11, <2>1, <2>2 DEF AllBehind
<1>17. CASE OthersWrite
  BY <1>1, <1>2, <1>4, <1>5, <1>17 DEF OthersWrite, AllBehind
<1>18. ASSUME NEW r \in RequestIds, Commit(r) PROVE AllBehind'
  <2>1. written' \in Nat /\ written <= written' /\ entry' = entry
    BY <1>1, <1>18 DEF Commit
  <2>2. PICK v \in Nat : v = written'
    BY <2>1
  <2>3. requests' = [requests EXCEPT ![r].phase = "done", ![r].vers = v]
    BY <1>18, <2>2 DEF Commit
  <2>4. OthersAlike(r) /\ requests'[r].vers = written'
    BY <1>1, <2>2, <2>3, CommitCalls
  <2>5. ASSUME NEW q \in RequestIds \ {r} PROVE requests'[q].vers <= written'
    <3>1. /\ requests'[q].vers = requests[q].vers /\ requests[q].vers <= written
          /\ requests[q].vers \in Nat
      BY <1>1, <2>4 DEF OthersAlike, Alike, AllBehind, CallsTyped, IsRequest
    <3>2. QED
      BY <1>1, <2>1, <3>1
  <2>6. requests'[r].vers <= written'
    BY <2>1, <2>4
  <2>7. QED
    BY <1>5, <2>1, <2>5, <2>6 DEF AllBehind, RequestIds
<1>19. ASSUME NEW r \in RequestIds, Answer(r) PROVE AllBehind'
  <2>1. OthersAlike(r) /\ HeardCall(r) /\ key' = key /\ written' = written
    BY <1>1, <1>19, AnswerCalls DEF Answer
  <2>2. requests'[r].vers = requests[r].vers \/ requests'[r].vers = 0
    BY <2>1, OverFields DEF HeardCall
  <2>3. Updated(r) \in Entries /\ Behind(Updated(r))
    BY UpdatedFields, UpdatedBehind
  <2>4. Behind(entry)'
    <3>1. CASE CallOf(r).awaits
      BY <1>19, <2>1, <2>3, <3>1 DEF Answer, Behind
    <3>2. CASE ~CallOf(r).awaits
      <4>1. PICK e \in Entries : e = Updated(r)
        BY <2>3
      <4>2. MountsWith(e)
        BY <1>1, <1>19, <2>1, <3>2, <4>1, FinishesEntry DEF Answer
      <4>3. QED
        BY <1>1, <2>1, <2>3, <4>1, <4>2, MountsBehind DEF Behind
    <3>3. QED
      BY <3>1, <3>2
  <2>5. QED
    BY <1>3, <2>1, <2>2, <2>4 DEF AllBehind, RequestIds
<1>20. ASSUME NEW r \in RequestIds, Fails(r) PROVE AllBehind'
  <2>1. OthersAlike(r) /\ requests'[r].vers = 0 /\ entry' = entry /\ written' = written
    BY <1>1, <1>20, OverCalls, OverFields DEF Fails
  <2>2. QED
    BY <1>1, <1>3, <1>5, <2>1 DEF AllBehind
<1>21. ASSUME NEW r \in RequestIds, Settle(r) PROVE AllBehind'
  <2>1. OthersAlike(r) /\ requests'[r].vers = 0 /\ written' = written /\ key' = key
    BY <1>1, <1>21, OverCalls, OverFields DEF Settle
  <2>2. MountsWith(entry)
    BY <1>1, <1>21, <2>1, FinishesEntry DEF Settle
  <2>3. QED
    BY <1>3, <1>6, <2>1, <2>2 DEF AllBehind
<1>22. CASE UNCHANGED vars
  BY <1>1, <1>2, <1>4, <1>5, <1>22 DEF vars, AllBehind
<1>23. QED
  BY <1>7, <1>8, <1>9, <1>10, <1>12, <1>13, <1>14, <1>15, <1>16, <1>17, <1>18, <1>19, <1>20,
     <1>21, <1>22 DEF Next, User, Query, Server, Client

\* The calls that may be behind a write, and those that may have led to another page.
AcceptedRequests == {r \in RequestIds : requests[r].phase \in {"done", "awaiting", "over"}}
EndedRequests    == {r \in RequestIds : requests[r].phase = "over"}

Counted ==
  /\ others \in 0 .. MaxOthers /\ navs \in 0 .. MaxNavs
  /\ written <= others + Cardinality(AcceptedRequests)
  /\ mount <= navs + Cardinality(EndedRequests)

LEMMA IdsFinite ==
  /\ IsFiniteSet(RequestIds) /\ Cardinality(RequestIds) = MaxRequests
  /\ \A S \in SUBSET RequestIds : /\ IsFiniteSet(S) /\ Cardinality(S) \in Nat
                                  /\ Cardinality(S) <= MaxRequests
<1>1. MaxRequests \in Nat
  BY ConsoleAssumption
<1>2. IsFiniteSet(RequestIds) /\ Cardinality(RequestIds) = MaxRequests
  BY <1>1, FS_Interval DEF RequestIds
<1>3. ASSUME NEW S \in SUBSET RequestIds
      PROVE  IsFiniteSet(S) /\ Cardinality(S) \in Nat /\ Cardinality(S) <= MaxRequests
  BY <1>2, FS_Subset, FS_CardinalityType
<1>4. QED
  BY <1>2, <1>3

LEMMA MoreIds ==
  ASSUME NEW S \in SUBSET RequestIds, NEW T \in SUBSET RequestIds, S \subseteq T
  PROVE  /\ Cardinality(S) <= Cardinality(T)
         /\ \A r \in T \ S : Cardinality(S) + 1 <= Cardinality(T)
<1>1. IsFiniteSet(S) /\ IsFiniteSet(T) /\ Cardinality(S) \in Nat /\ Cardinality(T) \in Nat
  BY IdsFinite
<1>2. Cardinality(S) <= Cardinality(T)
  BY <1>1, FS_Subset
<1>3. ASSUME NEW r \in T \ S PROVE Cardinality(S) + 1 <= Cardinality(T)
  <2>1. Cardinality(S \cup {r}) = Cardinality(S) + 1 /\ IsFiniteSet(S \cup {r})
    BY <1>1, <1>3, FS_AddElement
  <2>2. S \cup {r} \subseteq T
    BY <1>3
  <2>3. Cardinality(S \cup {r}) <= Cardinality(T)
    BY <1>1, <2>2, FS_Subset
  <2>4. QED
    BY <2>1, <2>3
<1>4. QED
  BY <1>2, <1>3

LEMMA CountedTypes ==
  ASSUME EntryKinds, Counted
  PROVE  /\ others \in Nat /\ navs \in Nat /\ written \in Nat /\ mount \in Nat
         /\ AcceptedRequests \in SUBSET RequestIds /\ EndedRequests \in SUBSET RequestIds
         /\ Cardinality(AcceptedRequests) \in Nat /\ Cardinality(EndedRequests) \in Nat
         /\ MaxOthers \in Nat /\ MaxNavs \in Nat
  BY IdsFinite, ConsoleAssumption DEF Counted, EntryKinds, AcceptedRequests, EndedRequests

\* No call becomes sent or unused again.
Advances(q) ==
  /\ requests[q].phase \in {"done", "awaiting", "over"}
       => requests'[q].phase \in {"done", "awaiting", "over"}
  /\ requests[q].phase = "over" => requests'[q].phase = "over"

LEMMA AdvancesCount ==
  ASSUME EntryKinds, \A q \in RequestIds : Advances(q)
  PROVE  /\ AcceptedRequests' \in SUBSET RequestIds /\ EndedRequests' \in SUBSET RequestIds
         /\ Cardinality(AcceptedRequests') \in Nat /\ Cardinality(EndedRequests') \in Nat
         /\ Cardinality(AcceptedRequests) <= Cardinality(AcceptedRequests')
         /\ Cardinality(EndedRequests) <= Cardinality(EndedRequests')
         /\ \A r \in AcceptedRequests' \ AcceptedRequests : Cardinality(AcceptedRequests) + 1 <= Cardinality(AcceptedRequests')
         /\ \A r \in EndedRequests' \ EndedRequests : Cardinality(EndedRequests) + 1 <= Cardinality(EndedRequests')
<1>1. /\ AcceptedRequests \in SUBSET RequestIds /\ AcceptedRequests' \in SUBSET RequestIds
      /\ EndedRequests \in SUBSET RequestIds /\ EndedRequests' \in SUBSET RequestIds
      /\ AcceptedRequests \subseteq AcceptedRequests' /\ EndedRequests \subseteq EndedRequests'
  BY DEF AcceptedRequests, EndedRequests, Advances, RequestIds
<1>2. Cardinality(AcceptedRequests') \in Nat /\ Cardinality(EndedRequests') \in Nat
  BY <1>1, IdsFinite
<1>3. PICK S \in SUBSET RequestIds, T \in SUBSET RequestIds : S = AcceptedRequests /\ T = AcceptedRequests'
  BY <1>1
<1>4. PICK U \in SUBSET RequestIds, V \in SUBSET RequestIds : U = EndedRequests /\ V = EndedRequests'
  BY <1>1
<1>5. /\ Cardinality(S) <= Cardinality(T)
      /\ \A r \in T \ S : Cardinality(S) + 1 <= Cardinality(T)
  BY <1>1, <1>3, MoreIds
<1>6. /\ Cardinality(U) <= Cardinality(V)
      /\ \A r \in V \ U : Cardinality(U) + 1 <= Cardinality(V)
  BY <1>1, <1>4, MoreIds
<1>7. QED
  BY <1>1, <1>2, <1>3, <1>4, <1>5, <1>6

LEMMA StepCounted ==
  ASSUME EntryKinds, Counted, \A q \in RequestIds : Advances(q),
         others' \in 0 .. MaxOthers, navs' \in 0 .. MaxNavs, written' \in Nat, mount' \in Nat,
         \/ written' = written /\ others' = others
         \/ written' <= written + 1 /\ others' = others + 1
         \/ /\ others' = others /\ written' <= written + 1
            /\ \E r \in RequestIds : r \in AcceptedRequests' \ AcceptedRequests,
         \/ mount' = mount /\ navs' = navs
         \/ mount' <= mount + 1 /\ navs' = navs + 1
         \/ /\ navs' = navs /\ mount' <= mount + 1
            /\ \E r \in RequestIds : r \in EndedRequests' \ EndedRequests
  PROVE  Counted'
<1>1. /\ others \in Nat /\ navs \in Nat /\ written \in Nat /\ mount \in Nat
      /\ Cardinality(AcceptedRequests) \in Nat /\ Cardinality(EndedRequests) \in Nat
      /\ MaxOthers \in Nat /\ MaxNavs \in Nat
      /\ written <= others + Cardinality(AcceptedRequests) /\ mount <= navs + Cardinality(EndedRequests)
  BY CountedTypes DEF Counted
<1>2. /\ Cardinality(AcceptedRequests') \in Nat /\ Cardinality(EndedRequests') \in Nat
      /\ Cardinality(AcceptedRequests) <= Cardinality(AcceptedRequests')
      /\ Cardinality(EndedRequests) <= Cardinality(EndedRequests')
      /\ \A r \in AcceptedRequests' \ AcceptedRequests : Cardinality(AcceptedRequests) + 1 <= Cardinality(AcceptedRequests')
      /\ \A r \in EndedRequests' \ EndedRequests : Cardinality(EndedRequests) + 1 <= Cardinality(EndedRequests')
  BY AdvancesCount
<1>3. others' \in Nat /\ navs' \in Nat
  BY <1>1
<1>4. written' <= others' + Cardinality(AcceptedRequests')
  <2>1. CASE written' = written /\ others' = others
    BY <1>1, <1>2, <2>1
  <2>2. CASE written' <= written + 1 /\ others' = others + 1
    BY <1>1, <1>2, <2>2
  <2>3. CASE /\ others' = others /\ written' <= written + 1
             /\ \E r \in RequestIds : r \in AcceptedRequests' \ AcceptedRequests
    <3>1. Cardinality(AcceptedRequests) + 1 <= Cardinality(AcceptedRequests')
      BY <1>2, <2>3
    <3>2. QED
      BY <1>1, <1>2, <2>3, <3>1
  <2>4. QED
    BY <2>1, <2>2, <2>3
<1>5. mount' <= navs' + Cardinality(EndedRequests')
  <2>1. CASE mount' = mount /\ navs' = navs
    BY <1>1, <1>2, <2>1
  <2>2. CASE mount' <= mount + 1 /\ navs' = navs + 1
    BY <1>1, <1>2, <2>2
  <2>3. CASE /\ navs' = navs /\ mount' <= mount + 1
             /\ \E r \in RequestIds : r \in EndedRequests' \ EndedRequests
    <3>1. Cardinality(EndedRequests) + 1 <= Cardinality(EndedRequests')
      BY <1>2, <2>3
    <3>2. QED
      BY <1>1, <1>2, <2>3, <3>1
  <2>4. QED
    BY <2>1, <2>2, <2>3
<1>6. QED
  BY <1>4, <1>5 DEF Counted

LEMMA AlikeAdvances == \A q : Alike(requests'[q], requests[q]) => Advances(q)
  BY DEF Alike, Advances

\* One call is over or goes on, the others stay.
LEMMA OneAdvances ==
  ASSUME NEW r \in RequestIds, OthersAlike(r), Advances(r)
  PROVE  \A q \in RequestIds : Advances(q)
<1>1. \A q \in RequestIds \ {r} : Advances(q)
  BY AlikeAdvances DEF OthersAlike
<1>2. QED
  BY <1>1

LEMMA MountsOnce ==
  ASSUME NEW r \in RequestIds, NEW e, Finishes(r, e)
  PROVE  mount' = mount \/ mount' = mount + 1
<1>1. ASSUME NEW to, NEW row, Arrive(to, row) PROVE mount' = mount \/ mount' = mount + 1
  BY <1>1 DEF Arrive
<1>2. QED
  BY <1>1 DEF Finishes

LEMMA CountedInit == Init => Counted
<1> SUFFICES ASSUME Init PROVE Counted
  OBVIOUS
<1>1. others = 0 /\ navs = 0 /\ written = 0 /\ mount = 0
  BY DEF Init
<1>2. AcceptedRequests \in SUBSET RequestIds /\ EndedRequests \in SUBSET RequestIds
  BY DEF AcceptedRequests, EndedRequests
<1>3. Cardinality(AcceptedRequests) \in Nat /\ Cardinality(EndedRequests) \in Nat
  BY <1>2, IdsFinite
<1>4. QED
  BY <1>1, <1>3, ConsoleAssumption DEF Counted

LEMMA CountedStep == EntryKinds /\ Counted /\ [Next]_vars => Counted'
<1> SUFFICES ASSUME EntryKinds, Counted, [Next]_vars PROVE Counted'
  OBVIOUS
<1>1. /\ CallsTyped /\ mount \in Nat /\ written \in Nat
      /\ others \in 0 .. MaxOthers /\ navs \in 0 .. MaxNavs
      /\ MaxOthers \in Nat /\ MaxNavs \in Nat
  BY ConsoleAssumption DEF EntryKinds, Counted
<1>2. SameCalls => \A q \in RequestIds : Advances(q)
  BY AlikeAdvances DEF SameCalls
<1>3. requests' = requests => SameCalls
  BY <1>1, UnchangedCalls
<1>4. ASSUME \A q \in RequestIds : Advances(q), others' = others, written' = written,
             mount' = mount, navs' = navs
      PROVE  Counted'
  BY <1>1, <1>4, StepCounted
<1>5. ASSUME NEW c, NEW row, OpenDialog(c, row) PROVE Counted'
  BY <1>1, <1>2, <1>4, <1>5, DialogCalls DEF OpenDialog
<1>6. ASSUME NEW c, NEW row, Submit(c, row) PROVE Counted'
  <2>1. PICK r \in RequestIds : Sends(r, c, row) /\ requests[r].phase = "unused"
    BY <1>6 DEF Submit, Sends, SentCall, IsNext
  <2>2. OthersAlike(r) /\ Advances(r)
    BY <1>1, <2>1, SubmitCalls DEF Advances
  <2>3. QED
    BY <1>4, <1>6, <2>2, OneAdvances DEF Submit
<1>7. ASSUME NEW c, CloseDialog(c) PROVE Counted'
  BY <1>1, <1>2, <1>4, <1>7, DialogCalls DEF CloseDialog
<1>8. ASSUME NEW to, NEW row, Navigate(to, row) PROVE Counted'
  <2>1. \A q \in RequestIds : Advances(q)
    BY <1>1, <1>2, <1>3, <1>8, ReboundCalls DEF Navigate
  <2>2. navs < MaxNavs /\ navs' = navs + 1 /\ others' = others /\ written' = written
    BY <1>8 DEF Navigate
  <2>3. mount' = mount \/ mount' = mount + 1
    BY <1>8 DEF Navigate, Arrive
  <2>4. navs' \in 0 .. MaxNavs /\ mount' \in Nat /\ mount' <= mount + 1
    BY <1>1, <2>2, <2>3
  <2>5. QED
    BY <1>1, <2>1, <2>2, <2>4, StepCounted
<1>9. CASE Receive \/ FetchFails
  BY <1>1, <1>2, <1>4, <1>9, ToldCalls DEF Receive, FetchFails
<1>10. CASE Refresh \/ Poll \/ TimePasses \/ ServerReads
  BY <1>2, <1>3, <1>4, <1>10 DEF Refresh, Poll, TimePasses, ServerReads
<1>11. CASE OthersWrite
  <2>1. \A q \in RequestIds : Advances(q)
    BY <1>2, <1>3, <1>11 DEF OthersWrite
  <2>2. /\ others < MaxOthers /\ others' = others + 1 /\ written' = written + 1
        /\ mount' = mount /\ navs' = navs
    BY <1>11 DEF OthersWrite
  <2>3. others' \in 0 .. MaxOthers /\ written' \in Nat /\ written' <= written + 1
    BY <1>1, <2>2
  <2>4. QED
    BY <1>1, <2>1, <2>2, <2>3, StepCounted
<1>12. ASSUME NEW r \in RequestIds, Commit(r) PROVE Counted'
  <2>1. /\ written' = written \/ written' = written + 1
        /\ others' = others /\ mount' = mount /\ navs' = navs /\ requests[r].phase = "sent"
    BY <1>12 DEF Commit
  <2>2. written' \in Nat /\ written' <= written + 1
    BY <1>1, <2>1
  <2>3. PICK v \in Nat : v = written'
    BY <2>2
  <2>4. requests' = [requests EXCEPT ![r].phase = "done", ![r].vers = v]
    BY <1>12, <2>3 DEF Commit
  <2>5. OthersAlike(r) /\ requests'[r].phase = "done"
    BY <1>1, <2>4, CommitCalls
  <2>6. \A q \in RequestIds : Advances(q)
    BY <2>1, <2>5, OneAdvances DEF Advances
  <2>7. r \in AcceptedRequests' \ AcceptedRequests
    BY <2>1, <2>5 DEF AcceptedRequests, RequestIds
  <2>8. QED
    BY <1>1, <2>1, <2>2, <2>6, <2>7, StepCounted
\* A step that ends a call, and may lead to another page.
<1>13. ASSUME NEW r \in RequestIds, OthersAlike(r), requests'[r] = Over,
              requests[r].phase # "over", mount' = mount \/ mount' = mount + 1,
              others' = others, written' = written, navs' = navs
       PROVE  Counted'
  <2>1. requests'[r].phase = "over"
    BY <1>13, OverFields
  <2>2. \A q \in RequestIds : Advances(q)
    BY <1>13, <2>1, OneAdvances DEF Advances
  <2>3. r \in EndedRequests' \ EndedRequests
    BY <1>13, <2>1 DEF EndedRequests, RequestIds
  <2>4. mount' \in Nat /\ mount' <= mount + 1
    BY <1>1, <1>13
  <2>5. QED
    BY <1>1, <1>13, <2>2, <2>3, <2>4, StepCounted
<1>14. ASSUME NEW r \in RequestIds, Answer(r) PROVE Counted'
  <2>1. /\ OthersAlike(r) /\ HeardCall(r) /\ requests[r].phase = "done"
        /\ others' = others /\ written' = written /\ navs' = navs
    BY <1>1, <1>14, AnswerCalls DEF Answer
  <2>2. CASE CallOf(r).awaits
    <3>1. requests'[r].phase = "awaiting" /\ mount' = mount
      BY <1>14, <2>1, <2>2 DEF Answer, HeardCall
    <3>2. Advances(r)
      BY <2>1, <3>1 DEF Advances
    <3>3. QED
      BY <1>4, <2>1, <3>1, <3>2, OneAdvances
  <2>3. CASE ~CallOf(r).awaits
    <3>1. PICK e : e = Updated(r)
      OBVIOUS
    <3>2. Finishes(r, e)
      BY <1>14, <2>3, <3>1 DEF Answer
    <3>3. requests'[r] = Over
      BY <2>1, <2>3 DEF HeardCall
    <3>4. QED
      BY <1>13, <2>1, <3>2, <3>3, MountsOnce
  <2>4. QED
    BY <2>2, <2>3
<1>15. ASSUME NEW r \in RequestIds, Fails(r) PROVE Counted'
  <2>1. /\ OthersAlike(r) /\ requests'[r] = Over /\ requests[r].phase # "over"
        /\ mount' = mount /\ others' = others /\ written' = written /\ navs' = navs
    BY <1>1, <1>15, OverCalls DEF Fails
  <2>2. QED
    BY <1>13, <2>1
<1>16. ASSUME NEW r \in RequestIds, Settle(r) PROVE Counted'
  <2>1. /\ OthersAlike(r) /\ requests'[r] = Over /\ requests[r].phase # "over"
        /\ others' = others /\ written' = written /\ navs' = navs
    BY <1>1, <1>16, OverCalls DEF Settle
  <2>2. PICK e : e = entry
    OBVIOUS
  <2>3. Finishes(r, e)
    BY <1>16, <2>2 DEF Settle
  <2>4. QED
    BY <1>13, <2>1, <2>3, MountsOnce
<1>17. CASE UNCHANGED vars
  BY <1>2, <1>3, <1>4, <1>17 DEF vars
<1>18. QED
  BY <1>5, <1>6, <1>7, <1>8, <1>9, <1>10, <1>11, <1>12, <1>14, <1>15, <1>16, <1>17
     DEF Next, User, Query, Server, Client

\* The watched key is picked once.
KeyKnown == key.name \in KeyNames /\ key.row \in AnyRow

LEMMA KeyInit == Init => KeyKnown
<1> SUFFICES ASSUME Init PROVE KeyKnown
  OBVIOUS
<1>1. PICK slice \in Slices :
        key = [name |-> slice.name,
               row |-> IF slice.name \in RowedKeys THEN CHOOSE r \in Rows : TRUE ELSE NoRow,
               uses |-> slice.uses]
  BY DEF Init
<1>2. slice.name \in KeyNames /\ (CHOOSE r \in Rows : TRUE) \in Rows
  BY ConsoleAssumption
<1>3. QED
  BY <1>1, <1>2 DEF KeyKnown, AnyRow

LEMMA KeyStep == KeyKnown /\ [Next]_vars => KeyKnown'
<1> SUFFICES ASSUME [Next]_vars PROVE key' = key
  BY DEF KeyKnown, AnyRow
<1>1. ASSUME NEW c, NEW row, OpenDialog(c, row) \/ Submit(c, row) PROVE key' = key
  BY <1>1 DEF OpenDialog, Submit
<1>2. ASSUME NEW c, CloseDialog(c) PROVE key' = key
  BY <1>2 DEF CloseDialog
<1>3. ASSUME NEW to, NEW row, Navigate(to, row) PROVE key' = key
  BY <1>3 DEF Navigate
<1>4. CASE Refresh \/ Query \/ ServerReads \/ OthersWrite \/ UNCHANGED vars
  BY <1>4 DEF Refresh, Query, Receive, FetchFails, Poll, TimePasses, ServerReads, OthersWrite, vars
<1>5. ASSUME NEW r \in RequestIds, Commit(r) \/ Answer(r) \/ Fails(r) \/ Settle(r)
      PROVE  key' = key
  BY <1>5 DEF Commit, Answer, Fails, Settle
<1>6. QED
  BY <1>1, <1>2, <1>3, <1>4, <1>5 DEF Next, User, Server, Client

\* What the page keeps of the calls made from it.
LocalKnown == local \subseteq RequestIds /\ orphaned \in BOOLEAN

LEMMA LocalInit == Init => LocalKnown
  BY DEF Init, LocalKnown

LEMMA LocalStep == LocalKnown /\ [Next]_vars => LocalKnown'
<1> SUFFICES ASSUME LocalKnown, [Next]_vars PROVE LocalKnown'
  OBVIOUS
<1>1. ASSUME UNCHANGED <<local, orphaned>> PROVE LocalKnown'
  BY <1>1 DEF LocalKnown, RequestIds
<1>2. ASSUME NEW calls, NEW d, Rendered(calls, d), calls \subseteq local PROVE LocalKnown'
  BY <1>2 DEF Rendered, LocalKnown, RequestIds
<1>3. ASSUME NEW c, NEW row, OpenDialog(c, row) PROVE LocalKnown'
  BY <1>1, <1>3 DEF OpenDialog
<1>4. ASSUME NEW c, NEW row, Submit(c, row) PROVE LocalKnown'
  BY <1>4 DEF Submit, LocalKnown, RequestIds
<1>5. ASSUME NEW c, CloseDialog(c) PROVE LocalKnown'
  BY <1>1, <1>5 DEF CloseDialog
<1>6. ASSUME NEW to, NEW row, Navigate(to, row) PROVE LocalKnown'
  BY <1>2, <1>6 DEF Navigate
<1>7. CASE FetchFails
  BY <1>2, <1>7 DEF FetchFails
<1>8. CASE Refresh \/ Receive \/ Poll \/ TimePasses \/ ServerReads \/ OthersWrite \/ UNCHANGED vars
  BY <1>1, <1>8 DEF Refresh, Receive, Poll, TimePasses, ServerReads, OthersWrite, vars
<1>9. ASSUME NEW r, NEW e, Finishes(r, e) PROVE LocalKnown'
  BY <1>2, <1>9 DEF Finishes
<1>10. ASSUME NEW r \in RequestIds, Commit(r) PROVE LocalKnown'
  BY <1>1, <1>10 DEF Commit
<1>11. ASSUME NEW r \in RequestIds, Answer(r) PROVE LocalKnown'
  BY <1>2, <1>9, <1>11 DEF Answer
<1>12. ASSUME NEW r \in RequestIds, Fails(r) PROVE LocalKnown'
  BY <1>12 DEF Fails, LocalKnown, RequestIds
<1>13. ASSUME NEW r \in RequestIds, Settle(r) PROVE LocalKnown'
  BY <1>9, <1>13 DEF Settle
<1>14. QED
  BY <1>3, <1>4, <1>5, <1>6, <1>7, <1>8, <1>10, <1>11, <1>12, <1>13
     DEF Next, User, Query, Server, Client

LEMMA TypesFollow ==
  ASSUME EntryKinds, CallsKnown, Current, Places, AllBehind, Counted, KeyKnown, LocalKnown
  PROVE  TypeOK
<1>1. /\ MaxRequests \in Nat /\ MaxOthers \in Nat /\ MaxNavs \in Nat
      /\ others \in Nat /\ others <= MaxOthers /\ navs \in Nat /\ navs <= MaxNavs
      /\ written \in Nat /\ mount \in Nat /\ due \in Nat /\ due <= written
  BY ConsoleAssumption DEF EntryKinds, Counted, Current
<1>2. /\ Cardinality(AcceptedRequests) \in Nat /\ Cardinality(AcceptedRequests) <= MaxRequests
      /\ Cardinality(EndedRequests) \in Nat /\ Cardinality(EndedRequests) <= MaxRequests
  BY IdsFinite DEF AcceptedRequests, EndedRequests
<1>3. written <= others + Cardinality(AcceptedRequests) /\ mount <= navs + Cardinality(EndedRequests)
  BY DEF Counted
<1>4. written <= MaxRequests + MaxOthers
  BY <1>1, <1>2, <1>3
<1>5. mount <= MaxNavs + MaxRequests
  BY <1>1, <1>2, <1>3
<1>6. \A v \in Nat : v <= written => v \in Versions
  BY <1>1, <1>4 DEF Versions
<1>7. key.name \in KeyNames /\ key.row \in Rows \cup {NoRow}
  BY DEF KeyKnown, AnyRow
<1>8. \A c \in key.uses : c.call \in DOMAIN Calls
  BY DEF EntryKinds, KeyKinds, WellMade
<1>9. written \in Versions /\ others \in 0 .. MaxOthers /\ gone \in BOOLEAN
  BY <1>1, <1>6 DEF EntryKinds, Counted
<1>10. entry \in [data : Versions \cup {NoData}, stale : BOOLEAN, failed : BOOLEAN,
                  fetch : {"idle", "asked", "answered"}, snap : Versions]
  <2>1. /\ entry \in Entries /\ entry.data \in Nat \cup {NoData} /\ entry.snap \in Nat
        /\ entry.data <= written /\ entry.snap <= written
    BY DEF EntryKinds, Entries, AllBehind, Behind
  <2>2. entry.data \in Versions \cup {NoData} /\ entry.snap \in Versions
    BY <1>6, <2>1
  <2>3. QED
    BY <2>1, <2>2 DEF Entries
<1>11. route.page \in DOMAIN Pages \cup {"elsewhere"} /\ route.row \in Rows \cup {NoRow}
  BY DEF Places, PageNamed, AnyRow
<1>12. mount \in 0 .. MaxNavs + MaxRequests /\ navs \in 0 .. MaxNavs
  BY <1>1, <1>5
<1>13. /\ dialog = Closed \/ \E c \in Here.controls : c.dialog /\ c.name = dialog.name
       /\ dialog.row \in Rows \cup {NoRow} /\ dialog.sent \subseteq RequestIds
       /\ local \subseteq RequestIds /\ orphaned \in BOOLEAN
  BY DEF Places, OnPage, IsDialog, AnyRow, Here, LocalKnown
<1>14. ASSUME NEW r \in RequestIds
       PROVE  /\ requests[r].phase \in {"unused", "sent", "done", "awaiting", "over"}
              /\ InFlight(r) => requests[r].control \in key.uses
              /\ requests[r].vers \in Versions
  <2>1. requests[r].phase \in Phases /\ requests[r].vers \in Nat /\ requests[r].vers <= written
    BY DEF EntryKinds, CallsTyped, IsRequest, AllBehind
  <2>2. InFlight(r) => requests[r].control \in key.uses
    BY DEF CallsKnown, Known
  <2>3. QED
    BY <1>6, <2>1, <2>2 DEF Phases
<1>15. due \in Versions /\ missed \in BOOLEAN
  BY <1>1, <1>6 DEF EntryKinds
<1>16. QED
  BY <1>7, <1>8, <1>9, <1>10, <1>11, <1>12, <1>13, <1>14, <1>15 DEF TypeOK

\* The types of the variables, the bounds on what is written and mounted among them: every
\* version is behind a write of others or an accepted call (the mutations of hooks/*.ts),
\* and every page but the first behind a link or a call that is over (navigate in the pages).
THEOREM ConsoleTypeOK == Spec => []TypeOK
<1>1. Init => /\ EntryKinds /\ CallsKnown /\ Current /\ Places /\ AllBehind /\ Counted /\ KeyKnown
              /\ LocalKnown
  BY KindsInit, KnownInit, CurrentInit, PlacesInit, BehindInit, CountedInit, KeyInit, LocalInit
<1>2. EntryKinds /\ CallsKnown /\ Current /\ Places /\ AllBehind /\ Counted /\ KeyKnown
      /\ LocalKnown /\ [Next]_vars
        => (/\ EntryKinds /\ CallsKnown /\ Current /\ Places /\ AllBehind /\ Counted /\ KeyKnown
            /\ LocalKnown)'
  BY KindsStep, KnownStep, CurrentStep, PlacesStep, BehindStep, CountedStep, KeyStep, LocalStep
<1>3. QED
  BY <1>1, <1>2, TypesFollow, PTL DEF Spec
=============================================================================
