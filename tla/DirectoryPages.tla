--------------------------- MODULE DirectoryPages ---------------------------
(***************************************************************************)
(* The pages of users and groups.                                           *)
(***************************************************************************)
EXTENDS PageControls

(***************************************************************************)
(* Users.                                                                   *)
(***************************************************************************)
\* The menu of a row (UserActionMenu.tsx) calls at once, again while a call is pending.
UserRowButtons ==
  {Button("activate", "activateMut", "picked"), Button("deactivate", "deactivateMut", "picked"),
   Button("lock", "lockMut", "picked"), Button("unlock", "unlockMut", "picked"),
   Button("resetMfa", "resetMfaMut", "picked")}

\* The reset dialog of the list keeps a pending flag of the page, not of the dialog.
UsersList ==
  Page({"users.list"}, {}, {},
       UserRowButtons \cup
         {Confirm("delete", "useDeleteUser", "picked"),
          Form("resetPassword", "resetPassword", "picked")},
       {"user", "userNew", "bulk", "elsewhere"})

\* The buttons of UserDetail.tsx are bound to the user of the address.
UserButtons ==
  {Button("unlock", "useUnlockUser", "page"), Button("lock", "useLockUser", "page"),
   Button("activate", "useActivateUser", "page"),
   Button("deactivate", "useDeactivateUser", "page"),
   Button("resetMfa", "useResetUserMfa", "page")}

\* The edit form opens with the values of the user shown and saves to the user of the address.
UserDialogs ==
  {Form("edit", "useUpdateUser", "page"),
   Then(Confirm("delete", "useDeleteUser", "page"), "users"),
   Form("resetPassword", "useResetUserPassword", "page")}

UserDetail ==
  Page({"users.detail", "users.groups"}, {"users.detail"}, {}, UserButtons \cup UserDialogs,
       {"users", "group", "elsewhere"})

UserCreate ==
  Page({}, {}, {}, {Then(Locked(Button("create", "useCreateUser", "none")), "user")},
       {"users", "elsewhere"})

(***************************************************************************)
(* Groups.                                                                  *)
(***************************************************************************)
GroupsList ==
  Page({"groups.list"}, {}, {},
       {Then(Form("create", "useCreateGroup", "none"), "group"),
        Confirm("delete", "useDeleteGroup", "picked")},
       {"group", "elsewhere"})

\* MemberPicker.tsx stays open for the next member and locks the member it is adding.
MemberControls ==
  {Then(Keeps(Form("addMember", "useAddGroupMember", "page"), "flag"), "stay"),
   Confirm("removeMember", "useRemoveGroupMember", "page")}

GroupDialogs ==
  {Form("edit", "useUpdateGroup", "page"),
   Then(Confirm("delete", "useDeleteGroup", "page"), "groups")}

GroupDetail ==
  Page({"groups.detail"}, {"groups.detail"}, {}, MemberControls \cup GroupDialogs,
       {"groups", "user", "elsewhere"})
=============================================================================
