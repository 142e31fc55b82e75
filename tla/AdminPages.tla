----------------------------- MODULE AdminPages -----------------------------
(***************************************************************************)
(* The pages of administrators and roles.                                   *)
(***************************************************************************)
EXTENDS PageControls

AdminsList == Page({"admins.list"}, {}, {}, {}, {"admin", "adminNew", "elsewhere"})

AdminCreate ==
  Page({"roles.list"}, {"roles.list"}, {},
       {Then(Locked(Button("create", "useCreateAdmin", "none")), "admin")},
       {"admins", "elsewhere"})

\* Activate and deactivate share the mutation of the edit form and have no lock themselves.
AdminButtons ==
  {Button("resetMfa", "useResetAdminMfa", "page"),
   Button("setActive", "useUpdateAdmin", "page")}

AdminDialogs ==
  {Form("edit", "useUpdateAdmin", "page"),
   Then(Confirm("delete", "useDeleteAdmin", "page"), "admins"),
   Form("resetPassword", "useResetAdminPassword", "page")}

\* AssignRoleDialog.tsx locks while the role it assigns is pending, by a flag of its own.
RoleDialogs ==
  {Keeps(Form("assignRole", "useAssignAdminRole", "page"), "flag"),
   Confirm("revokeRole", "useRevokeAdminRole", "page")}

AdminDetail ==
  Page({"admins.detail", "roles.list"}, {"admins.detail"}, {},
       AdminButtons \cup AdminDialogs \cup RoleDialogs, {"admins", "role", "elsewhere"})

RolesList  == Page({"roles.list"}, {}, {}, {}, {"role", "elsewhere"})
RoleDetail == Page({"roles.detail", "permissions.grouped"}, {"roles.detail"}, {}, {},
                   {"roles", "elsewhere"})
=============================================================================
