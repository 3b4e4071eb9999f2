-------------------------- MODULE ConsoleIdentity --------------------------
(***************************************************************************)
(* The pages of users, roles and groups (pages/identity): what each shows, *)
(* what its buttons submit, what it marks as out of date.  One role "r",   *)
(* one user "u" and one group "g" are the ones whose page is opened.  The  *)
(* dashboard's copies of these files are in DashboardIdentity.             *)
(***************************************************************************)
EXTENDS PageTables

RolesKey == <<"identity", "roles">>
RoleKey == RolesKey \o <<"r">>
CatalogKey == <<"identity", "permissions", "catalog">>

UsersKey == <<"identity", "users">>
UserPage(n) == UsersKey \o <<n>>            \* filters and page number are part of the key
UserKey == UsersKey \o <<"u">>
UserRolesKey == UserKey \o <<"roles">>
UserSessionsKey == UserKey \o <<"sessions">>

GroupsKey == <<"identity", "groups">>
GroupPage(n) == GroupsKey \o <<n>>
GroupKey == GroupsKey \o <<"g">>
MembersKey == GroupKey \o <<"members">>
MembersPage(n) == MembersKey \o <<n>>

(***************************************************************************)
(* What the calls change on the server, among what these pages show.       *)
(***************************************************************************)
\* The list carries no permissions (RoleService.GetRolesAsync), so theirs is not a write of it.
RoleWrites == [
    upsertRole |-> {RolesKey, RoleKey},
    updateRolePermissions |-> {RoleKey},
    deleteRole |-> {RolesKey, RoleKey}]

UserLists == {UserPage("all"), UserPage("filtered")}

\* Deactivating or deleting a user ends their sessions; the filtered list is by role too.
UserWrites == [
    registerUser |-> UserLists,
    assignUserRoles |-> {UserRolesKey, UserPage("filtered")},
    toggleUserStatus |-> UserLists \cup {UserKey, UserSessionsKey},
    confirmUserEmail |-> UserLists \cup {UserKey},
    deleteUser |-> UserLists \cup {UserKey, UserRolesKey, UserSessionsKey},
    resendUserConfirmationEmail |-> {}]

UserSessionWrites == [
    adminRevokeUserSession |-> {UserSessionsKey},
    adminRevokeAllUserSessions |-> {UserSessionsKey}]

GroupLists == {GroupPage("page1"), GroupPage("page2")}
GroupMembers == {MembersPage("page1"), MembersPage("page2")}

\* A group shows how many members it has, in the list as on its page.
GroupWrites == [
    createGroup |-> GroupLists,
    updateGroup |-> GroupLists \cup {GroupKey},
    deleteGroup |-> GroupLists \cup {GroupKey} \cup GroupMembers,
    addUsersToGroup |-> GroupLists \cup {GroupKey} \cup GroupMembers,
    removeUserFromGroup |-> GroupLists \cup {GroupKey} \cup GroupMembers]

(***************************************************************************)
(* Roles: the list with its dialog, and the page of one role.              *)
(***************************************************************************)
\* What is created is another record than the one whose page is opened: "elsewhere".
createRole ==
    [task |-> Task(<<Call({RolesKey}, {RolesKey})>>, "elsewhere"),
     control |-> Control({"create"}, {"create"})]

RolesPage ==
    Page({RolesKey}, [page |-> {}, create |-> {}],
         [create |-> createRole.task], [create |-> createRole.control])

saveMeta == Call(RoleWrites.upsertRole, {RolesKey, RoleKey})
savePerms == Call(RoleWrites.updateRolePermissions, {RoleKey})
removeRole == ClosingOnError(Task(<<Call(RoleWrites.deleteRole, {RolesKey})>>, "roles"))

\* saveAll: the details first, then the permissions, each only if it was edited.
RoleTasks == [
    saveMeta |-> Saving(Task(<<saveMeta>>, "stay")),
    savePerms |-> Saving(Task(<<savePerms>>, "stay")),
    saveBoth |-> Saving(Task(<<saveMeta, savePerms>>, "stay")),
    remove |-> removeRole]

RoleSaves == {"saveMeta", "savePerms", "saveBoth"}

RoleSaveControls == [t \in RoleSaves |-> Control({"page"}, RoleSaves)]
RoleControls == [t \in DOMAIN RoleTasks |->
    IF t = "remove" THEN Control({"delete"}, {"remove"}) ELSE RoleSaveControls[t]]

\* Name, description and permissions are filled from every new payload.
RoleForm == Form(RoleKey, "each", RoleSaves)

RoleDetailPage ==
    WithForm(Gated(Page({RoleKey, CatalogKey}, [page |-> {}, delete |-> {}],
                        RoleTasks, RoleControls),
                   {RoleKey, CatalogKey}),
             RoleForm)

(***************************************************************************)
(* Users: the list with its dialog, and the page of one user.              *)
(***************************************************************************)
registerUser ==
    [task |-> Task(<<Call(UserWrites.registerUser, {UsersKey})>>, "page"),
     control |-> Control({"register"}, {"register"})]

UsersPage ==
    Page({RolesKey},
         [page |-> {UserPage("all")}, filtered |-> {UserPage("filtered")},
          register |-> {UserPage("all")}],
         [register |-> registerUser.task], [register |-> registerUser.control])

saveRoles ==
    Saving(Task(<<Leaving(Call(UserWrites.assignUserRoles, {UserRolesKey}),
                          {UserPage("filtered")})>>, "stay"))
toggleStatus == Task(<<Call(UserWrites.toggleUserStatus, {UserKey, UsersKey})>>, "page")
confirmEmail == Task(<<Call(UserWrites.confirmUserEmail, {UserKey, UsersKey})>>, "stay")
resendConfirmation == Task(<<Call(UserWrites.resendUserConfirmationEmail, {})>>, "stay")
removeUser == ClosingOnError(Task(<<Call(UserWrites.deleteUser, {UsersKey})>>, "users"))
revokeOne == Task(<<Call(UserSessionWrites.adminRevokeUserSession, {UserSessionsKey})>>, "stay")
revokeAll == Task(<<Call(UserSessionWrites.adminRevokeAllUserSessions, {UserSessionsKey})>>, "page")

\* The operator goes on as this user: exchange the session, then leave for the overview.
impersonate == Task(<<Call({}, {})>>, "elsewhere")

UserTasks == [
    saveRoles |-> saveRoles, toggleStatus |-> toggleStatus, confirmEmail |-> confirmEmail,
    resend |-> resendConfirmation, remove |-> removeUser,
    revokeOne |-> revokeOne, revokeAll |-> revokeAll, impersonate |-> impersonate]

UserHeroControls == [
    resend |-> Control({"page"}, {"resend"}),
    confirmEmail |-> Control({"page"}, {"confirmEmail"})]
UserRolesControls == [saveRoles |-> Control({"page"}, {"saveRoles"})]
\* Only the row whose session is being revoked is disabled, so nothing holds back the next one.
SessionsCard == [revokeOne |-> Control({"page"}, {})]
UserDialogs == [
    remove |-> Control({"delete"}, {"remove"}),
    toggleStatus |-> Control({"toggle-status"}, {"toggleStatus"}),
    impersonate |-> Control({"impersonate"}, {"impersonate"}),
    revokeAll |-> Control({"revoke-all-sessions"}, {"revokeAll"})]

\* Toggles are staged over the roles, whatever these become; a save clears all of them.
UserRolesForm == Form(UserRolesKey, "kept", {"saveRoles"})

UserViews == [v \in {"page", "delete", "toggle-status", "impersonate", "revoke-all-sessions"} |-> {}]

UserDetailPage ==
    WithForm(Gated(Page({UserKey, UserRolesKey, UserSessionsKey}, UserViews, UserTasks,
                        UserHeroControls @@ UserRolesControls @@ SessionsCard @@ UserDialogs),
                   {UserKey}),
             UserRolesForm)

(***************************************************************************)
(* Groups: the list with its dialog, and the page of one group.            *)
(***************************************************************************)
createGroup ==
    [task |-> Task(<<Call(GroupWrites.createGroup, {GroupsKey})>>, "elsewhere"),
     control |-> Control({"create"}, {"create"})]

GroupsPage ==
    Page({}, [page |-> {GroupPage("page1")}, next |-> {GroupPage("page2")}, create |-> {GroupPage("page1")}],
         [create |-> createGroup.task], [create |-> createGroup.control])

saveGroup == Saving(Task(<<Call(GroupWrites.updateGroup, {GroupsKey, GroupKey})>>, "stay"))
removeGroup == ClosingOnError(Task(<<Call(GroupWrites.deleteGroup, {GroupsKey})>>, "groups"))
removeMember ==
    Task(<<Leaving(Call(GroupWrites.removeUserFromGroup, {MembersKey, GroupKey}), GroupLists)>>, "stay")
addMembers ==
    Task(<<Leaving(Call(GroupWrites.addUsersToGroup, {MembersKey, GroupKey}), GroupLists)>>, "page")

GroupTasks == [save |-> saveGroup, remove |-> removeGroup,
               removeMember |-> removeMember, add |-> addMembers]

GroupControls == [
    save |-> Control({"page"}, {"save"}),
    removeMember |-> Control({"page", "next"}, {"removeMember"}),
    remove |-> Control({"delete"}, {"remove"})]
AddMembersDialog == [add |-> Control({"add"}, {"add"})]

\* Everything is filled from every new payload, which the count of members is part of.
GroupForm == Form(GroupKey, "each", {"save"})

GroupViews == [
    page |-> {MembersPage("page1")}, next |-> {MembersPage("page2")},
    delete |-> {MembersPage("page1")}, add |-> {MembersPage("page1"), UserPage("search")}]

GroupDetailPage ==
    WithForm(Gated(Page({GroupKey, RolesKey}, GroupViews, GroupTasks,
                        GroupControls @@ AddMembersDialog),
                   {GroupKey}),
             GroupForm)

(***************************************************************************)
(* The three areas.                                                        *)
(***************************************************************************)
RolesArea == [roles |-> RolesPage, role |-> RoleDetailPage, elsewhere |-> Elsewhere]
UsersArea == [users |-> UsersPage, user |-> UserDetailPage, elsewhere |-> Elsewhere]
GroupsArea == [groups |-> GroupsPage, group |-> GroupDetailPage, elsewhere |-> Elsewhere]
=============================================================================
