------------------------- MODULE DashboardIdentity -------------------------
(***************************************************************************)
(* The dashboard's pages of users, roles and groups.  Its files are the    *)
(* console's, line for line (src/clients/*/src/pages/identity), except     *)
(* that the page of a user has no impersonation: the definitions stand for *)
(* the dashboard's copies, and are the console's where the copies agree.   *)
(***************************************************************************)
EXTENDS PageTables

LOCAL Console == INSTANCE ConsoleIdentity

RolesKey == Console!RolesKey
RoleKey == Console!RoleKey
CatalogKey == Console!CatalogKey
UsersKey == Console!UsersKey
UserPage(n) == Console!UserPage(n)
UserKey == Console!UserKey
UserRolesKey == Console!UserRolesKey
UserSessionsKey == Console!UserSessionsKey
GroupsKey == Console!GroupsKey
GroupPage(n) == Console!GroupPage(n)
GroupKey == Console!GroupKey
MembersKey == Console!MembersKey
MembersPage(n) == Console!MembersPage(n)

RoleWrites == Console!RoleWrites
createRole == Console!createRole
RolesPage == Console!RolesPage
saveMeta == Console!saveMeta
savePerms == Console!savePerms
removeRole == Console!removeRole
RoleTasks == Console!RoleTasks
RoleSaves == Console!RoleSaves
RoleSaveControls == Console!RoleSaveControls
RoleControls == Console!RoleControls
RoleForm == Console!RoleForm
RoleDetailPage == Console!RoleDetailPage

UserLists == Console!UserLists
UserWrites == Console!UserWrites
UserSessionWrites == Console!UserSessionWrites
registerUser == Console!registerUser
UsersPage == Console!UsersPage
saveRoles == Console!saveRoles
toggleStatus == Console!toggleStatus
confirmEmail == Console!confirmEmail
resendConfirmation == Console!resendConfirmation
removeUser == Console!removeUser
revokeOne == Console!revokeOne
revokeAll == Console!revokeAll
UserRolesControls == Console!UserRolesControls
SessionsCard == Console!SessionsCard
UserRolesForm == Console!UserRolesForm

GroupWrites == Console!GroupWrites
createGroup == Console!createGroup
GroupsPage == Console!GroupsPage
saveGroup == Console!saveGroup
removeGroup == Console!removeGroup
removeMember == Console!removeMember
addMembers == Console!addMembers
GroupControls == Console!GroupControls
AddMembersDialog == Console!AddMembersDialog
GroupForm == Console!GroupForm
GroupViews == Console!GroupViews
GroupDetailPage == Console!GroupDetailPage

\* The buttons of the header: no "Impersonate" among them.
UserHeroControls == Console!UserHeroControls

(***************************************************************************)
(* The page of one user, with no impersonation.                            *)
(***************************************************************************)
UserTasks == [t \in DOMAIN Console!UserTasks \ {"impersonate"} |-> Console!UserTasks[t]]

UserDialogs == [d \in DOMAIN Console!UserDialogs \ {"impersonate"} |-> Console!UserDialogs[d]]

UserViews == [v \in DOMAIN Console!UserViews \ {"impersonate"} |-> {}]

UserDetailPage ==
    WithForm(Gated(Page({UserKey, UserRolesKey, UserSessionsKey}, UserViews, UserTasks,
                        UserHeroControls @@ UserRolesControls @@ SessionsCard @@ UserDialogs),
                   {UserKey}),
             UserRolesForm)

RolesArea == [roles |-> RolesPage, role |-> RoleDetailPage, elsewhere |-> Elsewhere]
UsersArea == [users |-> UsersPage, user |-> UserDetailPage]
GroupsArea == [groups |-> GroupsPage, group |-> GroupDetailPage, elsewhere |-> Elsewhere]
=============================================================================
