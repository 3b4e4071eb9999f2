---------------------------- MODULE MCClients ----------------------------
(* The areas of both clients, a catalog of three permissions and an audit trail, for TLC. *)
EXTENDS ClientParts

LOCAL Identity == INSTANCE ConsoleIdentity
LOCAL Account == INSTANCE ConsoleAccount
LOCAL Tenants == INSTANCE ConsoleTenants
LOCAL Dashboard == INSTANCE DashboardPages
LOCAL DashIdentity == INSTANCE DashboardIdentity
LOCAL DashAccount == INSTANCE DashboardAccount

\* Where the applications agree one copy runs, the console's or the dashboard's; and of the
\* pages of users the console's, which has all that the dashboard's has.
MCAreas == [
    roles |-> Identity!RolesArea, users |-> Identity!UsersArea, groups |-> DashIdentity!GroupsArea,
    profile |-> DashAccount!ProfileArea, sessions |-> Account!SessionsArea,
    bell |-> DashAccount!BellArea, signedOut |-> Account!SignedOutArea,
    tenants |-> Tenants!TenantsArea, grants |-> Tenants!GrantsArea,
    branding |-> Tenants!BrandingArea,
    uploads |-> Dashboard!UploadsArea, files |-> Dashboard!FilesArea,
    dashBranding |-> Dashboard!BrandingArea]

ASSUME SamePages ==
    /\ DOMAIN DashIdentity!UserTasks \subseteq DOMAIN Identity!UserTasks
    /\ DashIdentity!RolesArea = Identity!RolesArea /\ DashIdentity!GroupsArea = Identity!GroupsArea
    /\ DashAccount!ProfileArea = Account!ProfileArea /\ DashAccount!BellArea = Account!BellArea
    /\ DashAccount!SessionsArea = Account!SessionsArea
    /\ DashAccount!SignedOutArea = Account!SignedOutArea

Requests == [a \in DOMAIN MCAreas |-> IF a \in {"profile", "bell", "branding", "uploads"} THEN 2 ELSE 1]

MCDropViews == {"page", "preview"}
MCListed == {Dashboard!MyFilesKey}
MCInvalidates == Dashboard!FileLists


MCCatalog == {
    [name |-> "view", resource |-> "users", isBasic |-> TRUE],
    [name |-> "edit", resource |-> "users", isBasic |-> FALSE],
    [name |-> "root", resource |-> "hosts", isBasic |-> FALSE]}
MCMatches == [s \in {"", "e"} |-> IF s = "" THEN {"view", "edit", "root"} ELSE {"view", "edit"}]

\* An audit trail of at most three pages.
MCPagesOf == [s \in {"", "x"}, v \in {"any", "c"} |->
    CASE s = "" /\ v = "any" -> 3 [] s = "" -> 2 [] v = "any" -> 1 [] OTHER -> 0]
=============================================================================
