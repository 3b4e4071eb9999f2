--------------------------- MODULE ConsoleTenants ---------------------------
(***************************************************************************)
(* The operator's pages, which only the console has: the registry of       *)
(* tenants, the page of one tenant "t" with its dialogs, the branding card *)
(* and the list of acting sessions (impersonation grants).                 *)
(***************************************************************************)
EXTENDS PageTables

TenantsKey == <<"tenants">>
TenantsPage(n) == TenantsKey \o <<n>>
TenantLists == {TenantsPage("page1"), TenantsPage("page2")}
TenantKey == <<"tenant", "t">>
ProvisioningKey == TenantKey \o <<"provisioning">>
ThemeKey == TenantKey \o <<"theme">>        \* and the acting session's jti

GrantsKey == <<"impersonation-grants">>
AllGrantsKey == GrantsKey \o <<"all">>
ActiveGrantsKey == GrantsKey \o <<"tenant-active", "t">>
GrantLists == {AllGrantsKey, ActiveGrantsKey}

(***************************************************************************)
(* What the calls change on the server.                                    *)
(***************************************************************************)
TenantWrites == [
    createTenant |-> TenantLists,
    renewTenant |-> TenantLists \cup {TenantKey},
    adjustTenantValidity |-> TenantLists \cup {TenantKey},
    changeTenantActivation |-> TenantLists \cup {TenantKey},
    retryTenantProvisioning |-> {ProvisioningKey}]

ThemeWrites == [updateTenantTheme |-> {ThemeKey}, resetTenantTheme |-> {ThemeKey}]

GrantWrites == [
    revokeImpersonationGrant |-> GrantLists,
    exchangeOperatorToken |-> GrantLists,
    endOperatorToken |-> GrantLists]

(***************************************************************************)
(* The registry, and the dialog that creates a tenant.                     *)
(***************************************************************************)
createTenant ==
    [task |-> Task(<<Call(TenantWrites.createTenant, {TenantsKey})>>, "elsewhere"),
     control |-> Control({"create"}, {"create"})]

TenantsListPage ==
    Page({}, [page |-> {TenantsPage("page1")}, next |-> {TenantsPage("page2")},
              create |-> {TenantsPage("page1")}],
         [create |-> createTenant.task], [create |-> createTenant.control])

(***************************************************************************)
(* One tenant: subscription, activation, provisioning.                     *)
(***************************************************************************)
activation == Task(<<Call(TenantWrites.changeTenantActivation, {TenantKey, TenantsKey})>>, "page")
retryProvisioning == Task(<<Call(TenantWrites.retryTenantProvisioning, {ProvisioningKey})>>, "stay")

RenewTenantDialog ==
    [task |-> Task(<<Call(TenantWrites.renewTenant, {TenantKey, TenantsKey})>>, "page"),
     control |-> Control({"renew"}, {"renew"})]

AdjustValidityDialog ==
    [task |-> Task(<<Call(TenantWrites.adjustTenantValidity, {TenantKey, TenantsKey})>>, "page"),
     control |-> Control({"adjust"}, {"adjust"})]

\* An acting session opened or ended is in the lists of grants at their next poll.
EnterTenantDialog ==
    [task |-> Task(<<Leaving(Call(GrantWrites.exchangeOperatorToken, {}), GrantLists)>>, "page"),
     control |-> Control({"enter"}, {"enter"})]

ConfigureStep ==
    [task |-> Task(<<Leaving(Call(GrantWrites.exchangeOperatorToken, {}), GrantLists)>>, "elsewhere"),
     control |-> Control({"impersonate"}, {"impersonate"})]

ActingBanner ==
    [task |-> Task(<<Leaving(Call(GrantWrites.endOperatorToken, {}), GrantLists)>>, "stay"),
     control |-> Control({"page"}, {"exit"})]

RevokeGrantDialog ==
    [task |-> Task(<<Call(GrantWrites.revokeImpersonationGrant, {GrantsKey})>>, "page"),
     control |-> Control({"revoke"}, {"revoke"})]

ActivationControl == Control({"activation"}, {"activation"})
ProvisioningPanel == Control({"page"}, {"retry"})
ActiveGrantsCard == {ActiveGrantsKey}

TenantTasks == [
    activation |-> activation, retry |-> retryProvisioning,
    renew |-> RenewTenantDialog.task, adjust |-> AdjustValidityDialog.task,
    enter |-> EnterTenantDialog.task, impersonate |-> ConfigureStep.task,
    exit |-> ActingBanner.task, revoke |-> RevokeGrantDialog.task]

TenantControls == [
    activation |-> ActivationControl, retry |-> ProvisioningPanel,
    renew |-> RenewTenantDialog.control, adjust |-> AdjustValidityDialog.control,
    enter |-> EnterTenantDialog.control, impersonate |-> ConfigureStep.control,
    exit |-> ActingBanner.control, revoke |-> RevokeGrantDialog.control]

TenantViews ==
    [v \in {"page", "activation", "renew", "adjust", "enter", "impersonate", "revoke"} |-> {}]

TenantDetailPage ==
    Gated(Page({TenantKey, ProvisioningKey} \cup ActiveGrantsCard, TenantViews,
               TenantTasks, TenantControls),
          {TenantKey})

(***************************************************************************)
(* Branding, edited from inside the tenant.  There is no Discard: Reset is *)
(* a call that puts the defaults back on the server.                       *)
(***************************************************************************)
saveTheme == Saving(Task(<<Call(ThemeWrites.updateTenantTheme, {ThemeKey})>>, "stay"))
resetTheme == Task(<<Call(ThemeWrites.resetTenantTheme, {ThemeKey})>>, "stay")

BrandingControls == [
    save |-> Control({"page"}, {"save"}),
    reset |-> Control({"page"}, {"save", "reset"})]

BrandingForm == NoDiscard(Form(ThemeKey, "each", {"save"}))

TenantBrandingCard ==
    WithForm(Gated(Page({ThemeKey}, JustThePage, [save |-> saveTheme, reset |-> resetTheme],
                        BrandingControls),
                   {ThemeKey}),
             BrandingForm)

(***************************************************************************)
(* The acting sessions of every tenant.                                    *)
(***************************************************************************)
ImpersonationListPage ==
    Page({AllGrantsKey}, [page |-> {}, revoke |-> {}, impersonate |-> {}],
         [revoke |-> RevokeGrantDialog.task, impersonate |-> ConfigureStep.task],
         [revoke |-> RevokeGrantDialog.control, impersonate |-> ConfigureStep.control])

TenantsArea == [tenants |-> TenantsListPage, tenant |-> TenantDetailPage, elsewhere |-> Elsewhere]
GrantsArea == [grants |-> ImpersonationListPage, elsewhere |-> Elsewhere]
BrandingArea == [branding |-> TenantBrandingCard, elsewhere |-> Elsewhere]
=============================================================================
