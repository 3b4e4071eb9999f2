-------------------------- MODULE DashboardAccount --------------------------
(***************************************************************************)
(* The dashboard's pages about the account: the console's files, line for  *)
(* line, except that its security page knows no acting session, in which   *)
(* the console disables the password and second-factor cards.              *)
(***************************************************************************)
EXTENDS PageTables

LOCAL Console == INSTANCE ConsoleAccount

ProfileKey == Console!ProfileKey
SessionsKey == Console!SessionsKey
MySessionsKey == Console!MySessionsKey

TenantSessions(n) == Console!TenantSessions(n)
SessionPages == Console!SessionPages
UnreadKey == Console!UnreadKey
InboxKey == Console!InboxKey

Topbar == Console!Topbar

ProfileWrites == Console!ProfileWrites
TwoFactorWrites == Console!TwoFactorWrites

SessionWrites == Console!SessionWrites
AdminSessionWrites == Console!AdminSessionWrites

NotificationWrites == Console!NotificationWrites

updateMyProfile == Console!updateMyProfile
saveProfile == Console!saveProfile
uploadImage == Console!uploadImage
clearImage == Console!clearImage
ImageControls == Console!ImageControls
ProfileControls == Console!ProfileControls
ProfileForm == Console!ProfileForm
ProfilePage == Console!ProfilePage

changePassword == Console!changePassword
ChangePasswordDialog == Console!ChangePasswordDialog
beginEnroll == Console!beginEnroll
verifyEnroll == Console!verifyEnroll
disableTwoFactor == Console!disableTwoFactor
TwoFactorEnroll == Console!TwoFactorEnroll
TwoFactorDisable == Console!TwoFactorDisable
revokeMine == Console!revokeMine
revokeMyOthers == Console!revokeMyOthers
MySessionsControls == Console!MySessionsControls
SecurityPage == Console!SecurityPage

adminRevokeOne == Console!adminRevokeOne
adminRevokeAll == Console!adminRevokeAll
SessionMobileCard == Console!SessionMobileCard
SessionDesktopRow == Console!SessionDesktopRow
SessionsPage == Console!SessionsPage

markAll == Console!markAll
markOne == Console!markOne

NotificationBell == Console!NotificationBell

ForgotPasswordPage == Console!ForgotPasswordPage

ResetPasswordPage == Console!ResetPasswordPage

ProfileArea == [profile |-> ProfilePage, elsewhere |-> Elsewhere]
SessionsArea == [security |-> SecurityPage, sessions |-> SessionsPage]
BellArea == [bell |-> NotificationBell]
SignedOutArea == [forgot |-> ForgotPasswordPage, reset |-> ResetPasswordPage, login |-> Elsewhere]
=============================================================================
