--------------------------- MODULE ConsoleAccount ---------------------------
(***************************************************************************)
(* The pages about the signed-in account and what happens around it:       *)
(* profile, security, the tenant's sessions, the notification bell, the    *)
(* signed-out pages.  The dashboard has the same files, but for the        *)
(* security page, which there knows no acting session.                     *)
(***************************************************************************)
EXTENDS PageTables

ProfileKey == <<"identity", "me">>
SessionsKey == <<"identity", "sessions">>
MySessionsKey == SessionsKey \o <<"me">>
TenantSessions(n) == SessionsKey \o <<"tenant", n>>
SessionPages == {TenantSessions("page1"), TenantSessions("page2")}

UnreadKey == <<"notifications", "unread-count">>
InboxKey == <<"notifications", "inbox">>

\* On every page: the top bar shows the profile, the bell the unread count.
Topbar == {ProfileKey}

(***************************************************************************)
(* What the calls change on the server.                                    *)
(***************************************************************************)
ProfileWrites == [updateMyProfile |-> {ProfileKey}]

TwoFactorWrites == [
    enroll |-> {}, verifyEnroll |-> {ProfileKey}, disable |-> {ProfileKey},
    changePassword |-> {}]

SessionWrites == [
    revokeSession |-> SessionPages \cup {MySessionsKey},
    revokeAllOtherSessions |-> SessionPages \cup {MySessionsKey}]

AdminSessionWrites == [
    adminRevokeUserSessionById |-> SessionPages \cup {MySessionsKey},
    adminRevokeAllUserSessions |-> SessionPages \cup {MySessionsKey}]

NotificationWrites == [
    markNotificationRead |-> {UnreadKey, InboxKey},
    markAllNotificationsRead |-> {UnreadKey, InboxKey}]

(***************************************************************************)
(* The profile.  Every save carries the profile it is based on, and is     *)
(* refused if that is no longer the latest; the fields are filled once.    *)
(***************************************************************************)
updateMyProfile == Call(ProfileWrites.updateMyProfile, {ProfileKey})

saveProfile == Saving(IfMatch(Task(<<updateMyProfile>>, "stay")))
uploadImage == IfMatch(Task(<<updateMyProfile>>, "stay"))
clearImage == IfMatch(Task(<<updateMyProfile>>, "stay"))

ImageControls == [t \in {"upload", "clear"} |-> Control({"page"}, {"upload", "clear"})]
ProfileControls == ImageControls @@ [save |-> Control({"page"}, {"save"})]

ProfileForm == Form(ProfileKey, "once", {"save"})

ProfilePage ==
    WithForm(Gated(Page(Topbar, JustThePage,
                        [save |-> saveProfile, upload |-> uploadImage, clear |-> clearImage],
                        ProfileControls),
                   {ProfileKey}),
             ProfileForm)

(***************************************************************************)
(* Security: password, second factor, the user's own sessions.             *)
(***************************************************************************)
changePassword == Task(<<Call(TwoFactorWrites.changePassword, {})>>, "page")
ChangePasswordDialog == Control({"password"}, {"changePassword"})

beginEnroll == Task(<<Call(TwoFactorWrites.enroll, {})>>, "enrolling")
verifyEnroll == Task(<<Call(TwoFactorWrites.verifyEnroll, {ProfileKey})>>, "page")
disableTwoFactor == Task(<<Call(TwoFactorWrites.disable, {ProfileKey})>>, "stay")

TwoFactorEnroll == [
    begin |-> Control({"page"}, {"begin"}),
    verify |-> Control({"enrolling"}, {"verify"})]
TwoFactorDisable == [disable |-> Control({"page"}, {"disable"})]

\* The administrators' list of sessions is left to its own poll.
revokeMine ==
    Task(<<Leaving(Call(SessionWrites.revokeSession, {MySessionsKey}), SessionPages)>>, "stay")
revokeMyOthers ==
    Task(<<Leaving(Call(SessionWrites.revokeAllOtherSessions, {MySessionsKey}), SessionPages)>>, "stay")

MySessionsControls == [
    revokeOne |-> Control({"page"}, {}),
    revokeAll |-> Control({"page"}, {"revokeAll"})]

SecurityPage ==
    Page(Topbar \cup {MySessionsKey}, [page |-> {}, password |-> {}, enrolling |-> {}],
         [changePassword |-> changePassword, begin |-> beginEnroll, verify |-> verifyEnroll,
          disable |-> disableTwoFactor, revokeOne |-> revokeMine, revokeAll |-> revokeMyOthers],
         TwoFactorEnroll @@ TwoFactorDisable @@ MySessionsControls
             @@ [changePassword |-> ChangePasswordDialog])

(***************************************************************************)
(* The sessions of the tenant, for its administrators.                     *)
(***************************************************************************)
adminRevokeOne == Task(<<Call(AdminSessionWrites.adminRevokeUserSessionById, {SessionsKey})>>, "stay")
adminRevokeAll == Task(<<Call(AdminSessionWrites.adminRevokeAllUserSessions, {SessionsKey})>>, "stay")

\* A card or a row disables the button of its own session, of its own user.
SessionMobileCard == [t \in {"revokeOne", "revokeAll"} |-> Control({"page", "next"}, {})]
SessionDesktopRow == SessionMobileCard

SessionsPage ==
    Page(Topbar, [page |-> {TenantSessions("page1")}, next |-> {TenantSessions("page2")}],
         [revokeOne |-> adminRevokeOne, revokeAll |-> adminRevokeAll], SessionDesktopRow)

(***************************************************************************)
(* The bell.  Marking all as read writes the count into the cache itself.  *)
(***************************************************************************)
markAll ==
    Task(<<Putting(Call(NotificationWrites.markAllNotificationsRead, {InboxKey}), {UnreadKey})>>, "stay")
markOne == Task(<<Call(NotificationWrites.markNotificationRead, {UnreadKey, InboxKey})>>, "stay")

NotificationBell ==
    Page({UnreadKey}, [page |-> {}, open |-> {InboxKey}],
         [markAll |-> markAll, markOne |-> markOne],
         [markAll |-> Control({"open"}, {"markAll"}), markOne |-> Control({"open"}, {})])

(***************************************************************************)
(* Signed out: ask for a reset link, set the new password, sign in.        *)
(***************************************************************************)
ForgotPasswordPage ==
    Page({}, [page |-> {}, sent |-> {}],
         [request |-> Task(<<Call({}, {})>>, "sent")],
         [request |-> Control({"page"}, {"request"})])

ResetPasswordPage ==
    Page({}, JustThePage,
         [reset |-> Task(<<Call({}, {})>>, "login")],
         [reset |-> Control({"page"}, {"reset"})])

ProfileArea == [profile |-> ProfilePage, elsewhere |-> Elsewhere]
SessionsArea == [security |-> SecurityPage, sessions |-> SessionsPage]
BellArea == [bell |-> NotificationBell]
SignedOutArea == [forgot |-> ForgotPasswordPage, reset |-> ResetPasswordPage, login |-> Elsewhere]
=============================================================================
