--------------------------- MODULE DashboardPages ---------------------------
(***************************************************************************)
(* The pages that only the dashboard has, or has differently: files,       *)
(* trash, branding.  The others are in DashboardIdentity and               *)
(* DashboardAccount.                                                       *)
(***************************************************************************)
EXTENDS PageTables

FilesKey == <<"files">>
MyFilesKey == FilesKey \o <<"mine">>
SharedFilesKey == FilesKey \o <<"shared">>
FileLists == {MyFilesKey, SharedFilesKey}
MetaKey == FilesKey \o <<"meta", "f">>
DownloadKey == FilesKey \o <<"download", "f">>
TrashKey == <<"trash", "files">>
TrashedFiles(n) == TrashKey \o <<n>>
TrashLists == {TrashedFiles("page1"), TrashedFiles("page2")}
ThemeKey == <<"tenant", "theme">>

(***************************************************************************)
(* What the calls change on the server.                                    *)
(***************************************************************************)
FileWrites == [
    finalizeUpload |-> {MyFilesKey},
    deleteFile |-> FileLists \cup {MetaKey} \cup TrashLists,
    changeFileVisibility |-> FileLists \cup {MetaKey}]
TrashWrites == [restoreFile |-> FileLists \cup {MetaKey} \cup TrashLists]
ThemeWrites == [updateTenantTheme |-> {ThemeKey}, resetTenantTheme |-> {ThemeKey}]

(***************************************************************************)
(* My files: two tabs, the dropzone (see FileUpload) and the preview, whose *)
(* metadata starts from the row that was clicked.                          *)
(***************************************************************************)
\* The preview of a deleted file closes; the trash is another page, left to its staleTime.
deleteFile ==
    Task(<<Leaving(Call(FileWrites.deleteFile, FileLists), TrashLists \cup {MetaKey})>>, "page")

\* The preview fetches again the metadata it shows, which is another file's, or none, if it
\* was closed before the answer; the lists behind it are not told.
changeVisibility ==
    Task(<<Refetching(Leaving(Call(FileWrites.changeFileVisibility, {}), FileLists), {MetaKey})>>,
         "stay")

FilePreviewDialog == [
    delete |-> Control({"preview"}, {"delete"}),
    visibility |-> Control({"preview"}, {"visibility"})]

MyFilesPage ==
    Given(Page({MyFilesKey},
               [page |-> {}, shared |-> {SharedFilesKey}, preview |-> {MetaKey, DownloadKey}],
               [delete |-> deleteFile, visibility |-> changeVisibility],
               FilePreviewDialog),
          MetaKey, MyFilesKey)

(***************************************************************************)
(* Trash.  The dialog closes as it submits; only the row waits.            *)
(***************************************************************************)
FilesTab == Task(<<Call(TrashWrites.restoreFile, {TrashKey, FilesKey})>>, "stay")

RestoreControl == Control({"page", "next"}, {})

TrashPage ==
    Page({}, [page |-> {TrashedFiles("page1")}, next |-> {TrashedFiles("page2")}],
         [restore |-> FilesTab], [restore |-> RestoreControl])

(***************************************************************************)
(* Branding: the tenant's own administrator, no acting session.            *)
(***************************************************************************)
saveTheme == Saving(Task(<<Call(ThemeWrites.updateTenantTheme, {ThemeKey})>>, "stay"))
resetTheme == Task(<<Call(ThemeWrites.resetTenantTheme, {ThemeKey})>>, "stay")

BrandingControls == [
    save |-> Control({"page"}, {"save"}),
    reset |-> Control({"page"}, {"save", "reset"})]

BrandingForm == NoDiscard(Form(ThemeKey, "each", {"save"}))

BrandingSettings ==
    WithForm(Gated(Page({ThemeKey}, JustThePage, [save |-> saveTheme, reset |-> resetTheme],
                        BrandingControls),
                   {ThemeKey}),
             BrandingForm)

UploadsArea == [files |-> MyFilesPage, elsewhere |-> Elsewhere]
FilesArea == [files |-> MyFilesPage, trash |-> TrashPage]
BrandingArea == [branding |-> BrandingSettings, elsewhere |-> Elsewhere]
=============================================================================
