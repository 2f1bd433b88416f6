---------------------------- MODULE FileManager ----------------------------
(***************************************************************************)
(* The page of the disk, components/files/FileManager.tsx with its dialogs *)
(* and panels, over the handlers of the backend.                           *)
(*                                                                         *)
(* An asynchronous function of the page is a flow: it sends requests, goes *)
(* on when they are answered, and works with the section, the folder and   *)
(* the selection of the render that started it.  A request is served and   *)
(* its answer delivered in two steps; either may fail.  An event handler,  *)
(* with the effects that React runs after it, is one step.                 *)
(***************************************************************************)
EXTENDS FileView

CONSTANTS
    Sections,   \* the sections of the page that are visited
    Home,       \* the workspace that is active at first
    FiltersTried, \* the filters and orders that are chosen
    Stored,     \* what the disk holds at first, legacy rows in the trash included
    NoId,       \* null, for the id of a file or folder
    MaxDrop,    \* bound: files dropped at once
    MaxTries,   \* withRateLimitRetry: 6 in the code
    MaxClicks,  \* bound: actions of the user
    MaxFlows,   \* bound: flows and uploads under way when the user acts, and what an effect adds
    MaxTroubles, \* bound: lost requests or answers, and switches in another tab
    Habits      \* bound: the families of commands that one behaviour uses

ASSUME PageAssumption ==
    /\ "my-files" \in Sections
    /\ Sections \subseteq {"my-files", "recent", "photos", "videos", "trash"}
    /\ FiltersTried \subseteq Filters /\ NoId \notin Files \cup Folders \cup {Root}
ASSUME StoredAssumption == IsStored(Stored) /\ Home \in Workspaces
ASSUME BoundsAssumption ==
    MaxDrop \in Nat /\ MaxTries \in Nat \ {0} /\ MaxClicks \in Nat /\ MaxTroubles \in Nat

VARIABLES
    disk,     \* what the backend stores
    active,   \* the active workspace of the session
    page,     \* the state of the component and of its dialogs
    flows,    \* the asynchronous functions under way, oldest first
    uploads,  \* the same for runUploads
    clicks, troubles, habit,  \* how much of the bounds is spent, and the one of Habits
    consent   \* history: what the user agreed to have erased

vars == <<disk, active, page, flows, uploads, clicks, troubles, habit, consent>>

Ids == Files \cup Folders

-----------------------------------------------------------------------------
(* The state of the page.                                                  *)

ConfirmModes == {"delete-selected", "delete-file", "delete-folder", "empty-trash",
                 "purge-selected", "purge-file", "purge-folder"}
DialogKinds  == ConfirmModes \cup {"none", "create", "rename", "move", "copy"}

\* asked: history, the selection at the time the dialog was opened.
Dialog   == [kind : DialogKinds, id : Ids \cup {NoId}, asked : SUBSET Ids]
NoDialog == [kind |-> "none", id |-> NoId, asked |-> {}]

JobStatus == {"pending", "uploading", "completed", "error", "cancelled"}

\* kinds is selectedKinds, whose keys should be those of selected.
Page == [ws : Workspaces, section : Sections, folder : Folders \cup {Root},
         files : SUBSET Files, folders : SUBSET Folders, loading : BOOLEAN,
         selected : SUBSET Ids, kinds : SUBSET (Ids \X {"file", "folder"}),
         last : Ids \cup {NoId}, preview : Files \cup {NoId},
         filters : Filters, trail : Folders \cup {Root},
         run : 0..MaxClicks, jobs : UNION {[1..n -> JobStatus] : n \in 0..MaxDrop}, lock : BOOLEAN,
         dialog : Dialog, busy : BOOLEAN, extracting : Files \cup {NoId},
         tree : SUBSET Folders, target : Folders \cup {Root}, moving : BOOLEAN]

NoSelection(p) == [p EXCEPT !.selected = {}, !.kinds = {}]
IsModal(p) == p.dialog.kind # "none"
KindOf(x) == IF x \in Folders THEN "folder" ELSE "file"
SelectedOf(p, kind) == {x \in p.selected : <<x, kind>> \in p.kinds}

VisibleFolders(p) == SortFolders(FilterFolders(p.folders, p.filters), p.filters)
VisibleFiles(p)   == SortFiles(FilterFiles(p.files, p.filters), p.filters)
VisibleIds(p)     == VisibleFolders(p) \o VisibleFiles(p)

\* What has a row or a tile on the screen.
ShownFiles(p) == IF p.loading THEN {} ELSE ToSet(VisibleFiles(p))
ShownFolders(p) == IF p.loading \/ p.section \in {"photos", "videos"} THEN {}
                   ELSE ToSet(VisibleFolders(p))
PreviewedFiles(p) == IF p.section = "trash" THEN {} ELSE {p.preview} \cap p.files

\* A file's commands are on its row and, in any section but the trash, in its panel;
\* a gallery has tiles without commands.
WithCommands(p) == PreviewedFiles(p) \cup
                   (IF p.section \in {"photos", "videos"} THEN {} ELSE ShownFiles(p))

-----------------------------------------------------------------------------
(* Flows.                                                                  *)

Request(op, files, folders, to) == [op |-> op, files |-> files, folders |-> folders, to |-> to]

\* at: a request is under way ("call"), answered ("back"), or the lists are being
\* read ("list").  section and folder are those of the closure.  live is cleared by
\* the clean-up of the effect that started the flow.
Flow(fn, p, todo) ==
    [fn |-> fn, at |-> IF todo = <<>> THEN "list" ELSE "call",
     section |-> p.section, folder |-> p.folder, todo |-> todo, reply |-> Failure,
     live |-> TRUE]

\* The commands of the dialogs share dialogBusy.
DialogFns == {"create", "rename", "confirm"}
Fns == DialogFns \cup {"refresh", "crumbs", "tree", "move", "restore", "copy", "extract", "switch"}

RoomForFlows == Len(flows) + Len(uploads) + 3 <= MaxFlows

\* React's effects after a render of q over the page before it; renewed says that the
\* workspace prop is a new object.  Returns the page and the flows with those begun.
Effects(q, fs, renewed) ==
    LET newWs    == q.ws # page.ws
        cleared  == [NoSelection(q) EXCEPT !.folder = Root, !.trail = Root, !.jobs = <<>>,
                                           !.preview = NoId, !.filters = EmptyFilters]
        r        == IF newWs THEN cleared ELSE q
        s        == IF r.section # page.section
                    THEN [r EXCEPT !.filters = EmptyFilters, !.last = NoId] ELSE r
        refreshes == (IF renewed \/ q.section # page.section \/ q.folder # page.folder
                      THEN <<Flow("refresh", q, <<>>)>> ELSE <<>>)
                     \o (IF s.folder # q.folder THEN <<Flow("refresh", s, <<>>)>> ELSE <<>>)
        moved    == s.section # page.section \/ s.folder # page.folder
        deep     == s.section = "my-files" /\ s.folder # Root
        crumbs   == IF moved /\ deep
                    THEN <<Flow("crumbs", s, <<Request("crumbs", {}, {}, s.folder)>>)>> ELSE <<>>
        kept     == IF moved THEN [i \in DOMAIN fs |-> [fs[i] EXCEPT !.live =
                                       @ /\ fs[i].fn # "crumbs"]] ELSE fs
        t        == [s EXCEPT !.trail = IF moved /\ ~deep THEN Root ELSE @,
                              !.loading = @ \/ refreshes # <<>>,
                              !.preview = IF ~s.loading /\ @ \notin s.files THEN NoId ELSE @]
    IN  [page |-> t, flows |-> kept \o refreshes \o crumbs]

Render(q, fs) == /\ page' = Effects(q, fs, FALSE).page
                 /\ flows' = Effects(q, fs, FALSE).flows

\* An event that only sets state.
Set(q) == Render(q, flows) /\ UNCHANGED <<disk, active, uploads, consent>>

\* An event that starts a flow.
Start(q, fn, todo) == /\ Render(q, Append(flows, Flow(fn, page, todo)))
                      /\ UNCHANGED <<disk, active, uploads, consent>>

-----------------------------------------------------------------------------
(* Requests and their answers.                                             *)

\* What the backend makes of a request of files-api.ts; the order of a bulk request
\* is that of the ids.
Outcomes(d, ws, r) ==
    CASE r.op = "crumbs"        -> {Breadcrumbs(d, ws, r.to)}
      [] r.op = "tree"          -> {ListFolders(d, ws, Root, TRUE)}
      [] r.op = "switch"        -> {Outcome(d, Done)}
      [] r.op = "createFolder"  -> {CreateFolder(d, ws, r.to)}
      [] r.op = "renameFile"    -> {Outcome(d, Done)}
      [] r.op = "renameFolder"  -> {Outcome(d, Done)}
      [] r.op = "copyFile"      -> UNION {{CopyFile(d, ws, f, r.to)} : f \in r.files}
      [] r.op = "extract"       -> UNION {ExtractArchive(d, ws, f) : f \in r.files}
      [] r.op = "deleteFile"    -> UNION {DeleteFile(d, ws, f) : f \in r.files}
      [] r.op = "deleteFolder"  -> UNION {DeleteFolder(d, ws, p) : p \in r.folders}
      [] r.op = "bulkDeleteFiles" -> BulkDeleteFiles(d, ws, r.files)
      [] r.op = "bulkDeleteFolders" -> BulkDeleteFolders(d, ws, r.folders)
      [] r.op = "bulkMoveFiles"   -> BulkMoveFiles(d, ws, r.files, r.to)
      [] r.op = "bulkCopyFiles"   -> BulkCopyFiles(d, ws, r.files, r.to)
      [] r.op = "bulkMoveFolders" -> BulkMoveFolders(d, ws, r.folders, r.to)
      [] r.op = "restore"       -> RestoreTrash(d, ws, r.files, r.folders)
      [] r.op = "purge"         -> UNION {PermanentDelete(d, ws, x) : x \in r.files \cup r.folders}
      [] r.op = "emptyTrash"    -> EmptyTrash(d, ws)

Serve(i) ==
    /\ i \in DOMAIN flows /\ flows[i].at = "call"
    /\ LET r == Head(flows[i].todo)
       IN  \E o \in Outcomes(disk, active, r) :
             /\ disk' = o.disk
             /\ active' = IF r.op = "switch" /\ o.reply.ok THEN r.to ELSE active
             /\ flows' = [flows EXCEPT ![i] = [@ EXCEPT !.at = "back", !.reply = o.reply]]
    /\ UNCHANGED <<page, uploads, clicks, troubles, habit, consent>>

Trouble == troubles < MaxTroubles /\ troubles' = troubles + 1

\* The request does not reach the handler, or its answer is lost.
Lose(i) ==
    /\ i \in DOMAIN flows /\ flows[i].at \in {"call", "back", "list"} /\ Trouble
    /\ flows' = [flows EXCEPT ![i] =
           IF @.at = "list" THEN [@ EXCEPT !.at = "unlisted"]
           ELSE [@ EXCEPT !.at = "back", !.reply = Failure]]
    /\ UNCHANGED <<disk, active, page, uploads, clicks, habit, consent>>

Ended(i) == RemoveAt(flows, i)
With(i, f) == ReplaceAt(flows, i, f)

\* refresh() called inside another flow.
ToList(f) == [f EXCEPT !.at = "list", !.todo = <<>>]
Resume(q, fs) == Render(q, fs) /\ UNCHANGED <<disk, active, uploads, clicks, troubles, habit, consent>>

Replied(i, fn, ok) == /\ i \in DOMAIN flows /\ flows[i].at = "back"
                      /\ flows[i].fn \in fn /\ flows[i].reply.ok = ok

\* The next request of a flow that awaits several.
NextRequest(i) ==
    /\ Replied(i, Fns, TRUE) /\ Len(flows[i].todo) > 1
    /\ Resume(page, With(i, [flows[i] EXCEPT !.at = "call", !.todo = Tail(@)]))

LastReply(i, fn) == Replied(i, fn, TRUE) /\ Len(flows[i].todo) = 1

CloseDialog(p, kinds) == IF p.dialog.kind \in kinds THEN [p EXCEPT !.dialog = NoDialog] ELSE p
Refreshing(p) == [p EXCEPT !.loading = TRUE]

\* handleCreateFolder, handleRenameConfirm and runConfirm close their dialog, whichever
\* command it now is for, and read the lists of the folder they were started in.
DialogOf(fn) == IF fn = "confirm" THEN ConfirmModes ELSE {fn}
\* Mutant: the dialog is free again before the lists are read.
DialogDoneFree(i) ==
    /\ LastReply(i, DialogFns)
    /\ Resume(Refreshing([CloseDialog(page, DialogOf(flows[i].fn)) EXCEPT !.busy = FALSE]),
              With(i, ToList(flows[i])))

DialogDone(i) ==
    /\ LastReply(i, DialogFns)
    /\ LET f == flows[i]
           r == Head(f.todo)
           q == CloseDialog(page, DialogOf(f.fn))
       IN  Resume(Refreshing([q EXCEPT !.preview =
                      IF r.op = "deleteFile" /\ @ \in r.files THEN NoId ELSE @]),
                  With(i, ToList(f)))

\* The name dialogs stay open with the error, the confirmation closes; none of them
\* reads the lists.
DialogFailed(i) ==
    /\ Replied(i, DialogFns, FALSE)
    /\ LET q == IF flows[i].fn = "confirm" THEN CloseDialog(page, ConfirmModes) ELSE page
       IN  Resume([q EXCEPT !.busy = FALSE], Ended(i))

\* handleMoveConfirm clears the selection and reads the lists.
MoveDone(i) ==
    /\ LastReply(i, {"move"})
    /\ Resume(Refreshing(NoSelection(page)), With(i, ToList(flows[i])))

MoveFailed(i) ==
    /\ Replied(i, {"move"}, FALSE)
    /\ Resume([page EXCEPT !.moving = @ /\ ~flows[i].live], Ended(i))

\* restore and copy: then(refresh).
ThenRefresh(i) ==
    /\ LastReply(i, {"restore", "copy"})
    /\ Resume(Refreshing(page), With(i, ToList(flows[i])))

GivenUp(i) ==
    /\ Replied(i, {"restore", "copy", "switch"}, FALSE)
    /\ Resume(page, Ended(i))

\* handleExtract opens the new folder, wherever the user is by now.
ExtractDone(i) ==
    /\ LastReply(i, {"extract"})
    /\ \E p \in flows[i].reply.folders :
         Resume([NoSelection(page) EXCEPT !.section = "my-files", !.folder = p, !.preview = NoId,
                                          !.extracting = NoId], Ended(i))

ExtractFailed(i) ==
    /\ Replied(i, {"extract"}, FALSE)
    /\ Resume([page EXCEPT !.extracting = NoId], Ended(i))

\* Mutant: without the flag of the clean-up.
CrumbsAnsweredLate(i) ==
    /\ i \in DOMAIN flows /\ flows[i].at = "back" /\ flows[i].fn = "crumbs"
    /\ LET trail == IF flows[i].reply.ok THEN Head(flows[i].todo).to ELSE Root
       IN  Resume([page EXCEPT !.trail = trail], Ended(i))

\* The answer is dropped once the effect that asked for it was cleaned up.
CrumbsAnswered(i) ==
    /\ i \in DOMAIN flows /\ flows[i].at = "back" /\ flows[i].fn = "crumbs"
    /\ LET trail == IF flows[i].reply.ok THEN Head(flows[i].todo).to ELSE Root
       IN  Resume(IF flows[i].live THEN [page EXCEPT !.trail = trail] ELSE page, Ended(i))

\* loadFolders of the move dialog, if it is still the same one.
TreeAnswered(i) ==
    /\ i \in DOMAIN flows /\ flows[i].at = "back" /\ flows[i].fn = "tree"
    /\ Resume([page EXCEPT !.tree = IF flows[i].live THEN flows[i].reply.folders ELSE @], Ended(i))

\* router.refresh after switchWorkspace: the server renders with what is active now.
SwitchAnswered(i) ==
    /\ LastReply(i, {"switch"})
    /\ LET e == Effects([page EXCEPT !.ws = active], Ended(i), TRUE)
       IN  page' = e.page /\ flows' = e.flows
    /\ UNCHANGED <<disk, active, uploads, clicks, troubles, habit, consent>>

-----------------------------------------------------------------------------
(* refresh: Promise.all of the two lists, or the trash.                    *)

\* The two requests of Promise.all are served in one step.
Lists(f) ==
    LET listed == ListFiles(disk, active, f.section, f.folder).reply
        inside == ListFolders(disk, active, f.folder, FALSE).reply
    IN  CASE f.section = "trash" -> ListTrash(disk, active).reply
          [] f.section = "my-files" /\ listed.ok /\ inside.ok -> Reply(listed.files, inside.folders)
          [] f.section \notin {"trash", "my-files"} -> listed
          [] OTHER -> Failure

\* The folder may be gone, or be one of another workspace.
ServeList(i) ==
    /\ i \in DOMAIN flows /\ flows[i].at = "list"
    /\ flows' = [flows EXCEPT ![i].at = IF Lists(flows[i]).ok THEN "listed" ELSE "unlisted",
                              ![i].reply = Lists(flows[i])]
    /\ UNCHANGED <<disk, active, page, uploads, clicks, troubles, habit, consent>>

\* What the caller of refresh does next: the finally of the dialog commands, and
\* onClose of the move dialog.
AfterRefresh(p, f) ==
    CASE f.fn \in DialogFns -> [p EXCEPT !.busy = FALSE]
      [] f.fn = "move"      -> [CloseDialog(p, {"move", "copy"}) EXCEPT !.moving = @ /\ ~f.live]
      [] OTHER              -> p

\* Mutant: the selection outlives the lists.
ListedSelected(i) ==
    /\ i \in DOMAIN flows /\ flows[i].at = "listed"
    /\ LET f == flows[i]
           q == [page EXCEPT !.files = f.reply.files, !.folders = f.reply.folders, !.loading = FALSE]
       IN  Resume(AfterRefresh(q, f), Ended(i))

\* Whatever is open by now, the lists become those that were asked for.
Listed(i) ==
    /\ i \in DOMAIN flows /\ flows[i].at = "listed"
    /\ LET f == flows[i]
           q == [NoSelection(page) EXCEPT !.files = f.reply.files, !.folders = f.reply.folders,
                                          !.loading = FALSE]
       IN  Resume(AfterRefresh(q, f), Ended(i))

\* Mutant: without the finally.
UnlistedLoading(i) ==
    /\ i \in DOMAIN flows /\ flows[i].at = "unlisted"
    /\ Resume(AfterRefresh(page, flows[i]), Ended(i))

\* The lists and the selection stay as they were.
Unlisted(i) ==
    /\ i \in DOMAIN flows /\ flows[i].at = "unlisted"
    /\ Resume(AfterRefresh([page EXCEPT !.loading = FALSE], flows[i]), Ended(i))

-----------------------------------------------------------------------------
(* runUploads: one file after another, under uploadLock.                   *)

\* at: where uploadFile is; section and folder are those of the closure.
Upload == [at : {"init", "wait", "put", "complete", "created", "refused"},
           run : 1..MaxClicks, size : 1..MaxDrop, job : 1..MaxDrop, tries : 1..MaxTries,
           aborted : BOOLEAN, section : Sections, folder : Folders \cup {Root},
           ws : Workspaces \cup {Nobody}, key : Files \cup {NoId}]

\* setUploadJobs maps over the jobs with this id, if they are still there.
JobAs(p, u, status) ==
    IF p.run = u.run /\ u.job \in DOMAIN p.jobs THEN [p EXCEPT !.jobs[u.job] = status] ELSE p

\* Mutant: without the lock.
RunUploadsUnlocked(n) ==
    LET u == [at |-> "init", run |-> page.run + 1, size |-> n, job |-> 1, tries |-> 1,
              aborted |-> FALSE, section |-> page.section,
              folder |-> IF page.section = "my-files" THEN page.folder ELSE Root,
              ws |-> Nobody, key |-> NoId]
        p == [page EXCEPT !.lock = TRUE, !.run = u.run, !.jobs = [j \in 1..n |-> "pending"]]
    IN  /\ page.section # "trash"
        /\ uploads' = Append(uploads, u)
        /\ Render(JobAs(p, u, "uploading"), flows)
        /\ UNCHANGED <<disk, active, consent>>

RunUploads(n) ==
    LET u == [at |-> "init", run |-> page.run + 1, size |-> n, job |-> 1, tries |-> 1,
              aborted |-> FALSE, section |-> page.section,
              folder |-> IF page.section = "my-files" THEN page.folder ELSE Root,
              ws |-> Nobody, key |-> NoId]
        p == [page EXCEPT !.lock = TRUE, !.run = u.run, !.jobs = [j \in 1..n |-> "pending"]]
    IN  /\ ~page.lock /\ page.section # "trash"
        /\ uploads' = Append(uploads, u)
        /\ Render(JobAs(p, u, "uploading"), flows)
        /\ UNCHANGED <<disk, active, consent>>

\* Mutant: the break is a return that skips the finally.
NextFileLocked(k, status, stop, added) ==
    LET u == uploads[k]
        v == [u EXCEPT !.at = "init", !.job = @ + 1, !.tries = 1, !.aborted = FALSE,
                       !.ws = Nobody, !.key = NoId]
        p == JobAs([page EXCEPT !.files = @ \cup added], u, status)
    IN  IF stop \/ u.job = u.size
        THEN Render([p EXCEPT !.lock = stop], flows) /\ uploads' = RemoveAt(uploads, k)
        ELSE Render(JobAs(p, v, "uploading"), flows) /\ uploads' = ReplaceAt(uploads, k, v)

\* Mutant: one turn too many.
NextFileBeyond(k, status, stop, added) ==
    LET u == uploads[k]
        v == [u EXCEPT !.at = "init", !.job = @ + 1, !.tries = 1, !.aborted = FALSE,
                       !.ws = Nobody, !.key = NoId]
        p == JobAs([page EXCEPT !.files = @ \cup added], u, status)
    IN  IF stop \/ u.job > u.size
        THEN Render([p EXCEPT !.lock = FALSE], flows) /\ uploads' = RemoveAt(uploads, k)
        ELSE Render(JobAs(p, v, "uploading"), flows) /\ uploads' = ReplaceAt(uploads, k, v)

\* Files are dropped anywhere on the page, or chosen by the button.
UploadOffered == page.section # "trash"

\* The file of a job is dealt with; stop is the break after a cancellation.
NextFile(k, status, stop, added) ==
    LET u == uploads[k]
        v == [u EXCEPT !.at = "init", !.job = @ + 1, !.tries = 1, !.aborted = FALSE,
                       !.ws = Nobody, !.key = NoId]
        p == JobAs([page EXCEPT !.files = @ \cup added], u, status)
    IN  IF stop \/ u.job = u.size
        THEN Render([p EXCEPT !.lock = FALSE], flows) /\ uploads' = RemoveAt(uploads, k)
        ELSE Render(JobAs(p, v, "uploading"), flows) /\ uploads' = ReplaceAt(uploads, k, v)

At(k, at) == k \in DOMAIN uploads /\ uploads[k].at = at
GoOn(k, u) == uploads' = ReplaceAt(uploads, k, u) /\ UNCHANGED <<page, flows>>

\* initUpload is answered: the token is there, unless it was cancelled meanwhile.
InitAnswered(k) ==
    /\ At(k, "init")
    /\ LET u == uploads[k]
           o == UploadInit(disk, active, u.folder)
       IN  /\ o.reply.ok
           /\ disk' = o.disk
           /\ \E key \in o.reply.files :
                IF u.aborted THEN NextFile(k, "cancelled", TRUE, {})
                ELSE GoOn(k, [u EXCEPT !.at = "put", !.ws = active, !.key = key])
    /\ UNCHANGED <<active, clicks, troubles, habit, consent>>

\* 429: up to MaxTries attempts, with a pause in which nothing is cancelled.
InitLimited(k) ==
    /\ At(k, "init")
    /\ LET u == uploads[k]
       IN  IF u.tries = MaxTries THEN NextFile(k, "error", FALSE, {})
           ELSE GoOn(k, [u EXCEPT !.at = "wait", !.tries = @ + 1])
    /\ UNCHANGED <<disk, active, clicks, troubles, habit, consent>>

InitRetried(k) ==
    /\ At(k, "wait")
    /\ GoOn(k, [uploads[k] EXCEPT !.at = "init"])
    /\ UNCHANGED <<disk, active, clicks, troubles, habit, consent>>

\* Any other failure of the three calls: on to the next file.
UploadRefused(k) ==
    /\ \/ At(k, "refused")
       \/ At(k, "init") /\ ~UploadInit(disk, active, uploads[k].folder).reply.ok
    /\ NextFile(k, "error", FALSE, {})
    /\ UNCHANGED <<disk, active, clicks, troubles, habit, consent>>

UploadLost(k) ==
    /\ At(k, "init") \/ At(k, "put") \/ At(k, "complete") \/ At(k, "created")
    /\ Trouble
    /\ NextFile(k, "error", FALSE, {})
    /\ UNCHANGED <<disk, active, clicks, habit, consent>>

\* putWithProgress: the browser sends the object to the storage.
ObjectPut(k) ==
    /\ At(k, "put") /\ ~uploads[k].aborted
    /\ disk' = [disk EXCEPT !.object = @ \cup {uploads[k].key}]
    /\ GoOn(k, [uploads[k] EXCEPT !.at = "complete"])
    /\ UNCHANGED <<active, clicks, troubles, habit, consent>>

\* The abort may come when the storage already has the object.
PutAborted(k) ==
    /\ At(k, "put") /\ uploads[k].aborted
    /\ \E late \in BOOLEAN :
         disk' = [disk EXCEPT !.object = @ \cup (IF late THEN {uploads[k].key} ELSE {})]
    /\ NextFile(k, "cancelled", TRUE, {})
    /\ UNCHANGED <<active, clicks, troubles, habit, consent>>

CompleteServed(k) ==
    /\ At(k, "complete")
    /\ LET u == uploads[k]
       IN  \E o \in UploadComplete(disk, active, [ws |-> u.ws, in |-> u.folder, key |-> u.key]) :
             /\ disk' = o.disk
             /\ GoOn(k, [u EXCEPT !.at = IF o.reply.ok THEN "created" ELSE "refused"])
    /\ UNCHANGED <<active, clicks, troubles, habit, consent>>

\* The created file goes on the list if the page showed its folder when the upload
\* began, whatever it shows by now.
CompleteAnswered(k) ==
    /\ At(k, "created")
    /\ NextFile(k, "completed", FALSE,
                IF uploads[k].section = "my-files" THEN {uploads[k].key} ELSE {})
    /\ UNCHANGED <<disk, active, clicks, troubles, habit, consent>>

\* A cancellation reaches the controller of the file that is being sent.
CancelUploads ==
    /\ \E j \in DOMAIN page.jobs : page.jobs[j] \in {"pending", "uploading"}
    /\ uploads' = [k \in DOMAIN uploads |-> [uploads[k] EXCEPT !.aborted = TRUE]]
    /\ UNCHANGED <<disk, active, page, flows, consent>>

DismissUploads ==
    /\ page.jobs # <<>>
    /\ \A j \in DOMAIN page.jobs : page.jobs[j] \notin {"pending", "uploading"}
    /\ Set([page EXCEPT !.jobs = <<>>])

-----------------------------------------------------------------------------
(* What the user can do: where the page offers it.                         *)

OpenSection(section) ==
    Set([page EXCEPT !.section = section, !.folder = IF section = "my-files" THEN @ ELSE Root,
                     !.preview = NoId])

OpenFolder(p) == /\ page.section # "trash" /\ p \in ShownFolders(page)
                 /\ Set([page EXCEPT !.folder = p])

\* Back to the root, or a crumb of the trail.
OpenCrumb(p) == /\ page.section = "my-files" /\ page.folder # Root
                /\ p \in {Root, page.trail}
                /\ Set([page EXCEPT !.folder = p])

Gallery == {"photos", "videos"}
OpenRow(f) == /\ page.section \notin Gallery \cup {"trash"} /\ f \in ShownFiles(page)
              /\ Set([page EXCEPT !.preview = f])
OpenTile(f) == /\ page.section \in Gallery /\ f \in ShownFiles(page)
               /\ Set([page EXCEPT !.preview = f])

ChangeFilters(filters) ==
    /\ ~page.loading /\ page.files \cup page.folders # {}
    /\ page.section \in Gallery => filters.kind = page.filters.kind
    /\ Set([page EXCEPT !.filters = filters])

\* Mutant: the range takes the kind of the row that was clicked.
ApplyRangeSelectOneKind(x, shift) ==
    LET visible == VisibleIds(page)
        from    == SelectInSeq(visible, LAMBDA y : y = page.last)
        to      == SelectInSeq(visible, LAMBDA y : y = x)
        ranged  == shift /\ page.last # NoId /\ page.last # x /\ from > 0 /\ to > 0
        slice   == ToSet(IF from < to THEN SubSeq(visible, from, to) ELSE SubSeq(visible, to, from))
        q       == [page EXCEPT !.last = x]
    IN  /\ x \in ShownFiles(page) \cup ShownFolders(page)
        /\ IF ranged
           THEN Set([q EXCEPT !.selected = @ \cup slice,
                              !.kinds = {r \in @ : r[1] \notin slice} \cup (slice \X {KindOf(x)})])
           ELSE Set([q EXCEPT !.selected = SymDiff(@, {x}),
                              !.kinds = SymDiff(@, {<<x, KindOf(x)>>})])

\* With shift and both ends on the screen the whole range is added; otherwise the
\* one item is added or taken out, in selected and in selectedKinds each by itself.
ApplyRangeSelect(x, shift) ==
    LET visible == VisibleIds(page)
        from    == SelectInSeq(visible, LAMBDA y : y = page.last)
        to      == SelectInSeq(visible, LAMBDA y : y = x)
        ranged  == shift /\ page.last # NoId /\ page.last # x /\ from > 0 /\ to > 0
        slice   == ToSet(IF from < to THEN SubSeq(visible, from, to) ELSE SubSeq(visible, to, from))
        q       == [page EXCEPT !.last = x]
        row     == <<x, KindOf(x)>>
    IN  /\ x \in ShownFiles(page) \cup ShownFolders(page)
        /\ IF ranged
           THEN Set([q EXCEPT !.selected = @ \cup slice,
                              !.kinds = {r \in @ : r[1] \notin slice}
                                        \cup {<<y, KindOf(y)>> : y \in slice}])
           ELSE Set([q EXCEPT !.selected = SymDiff(@, {x}),
                              !.kinds = IF \E r \in @ : r[1] = x THEN {r \in @ : r[1] # x}
                                        ELSE @ \cup {row}])

ToggleSelectAll ==
    LET visible == ToSet(VisibleIds(page))
    IN  /\ ~page.loading /\ visible # {}
        /\ IF visible \subseteq page.selected
           THEN Set(NoSelection(page))
           ELSE Set([page EXCEPT !.selected = visible,
                                 !.kinds = {<<x, KindOf(x)>> : x \in visible}])

ClearSelection == page.selected # {} /\ Set(NoSelection(page))

Ask(kind, x) == Set([page EXCEPT !.dialog = [kind |-> kind, id |-> x, asked |-> page.selected]])

AskCreate == page.section = "my-files" /\ Ask("create", NoId)
AskRename(x) == /\ page.section # "trash"
                /\ x \in WithCommands(page) \cup ShownFolders(page)
                /\ Ask("rename", x)
AskEmptyTrash == page.section = "trash" /\ Ask("empty-trash", NoId)
AskDelete(x) ==
    /\ page.section # "trash"
    /\ \/ x \in WithCommands(page) /\ Ask("delete-file", x)
       \/ x \in ShownFolders(page) /\ Ask("delete-folder", x)
AskPurge(x) ==
    /\ page.section = "trash"
    /\ \/ x \in ShownFiles(page) /\ Ask("purge-file", x)
       \/ x \in ShownFolders(page) /\ Ask("purge-folder", x)

\* The bar of the selection is there also while lists are read.
AskSelected ==
    /\ page.selected # {}
    /\ Ask(IF page.section = "trash" THEN "purge-selected" ELSE "delete-selected", NoId)

\* The dialog for the target reads the tree of folders when it opens.
AskMove(kind) ==
    LET dead(f) == [f EXCEPT !.live = @ /\ f.fn \notin {"move", "tree"}]
        q == [page EXCEPT !.dialog = [kind |-> kind, id |-> NoId, asked |-> @.asked],
                          !.tree = {}, !.target = Root, !.moving = FALSE]
    IN  /\ page.selected # {} /\ page.section # "trash"
        /\ Render(q, Append([i \in DOMAIN flows |-> dead(flows[i])],
                            Flow("tree", page, <<Request("tree", {}, {}, Root)>>)))
        /\ UNCHANGED <<disk, active, uploads, consent>>

PickTarget(p) == /\ page.dialog.kind \in {"move", "copy"} /\ p \in page.tree
                 /\ Set([page EXCEPT !.target = p])

CancelDialog == IsModal(page) /\ Set([page EXCEPT !.dialog = NoDialog])

\* The form of NameDialog, for both commands.
SubmitName ==
    LET x == page.dialog.id
        busy == [page EXCEPT !.busy = TRUE]
    IN  /\ ~page.busy
        /\ \/ /\ page.dialog.kind = "create"
              /\ Start(busy, "create", <<Request("createFolder", {}, {}, page.folder)>>)
           \/ /\ page.dialog.kind = "rename" /\ x \in Files
              /\ Start(busy, "rename", <<Request("renameFile", {x}, {}, Root)>>)
           \/ /\ page.dialog.kind = "rename" /\ x \in Folders
              /\ Start(busy, "rename", <<Request("renameFolder", {}, {x}, Root)>>)

\* The requests of runConfirm, in their order, for the selection as it is now.
ConfirmRequests(p) ==
    LET files == SelectedOf(p, "file")
        folders == SelectedOf(p, "folder")
        x == p.dialog.id
        Each(S, R(_)) == SetToSeq({R(y) : y \in S})
        NonEmpty(op, fs, ps) == IF fs \cup ps = {} THEN <<>> ELSE <<Request(op, fs, ps, Root)>>
    IN  CASE p.dialog.kind = "delete-selected" ->
               NonEmpty("bulkDeleteFiles", files, {}) \o NonEmpty("bulkDeleteFolders", {}, folders)
          [] p.dialog.kind = "delete-file"   -> <<Request("deleteFile", {x}, {}, Root)>>
          [] p.dialog.kind = "delete-folder" -> <<Request("deleteFolder", {}, {x}, Root)>>
          [] p.dialog.kind = "empty-trash"   -> <<Request("emptyTrash", {}, {}, Root)>>
          [] p.dialog.kind = "purge-selected" ->
               Each(files, LAMBDA f : Request("purge", {f}, {}, Root))
               \o Each(folders, LAMBDA q : Request("purge", {}, {q}, Root))
          [] p.dialog.kind = "purge-file"    -> <<Request("purge", {x}, {}, Root)>>
          [] p.dialog.kind = "purge-folder"  -> <<Request("purge", {}, {x}, Root)>>

Agreed(dialog) ==
    [consent EXCEPT !.ids = @ \cup ({dialog.id} \cap Ids) \cup
                            (IF dialog.kind \in {"delete-selected", "purge-selected"}
                             THEN dialog.asked ELSE {}),
                    !.trash = @ \cup (IF dialog.kind = "empty-trash" THEN {page.ws} ELSE {})]

RunConfirm ==
    LET todo == ConfirmRequests(page)
        busy == [page EXCEPT !.busy = TRUE]
    IN  /\ page.dialog.kind \in ConfirmModes /\ ~page.busy
        /\ Render(IF todo = <<>> THEN Refreshing(CloseDialog(busy, ConfirmModes)) ELSE busy,
                  Append(flows, Flow("confirm", page, todo)))
        /\ consent' = Agreed(page.dialog)
        /\ UNCHANGED <<disk, active, uploads>>

\* A copy leaves out the folders, and is refused when there is nothing else.
HandleMoveConfirm ==
    LET files == SelectedOf(page, "file")
        folders == SelectedOf(page, "folder")
        copy == page.dialog.kind = "copy"
        todo == (IF files = {} THEN <<>>
                 ELSE <<Request(IF copy THEN "bulkCopyFiles" ELSE "bulkMoveFiles", files, {},
                                page.target)>>)
                \o (IF copy \/ folders = {} THEN <<>>
                    ELSE <<Request("bulkMoveFolders", {}, folders, page.target)>>)
        q == [page EXCEPT !.moving = TRUE]
    IN  /\ page.dialog.kind \in {"move", "copy"} /\ ~page.moving
        /\ ~(copy /\ folders # {} /\ files = {})
        /\ Start(IF todo = <<>> THEN Refreshing(NoSelection(q)) ELSE q, "move", todo)

HandleRestore(files, folders) == Start(page, "restore", <<Request("restore", files, folders, Root)>>)
RestoreRow(x) == /\ page.section = "trash"
                 /\ \/ x \in ShownFiles(page) /\ HandleRestore({x}, {})
                    \/ x \in ShownFolders(page) /\ HandleRestore({}, {x})
RestoreSelected == /\ page.section = "trash" /\ page.selected # {}
                   /\ HandleRestore(SelectedOf(page, "file"), SelectedOf(page, "folder"))

CopyHere(f) == /\ page.section # "trash" /\ f \in WithCommands(page)
               /\ Start(page, "copy", <<Request("copyFile", {f}, {}, page.folder)>>)

HandleExtract(f) ==
    Start([page EXCEPT !.extracting = f], "extract", <<Request("extract", {f}, {}, Root)>>)
ExtractRow(f) == /\ page.section # "trash" /\ f \in WithCommands(page) /\ IsArchiveFile(f)
                 /\ page.extracting # f /\ HandleExtract(f)
ExtractSelected ==
    \E f \in page.files : /\ page.selected = {f} /\ IsArchiveFile(f) /\ page.section # "trash"
                          /\ f \in SelectedOf(page, "file")
                          /\ page.extracting = NoId /\ HandleExtract(f)

\* The selector of AppShell.
HandleWorkspace(ws) ==
    ws # page.ws /\ Start(page, "switch", <<Request("switch", {}, {}, ws)>>)

-----------------------------------------------------------------------------
(* The specification.                                                      *)

\* A dialog covers the page and the selector of the workspace.
InDialog == CancelDialog \/ RunConfirm \/ \E p \in Folders : PickTarget(p)
Submit   == SubmitName \/ HandleMoveConfirm   \* after a failure the dialog is still there

Families ==
    {"open", "view", "select", "arrange", "erase", "restore", "extract", "upload", "switch"}

OnPage(family) ==
    \/ family = "open" /\ \/ \E section \in Sections : OpenSection(section)
                          \/ \E p \in Folders \cup {Root} : OpenFolder(p) \/ OpenCrumb(p)
    \/ family = "view" /\ \/ \E f \in Files : OpenRow(f) \/ OpenTile(f)
                          \/ \E filters \in FiltersTried : ChangeFilters(filters)
    \/ family = "select" /\ \/ \E x \in Ids, shift \in BOOLEAN : ApplyRangeSelect(x, shift)
                            \/ ToggleSelectAll \/ ClearSelection
    \/ family = "arrange" /\ \/ \E kind \in {"move", "copy"} : AskMove(kind)
                             \/ \E x \in Ids : AskRename(x) \/ CopyHere(x)
                             \/ AskCreate
    \/ family = "erase" /\ \/ \E x \in Ids : AskDelete(x) \/ AskPurge(x)
                           \/ AskEmptyTrash \/ AskSelected
    \/ family = "restore" /\ ((\E x \in Ids : RestoreRow(x)) \/ RestoreSelected)
    \/ family = "extract" /\ ((\E f \in Files : ExtractRow(f)) \/ ExtractSelected)
    \/ family = "upload" /\ \/ UploadOffered /\ \E n \in 1..MaxDrop : RunUploads(n)
                            \/ CancelUploads \/ DismissUploads
    \/ family = "switch" /\ \E ws \in Workspaces : HandleWorkspace(ws)

User == /\ RoomForFlows
        /\ \/ IsModal(page) /\ InDialog /\ UNCHANGED clicks
           \/ /\ clicks < MaxClicks /\ clicks' = clicks + 1
              /\ \/ IsModal(page) /\ Submit
                 \/ ~IsModal(page) /\ \E family \in habit : OnPage(family)
        /\ UNCHANGED <<troubles, habit>>

\* The selector of AppShell in another tab of the same session.
OtherTab(ws) ==
    /\ Trouble
    /\ ws # active /\ active' = ws
    /\ UNCHANGED <<disk, page, flows, uploads, clicks, habit, consent>>

\* What the page and the backend do by themselves.
FlowStep(i) ==
    \/ Serve(i) \/ NextRequest(i) \/ DialogDone(i) \/ DialogFailed(i) \/ MoveDone(i) \/ MoveFailed(i)
    \/ ThenRefresh(i) \/ GivenUp(i) \/ ExtractDone(i) \/ ExtractFailed(i) \/ CrumbsAnswered(i)
    \/ TreeAnswered(i) \/ SwitchAnswered(i) \/ ServeList(i) \/ Listed(i) \/ Unlisted(i)
UploadStep(k) ==
    \/ InitAnswered(k) \/ InitRetried(k) \/ UploadRefused(k) \/ ObjectPut(k) \/ PutAborted(k)
    \/ CompleteServed(k) \/ CompleteAnswered(k)
Working == \/ \E i \in DOMAIN flows : FlowStep(i)
           \/ \E k \in DOMAIN uploads : UploadStep(k)

Next == \/ Working \/ User
        \/ \E i \in DOMAIN flows : Lose(i)
        \/ \E k \in DOMAIN uploads : InitLimited(k) \/ UploadLost(k)
        \/ \E ws \in Workspaces : OtherTab(ws)

\* The page as it is mounted: its effects have run once.
Mounted == [ws |-> Home, section |-> "my-files", folder |-> Root, files |-> {}, folders |-> {},
            loading |-> TRUE, selected |-> {}, kinds |-> {}, last |-> NoId, preview |-> NoId,
            filters |-> EmptyFilters, trail |-> Root, run |-> 0, jobs |-> <<>>, lock |-> FALSE,
            dialog |-> NoDialog, busy |-> FALSE, extracting |-> NoId, tree |-> {},
            target |-> Root, moving |-> FALSE]

Init == /\ disk = Stored /\ active = Home
        /\ page = Mounted
        /\ flows = <<Flow("refresh", Mounted, <<>>)>> /\ uploads = <<>>
        /\ clicks = 0 /\ troubles = 0 /\ habit \in Habits
        /\ consent = [ids |-> {}, trash |-> {}]

\* A request that is under way ends: the browser and the server both give up in time.
Spec == Init /\ [][Next]_vars /\ WF_vars(Working)

-----------------------------------------------------------------------------
(* Properties.                                                             *)

FlowType ==
    [fn : Fns, at : {"call", "back", "list", "listed", "unlisted"}, section : Sections,
     folder : Folders \cup {Root}, live : BOOLEAN]

\* Every variable holds a value of its kind.
TypeOK ==
    /\ disk \in Disk /\ active \in Workspaces
    /\ page \in Page
    /\ \A i \in DOMAIN flows :
         [fn |-> flows[i].fn, at |-> flows[i].at, section |-> flows[i].section,
          folder |-> flows[i].folder, live |-> flows[i].live] \in FlowType
    /\ \A k \in DOMAIN uploads : uploads[k] \in Upload
    /\ clicks \in 0..MaxClicks /\ troubles \in 0..MaxTroubles /\ habit \in Habits

\* Through clicks, ranges, select-all and lists that arrive in between, selectedKinds
\* has the right kind for exactly the ids of selected: the bulk commands split the
\* selection by it.
SelectionKindsAgree == page.kinds = {<<x, KindOf(x)>> : x \in page.selected}

\* What is selected is on the page: a selection never outlives the lists it was made in,
\* whichever of several answers comes last.
SelectionIsListed == page.selected \subseteq page.files \cup page.folders

\* Of all the calls of runUploads, with the workspace and the folder changing under
\* them, one is at work at a time, and only while it is a file shows as being sent.
OneTransferAtATime ==
    /\ page.lock <=> uploads # <<>>
    /\ Len(uploads) <= 1
    /\ \A j \in DOMAIN page.jobs : page.jobs[j] = "uploading" =>
         \E k \in DOMAIN uploads : uploads[k].run = page.run /\ uploads[k].job = j

\* The trail leads to the folder that is open, unless its own request is under way:
\* the answer for a folder that was left never shows.
TrailIsOfTheOpenFolder ==
    (\A i \in DOMAIN flows : flows[i].fn = "crumbs" => ~flows[i].live)
        => page.trail \in {Root, page.folder}

\* The three kinds of dialogs share dialogBusy: it is set exactly while one command is
\* under way, so that no command is sent twice, although its dialog may be closed and
\* another opened meanwhile.
OneDialogCommandAtATime ==
    LET running == {i \in DOMAIN flows : flows[i].fn \in DialogFns}
    IN  Cardinality(running) <= 1 /\ (page.busy <=> running # {})

\* No folder lies in itself, whatever is moved, restored and created.
FoldersFormATree == IsForest(disk)

\* A row is in a folder of its own workspace, also when the active workspace changes
\* between the steps of an upload, a copy or a move.
RowsStayWithTheirFolder == InOneWorkspace(disk)

\* A step changes only rows of the workspace that is active in the session, even for
\* ids that the page still shows from another one.
OnlyTheActiveWorkspaceChanges ==
    [][/\ \A f \in Files : disk'.file[f] # disk.file[f] =>
              {disk.file[f].ws, disk'.file[f].ws} \subseteq {active, Nobody}
       /\ \A p \in Folders : disk'.folder[p] # disk.folder[p] =>
              {disk.folder[p].ws, disk'.folder[p].ws} \subseteq {active, Nobody}]_vars

\* An object leaves the storage only when the user confirmed it: the file itself, a
\* folder above it, or, for a file in the trash, the emptying of a trash.  Only an object
\* that no file has yet goes without: one whose upload is about to be refused.
ErasedWasConfirmed ==
    [][\A f \in disk.object \ disk'.object :
          \/ f \in consent.ids
          \/ \E p \in consent.ids \cap Folders :
                disk.file[f].in \in CollectSubtreeIDs(disk, p, FALSE)
          \/ InTrash(disk.file[f]) /\ consent.trash # {}
          \/ disk.file[f] = NoRow /\ \E k \in DOMAIN uploads : At(k, "complete") /\ uploads[k].key = f]_vars

\* runUploads gives back its lock, however its files end.
UploadsEnd == page.lock ~> ~page.lock

\* No failure leaves the page loading, a dialog busy or an archive being extracted.
CommandsEnd == (page.busy \/ page.loading \/ page.extracting # NoId)
                  ~> (~page.busy /\ ~page.loading /\ page.extracting = NoId)

\* The panel shows a file as waiting only while runUploads is there to send it.
WaitingFilesAreSent ==
    \A j \in DOMAIN page.jobs : page.jobs[j] \in {"pending", "uploading"} => page.lock
=============================================================================
