--------------------------- MODULE WorkspaceDisk ---------------------------
(***************************************************************************)
(* The disk of the workspaces: the tables of migration 007, the objects in *)
(* storage and the handlers of service/disk.go, as functions from a disk   *)
(* and a request to what the disk and the reply may be.                    *)
(*                                                                         *)
(* Every handler first resolves the workspace that is active in the        *)
(* session, which is the parameter ws.  Names are left out: that one is    *)
(* taken, and every other refusal, is the outcome Refused of any request.  *)
(***************************************************************************)
EXTENDS Integers, FiniteSets, Sequences, Folds

CONSTANTS
    Workspaces,
    Files,     \* 1..n, numbered in the order of created_at
    Folders,   \* n+1..m
    Root,      \* the NULL of folder_id and parent_id
    Nobody,    \* the workspace_id of a row that does not exist
    Mime, Ext, \* of a file: the kind its mime type and its extension stand for
    Bytes,     \* the size of a file
    Title      \* of a file or folder: its rank by name

ASSUME IdsAreNumbers ==
    /\ IsFiniteSet(Files) /\ Files = 1..Cardinality(Files)
    /\ IsFiniteSet(Folders)
    /\ Folders = (Cardinality(Files) + 1)..(Cardinality(Files) + Cardinality(Folders))
    /\ Root \notin Files \cup Folders /\ Nobody \notin Workspaces

\* Rows of workspace_files and workspace_folders.  A "batched" row is in the
\* trash with a trash_batch_id, of which there is one; a row in "trash" has none.
RowState == {"active", "trash", "batched"}
NoRow == [ws |-> Nobody, in |-> Root, state |-> "none"]
Row   == {NoRow} \cup [ws : Workspaces, in : Folders \cup {Root}, state : RowState]

\* object: the keys that hold an object; a file's key is its own number.
\* keys, dirs: how many keys and folder ids were given out.
Disk == [file : [Files -> Row], folder : [Folders -> Row], object : SUBSET Files,
         keys : 0..Cardinality(Files), dirs : 0..Cardinality(Folders)]

NextKey(d) == d.keys + 1
NextDir(d) == Cardinality(Files) + d.dirs + 1
Room(d) == NextKey(d) \in Files /\ NextDir(d) \in Folders

InTrash(row) == row.state \in {"trash", "batched"}
ActiveFile(d, ws, f)   == d.file[f].ws = ws /\ d.file[f].state = "active"
ActiveFolder(d, ws, p) == d.folder[p].ws = ws /\ d.folder[p].state = "active"
FolderExistsActive(d, ws, p) == p = Root \/ ActiveFolder(d, ws, p)

\* The recursive query: p and what lies under it, as far as active folders reach
\* when activeOnly is set.
CollectSubtreeIDs(d, p, activeOnly) ==
    LET Child(x, y) == d.folder[y].in = x /\ d.folder[y].state # "none"
                       /\ (activeOnly => d.folder[y].state = "active")
        Closed(S) == \A x \in S, y \in Folders : Child(x, y) => y \in S
    IN  {x \in Folders : \A S \in SUBSET Folders : p \in S /\ Closed(S) => x \in S}

IsDescendantOf(d, p, ancestor) == p \in CollectSubtreeIDs(d, ancestor, FALSE)

\* What a disk is: a row is in a folder of its own workspace, no folder lies in itself,
\* and there is nothing under a number that was not given out.
InOneWorkspace(d) ==
    /\ \A f \in Files : d.file[f].in # Root => d.folder[d.file[f].in].ws = d.file[f].ws
    /\ \A p \in Folders : d.folder[p].in # Root => d.folder[d.folder[p].in].ws = d.folder[p].ws
IsForest(d) ==
    \A p \in Folders : d.folder[p].in # Root => ~IsDescendantOf(d, d.folder[p].in, p)
GivenOut(d) ==
    /\ \A f \in Files : f >= NextKey(d) => d.file[f] = NoRow /\ f \notin d.object
    /\ \A p \in Folders : p >= NextDir(d) => d.folder[p] = NoRow
IsStored(d) == d \in Disk /\ InOneWorkspace(d) /\ IsForest(d) /\ GivenOut(d)

-----------------------------------------------------------------------------
(* Replies and the ways a request ends.                                    *)

Reply(files, folders) == [ok |-> TRUE, files |-> files, folders |-> folders]
Done    == Reply({}, {})
Failure == [ok |-> FALSE, files |-> {}, folders |-> {}]
Outcome(d, r) == [disk |-> d, reply |-> r]
Refused(d) == Outcome(d, Failure)

\* purgeFiles removes the objects first, one thousand or one at a time, and then, in
\* another call, the rows: it may stop anywhere in between.
DropObjects(d, fs) == [d EXCEPT !.object = @ \ fs]
DropFiles(d, fs) ==
    [d EXCEPT !.object = @ \ fs,
              !.file = [f \in Files |-> IF f \in fs THEN NoRow ELSE @[f]]]

\* ON DELETE CASCADE below the folders, ON DELETE SET NULL for the files in them.
DropFolders(d, ps) ==
    LET gone == UNION {CollectSubtreeIDs(d, p, FALSE) : p \in ps}
    IN  [d EXCEPT !.folder = [p \in Folders |-> IF p \in gone THEN NoRow ELSE @[p]],
                  !.file = [f \in Files |-> IF @[f].in \in gone
                                            THEN [@[f] EXCEPT !.in = Root] ELSE @[f]]]

CutShort(d, fs)   == {Outcome(DropObjects(d, s), Failure) : s \in SUBSET fs}
PurgeFiles(d, fs) == {Outcome(DropFiles(d, fs), Done)} \cup CutShort(d, fs)

PurgeFolderTree(d, ws, p, includeDeleted) ==
    LET ps == CollectSubtreeIDs(d, p, ~includeDeleted)
        fs == {f \in Files : d.file[f].ws = ws /\ d.file[f].in \in ps
                             /\ (includeDeleted \/ d.file[f].state = "active")}
        own == {q \in ps : d.folder[q].ws = ws}
    IN  {Outcome(DropFolders(DropFiles(d, fs), own), Done), Outcome(DropFiles(d, fs), Failure)}
        \cup CutShort(d, fs)

-----------------------------------------------------------------------------
(* The handlers.                                                           *)

ListFiles(d, ws, section, p) ==
    LET mine == {f \in Files : ActiveFile(d, ws, f)}
    IN  CASE section = "recent" -> Outcome(d, Reply(mine, {}))
          [] section = "photos" -> Outcome(d, Reply({f \in mine : Mime[f] = "image"}, {}))
          [] section = "videos" -> Outcome(d, Reply({f \in mine : Mime[f] = "video"}, {}))
          [] section = "my-files" /\ FolderExistsActive(d, ws, p) ->
                 Outcome(d, Reply({f \in mine : d.file[f].in = p}, {}))
          [] OTHER -> Refused(d)

ListFolders(d, ws, p, scopeAll) ==
    LET mine == {q \in Folders : ActiveFolder(d, ws, q)}
    IN  IF scopeAll THEN Outcome(d, Reply({}, mine))
        ELSE IF FolderExistsActive(d, ws, p)
             THEN Outcome(d, Reply({}, {q \in mine : d.folder[q].in = p}))
             ELSE Refused(d)

ListTrash(d, ws) ==
    LET Top(row) == row.ws = ws /\ InTrash(row)
                    /\ (row.in # Root => ~ (/\ d.folder[row.in].ws = ws
                                            /\ InTrash(d.folder[row.in])))
    IN  Outcome(d, Reply({f \in Files : Top(d.file[f])}, {p \in Folders : Top(d.folder[p])}))

Breadcrumbs(d, ws, p) ==
    IF p \in Folders /\ ActiveFolder(d, ws, p) THEN Outcome(d, Reply({}, {p})) ELSE Refused(d)

\* The key is given out and bound to the claims of the token: workspace and folder.
UploadInit(d, ws, p) ==
    IF FolderExistsActive(d, ws, p) /\ NextKey(d) \in Files
    THEN Outcome([d EXCEPT !.keys = @ + 1], Reply({NextKey(d)}, {}))
    ELSE Refused(d)

\* Mutant: the token is not compared with the active workspace.
UploadCompleteAnywhere(d, ws, claims) ==
    LET key == claims.key
        folderExists == claims.in = Root \/ d.folder[claims.in].state # "none"
        row == [ws |-> ws, in |-> claims.in, state |-> "active"]
    IN  CASE d.file[key].ws = ws -> {Outcome(d, Reply({key}, {}))}
          [] d.file[key].ws # ws /\ key \in d.object ->
                 {Outcome(DropObjects(d, {key}), Failure), Refused(d)}
                 \cup (IF folderExists
                       THEN {Outcome([d EXCEPT !.file[key] = row], Reply({key}, {}))} ELSE {})
          [] OTHER -> {Refused(d)}

\* claims is what the token says.  An object of another size or kind than it says is
\* removed, unless that fails as well, and the request refused.  The insert fails when
\* the folder is gone: the object then stays without a row.
UploadComplete(d, ws, claims) ==
    LET key == claims.key
        folderExists == claims.in = Root \/ d.folder[claims.in].state # "none"
        row == [ws |-> ws, in |-> claims.in, state |-> "active"]
    IN  CASE claims.ws # ws -> {Refused(d)}
          [] claims.ws = ws /\ d.file[key].ws = ws -> {Outcome(d, Reply({key}, {}))}
          [] claims.ws = ws /\ d.file[key].ws # ws /\ key \in d.object ->
                 {Outcome(DropObjects(d, {key}), Failure), Refused(d)}
                 \cup (IF folderExists
                       THEN {Outcome([d EXCEPT !.file[key] = row], Reply({key}, {}))} ELSE {})
          [] OTHER -> {Refused(d)}

MoveFile(d, ws, f, p) ==
    IF ActiveFile(d, ws, f) /\ FolderExistsActive(d, ws, p)
    THEN Outcome([d EXCEPT !.file[f].in = p], Done)
    ELSE Refused(d)

CopyFile(d, ws, f, p) ==
    LET key == NextKey(d)
        row == [ws |-> ws, in |-> p, state |-> "active"]
    IN  IF ActiveFile(d, ws, f) /\ FolderExistsActive(d, ws, p) /\ f \in d.object /\ key \in Files
        THEN Outcome([d EXCEPT !.keys = key, !.file[key] = row, !.object = @ \cup {key}],
                     Reply({key}, {}))
        ELSE Refused(d)

\* Mutant: the target is not looked for below the folder.
MoveFolderAnywhere(d, ws, p, parent) ==
    IF ActiveFolder(d, ws, p) /\ FolderExistsActive(d, ws, parent)
    THEN Outcome([d EXCEPT !.folder[p].in = parent], Done)
    ELSE Refused(d)

MoveFolder(d, ws, p, parent) ==
    LET legal == /\ ActiveFolder(d, ws, p)
                 /\ FolderExistsActive(d, ws, parent)
                 /\ parent # Root => ~ IsDescendantOf(d, parent, p)
    IN  IF legal THEN Outcome([d EXCEPT !.folder[p].in = parent], Done) ELSE Refused(d)

CreateFolder(d, ws, parent) ==
    LET p == NextDir(d)
        row == [ws |-> ws, in |-> parent, state |-> "active"]
    IN  IF FolderExistsActive(d, ws, parent) /\ p \in Folders
        THEN Outcome([d EXCEPT !.dirs = @ + 1, !.folder[p] = row], Reply({}, {p}))
        ELSE Refused(d)

DeleteFile(d, ws, f) ==
    IF ActiveFile(d, ws, f) THEN PurgeFiles(d, {f}) ELSE {Refused(d)}

DeleteFolder(d, ws, p) ==
    IF ActiveFolder(d, ws, p) THEN PurgeFolderTree(d, ws, p, FALSE) ELSE {Refused(d)}

\* One call for all the files; those not found are only listed in the reply.
BulkDeleteFiles(d, ws, fs) == PurgeFiles(d, {f \in fs : ActiveFile(d, ws, f)})

\* Item by item, each in the disk the items before it left; an item that fails is
\* listed in the reply, whose status is ok.
Latest(S) == CHOOSE x \in S : \A y \in S : x >= y
Bulk(d, ids, Handle(_, _)) ==
    Outcome(MapThenFoldSet(LAMBDA x, e : Handle(e, x).disk, d, LAMBDA x : x, Latest, ids), Done)

\* What each folder's purge leaves when it stops half way is left to the next, and the
\* reply hides it as well.  S: the disks that there may be by then.
FolderPurged(S, ws, p) == UNION {{o.disk : o \in DeleteFolder(e, ws, p)} : e \in S}
BulkDeleteFolders(d, ws, ps) ==
    {Outcome(e, Done) : e \in MapThenFoldSet(LAMBDA p, S : FolderPurged(S, ws, p), {d},
                                             LAMBDA x : x, Latest, ps)}

BulkMoveFiles(d, ws, fs, to)   == {Bulk(d, fs, LAMBDA e, f : MoveFile(e, ws, f, to))}
BulkCopyFiles(d, ws, fs, to)   == {Bulk(d, fs, LAMBDA e, f : CopyFile(e, ws, f, to))}
BulkMoveFolders(d, ws, ps, to) == {Bulk(d, ps, LAMBDA e, p : MoveFolder(e, ws, p, to))}

\* A folder with a batch brings the whole batch back and not only itself, its folders
\* first and then its files, which may fail; one without comes back alone, to the root
\* when its parent is not active.
RestoreFolder(d, ws, p) ==
    LET Back(row) == [row EXCEPT !.state = "active"]
        Batch(row) == row.ws = ws /\ row.state = "batched"
        home == IF FolderExistsActive(d, ws, d.folder[p].in) THEN d.folder[p].in ELSE Root
        folders == [d EXCEPT !.folder = [q \in Folders |-> IF Batch(@[q]) THEN Back(@[q]) ELSE @[q]]]
        batch == [folders EXCEPT !.file = [f \in Files |-> IF Batch(@[f]) THEN Back(@[f]) ELSE @[f]]]
    IN  CASE d.folder[p].ws # ws -> {Refused(d)}
          [] Batch(d.folder[p]) -> {Outcome(batch, Done), Outcome(folders, Failure), Refused(d)}
          [] d.folder[p].ws = ws /\ d.folder[p].state = "trash" ->
                 {Outcome([d EXCEPT !.folder[p] = [@ EXCEPT !.in = home, !.state = "active"]], Done),
                  Refused(d)}
          [] OTHER -> {Refused(d)}

\* Mutant: the row is looked up by its id alone.
RestoreFileAnywhere(d, ws, f) ==
    LET home == IF FolderExistsActive(d, ws, d.file[f].in) THEN d.file[f].in ELSE Root
    IN  IF InTrash(d.file[f])
        THEN Outcome([d EXCEPT !.file[f] = [@ EXCEPT !.in = home, !.state = "active"]], Done)
        ELSE Refused(d)

RestoreFile(d, ws, f) ==
    LET home == IF FolderExistsActive(d, ws, d.file[f].in) THEN d.file[f].in ELSE Root
    IN  IF d.file[f].ws = ws /\ InTrash(d.file[f])
        THEN Outcome([d EXCEPT !.file[f] = [@ EXCEPT !.in = home, !.state = "active"]], Done)
        ELSE Refused(d)

\* Folders first, then files; the first that is refused ends the request, and what
\* came before it stays restored.  S: what the request may have come to.
FolderBack(S, ws, p) ==
    UNION {IF o.reply.ok THEN RestoreFolder(o.disk, ws, p) ELSE {o} : o \in S}
FileBack(S, ws, f) ==
    UNION {IF o.reply.ok THEN {RestoreFile(o.disk, ws, f), Refused(o.disk)} ELSE {o} : o \in S}
RestoreTrash(d, ws, fs, ps) ==
    LET folders == MapThenFoldSet(LAMBDA p, S : FolderBack(S, ws, p), {Outcome(d, Done)},
                                  LAMBDA x : x, Latest, ps)
    IN  MapThenFoldSet(LAMBDA f, S : FileBack(S, ws, f), folders, LAMBDA x : x, Latest, fs)

\* Takes whatever row the id has, active ones included.
PermanentDelete(d, ws, x) ==
    IF x \in Folders
    THEN IF d.folder[x].ws = ws THEN PurgeFolderTree(d, ws, x, TRUE) ELSE {Refused(d)}
    ELSE IF d.file[x].ws = ws THEN PurgeFiles(d, {x}) ELSE {Refused(d)}

\* Mutant: all files of the workspace are taken.
EmptyDisk(d, ws) ==
    LET fs  == {f \in Files : d.file[f].ws = ws}
    IN  PurgeFiles(d, fs)

EmptyTrash(d, ws) ==
    LET fs  == {f \in Files : d.file[f].ws = ws /\ InTrash(d.file[f])}
        ps  == UNION {CollectSubtreeIDs(d, p, FALSE) : p \in ListTrash(d, ws).reply.folders}
        own == {q \in ps : d.folder[q].ws = ws}
    IN  {Outcome(DropFolders(DropFiles(d, fs), own), Done), Outcome(DropFiles(d, fs), Failure)}
        \cup CutShort(d, fs)

\* A folder beside the archive with what is in it, here one file.  When an object
\* cannot be written all is taken back, and the errors of taking back are ignored.
ExtractArchive(d, ws, f) ==
    LET made == CreateFolder(d, ws, d.file[f].in)
        p    == NextDir(d)
        full == CopyFile(made.disk, ws, f, p).disk
    IN  IF ActiveFile(d, ws, f) /\ f \in d.object /\ Room(d) /\ made.reply.ok
        THEN {Outcome(full, Reply({}, {p})), Outcome(made.disk, Failure)}
        ELSE {Refused(d)}
=============================================================================
