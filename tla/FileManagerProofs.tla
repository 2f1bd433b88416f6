------------------------- MODULE FileManagerProofs -------------------------
(***************************************************************************)
(* Machine-checked proofs about the page of the disk, FileManager.         *)
(***************************************************************************)
EXTENDS FileManager, DiskProofs

-----------------------------------------------------------------------------
(* The invariant                                                           *)

Erasing == {"deleteFile", "deleteFolder", "bulkDeleteFiles", "bulkDeleteFolders", "purge"}
Ops == Erasing \cup {"crumbs", "tree", "switch", "createFolder", "renameFile", "renameFolder", "copyFile",
                     "extract", "bulkMoveFiles", "bulkCopyFiles", "bulkMoveFolders", "restore", "emptyTrash"}
Requests == [op : Ops, files : SUBSET Files, folders : SUBSET Folders,
             to : Folders \cup {Root} \cup Workspaces]

\* What a request may ask for, after the user agreed to c.
Asked(r, c) ==
    /\ r.op = "switch" => r.to \in Workspaces
    /\ r.op # "switch" => r.to \in Folders \cup {Root}
    /\ r.op \in Erasing => r.files \cup r.folders \subseteq c.ids
    /\ r.op = "emptyTrash" => c.trash # {}
AskedRequests(c) == {r \in Requests : Asked(r, c)}

Answered == {"list", "listed", "unlisted"}
GoodFlow(f) ==
    /\ f.at \in {"call", "back"} => f.todo # <<>>
    /\ f.at \in Answered => f.fn \notin {"crumbs", "tree", "switch", "extract"}
    /\ f.fn = "crumbs" => Len(f.todo) = 1 /\ f.todo[1].to \in Folders
GoodFlows(c) ==
    {f \in [fn : Fns, at : {"call", "back"} \cup Answered, section : Sections, folder : Folders \cup {Root},
            todo : Seq(AskedRequests(c)), reply : Replies, live : BOOLEAN] : GoodFlow(f)}

\* The trail waits for the answer of the flow that is live and is otherwise that of the
\* open folder; a dialog is busy with the one flow that its command started.
LiveCrumbs(f) == f.fn = "crumbs" /\ f.live
OfDialog(fs, i) == i \in DOMAIN fs /\ fs[i].fn \in DialogFns
FlowsFit(fs, folder, trail, busy, c) ==
    /\ fs \in Seq(GoodFlows(c))
    /\ \A i \in DOMAIN fs : LiveCrumbs(fs[i]) => fs[i].todo[1].to = folder
    /\ (\A i \in DOMAIN fs : ~LiveCrumbs(fs[i])) => trail \in {Root, folder}
    /\ busy <=> \E i \in DOMAIN fs : OfDialog(fs, i)
    /\ \A i, j \in DOMAIN fs : OfDialog(fs, i) /\ OfDialog(fs, j) => i = j

\* A dialog is about what its kind says, and what is selected when a selection is to be
\* erased was selected when that was asked.
DialogFits(p) ==
    /\ p.dialog.kind \in {"delete-file", "purge-file"} => p.dialog.id \in Files
    /\ p.dialog.kind \in {"delete-folder", "purge-folder"} => p.dialog.id \in Folders
    /\ p.dialog.kind \in {"delete-selected", "purge-selected"} => p.selected \subseteq p.dialog.asked
PageFits(p) ==
    /\ p \in Page /\ DialogFits(p)
    /\ p.kinds = {<<x, KindOf(x)>> : x \in p.selected}
    /\ p.selected \subseteq p.files \cup p.folders

\* One run of runUploads at a time, with the lock, for jobs that show it.
TokenOf(u) == [ws |-> u.ws, in |-> u.folder, key |-> u.key]
OneRun(us, p, d) ==
    \E u \in Upload :
        /\ us = <<u>> /\ u.run = p.run /\ u.job <= u.size
        /\ \A j \in DOMAIN p.jobs : p.jobs[j] = "uploading" => j = u.job
        /\ u.at \in {"put", "complete", "created"} => Claimed(d, TokenOf(u))
UploadsFit(us, p, d) ==
    \/ us = <<>> /\ ~p.lock /\ \A j \in DOMAIN p.jobs : p.jobs[j] # "uploading"
    \/ p.lock /\ OneRun(us, p, d)

Consents == [ids : SUBSET Ids, trash : SUBSET Workspaces]
CountsFit ==
    /\ page.run <= clicks /\ clicks \in 0..MaxClicks /\ troubles \in 0..MaxTroubles /\ habit \in Habits
    /\ consent \in Consents

\* A page with its flows and its uploads, over the disk d, after the user agreed to c.
Fits(p, fs, us, d, c) ==
    PageFits(p) /\ FlowsFit(fs, p.folder, p.trail, p.busy, c) /\ UploadsFit(us, p, d)

IndInv ==
    /\ IsStored(disk) /\ active \in Workspaces
    /\ Fits(page, flows, uploads, disk, consent)
    /\ CountsFit

-----------------------------------------------------------------------------
(* What the backend makes of a request                                     *)

\* The user agreed that f goes: as itself, with a folder, or with the trash.
Confirmed(d, f, c) ==
    \/ f \in c.ids
    \/ \E p \in c.ids \cap Folders : d.file[f].in \in CollectSubtreeIDs(d, p, FALSE)
    \/ InTrash(d.file[f]) /\ c.trash # {}

Served(d, ws, o, c) ==
    /\ o.reply \in Replies /\ Keeps(d, o.disk, ws)
    /\ \A f \in d.object \ o.disk.object : Confirmed(d, f, c)

LEMMA FineIsServed ==
    ASSUME NEW d, NEW ws, NEW o, NEW c, Fine(d, ws, o)
    PROVE  Served(d, ws, o, c)
BY DEF Fine, Served

LEMMA ErasedIsServed ==
    ASSUME NEW d, NEW ws, NEW o, NEW c, NEW S, Erased(d, ws, o, S), \A f \in S : Confirmed(d, f, c)
    PROVE  Served(d, ws, o, c)
BY DEF Erased, Less, Served

LEMMA BelowIsConfirmed ==
    ASSUME NEW d, NEW c, NEW ps \in SUBSET Folders, ps \subseteq c.ids
    PROVE  \A p \in ps : \A f \in Below(d, p) : Confirmed(d, f, c)
BY DEF Below, Confirmed

LEMMA EraseIsServed ==
    ASSUME NEW d, IsStored(d), NEW ws \in Workspaces, NEW c, NEW r \in AskedRequests(c), r.op \in Erasing,
           NEW o \in Outcomes(d, ws, r)
    PROVE  Served(d, ws, o, c)
<1>1. /\ r.files \in SUBSET Files /\ r.folders \in SUBSET Folders
      /\ r.files \subseteq c.ids /\ r.folders \subseteq c.ids
    BY DEF AskedRequests, Requests, Asked
<1>2. \A p \in r.folders : \A f \in Below(d, p) : Confirmed(d, f, c)
    BY <1>1, BelowIsConfirmed
<1>3. \A f \in r.files : Confirmed(d, f, c)
    BY <1>1 DEF Confirmed
<1>4. CASE r.op = "deleteFile"
    <2>1. PICK f \in r.files : o \in DeleteFile(d, ws, f)
        BY <1>4 DEF Outcomes
    <2>2. Erased(d, ws, o, {f})
        BY <1>1, <2>1, DeleteFileIs
    <2> QED BY <1>3, <2>2, ErasedIsServed
<1>5. CASE r.op = "deleteFolder"
    <2>1. PICK p \in r.folders : o \in DeleteFolder(d, ws, p)
        BY <1>5 DEF Outcomes
    <2>2. Erased(d, ws, o, Below(d, p))
        BY <1>1, <2>1, DeleteFolderIs
    <2> QED BY <1>2, <2>2, ErasedIsServed
<1>6. CASE r.op = "bulkDeleteFiles"
    <2>1. o \in BulkDeleteFiles(d, ws, r.files)
        BY <1>6 DEF Outcomes
    <2>2. Erased(d, ws, o, r.files)
        BY <1>1, <2>1, BulkDeleteFilesIs
    <2> QED BY <1>3, <2>2, ErasedIsServed
<1>7. CASE r.op = "bulkDeleteFolders"
    <2>1. o \in BulkDeleteFolders(d, ws, r.folders)
        BY <1>7 DEF Outcomes
    <2>2. Erased(d, ws, o, UNION {Below(d, p) : p \in r.folders})
        BY <1>1, <2>1, BulkDeleteFoldersIs
    <2>3. \A f \in UNION {Below(d, p) : p \in r.folders} : Confirmed(d, f, c)
        BY <1>2
    <2> QED BY <2>2, <2>3, ErasedIsServed
<1>8. CASE r.op = "purge"
    <2>1. PICK x \in r.files \cup r.folders : o \in PermanentDelete(d, ws, x)
        BY <1>8 DEF Outcomes
    <2>2. CASE x \in r.files
        <3>1. Erased(d, ws, o, {x})
            BY <1>1, <2>1, <2>2, PermanentDeleteFileIs
        <3> QED BY <1>3, <2>2, <3>1, ErasedIsServed
    <2>3. CASE x \in r.folders
        <3>1. Erased(d, ws, o, Below(d, x))
            BY <1>1, <2>1, <2>3, PermanentDeleteFolderIs
        <3> QED BY <1>2, <2>3, <3>1, ErasedIsServed
    <2> QED BY <2>2, <2>3
<1> QED BY <1>4, <1>5, <1>6, <1>7, <1>8 DEF Erasing

LEMMA OutcomesAreServed ==
    ASSUME NEW d, IsStored(d), NEW ws \in Workspaces, NEW c, NEW r \in AskedRequests(c),
           NEW o \in Outcomes(d, ws, r)
    PROVE  Served(d, ws, o, c)
<1>1. /\ r.op \in Ops /\ r.files \in SUBSET Files /\ r.folders \in SUBSET Folders
      /\ r.op # "switch" => r.to \in Folders \cup {Root}
      /\ r.op = "emptyTrash" => c.trash # {}
    BY DEF AskedRequests, Requests, Asked
<1>2. CASE r.op \in Erasing
    BY <1>2, EraseIsServed
<1>3. CASE r.op \in {"crumbs", "tree", "switch", "renameFile", "renameFolder"}
    <2>1. o \in {Breadcrumbs(d, ws, r.to), ListFolders(d, ws, Root, TRUE), Outcome(d, Done)}
        BY <1>3 DEF Outcomes
    <2>a. Breadcrumbs(d, ws, r.to).reply \in Replies /\ Breadcrumbs(d, ws, r.to).disk = d
        BY ListsAre
    <2>b. ListFolders(d, ws, Root, TRUE).reply \in Replies /\ ListFolders(d, ws, Root, TRUE).disk = d
        BY ListsAre
    <2>c. Outcome(d, Done).reply \in Replies /\ Outcome(d, Done).disk = d
        BY RepliesAre DEF Outcome
    <2>2. o.reply \in Replies /\ o.disk = d
        BY <2>1, <2>a, <2>b, <2>c
    <2>3. Keeps(d, d, ws)
        BY KeepsItself
    <2> QED BY <2>2, <2>3 DEF Served
<1>4. CASE r.op = "createFolder"
    <2>1. o = CreateFolder(d, ws, r.to) /\ r.to \in Folders \cup {Root}
        BY <1>1, <1>4 DEF Outcomes
    <2> QED BY <2>1, CreateFolderIsFine, FineIsServed
<1>5. CASE r.op = "copyFile"
    <2>1. PICK f \in r.files : o = CopyFile(d, ws, f, r.to)
        BY <1>5 DEF Outcomes
    <2>2. f \in Files /\ r.to \in Folders \cup {Root}
        BY <1>1, <1>5
    <2> QED BY <2>1, <2>2, CopyFileIsFine, FineIsServed
<1>6. CASE r.op = "extract"
    <2>1. PICK f \in r.files : o \in ExtractArchive(d, ws, f)
        BY <1>6 DEF Outcomes
    <2> QED BY <1>1, <2>1, ExtractArchiveIsFine, FineIsServed
<1>7. CASE r.op = "bulkMoveFiles"
    <2>1. o \in BulkMoveFiles(d, ws, r.files, r.to) /\ r.to \in Folders \cup {Root}
        BY <1>1, <1>7 DEF Outcomes
    <2> QED BY <1>1, <2>1, BulkMoveFilesIsFine, FineIsServed
<1>8. CASE r.op = "bulkCopyFiles"
    <2>1. o \in BulkCopyFiles(d, ws, r.files, r.to) /\ r.to \in Folders \cup {Root}
        BY <1>1, <1>8 DEF Outcomes
    <2> QED BY <1>1, <2>1, BulkCopyFilesIsFine, FineIsServed
<1>9. CASE r.op = "bulkMoveFolders"
    <2>1. o \in BulkMoveFolders(d, ws, r.folders, r.to) /\ r.to \in Folders \cup {Root}
        BY <1>1, <1>9 DEF Outcomes
    <2> QED BY <1>1, <2>1, BulkMoveFoldersIsFine, FineIsServed
<1>10. CASE r.op = "restore"
    <2>1. o \in RestoreTrash(d, ws, r.files, r.folders)
        BY <1>10 DEF Outcomes
    <2> QED BY <1>1, <2>1, RestoreTrashIsFine, FineIsServed
<1>11. CASE r.op = "emptyTrash"
    <2>1. o \in EmptyTrash(d, ws)
        BY <1>11 DEF Outcomes
    <2>2. Erased(d, ws, o, {f \in Files : InTrash(d.file[f])})
        BY <2>1, EmptyTrashIs
    <2>3. \A f \in {g \in Files : InTrash(d.file[g])} : Confirmed(d, f, c)
        BY <1>1, <1>11 DEF Confirmed
    <2> QED BY <2>2, <2>3, ErasedIsServed
<1> QED BY <1>1, <1>2, <1>3, <1>4, <1>5, <1>6, <1>7, <1>8, <1>9, <1>10, <1>11 DEF Ops

-----------------------------------------------------------------------------
(* Flows that end, go on and begin                                         *)

LEMMA Shortened ==
    ASSUME NEW S, NEW s \in Seq(S), NEW k \in DOMAIN s
    PROVE  /\ RemoveAt(s, k) \in Seq(S) /\ Len(RemoveAt(s, k)) = Len(s) - 1
           /\ \A j \in DOMAIN RemoveAt(s, k) :
                 /\ (IF j < k THEN j ELSE j + 1) \in DOMAIN s \ {k}
                 /\ RemoveAt(s, k)[j] = s[IF j < k THEN j ELSE j + 1]
           /\ \A i \in DOMAIN s \ {k} : \E j \in DOMAIN RemoveAt(s, k) : RemoveAt(s, k)[j] = s[i]
<1> DEFINE n == Len(s)
           a == SubSeq(s, 1, k - 1)
           b == SubSeq(s, k + 1, n)
<1>1. n \in Nat /\ DOMAIN s = 1..n /\ k \in 1..n /\ s \in [1..n -> S]
    BY LenProperties
<1>2. /\ a \in Seq(S) /\ Len(a) = k - 1
      /\ \A i \in 1..(k - 1) : a[i] = s[i]
    <2>1. \A i \in 1..(k - 1) : s[i] \in S
        BY <1>1
    <2> QED BY <1>1, <2>1, SubSeqProperties
<1>3. /\ b \in Seq(S) /\ Len(b) = n - k
      /\ \A i \in 1..(n - k) : b[i] = s[k + i]
    <2>1. \A i \in (k + 1)..n : s[i] \in S
        BY <1>1
    <2> QED BY <1>1, <2>1, SubSeqProperties, SMTT(30)
<1>4. PICK t : t = RemoveAt(s, k) /\ t = a \o b
    BY DEF RemoveAt
<1> HIDE DEF a, b, n
<1>5. /\ t \in Seq(S) /\ Len(t) = Len(a) + Len(b)
      /\ \A j \in 1..Len(a) + Len(b) : t[j] = IF j <= Len(a) THEN a[j] ELSE b[j - Len(a)]
    BY <1>2, <1>3, <1>4, ConcatProperties
<1>6. Len(t) = n - 1 /\ DOMAIN t = 1..(n - 1)
    <2>1. DOMAIN t = 1..Len(t) /\ Len(t) = n - 1
        BY <1>1, <1>2, <1>3, <1>5, LenProperties
    <2> QED BY <2>1
<1>7. ASSUME NEW j \in 1..(n - 1), j < k PROVE t[j] = s[j]
    BY <1>1, <1>2, <1>3, <1>5, <1>7
<1>8. ASSUME NEW j \in 1..(n - 1), ~(j < k) PROVE t[j] = s[j + 1]
    <2>1. j \in 1..Len(a) + Len(b) /\ ~(j <= Len(a)) /\ j - Len(a) \in 1..(n - k)
        BY <1>1, <1>2, <1>3, <1>8
    <2>2. k + (j - Len(a)) = j + 1
        BY <1>1, <1>2, <1>8
    <2> QED BY <1>3, <1>5, <2>1, <2>2
<1>9. ASSUME NEW j \in DOMAIN t
      PROVE  /\ (IF j < k THEN j ELSE j + 1) \in DOMAIN s \ {k}
             /\ t[j] = s[IF j < k THEN j ELSE j + 1]
    BY <1>1, <1>6, <1>7, <1>8
<1>10. ASSUME NEW i \in DOMAIN s \ {k} PROVE \E j \in DOMAIN t : t[j] = s[i]
    <2>1. CASE i < k
        <3>1. i \in 1..(n - 1)
            BY <1>1, <2>1
        <3> QED BY <1>6, <1>7, <2>1, <3>1
    <2>2. CASE ~(i < k)
        <3>1. i - 1 \in 1..(n - 1) /\ ~(i - 1 < k) /\ (i - 1) + 1 = i
            BY <1>1, <2>2
        <3> QED BY <1>6, <1>8, <3>1
    <2> QED BY <2>1, <2>2
<1> QED BY <1>4, <1>5, <1>6, <1>9, <1>10 DEF n

LEMMA EndedFits ==
    ASSUME NEW fs, NEW folder, NEW trail, NEW busy, NEW c, FlowsFit(fs, folder, trail, busy, c),
           NEW i \in DOMAIN fs, NEW trail2, NEW busy2 \in BOOLEAN, busy \in BOOLEAN,
           fs[i].fn \in DialogFns => ~busy2, fs[i].fn \notin DialogFns => busy2 = busy,
           LiveCrumbs(fs[i]) => trail2 \in {Root, folder}, ~LiveCrumbs(fs[i]) => trail2 = trail
    PROVE  FlowsFit(RemoveAt(fs, i), folder, trail2, busy2, c)
<1>1. PICK gs : gs = RemoveAt(fs, i)
    OBVIOUS
<1>2. /\ gs \in Seq(GoodFlows(c))
      /\ \A j \in DOMAIN gs : /\ (IF j < i THEN j ELSE j + 1) \in DOMAIN fs \ {i}
                              /\ gs[j] = fs[IF j < i THEN j ELSE j + 1]
      /\ \A k \in DOMAIN fs \ {i} : \E j \in DOMAIN gs : gs[j] = fs[k]
    BY <1>1, Shortened DEF FlowsFit
<1>3. \A j \in DOMAIN gs : LiveCrumbs(gs[j]) => gs[j].todo[1].to = folder
    BY <1>2 DEF FlowsFit
<1>4. (\A j \in DOMAIN gs : ~LiveCrumbs(gs[j])) => trail2 \in {Root, folder}
    <2>1. SUFFICES ASSUME \A j \in DOMAIN gs : ~LiveCrumbs(gs[j]), ~LiveCrumbs(fs[i])
                   PROVE  trail \in {Root, folder}
        OBVIOUS
    <2>2. \A k \in DOMAIN fs : ~LiveCrumbs(fs[k])
        BY <1>2, <2>1
    <2> QED BY <2>2 DEF FlowsFit
<1>5. /\ \A k \in DOMAIN fs : OfDialog(fs, k) => busy
      /\ busy => \E k \in DOMAIN fs : OfDialog(fs, k)
      /\ \A k, l \in DOMAIN fs : OfDialog(fs, k) /\ OfDialog(fs, l) => k = l
    BY DEF FlowsFit
<1>6. \A j \in DOMAIN gs : OfDialog(gs, j) => OfDialog(fs, IF j < i THEN j ELSE j + 1)
    BY <1>2 DEF OfDialog
<1>7. \A k \in DOMAIN fs \ {i} : OfDialog(fs, k) => \E j \in DOMAIN gs : OfDialog(gs, j)
    BY <1>2 DEF OfDialog
<1>8. busy2 <=> \E j \in DOMAIN gs : OfDialog(gs, j)
    <2>1. CASE fs[i].fn \in DialogFns
        <3>1. OfDialog(fs, i)
            BY <2>1 DEF OfDialog
        <3>2. \A j \in DOMAIN gs : ~OfDialog(gs, j)
            BY <1>2, <1>5, <1>6, <3>1
        <3> QED BY <2>1, <3>2
    <2>2. CASE fs[i].fn \notin DialogFns
        <3>1. ~OfDialog(fs, i) /\ busy2 = busy
            BY <2>2 DEF OfDialog
        <3> QED BY <1>2, <1>5, <1>6, <1>7, <3>1
    <2> QED BY <2>1, <2>2
<1>9. ASSUME NEW j \in DOMAIN gs, NEW k \in DOMAIN gs, OfDialog(gs, j), OfDialog(gs, k)
      PROVE  j = k
    <2>1. (IF j < i THEN j ELSE j + 1) = (IF k < i THEN k ELSE k + 1)
        BY <1>2, <1>5, <1>6, <1>9
    <2>2. j \in Nat /\ k \in Nat /\ i \in Nat
        <3>1. DOMAIN gs = 1..Len(gs) /\ DOMAIN fs = 1..Len(fs) /\ Len(gs) \in Nat /\ Len(fs) \in Nat
            BY <1>2, LenProperties DEF FlowsFit
        <3> QED BY <3>1
    <2> QED BY <2>1, <2>2
<1> QED BY <1>1, <1>2, <1>3, <1>4, <1>8, <1>9 DEF FlowsFit

\* A flow that goes on is still of its function, and one for the trail for its folder.
GoesOn(f, g) ==
    /\ g.fn = f.fn /\ g.live = f.live
    /\ LiveCrumbs(g) => g.todo[1] = f.todo[1]

LEMMA ChangedFits ==
    ASSUME NEW fs, NEW folder, NEW trail, NEW busy, NEW c, FlowsFit(fs, folder, trail, busy, c),
           NEW i \in DOMAIN fs, NEW g \in GoodFlows(c), GoesOn(fs[i], g)
    PROVE  FlowsFit([fs EXCEPT ![i] = g], folder, trail, busy, c)
<1>1. PICK gs : gs = [fs EXCEPT ![i] = g]
    OBVIOUS
<1>2. fs \in Seq(GoodFlows(c)) /\ DOMAIN fs = 1..Len(fs)
    BY LenProperties DEF FlowsFit
<1>3. gs \in Seq(GoodFlows(c)) /\ DOMAIN gs = DOMAIN fs
    BY <1>1, <1>2, ExceptSeq
<1>4. \A j \in DOMAIN gs : IF j = i THEN gs[j] = g ELSE gs[j] = fs[j]
    BY <1>1, <1>3
<1>5. \A j \in DOMAIN gs : /\ LiveCrumbs(gs[j]) <=> LiveCrumbs(fs[j])
                           /\ LiveCrumbs(gs[j]) => gs[j].todo[1] = fs[j].todo[1]
                           /\ OfDialog(gs, j) <=> OfDialog(fs, j)
    BY <1>3, <1>4 DEF GoesOn, LiveCrumbs, OfDialog
<1> QED BY <1>1, <1>3, <1>5 DEF FlowsFit

LEMMA BegunFits ==
    ASSUME NEW fs, NEW folder, NEW trail, NEW busy \in BOOLEAN, NEW c, FlowsFit(fs, folder, trail, busy, c),
           NEW g \in GoodFlows(c), g.fn # "crumbs", NEW busy2 \in BOOLEAN,
           g.fn \in DialogFns => ~busy /\ busy2, g.fn \notin DialogFns => busy2 = busy
    PROVE  FlowsFit(Append(fs, g), folder, trail, busy2, c)
<1>1. PICK gs : gs = Append(fs, g)
    OBVIOUS
<1>2. /\ fs \in Seq(GoodFlows(c)) /\ DOMAIN fs = 1..Len(fs) /\ Len(fs) \in Nat
    BY LenProperties DEF FlowsFit
<1>3. /\ gs \in Seq(GoodFlows(c)) /\ Len(gs) = Len(fs) + 1
      /\ \A j \in 1..Len(fs) : gs[j] = fs[j]
      /\ gs[Len(fs) + 1] = g
    BY <1>1, <1>2, AppendProperties
<1>4. DOMAIN gs = 1..(Len(fs) + 1)
    BY <1>3, LenProperties
<1>5. \A j \in DOMAIN gs : (j \in DOMAIN fs /\ gs[j] = fs[j]) \/ (j = Len(fs) + 1 /\ gs[j] = g)
    BY <1>2, <1>3, <1>4
<1>6. \A j \in DOMAIN fs : j \in DOMAIN gs /\ gs[j] = fs[j] /\ j # Len(fs) + 1
    BY <1>2, <1>3, <1>4
<1>7. Len(fs) + 1 \in DOMAIN gs
    BY <1>2, <1>4
<1>8. ~LiveCrumbs(g)
    BY DEF LiveCrumbs
<1>9. \A j \in DOMAIN gs : LiveCrumbs(gs[j]) => gs[j].todo[1].to = folder
    BY <1>5, <1>8 DEF FlowsFit
<1>10. (\A j \in DOMAIN gs : ~LiveCrumbs(gs[j])) => trail \in {Root, folder}
    BY <1>6 DEF FlowsFit
<1>11. \A j \in DOMAIN fs : OfDialog(gs, j) <=> OfDialog(fs, j)
    BY <1>6 DEF OfDialog
<1>12. OfDialog(gs, Len(fs) + 1) <=> g.fn \in DialogFns
    BY <1>3, <1>7 DEF OfDialog
<1>13. /\ \A k \in DOMAIN fs : OfDialog(fs, k) => busy
       /\ busy => \E k \in DOMAIN fs : OfDialog(fs, k)
       /\ \A k, l \in DOMAIN fs : OfDialog(fs, k) /\ OfDialog(fs, l) => k = l
    BY DEF FlowsFit
<1>14. busy2 <=> \E j \in DOMAIN gs : OfDialog(gs, j)
    BY <1>5, <1>6, <1>7, <1>11, <1>12, <1>13
<1>15. \A j, k \in DOMAIN gs : OfDialog(gs, j) /\ OfDialog(gs, k) => j = k
    BY <1>5, <1>6, <1>11, <1>12, <1>13
<1> QED BY <1>1, <1>3, <1>9, <1>10, <1>14, <1>15 DEF FlowsFit

\* What the user agrees to only grows.
LEMMA MoreIsAgreed ==
    ASSUME NEW fs, NEW folder, NEW trail, NEW busy, NEW c, FlowsFit(fs, folder, trail, busy, c),
           NEW e, c.ids \subseteq e.ids, c.trash \subseteq e.trash
    PROVE  FlowsFit(fs, folder, trail, busy, e)
<1>1. AskedRequests(c) \subseteq AskedRequests(e)
    BY DEF AskedRequests, Asked
<1>2. Seq(AskedRequests(c)) \subseteq Seq(AskedRequests(e))
    BY <1>1, SeqMonotonic
<1>3. GoodFlows(c) \subseteq GoodFlows(e)
    BY <1>2 DEF GoodFlows
<1>4. fs \in Seq(GoodFlows(e))
    BY <1>3, SeqMonotonic DEF FlowsFit
<1> QED BY <1>4 DEF FlowsFit

-----------------------------------------------------------------------------
(* The effects of a render                                                 *)

LEMMA NoFlowsFit ==
    ASSUME NEW fs, NEW folder, NEW trail, NEW busy, NEW c, FlowsFit(fs, folder, trail, busy, c),
           NEW gs \in Seq(GoodFlows(c)), \A j \in DOMAIN gs : gs[j].fn = "refresh"
    PROVE  FlowsFit(fs \o gs, folder, trail, busy, c)
<1>1. PICK hs : hs = fs \o gs
    OBVIOUS
<1>2. /\ fs \in Seq(GoodFlows(c)) /\ DOMAIN fs = 1..Len(fs) /\ Len(fs) \in Nat
      /\ DOMAIN gs = 1..Len(gs) /\ Len(gs) \in Nat
    BY LenProperties DEF FlowsFit
<1>3. /\ hs \in Seq(GoodFlows(c)) /\ Len(hs) = Len(fs) + Len(gs)
      /\ \A j \in 1..Len(fs) + Len(gs) : hs[j] = IF j <= Len(fs) THEN fs[j] ELSE gs[j - Len(fs)]
    BY <1>1, <1>2, ConcatProperties
<1>4. DOMAIN hs = 1..Len(fs) + Len(gs)
    BY <1>3, LenProperties
<1>5. ASSUME NEW j \in DOMAIN hs
      PROVE  (j \in DOMAIN fs /\ hs[j] = fs[j]) \/ (j \notin DOMAIN fs /\ hs[j].fn = "refresh")
    <2>1. CASE j <= Len(fs)
        BY <1>2, <1>3, <1>4, <2>1
    <2>2. CASE ~(j <= Len(fs))
        <3>1. j - Len(fs) \in DOMAIN gs
            BY <1>2, <1>4, <2>2
        <3> QED BY <1>2, <1>3, <1>4, <2>2, <3>1
    <2> QED BY <2>1, <2>2
<1>6. \A j \in DOMAIN fs : j \in DOMAIN hs /\ hs[j] = fs[j]
    BY <1>2, <1>3, <1>4
<1>7. \A j \in DOMAIN hs : LiveCrumbs(hs[j]) => j \in DOMAIN fs /\ hs[j] = fs[j]
    BY <1>5 DEF LiveCrumbs
<1>8. \A j : OfDialog(hs, j) <=> OfDialog(fs, j)
    BY <1>5, <1>6 DEF OfDialog, DialogFns
<1>9. \A j, k \in DOMAIN hs : OfDialog(hs, j) /\ OfDialog(hs, k) => j = k
    BY <1>8 DEF FlowsFit, OfDialog
<1>10. busy <=> \E j \in DOMAIN hs : OfDialog(hs, j)
    BY <1>6, <1>8 DEF FlowsFit, OfDialog
<1> QED BY <1>1, <1>3, <1>6, <1>7, <1>9, <1>10 DEF FlowsFit

\* When the folder changes, the request for the trail of the one before is dead.
Dropped(fs) == [i \in DOMAIN fs |-> [fs[i] EXCEPT !.live = @ /\ fs[i].fn # "crumbs"]]

LEMMA LeftFits ==
    ASSUME NEW fs, NEW folder, NEW trail, NEW busy, NEW c, FlowsFit(fs, folder, trail, busy, c), NEW folder2,
           NEW gs, gs = Dropped(fs)
    PROVE  FlowsFit(gs, folder2, Root, busy, c) /\ \A j \in DOMAIN gs : ~LiveCrumbs(gs[j])
<1>1. /\ fs \in Seq(GoodFlows(c)) /\ DOMAIN fs = 1..Len(fs) /\ Len(fs) \in Nat
      /\ fs \in [1..Len(fs) -> GoodFlows(c)]
    BY LenProperties DEF FlowsFit
<1>2. ASSUME NEW f \in GoodFlows(c), NEW g, g = [f EXCEPT !.live = @ /\ f.fn # "crumbs"]
      PROVE  g \in GoodFlows(c) /\ g.fn = f.fn /\ ~LiveCrumbs(g)
    <2>1. f.live \in BOOLEAN
        BY DEF GoodFlows
    <2>2. PICK b \in BOOLEAN : b <=> (f.live /\ f.fn # "crumbs")
        OBVIOUS
    <2>3. g = [f EXCEPT !.live = b]
        BY <1>2, <2>1, <2>2
    <2>4. g.fn = f.fn /\ g.at = f.at /\ g.todo = f.todo /\ g.live = b /\ g.reply = f.reply
        BY <2>3 DEF GoodFlows
    <2> QED BY <2>2, <2>3, <2>4 DEF GoodFlows, GoodFlow, LiveCrumbs
<1>3. DOMAIN gs = DOMAIN fs /\ \A j \in DOMAIN gs : gs[j] \in GoodFlows(c) /\ gs[j].fn = fs[j].fn /\ ~LiveCrumbs(gs[j])
    BY <1>1, <1>2 DEF Dropped
<1>4. gs \in Seq(GoodFlows(c))
    <2>0. gs = [j \in DOMAIN gs |-> gs[j]]
        BY DEF Dropped
    <2>1. gs \in [1..Len(fs) -> GoodFlows(c)]
        BY <1>1, <1>3, <2>0
    <2> QED BY <1>1, <2>1, SeqDef
<1>5. \A j : OfDialog(gs, j) <=> OfDialog(fs, j)
    BY <1>3 DEF OfDialog
<1> QED BY <1>3, <1>4, <1>5 DEF FlowsFit

LEMMA CrumbsFit ==
    ASSUME NEW fs, NEW folder, NEW trail, NEW busy, NEW c, FlowsFit(fs, folder, trail, busy, c), NEW trail2,
           NEW g \in GoodFlows(c), LiveCrumbs(g), g.todo[1].to = folder
    PROVE  FlowsFit(fs \o <<g>>, folder, trail2, busy, c)
<1>1. PICK hs : hs = fs \o <<g>>
    OBVIOUS
<1>2. /\ fs \in Seq(GoodFlows(c)) /\ DOMAIN fs = 1..Len(fs) /\ Len(fs) \in Nat
      /\ <<g>> \in Seq(GoodFlows(c)) /\ Len(<<g>>) = 1 /\ <<g>>[1] = g
    BY LenProperties DEF FlowsFit
<1>3. /\ hs \in Seq(GoodFlows(c)) /\ Len(hs) = Len(fs) + 1
      /\ \A j \in 1..Len(fs) + 1 : hs[j] = IF j <= Len(fs) THEN fs[j] ELSE <<g>>[j - Len(fs)]
    BY <1>1, <1>2, ConcatProperties
<1>4. DOMAIN hs = 1..Len(fs) + 1
    BY <1>3, LenProperties
<1>5. hs[Len(fs) + 1] = g /\ Len(fs) + 1 \in DOMAIN hs
    <2>1. Len(fs) + 1 \in 1..Len(fs) + 1 /\ ~(Len(fs) + 1 <= Len(fs)) /\ (Len(fs) + 1) - Len(fs) = 1
        BY <1>2
    <2> QED BY <1>2, <1>3, <1>4, <2>1
<1>6. \A j \in DOMAIN fs : j \in DOMAIN hs /\ hs[j] = fs[j]
    BY <1>2, <1>3, <1>4
<1>7. \A j \in DOMAIN hs : j \in DOMAIN fs \/ j = Len(fs) + 1
    BY <1>2, <1>4
<1>8. g.fn \notin DialogFns
    BY DEF LiveCrumbs, DialogFns
<1>9. \A j : OfDialog(hs, j) <=> OfDialog(fs, j)
    <2>1. \A j \in DOMAIN fs : OfDialog(hs, j) <=> OfDialog(fs, j)
        BY <1>6 DEF OfDialog
    <2>2. ~OfDialog(hs, Len(fs) + 1)
        BY <1>5, <1>8 DEF OfDialog
    <2> QED BY <1>7, <2>1, <2>2 DEF OfDialog
<1>10. \A j \in DOMAIN hs : LiveCrumbs(hs[j]) => hs[j].todo[1].to = folder
    BY <1>5, <1>6, <1>7 DEF FlowsFit
<1>11. \A j, k \in DOMAIN hs : OfDialog(hs, j) /\ OfDialog(hs, k) => j = k
    BY <1>9 DEF FlowsFit, OfDialog
<1>12. busy <=> \E j \in DOMAIN hs : OfDialog(hs, j)
    BY <1>6, <1>9 DEF FlowsFit, OfDialog
<1> QED BY <1>1, <1>3, <1>5, <1>10, <1>11, <1>12 DEF FlowsFit

\* A trail may always be cut back to the root, unless its answer is awaited.
LEMMA RootFits ==
    ASSUME NEW fs, NEW folder, NEW trail, NEW busy, NEW c, FlowsFit(fs, folder, trail, busy, c)
    PROVE  FlowsFit(fs, folder, Root, busy, c)
BY DEF FlowsFit

LEMMA RequestIs ==
    ASSUME NEW op \in Ops, NEW fs \in SUBSET Files, NEW ps \in SUBSET Folders,
           NEW to \in Folders \cup {Root} \cup Workspaces
    PROVE  Request(op, fs, ps, to) \in Requests
BY DEF Request, Requests

\* A flow may begin with these requests.
MayBegin(c, fn, todo) ==
    /\ fn \in Fns /\ todo \in Seq(AskedRequests(c))
    /\ todo = <<>> => fn \notin {"crumbs", "tree", "switch", "extract"}
    /\ fn = "crumbs" => Len(todo) = 1 /\ todo[1].to \in Folders
Begun(c, fn, todo, f) == f \in GoodFlows(c) /\ f.fn = fn /\ f.live = TRUE /\ f.todo = todo

LEMMA FlowIs ==
    ASSUME NEW c, NEW p \in Page, NEW fn, NEW todo, MayBegin(c, fn, todo), NEW f, f = Flow(fn, p, todo)
    PROVE  Begun(c, fn, todo, f)
<1>2. /\ f = [fn |-> fn, at |-> f.at, section |-> p.section, folder |-> p.folder, todo |-> todo,
              reply |-> Failure, live |-> TRUE]
      /\ f.at = IF todo = <<>> THEN "list" ELSE "call"
    BY DEF Flow
<1>3. p.section \in Sections /\ p.folder \in Folders \cup {Root}
    BY DEF Page
<1>4. Failure \in Replies
    BY RepliesAre
<1>5. f.fn = fn /\ f.todo = todo /\ f.live = TRUE
    BY <1>2
<1>6. GoodFlow(f)
    BY <1>2, <1>5 DEF MayBegin, GoodFlow, Answered
<1>7. f.at \in {"call", "back"} \cup Answered
    BY <1>2 DEF Answered
<1>8. f \in [fn : Fns, at : {"call", "back"} \cup Answered, section : Sections, folder : Folders \cup {Root},
             todo : Seq(AskedRequests(c)), reply : Replies, live : BOOLEAN]
    <2>1. PICK at : at = f.at
        OBVIOUS
    <2>2. f = [fn |-> fn, at |-> at, section |-> p.section, folder |-> p.folder, todo |-> todo,
               reply |-> Failure, live |-> TRUE]
        BY <1>2, <2>1
    <2>3. at \in {"call", "back"} \cup Answered
        BY <1>7, <2>1
    <2> QED BY <1>3, <1>4, <2>2, <2>3 DEF MayBegin
<1> QED BY <1>5, <1>6, <1>8 DEF GoodFlows, Begun

LEMMA RefreshIs ==
    ASSUME NEW c, NEW p \in Page, NEW f, f = Flow("refresh", p, <<>>)
    PROVE  f \in GoodFlows(c) /\ f.fn = "refresh"
<1>1. MayBegin(c, "refresh", <<>>)
    BY EmptySeq DEF MayBegin, Fns
<1>2. Begun(c, "refresh", <<>>, f)
    BY <1>1, FlowIs
<1> QED BY <1>2 DEF Begun

LEMMA CrumbsAre ==
    ASSUME NEW c, NEW p \in Page, p.folder \in Folders, NEW f,
           f = Flow("crumbs", p, <<Request("crumbs", {}, {}, p.folder)>>)
    PROVE  f \in GoodFlows(c) /\ LiveCrumbs(f) /\ f.todo[1].to = p.folder
<1>1. PICK x : x = Request("crumbs", {}, {}, p.folder)
    OBVIOUS
<1>2. x \in Requests /\ x.op = "crumbs" /\ x.to = p.folder
    BY <1>1, RequestIs DEF Request, Ops
<1>3. x \in AskedRequests(c)
    BY <1>2 DEF AskedRequests, Asked, Erasing
<1>4. <<x>> \in Seq(AskedRequests(c)) /\ Len(<<x>>) = 1 /\ <<x>>[1] = x /\ <<x>> # <<>>
    BY <1>3
<1>5. MayBegin(c, "crumbs", <<x>>)
    BY <1>2, <1>4 DEF MayBegin, Fns
<1>6. Begun(c, "crumbs", <<x>>, f)
    BY <1>1, <1>5, FlowIs
<1> QED BY <1>2, <1>4, <1>6 DEF Begun, LiveCrumbs

\* A page that is rendered with flows and uploads that fit the page before it.
Before(q, fs, us, d, c) ==
    PageFits(q) /\ FlowsFit(fs, page.folder, q.trail, q.busy, c) /\ UploadsFit(us, q, d)

LEMMA NothingIsWaiting ==
    /\ <<>> \in UNION {[1..n -> JobStatus] : n \in 0..MaxDrop} /\ DOMAIN <<>> = {}
    /\ EmptyFilters \in Filters /\ NoDialog \in Dialog /\ NoDialog.kind = "none"
<1>1. 0 \in 0..MaxDrop /\ <<>> \in [1..0 -> JobStatus]
    BY BoundsAssumption
<1>2. EmptyFilters \in Filters
    BY DEF EmptyFilters, Filters, Kinds, Sizes, SortKeys
<1>3. NoDialog \in Dialog /\ NoDialog.kind = "none"
    BY DEF NoDialog, Dialog, DialogKinds
<1> QED BY <1>1, <1>2, <1>3

\* What a page keeps of its uploads: they are the same or, when they are over or out of
\* sight, none.
SameRun(p, q) == p.run = q.run /\ p.lock = q.lock /\ p.jobs \in {q.jobs, <<>>}

LEMMA SameUploads ==
    ASSUME NEW p, NEW q, SameRun(p, q), NEW us, NEW d, UploadsFit(us, q, d)
    PROVE  UploadsFit(us, p, d)
<1>1. \A j \in DOMAIN p.jobs : j \in DOMAIN q.jobs /\ p.jobs[j] = q.jobs[j]
    BY NothingIsWaiting DEF SameRun
<1>2. CASE us = <<>> /\ ~q.lock /\ \A j \in DOMAIN q.jobs : q.jobs[j] # "uploading"
    BY <1>1, <1>2 DEF UploadsFit, SameRun
<1>3. CASE q.lock /\ OneRun(us, q, d)
    <2>1. PICK u \in Upload :
             /\ us = <<u>> /\ u.run = q.run /\ u.job <= u.size
             /\ \A j \in DOMAIN q.jobs : q.jobs[j] = "uploading" => j = u.job
             /\ u.at \in {"put", "complete", "created"} => Claimed(d, TokenOf(u))
        BY <1>3 DEF OneRun
    <2>2. OneRun(us, p, d)
        BY <1>1, <2>1 DEF SameRun, OneRun
    <2> QED BY <1>3, <2>2 DEF UploadsFit, SameRun
<1> QED BY <1>2, <1>3 DEF UploadsFit

LEMMA ClearedFits ==
    ASSUME NEW q, PageFits(q), NEW r,
           r = [NoSelection(q) EXCEPT !.folder = Root, !.trail = Root, !.jobs = <<>>,
                                      !.preview = NoId, !.filters = EmptyFilters]
    PROVE  /\ PageFits(r) /\ SameRun(r, q) /\ r.folder = Root /\ r.trail = Root
           /\ r.section = q.section /\ r.busy = q.busy
<1>1. q \in Page
    BY DEF PageFits
<1>2. r \in Page /\ r.selected = {} /\ r.kinds = {} /\ r.dialog = q.dialog
      /\ r.folder = Root /\ r.trail = Root /\ r.section = q.section /\ r.busy = q.busy
    BY <1>1, NothingIsWaiting DEF Page, NoSelection
<1>3. SameRun(r, q)
    BY <1>1 DEF Page, NoSelection, SameRun
<1> QED BY <1>2, <1>3 DEF PageFits, DialogFits

LEMMA SectionFits ==
    ASSUME NEW q, PageFits(q), NEW r, r = [q EXCEPT !.filters = EmptyFilters, !.last = NoId]
    PROVE  /\ PageFits(r) /\ SameRun(r, q) /\ r.folder = q.folder /\ r.trail = q.trail
           /\ r.section = q.section /\ r.busy = q.busy
<1>1. q \in Page
    BY DEF PageFits
<1>2. r \in Page /\ r.selected = q.selected /\ r.kinds = q.kinds /\ r.dialog = q.dialog
      /\ r.files = q.files /\ r.folders = q.folders
      /\ r.folder = q.folder /\ r.trail = q.trail /\ r.section = q.section /\ r.busy = q.busy
    BY <1>1, NothingIsWaiting DEF Page
<1>3. SameRun(r, q)
    BY <1>1 DEF Page, SameRun
<1> QED BY <1>2, <1>3 DEF PageFits, DialogFits

Redrawn(q, r, trail) ==
    /\ trail \in Folders \cup {Root}
    /\ \E loading \in BOOLEAN, preview \in Files \cup {NoId} :
          r = [q EXCEPT !.trail = trail, !.loading = loading, !.preview = preview]

LEMMA RenderedFits ==
    ASSUME NEW q, PageFits(q), NEW trail, NEW r, Redrawn(q, r, trail)
    PROVE  /\ PageFits(r) /\ SameRun(r, q) /\ r.folder = q.folder /\ r.trail = trail /\ r.busy = q.busy
<1>0. PICK loading \in BOOLEAN, preview \in Files \cup {NoId} :
         r = [q EXCEPT !.trail = trail, !.loading = loading, !.preview = preview]
    BY DEF Redrawn
<1>1. q \in Page /\ trail \in Folders \cup {Root}
    BY DEF PageFits, Redrawn
<1>2. r \in Page /\ r.selected = q.selected /\ r.kinds = q.kinds /\ r.dialog = q.dialog
      /\ r.files = q.files /\ r.folders = q.folders
      /\ r.folder = q.folder /\ r.trail = trail /\ r.busy = q.busy
    BY <1>0, <1>1 DEF Page
<1>3. SameRun(r, q)
    BY <1>0, <1>1 DEF Page, SameRun
<1> QED BY <1>2, <1>3 DEF PageFits, DialogFits

LEMMA EffectsFit ==
    ASSUME NEW q, NEW fs, NEW us, NEW d, NEW c, Before(q, fs, us, d, c), NEW renewed \in BOOLEAN,
           NEW e, e = Effects(q, fs, renewed)
    PROVE  Fits(e.page, e.flows, us, d, c) /\ e.page.run = q.run
<1> DEFINE newWs == q.ws # page.ws
           cleared == [NoSelection(q) EXCEPT !.folder = Root, !.trail = Root, !.jobs = <<>>,
                                             !.preview = NoId, !.filters = EmptyFilters]
           R == IF newWs THEN cleared ELSE q
           S == IF R.section # page.section THEN [R EXCEPT !.filters = EmptyFilters, !.last = NoId] ELSE R
           G == IF renewed \/ q.section # page.section \/ q.folder # page.folder
                THEN <<Flow("refresh", q, <<>>)>> ELSE <<>>
           H == IF S.folder # q.folder THEN <<Flow("refresh", S, <<>>)>> ELSE <<>>
           Moved == S.section # page.section \/ S.folder # page.folder
           Deep == S.section = "my-files" /\ S.folder # Root
           Crumbs == IF Moved /\ Deep
                     THEN <<Flow("crumbs", S, <<Request("crumbs", {}, {}, S.folder)>>)>> ELSE <<>>
           Kept == IF Moved THEN Dropped(fs) ELSE fs
           T == [S EXCEPT !.trail = IF Moved /\ ~Deep THEN Root ELSE @,
                          !.loading = @ \/ G \o H # <<>>,
                          !.preview = IF ~S.loading /\ @ \notin S.files THEN NoId ELSE @]
<1>0. e = [page |-> T, flows |-> Kept \o (G \o H) \o Crumbs]
    BY DEF Effects, Dropped
<1> HIDE DEF T, Kept, G, H, Crumbs
<1>1. PICK r : r = R
    OBVIOUS
<1>2. PICK s : s = S /\ s = IF r.section # page.section
                            THEN [r EXCEPT !.filters = EmptyFilters, !.last = NoId] ELSE r
    BY <1>1
<1> HIDE DEF S
<1>3. PICK g : g = G /\ g = (IF renewed \/ q.section # page.section \/ q.folder # page.folder
                             THEN <<Flow("refresh", q, <<>>)>> ELSE <<>>)
    BY DEF G
<1>4. PICK h : h = H /\ h = (IF s.folder # q.folder THEN <<Flow("refresh", s, <<>>)>> ELSE <<>>)
    BY <1>2 DEF H
<1>5. PICK moved \in BOOLEAN : moved <=> (s.section # page.section \/ s.folder # page.folder)
    OBVIOUS
<1>6. PICK deep \in BOOLEAN : deep <=> (s.section = "my-files" /\ s.folder # Root)
    OBVIOUS
<1>7. PICK crumbs : crumbs = Crumbs /\ crumbs = IF moved /\ deep
                             THEN <<Flow("crumbs", s, <<Request("crumbs", {}, {}, s.folder)>>)>> ELSE <<>>
    BY <1>2, <1>5, <1>6 DEF Crumbs
<1>8. PICK kept : kept = Kept /\ kept = IF moved THEN Dropped(fs) ELSE fs
    BY <1>2, <1>5 DEF Kept
<1>9. PICK t : t = T /\ t = [s EXCEPT !.trail = IF moved /\ ~deep THEN Root ELSE @,
                              !.loading = @ \/ g \o h # <<>>,
                              !.preview = IF ~s.loading /\ @ \notin s.files THEN NoId ELSE @]
    BY <1>2, <1>3, <1>4, <1>5, <1>6 DEF T
<1>10. e.page = t /\ e.flows = kept \o (g \o h) \o crumbs
    <2>1. e.page = T /\ e.flows = Kept \o (G \o H) \o Crumbs
        BY <1>0
    <2>2. t = T /\ kept = Kept /\ g = G /\ h = H /\ crumbs = Crumbs
        BY <1>3, <1>4, <1>7, <1>8, <1>9
    <2> QED BY <2>1, <2>2
<1>11. PageFits(q) /\ FlowsFit(fs, page.folder, q.trail, q.busy, c) /\ UploadsFit(us, q, d)
    BY DEF Before
<1>12. /\ PageFits(r) /\ SameRun(r, q) /\ r.busy = q.busy
       /\ FlowsFit(fs, page.folder, r.trail, q.busy, c)
    <2>1. CASE q.ws # page.ws
        <3>1. r = cleared
            BY <1>1, <2>1
        <3>2. /\ PageFits(r) /\ SameRun(r, q) /\ r.folder = Root /\ r.trail = Root
              /\ r.section = q.section /\ r.busy = q.busy
            BY <1>11, <3>1, ClearedFits
        <3>3. FlowsFit(fs, page.folder, Root, q.busy, c)
            BY <1>11, RootFits
        <3> QED BY <3>2, <3>3
    <2>2. CASE ~(q.ws # page.ws)
        BY <1>1, <1>11, <2>2 DEF SameRun
    <2> QED BY <2>1, <2>2
<1>13. /\ PageFits(s) /\ SameRun(s, q) /\ s.busy = q.busy
       /\ FlowsFit(fs, page.folder, s.trail, q.busy, c)
    <2>1. CASE r.section # page.section
        <3>1. s = [r EXCEPT !.filters = EmptyFilters, !.last = NoId]
            BY <1>2, <2>1
        <3> QED BY <1>12, <3>1, SectionFits DEF SameRun
    <2>2. CASE ~(r.section # page.section)
        BY <1>2, <1>12, <2>2
    <2> QED BY <2>1, <2>2
<1>14. q \in Page /\ s \in Page
    BY <1>11, <1>13 DEF PageFits
<1>15. /\ g \in Seq(GoodFlows(c)) /\ \A j \in DOMAIN g : g[j].fn = "refresh"
       /\ h \in Seq(GoodFlows(c)) /\ \A j \in DOMAIN h : h[j].fn = "refresh"
    <2>1. /\ Flow("refresh", q, <<>>) \in GoodFlows(c) /\ Flow("refresh", q, <<>>).fn = "refresh"
          /\ Flow("refresh", s, <<>>) \in GoodFlows(c) /\ Flow("refresh", s, <<>>).fn = "refresh"
        BY <1>14, RefreshIs
    <2>2. \A f \in GoodFlows(c) : <<f>> \in Seq(GoodFlows(c)) /\ DOMAIN <<f>> = {1} /\ <<f>>[1] = f
        OBVIOUS
    <2>3. <<>> \in Seq(GoodFlows(c)) /\ DOMAIN <<>> = {}
        BY EmptySeq
    <2> QED BY <1>3, <1>4, <2>1, <2>2, <2>3
<1>16. g \o h \in Seq(GoodFlows(c)) /\ \A j \in DOMAIN (g \o h) : (g \o h)[j].fn = "refresh"
    <2>1. /\ g \o h \in Seq(GoodFlows(c)) /\ Len(g \o h) = Len(g) + Len(h)
          /\ \A i \in 1..Len(g) + Len(h) : (g \o h)[i] = IF i <= Len(g) THEN g[i] ELSE h[i - Len(g)]
        BY <1>15, ConcatProperties
    <2>2. /\ DOMAIN (g \o h) = 1..Len(g) + Len(h) /\ DOMAIN g = 1..Len(g) /\ DOMAIN h = 1..Len(h)
          /\ Len(g) \in Nat /\ Len(h) \in Nat
        BY <1>15, <2>1, LenProperties
    <2>3. ASSUME NEW i \in DOMAIN (g \o h), ~(i <= Len(g)) PROVE i - Len(g) \in DOMAIN h
        BY <2>2, <2>3
    <2>4. ASSUME NEW i \in DOMAIN (g \o h), i <= Len(g) PROVE i \in DOMAIN g
        BY <2>2, <2>4
    <2> QED BY <1>15, <2>1, <2>2, <2>3, <2>4
<1>17. SameRun(t, s) /\ PageFits(t) /\ t.folder = s.folder /\ t.busy = s.busy
       /\ t.trail = IF moved /\ ~deep THEN Root ELSE s.trail
    <2>1. PICK trail : trail = IF moved /\ ~deep THEN Root ELSE s.trail
        OBVIOUS
    <2>2. PICK loading \in BOOLEAN : loading <=> (s.loading \/ g \o h # <<>>)
        OBVIOUS
    <2>3. PICK preview : preview = IF ~s.loading /\ s.preview \notin s.files THEN NoId ELSE s.preview
        OBVIOUS
    <2>4. s.loading \in BOOLEAN /\ trail \in Folders \cup {Root} /\ preview \in Files \cup {NoId}
        BY <1>14, <2>1, <2>3 DEF Page
    <2>5. t = [s EXCEPT !.trail = trail, !.loading = loading, !.preview = preview]
        BY <1>9, <1>14, <2>1, <2>2, <2>3, <2>4
    <2>6. /\ PageFits(t) /\ SameRun(t, s) /\ t.folder = s.folder /\ t.trail = trail /\ t.busy = s.busy
        <3>1. Redrawn(s, t, trail)
            BY <2>4, <2>5 DEF Redrawn
        <3> QED BY <1>13, <3>1, RenderedFits
    <2> QED BY <2>1, <2>6
<1>18. UploadsFit(us, t, d) /\ t.run = q.run
    <2>1. SameRun(t, q)
        BY <1>13, <1>17, NothingIsWaiting DEF SameRun
    <2> QED BY <1>11, <2>1, SameUploads DEF SameRun
<1>19. FlowsFit(kept \o (g \o h) \o crumbs, t.folder, t.trail, t.busy, c)
    <2> HIDE <1>3, <1>4, <1>8
    <2>0. <<>> \in Seq(GoodFlows(c)) /\ \A j \in DOMAIN <<>> : <<>>[j].fn = "refresh"
        BY EmptySeq
    <2>1. CASE ~moved
        <3>1. kept = fs /\ s.folder = page.folder /\ crumbs = <<>> /\ t.trail = s.trail
            BY <1>5, <1>7, <1>8, <1>17, <2>1
        <3>2. FlowsFit(kept \o (g \o h), s.folder, s.trail, q.busy, c)
            BY <1>13, <1>16, <3>1, NoFlowsFit
        <3>3. FlowsFit((kept \o (g \o h)) \o <<>>, s.folder, s.trail, q.busy, c)
            BY <2>0, <3>2, NoFlowsFit
        <3> QED BY <1>13, <1>17, <3>1, <3>3
    <2>2. CASE moved
        <3>1. FlowsFit(kept, s.folder, Root, q.busy, c)
            BY <1>8, <1>13, <2>2, LeftFits
        <3>2. FlowsFit(kept \o (g \o h), s.folder, Root, q.busy, c)
            BY <1>16, <3>1, NoFlowsFit
        <3>3. CASE ~deep
            <4>1. crumbs = <<>> /\ t.trail = Root
                BY <1>7, <1>17, <2>2, <3>3
            <4>2. FlowsFit((kept \o (g \o h)) \o <<>>, s.folder, Root, q.busy, c)
                BY <2>0, <3>2, NoFlowsFit
            <4> QED BY <1>13, <1>17, <4>1, <4>2
        <3>4. CASE deep
            <4>1. PICK f : f = Flow("crumbs", s, <<Request("crumbs", {}, {}, s.folder)>>)
                OBVIOUS
            <4>2. s.folder \in Folders
                BY <1>6, <1>14, <3>4 DEF Page
            <4>3. f \in GoodFlows(c) /\ LiveCrumbs(f) /\ f.todo[1].to = s.folder
                BY <1>14, <4>1, <4>2, CrumbsAre
            <4>4. crumbs = <<f>>
                BY <1>7, <2>2, <3>4, <4>1
            <4>5. FlowsFit((kept \o (g \o h)) \o <<f>>, s.folder, t.trail, q.busy, c)
                BY <3>2, <4>3, CrumbsFit
            <4> QED BY <1>13, <1>17, <4>4, <4>5
        <3> QED BY <3>3, <3>4
    <2> QED BY <2>1, <2>2
<1> QED BY <1>10, <1>17, <1>18, <1>19 DEF Fits

-----------------------------------------------------------------------------
(* What a step is to show                                                  *)

\* A step changes only rows of the active workspace, and no object goes that the user
\* did not agree to lose, unless it is one of an upload that is refused.
RefusedUpload(f) == disk.file[f] = NoRow /\ \E k \in DOMAIN uploads : At(k, "complete") /\ uploads[k].key = f
StepOK ==
    /\ \A f \in Files : RowKept(active, disk.file[f], disk'.file[f])
    /\ \A p \in Folders : RowKept(active, disk.folder[p], disk'.folder[p])
    /\ \A f \in disk.object \ disk'.object : Confirmed(disk, f, consent) \/ RefusedUpload(f)

Counted ==
    /\ clicks' \in 0..MaxClicks /\ clicks <= clicks'
    /\ troubles' \in 0..MaxTroubles /\ habit' \in Habits

GoodStep ==
    /\ IsStored(disk') /\ active' \in Workspaces
    /\ Fits(page', flows', uploads', disk', consent')
    /\ page'.run <= clicks' /\ consent' \in Consents
    /\ StepOK

Quiet == UNCHANGED <<disk, active, uploads, consent>>

LEMMA StepIsInductive ==
    ASSUME Counted, GoodStep
    PROVE  IndInv' /\ StepOK
BY DEF Counted, GoodStep, IndInv, CountsFit

LEMMA InvariantIs ==
    ASSUME IndInv
    PROVE  /\ IsStored(disk) /\ active \in Workspaces /\ disk \in Disk
           /\ page \in Page /\ PageFits(page)
           /\ FlowsFit(flows, page.folder, page.trail, page.busy, consent)
           /\ flows \in Seq(GoodFlows(consent)) /\ DOMAIN flows = 1..Len(flows)
           /\ UploadsFit(uploads, page, disk)
           /\ page.busy \in BOOLEAN /\ page.run \in Nat /\ page.run <= clicks /\ clicks \in Nat
           /\ consent \in Consents /\ habit \in Habits /\ troubles \in 0..MaxTroubles
           /\ clicks \in 0..MaxClicks
<1>1. flows \in Seq(GoodFlows(consent)) /\ DOMAIN flows = 1..Len(flows)
    BY LenProperties DEF IndInv, Fits, FlowsFit
<1>2. page \in Page
    BY DEF IndInv, Fits, PageFits
<1>3. page.busy \in BOOLEAN /\ page.run \in Nat
    BY <1>2, BoundsAssumption DEF Page
<1> QED BY <1>1, <1>2, <1>3, StoredIs DEF IndInv, Fits, CountsFit

LEMMA SameDiskIsOK ==
    ASSUME IndInv, disk' = disk
    PROVE  StepOK
<1>1. /\ \A f \in Files : disk.file[f] \in Row
      /\ \A p \in Folders : disk.folder[p] \in Row
    BY InvariantIs, DiskIs
<1> QED BY <1>1 DEF StepOK, RowKept

LEMMA RenderIsGood ==
    ASSUME IndInv, Counted, Quiet, NEW q, NEW fs, Before(q, fs, uploads, disk, consent), q.run <= clicks',
           NEW renewed \in BOOLEAN,
           page' = Effects(q, fs, renewed).page, flows' = Effects(q, fs, renewed).flows
    PROVE  GoodStep
<1>1. Fits(page', flows', uploads, disk, consent) /\ page'.run = q.run
    BY EffectsFit
<1>2. StepOK
    BY SameDiskIsOK DEF Quiet
<1> QED BY <1>1, <1>2, InvariantIs DEF Quiet, GoodStep

\* A page with the selection, the lists and the dialog of another.
SameSelection(p, q) ==
    /\ q.selected = p.selected /\ q.kinds = p.kinds /\ q.files = p.files /\ q.folders = p.folders
    /\ q.dialog = p.dialog

LEMMA SameSelectionFits ==
    ASSUME NEW p, PageFits(p), NEW q \in Page, SameSelection(p, q)
    PROVE  PageFits(q)
BY DEF SameSelection, PageFits, DialogFits

LEMMA NoSelectionFits ==
    ASSUME NEW q \in Page, DialogFits(q), q.selected = {}, q.kinds = {}
    PROVE  PageFits(q)
BY DEF PageFits

LEMMA ClosedFits ==
    ASSUME NEW p, PageFits(p), NEW kinds, NEW q, q = CloseDialog(p, kinds)
    PROVE  PageFits(q) /\ SameRun(q, p) /\ q.trail = p.trail /\ q.busy = p.busy
<1>1. CASE p.dialog.kind \in kinds
    <2>1. p \in Page /\ q = [p EXCEPT !.dialog = NoDialog]
        BY <1>1 DEF PageFits, CloseDialog
    <2>2. q \in Page /\ q.dialog = NoDialog /\ q.trail = p.trail /\ q.busy = p.busy /\ SameRun(q, p)
        BY <2>1, NothingIsWaiting DEF Page, SameRun
    <2>3. q.selected = p.selected /\ q.kinds = p.kinds /\ q.files = p.files /\ q.folders = p.folders
        BY <2>1 DEF Page
    <2> QED BY <2>2, <2>3, NothingIsWaiting DEF PageFits, DialogFits
<1>2. CASE ~(p.dialog.kind \in kinds)
    BY <1>2 DEF CloseDialog, SameRun
<1> QED BY <1>1, <1>2

-----------------------------------------------------------------------------
(* Flows that end, go on or begin with a render                            *)

EndsWell(q, i) ==
    /\ i \in DOMAIN flows /\ PageFits(q) /\ SameRun(q, page)
    /\ flows[i].fn \in DialogFns => q.busy = FALSE
    /\ flows[i].fn \notin DialogFns => q.busy = page.busy
    /\ LiveCrumbs(flows[i]) => q.trail \in {Root, page.folder}
    /\ ~LiveCrumbs(flows[i]) => q.trail = page.trail

LEMMA EndIsGood ==
    ASSUME IndInv, NEW q, NEW i, EndsWell(q, i), NEW renewed \in BOOLEAN,
           page' = Effects(q, Ended(i), renewed).page, flows' = Effects(q, Ended(i), renewed).flows,
           Quiet, Counted
    PROVE  GoodStep
<1>1. /\ i \in DOMAIN flows /\ PageFits(q) /\ q.busy \in BOOLEAN /\ page.busy \in BOOLEAN
      /\ FlowsFit(flows, page.folder, page.trail, page.busy, consent)
    BY InvariantIs DEF EndsWell
<1>2. FlowsFit(Ended(i), page.folder, q.trail, q.busy, consent)
    BY <1>1, EndedFits DEF EndsWell, Ended
<1>3. UploadsFit(uploads, q, disk)
    BY InvariantIs, SameUploads DEF EndsWell
<1>4. q.run <= clicks'
    BY InvariantIs DEF EndsWell, SameRun, Counted
<1>5. Before(q, Ended(i), uploads, disk, consent)
    BY <1>1, <1>2, <1>3 DEF Before
<1> QED BY <1>4, <1>5, RenderIsGood

LEMMA EndedIsGood ==
    ASSUME IndInv, NEW q, NEW i, EndsWell(q, i), Resume(q, Ended(i))
    PROVE  GoodStep /\ Counted
<1>1. /\ page' = Effects(q, Ended(i), FALSE).page /\ flows' = Effects(q, Ended(i), FALSE).flows
      /\ Quiet
    BY DEF Resume, Render, Quiet
<1>2. Counted
    BY InvariantIs DEF Counted, Resume
<1> QED BY <1>1, <1>2, EndIsGood

GoesOnWell(q, i, g) ==
    /\ i \in DOMAIN flows /\ PageFits(q) /\ SameRun(q, page) /\ q.busy = page.busy /\ q.trail = page.trail
    /\ g \in GoodFlows(consent) /\ GoesOn(flows[i], g)

LEMMA GoesOnIsGood ==
    ASSUME IndInv, NEW q, NEW i, NEW g, GoesOnWell(q, i, g), Resume(q, With(i, g))
    PROVE  GoodStep /\ Counted
<1>1. /\ page' = Effects(q, With(i, g), FALSE).page /\ flows' = Effects(q, With(i, g), FALSE).flows
      /\ Quiet
    BY DEF Resume, Render, Quiet
<1>2. Counted
    BY InvariantIs DEF Counted, Resume
<1>3. FlowsFit(With(i, g), page.folder, q.trail, q.busy, consent)
    BY InvariantIs, ChangedFits DEF GoesOnWell, With, ReplaceAt
<1>4. UploadsFit(uploads, q, disk)
    BY InvariantIs, SameUploads DEF GoesOnWell
<1>5. q.run <= clicks'
    BY <1>2, InvariantIs DEF GoesOnWell, SameRun, Counted
<1>6. Before(q, With(i, g), uploads, disk, consent)
    BY <1>3, <1>4 DEF Before, GoesOnWell
<1> QED BY <1>1, <1>2, <1>5, <1>6, RenderIsGood

BeginsWell(q, fn, todo) ==
    /\ PageFits(q) /\ SameRun(q, page) /\ q.trail = page.trail
    /\ MayBegin(consent, fn, todo) /\ fn # "crumbs"
    /\ fn \in DialogFns => page.busy = FALSE /\ q.busy = TRUE
    /\ fn \notin DialogFns => q.busy = page.busy

LEMMA StartIsGood ==
    ASSUME IndInv, Counted, NEW q, NEW fn, NEW todo, BeginsWell(q, fn, todo), Start(q, fn, todo)
    PROVE  GoodStep
<1>1. PICK g : g = Flow(fn, page, todo)
    OBVIOUS
<1>2. Begun(consent, fn, todo, g)
    BY <1>1, InvariantIs, FlowIs DEF BeginsWell
<1>3. /\ page' = Effects(q, Append(flows, g), FALSE).page /\ flows' = Effects(q, Append(flows, g), FALSE).flows
      /\ Quiet
    BY <1>1 DEF Start, Render, Quiet
<1>4. PageFits(q) /\ q.busy \in BOOLEAN
    BY DEF BeginsWell, PageFits, Page
<1>5. FlowsFit(Append(flows, g), page.folder, q.trail, q.busy, consent)
    BY <1>2, <1>4, InvariantIs, BegunFits DEF BeginsWell, Begun
<1>6. UploadsFit(uploads, q, disk)
    BY InvariantIs, SameUploads DEF BeginsWell
<1>7. q.run <= clicks'
    BY InvariantIs DEF BeginsWell, SameRun, Counted
<1>8. Before(q, Append(flows, g), uploads, disk, consent)
    BY <1>4, <1>5, <1>6 DEF Before
<1> QED BY <1>3, <1>7, <1>8, RenderIsGood

SetsWell(q) == PageFits(q) /\ SameRun(q, page) /\ q.trail = page.trail /\ q.busy = page.busy

LEMMA SetIsGood ==
    ASSUME IndInv, Counted, NEW q, SetsWell(q), Set(q)
    PROVE  GoodStep
<1>1. /\ page' = Effects(q, flows, FALSE).page /\ flows' = Effects(q, flows, FALSE).flows
      /\ Quiet
    BY DEF Set, Render, Quiet
<1>2. UploadsFit(uploads, q, disk)
    BY InvariantIs, SameUploads DEF SetsWell
<1>3. q.run <= clicks'
    BY InvariantIs DEF SetsWell, SameRun, Counted
<1>4. Before(q, flows, uploads, disk, consent)
    BY <1>2, InvariantIs DEF Before, SetsWell
<1> QED BY <1>1, <1>3, <1>4, RenderIsGood

-----------------------------------------------------------------------------
(* The steps of the flows                                                  *)

LEMMA FlowOf ==
    ASSUME NEW c, NEW f \in GoodFlows(c)
    PROVE  /\ f.fn \in Fns /\ f.reply \in Replies /\ f.todo \in Seq(AskedRequests(c)) /\ f.live \in BOOLEAN
           /\ f.section \in Sections /\ f.folder \in Folders \cup {Root}
           /\ f.reply.files \in SUBSET Files /\ f.reply.folders \in SUBSET Folders
           /\ f.at \in {"call", "back"} \cup Answered /\ GoodFlow(f)
           /\ f = [fn |-> f.fn, at |-> f.at, section |-> f.section, folder |-> f.folder, todo |-> f.todo,
                   reply |-> f.reply, live |-> f.live]
<1>1. f \in [fn : Fns, at : {"call", "back"} \cup Answered, section : Sections, folder : Folders \cup {Root},
             todo : Seq(AskedRequests(c)), reply : Replies, live : BOOLEAN] /\ GoodFlow(f)
    BY DEF GoodFlows
<1>2. f.reply \in Replies
    BY <1>1
<1>3. f.reply.files \in SUBSET Files /\ f.reply.folders \in SUBSET Folders
    BY <1>2 DEF Replies
<1> QED BY <1>1, <1>3

LEMMA FlowsAre ==
    ASSUME IndInv, NEW i \in DOMAIN flows
    PROVE  /\ flows[i] \in GoodFlows(consent)
           /\ LiveCrumbs(flows[i]) => flows[i].todo[1].to = page.folder
<1>1. flows[i] \in GoodFlows(consent)
    BY InvariantIs, ElementOfSeq
<1> QED BY <1>1, InvariantIs DEF FlowsFit

LEMMA ListFlow ==
    ASSUME NEW c, NEW f \in GoodFlows(c), f.fn \notin {"crumbs", "tree", "switch", "extract"},
           NEW g, g = ToList(f)
    PROVE  g \in GoodFlows(c) /\ GoesOn(f, g)
<1>1. f \in [fn : Fns, at : {"call", "back"} \cup Answered, section : Sections, folder : Folders \cup {Root},
             todo : Seq(AskedRequests(c)), reply : Replies, live : BOOLEAN]
    BY DEF GoodFlows
<1>2. <<>> \in Seq(AskedRequests(c)) /\ "list" \in Answered
    BY EmptySeq DEF Answered
<1>3. /\ g \in [fn : Fns, at : {"call", "back"} \cup Answered, section : Sections, folder : Folders \cup {Root},
                todo : Seq(AskedRequests(c)), reply : Replies, live : BOOLEAN]
      /\ g.fn = f.fn /\ g.live = f.live /\ g.at = "list"
    BY <1>1, <1>2 DEF ToList
<1>4. GoodFlow(g)
    BY <1>3 DEF GoodFlow, Answered
<1> QED BY <1>3, <1>4 DEF GoodFlows, GoesOn, LiveCrumbs

\* The flow is answered, with f for what it does next.
AnsweredFlow(f, g, at, reply) ==
    /\ g = [f EXCEPT !.at = at, !.reply = reply] /\ reply \in Replies
    /\ \/ at = "back" /\ f.at \in {"call", "back"}
       \/ at \in Answered /\ f.at \in Answered

LEMMA AnsweredIs ==
    ASSUME NEW c, NEW f \in GoodFlows(c), NEW g, NEW at, NEW reply, AnsweredFlow(f, g, at, reply)
    PROVE  g \in GoodFlows(c) /\ GoesOn(f, g)
<1>1. f \in [fn : Fns, at : {"call", "back"} \cup Answered, section : Sections, folder : Folders \cup {Root},
             todo : Seq(AskedRequests(c)), reply : Replies, live : BOOLEAN] /\ GoodFlow(f)
    BY DEF GoodFlows
<1>2. g = [f EXCEPT !.at = at, !.reply = reply] /\ reply \in Replies /\ at \in {"call", "back"} \cup Answered
      /\ (at \in {"call", "back"} <=> f.at \in {"call", "back"}) /\ (at \in Answered <=> f.at \in Answered)
    BY DEF AnsweredFlow, Answered
<1>3. /\ g \in [fn : Fns, at : {"call", "back"} \cup Answered, section : Sections, folder : Folders \cup {Root},
                todo : Seq(AskedRequests(c)), reply : Replies, live : BOOLEAN]
      /\ g.fn = f.fn /\ g.live = f.live /\ g.at = at /\ g.todo = f.todo
    BY <1>1, <1>2
<1>4. GoodFlow(g)
    BY <1>1, <1>2, <1>3 DEF GoodFlow
<1> QED BY <1>3, <1>4 DEF GoodFlows, GoesOn, LiveCrumbs

LEMMA RunsOn ==
    ASSUME NEW us, NEW p, NEW d, IsStored(d), UploadsFit(us, p, d), NEW e, NEW ws, Keeps(d, e, ws)
    PROVE  UploadsFit(us, p, e)
<1>1. CASE us = <<>> /\ ~p.lock /\ \A j \in DOMAIN p.jobs : p.jobs[j] # "uploading"
    BY <1>1 DEF UploadsFit
<1>2. CASE p.lock /\ OneRun(us, p, d)
    <2>1. PICK u \in Upload :
             /\ us = <<u>> /\ u.run = p.run /\ u.job <= u.size
             /\ \A j \in DOMAIN p.jobs : p.jobs[j] = "uploading" => j = u.job
             /\ u.at \in {"put", "complete", "created"} => Claimed(d, TokenOf(u))
        BY <1>2 DEF OneRun
    <2>2. Claimed(d, TokenOf(u)) => Claimed(e, TokenOf(u))
        BY ClaimsStay
    <2> QED BY <1>2, <2>1, <2>2 DEF UploadsFit, OneRun
<1> QED BY <1>1, <1>2 DEF UploadsFit

\* Requests that are answered do not touch the page.
LEMMA AnswerIsGood ==
    ASSUME IndInv, NEW i \in DOMAIN flows, NEW g, NEW at, NEW reply, AnsweredFlow(flows[i], g, at, reply),
           flows' = [flows EXCEPT ![i] = g], UNCHANGED <<page, uploads, consent>>,
           IsStored(disk'), UploadsFit(uploads, page, disk'), active' \in Workspaces, StepOK, Counted
    PROVE  GoodStep
<1>1. g \in GoodFlows(consent) /\ GoesOn(flows[i], g)
    BY FlowsAre, AnsweredIs
<1>2. FlowsFit(flows', page.folder, page.trail, page.busy, consent)
    BY <1>1, InvariantIs, ChangedFits
<1>3. PageFits(page) /\ page.run <= clicks' /\ consent \in Consents
    BY InvariantIs DEF Counted
<1> QED BY <1>2, <1>3 DEF GoodStep, Fits

LEMMA ServeStep ==
    ASSUME IndInv, NEW i, Serve(i)
    PROVE  GoodStep /\ Counted
<1>1. i \in DOMAIN flows /\ flows[i].at = "call" /\ flows[i] \in GoodFlows(consent)
    BY FlowsAre DEF Serve
<1>2. PICK r : r = Head(flows[i].todo)
    OBVIOUS
<1>3. r \in AskedRequests(consent)
    <2>1. flows[i].todo \in Seq(AskedRequests(consent)) /\ flows[i].todo # <<>>
        BY <1>1, FlowOf DEF GoodFlow
    <2> QED BY <1>2, <2>1, HeadTailProperties
<1>4. PICK o \in Outcomes(disk, active, r) :
             /\ disk' = o.disk
             /\ active' = IF r.op = "switch" /\ o.reply.ok THEN r.to ELSE active
             /\ flows' = [flows EXCEPT ![i] = [@ EXCEPT !.at = "back", !.reply = o.reply]]
    BY <1>2 DEF Serve
<1>5. Served(disk, active, o, consent)
    BY <1>3, <1>4, InvariantIs, OutcomesAreServed
<1>6. /\ o.reply \in Replies /\ Keeps(disk, disk', active) /\ IsStored(disk')
      /\ \A f \in disk.object \ disk'.object : Confirmed(disk, f, consent)
    BY <1>4, <1>5 DEF Served, Keeps
<1>7. UNCHANGED <<page, uploads, consent>> /\ Counted
    BY InvariantIs DEF Serve, Counted
<1>8. StepOK
    BY <1>6 DEF StepOK, Keeps
<1>9. active' \in Workspaces
    BY <1>3, <1>4, InvariantIs DEF AskedRequests, Asked
<1>10. UploadsFit(uploads, page, disk')
    BY <1>6, InvariantIs, RunsOn
<1>11. PICK g : g = [flows[i] EXCEPT !.at = "back", !.reply = o.reply]
    OBVIOUS
<1>12. AnsweredFlow(flows[i], g, "back", o.reply)
    BY <1>1, <1>6, <1>11 DEF AnsweredFlow
<1>13. flows' = [flows EXCEPT ![i] = g]
    BY <1>1, <1>4, <1>11
<1> QED BY <1>1, <1>6, <1>7, <1>8, <1>9, <1>10, <1>12, <1>13, AnswerIsGood

LEMMA LoseStep ==
    ASSUME IndInv, NEW i, Lose(i)
    PROVE  GoodStep /\ Counted
<1>1. /\ i \in DOMAIN flows /\ flows[i].at \in {"call", "back", "list"} /\ flows[i] \in GoodFlows(consent)
      /\ UNCHANGED <<disk, active, page, uploads, clicks, habit, consent>>
      /\ troubles < MaxTroubles /\ troubles' = troubles + 1
    BY FlowsAre DEF Lose, Trouble
<1>2. PICK f : f = flows[i]
    OBVIOUS
<1>3. PICK g : g = IF f.at = "list" THEN [f EXCEPT !.at = "unlisted"]
                   ELSE [f EXCEPT !.at = "back", !.reply = Failure]
    OBVIOUS
<1>4. flows' = [flows EXCEPT ![i] = g]
    BY <1>1, <1>2, <1>3 DEF Lose
<1>5. f \in GoodFlows(consent) /\ f.reply \in Replies /\ f.at \in {"call", "back", "list"} /\ Failure \in Replies
    BY <1>1, <1>2, FlowOf, RepliesAre
<1>6. /\ f.at = "list" => AnsweredFlow(f, g, "unlisted", f.reply)
      /\ f.at # "list" => AnsweredFlow(f, g, "back", Failure)
    <2>1. f.at = "list" => g = [f EXCEPT !.at = "unlisted", !.reply = f.reply]
        <3>1. f = [fn |-> f.fn, at |-> f.at, section |-> f.section, folder |-> f.folder, todo |-> f.todo,
                   reply |-> f.reply, live |-> f.live]
            BY <1>5, FlowOf
        <3> QED BY <1>3, <3>1
    <2> QED BY <1>3, <1>5, <2>1 DEF AnsweredFlow, Answered
<1>7. Counted
    BY <1>1, BoundsAssumption, InvariantIs DEF Counted
<1>8. StepOK
    BY <1>1, SameDiskIsOK
<1>9. \E at, reply : AnsweredFlow(flows[i], g, at, reply)
    BY <1>2, <1>6
<1> QED BY <1>1, <1>4, <1>7, <1>8, <1>9, InvariantIs, AnswerIsGood

LEMMA ListsReply ==
    ASSUME IndInv, NEW f
    PROVE  Lists(f) \in Replies
<1>1. PICK listed : listed = ListFiles(disk, active, f.section, f.folder).reply /\ listed \in Replies
    BY InvariantIs, ListsAre
<1>2. PICK inside : inside = ListFolders(disk, active, f.folder, FALSE).reply /\ inside \in Replies
    BY InvariantIs, ListsAre
<1>3. PICK trash : trash = ListTrash(disk, active).reply /\ trash \in Replies
    BY InvariantIs, ListsAre
<1>4. Reply(listed.files, inside.folders) \in Replies /\ Failure \in Replies
    <2>1. listed.files \in SUBSET Files /\ inside.folders \in SUBSET Folders
        BY <1>1, <1>2 DEF Replies
    <2> QED BY <2>1, RepliesAre
<1>5. Lists(f) \in {trash, Reply(listed.files, inside.folders), listed, Failure}
    BY <1>1, <1>2, <1>3 DEF Lists
<1> QED BY <1>1, <1>3, <1>4, <1>5

LEMMA ServeListStep ==
    ASSUME IndInv, NEW i, ServeList(i)
    PROVE  GoodStep /\ Counted
<1>1. /\ i \in DOMAIN flows /\ flows[i].at = "list" /\ flows[i] \in GoodFlows(consent)
      /\ UNCHANGED <<disk, active, page, uploads, clicks, troubles, habit, consent>>
    BY FlowsAre DEF ServeList
<1>2. PICK r : r = Lists(flows[i]) /\ r \in Replies
    BY ListsReply
<1>3. PICK at : at = (IF r.ok THEN "listed" ELSE "unlisted") /\ at \in Answered
    BY DEF Answered
<1>4. PICK g : g = [flows[i] EXCEPT !.at = at, !.reply = r]
    OBVIOUS
<1>5. flows' = [flows EXCEPT ![i] = g]
    <2>1. flows' = [flows EXCEPT ![i].at = at, ![i].reply = r]
        BY <1>2, <1>3 DEF ServeList
    <2> QED BY <1>1, <1>4, <2>1
<1>6. AnsweredFlow(flows[i], g, at, r)
    BY <1>1, <1>2, <1>3, <1>4 DEF AnsweredFlow, Answered
<1>7. Counted /\ StepOK
    BY <1>1, InvariantIs, SameDiskIsOK DEF Counted
<1> QED BY <1>1, <1>5, <1>6, <1>7, InvariantIs, AnswerIsGood

LEMMA NextRequestStep ==
    ASSUME IndInv, NEW i, NextRequest(i)
    PROVE  GoodStep /\ Counted
<1>1. /\ i \in DOMAIN flows /\ flows[i] \in GoodFlows(consent) /\ Len(flows[i].todo) > 1
      /\ flows[i].at = "back"
    BY FlowsAre DEF NextRequest, Replied
<1>2. PICK f : f = flows[i]
    OBVIOUS
<1>3. PICK g : g = [f EXCEPT !.at = "call", !.todo = Tail(@)]
    OBVIOUS
<1>4. /\ f \in [fn : Fns, at : {"call", "back"} \cup Answered, section : Sections, folder : Folders \cup {Root},
                todo : Seq(AskedRequests(consent)), reply : Replies, live : BOOLEAN]
      /\ GoodFlow(f) /\ Len(f.todo) > 1 /\ f.at = "back"
    BY <1>1, <1>2 DEF GoodFlows
<1>5. PICK tail : tail = Tail(f.todo) /\ tail \in Seq(AskedRequests(consent)) /\ tail # <<>>
    <2>1. f.todo \in Seq(AskedRequests(consent)) /\ Len(f.todo) > 1 /\ f.todo # <<>>
        BY <1>4, EmptySeq DEF GoodFlow
    <2>2. Tail(f.todo) \in Seq(AskedRequests(consent)) /\ Len(Tail(f.todo)) = Len(f.todo) - 1
        BY <2>1, HeadTailProperties
    <2>3. PICK n \in Nat : n = Len(f.todo)
        BY <2>1, LenProperties
    <2>4. n > 1
        BY <2>1, <2>3
    <2>5. Len(Tail(f.todo)) # 0
        <3>1. Len(Tail(f.todo)) = n - 1
            BY <2>2, <2>3
        <3>2. n - 1 # 0
            BY <2>4
        <3> QED BY <3>1, <3>2
    <2>6. Tail(f.todo) # <<>>
        BY <2>5, EmptySeq
    <2> QED BY <2>2, <2>6
<1>6. g = [f EXCEPT !.at = "call", !.todo = tail]
    BY <1>3, <1>4, <1>5
<1>7. /\ g \in [fn : Fns, at : {"call", "back"} \cup Answered, section : Sections, folder : Folders \cup {Root},
                todo : Seq(AskedRequests(consent)), reply : Replies, live : BOOLEAN]
      /\ g.fn = f.fn /\ g.live = f.live /\ g.at = "call" /\ g.todo = tail
    BY <1>4, <1>5, <1>6
<1>8. f.fn # "crumbs"
    <2>1. PICK n : n = Len(f.todo)
        OBVIOUS
    <2>2. f.fn = "crumbs" => n = 1
        BY <1>4, <2>1 DEF GoodFlow
    <2>3. n > 1
        BY <1>4, <2>1
    <2> QED BY <2>2, <2>3
<1>9. GoodFlow(g)
    BY <1>5, <1>7, <1>8 DEF GoodFlow, Answered
<1>10. g \in GoodFlows(consent) /\ GoesOn(f, g)
    BY <1>7, <1>8, <1>9 DEF GoodFlows, GoesOn, LiveCrumbs
<1>11. GoesOnWell(page, i, g)
    BY <1>1, <1>2, <1>10, InvariantIs DEF GoesOnWell, SameRun
<1>12. Resume(page, With(i, g))
    BY <1>2, <1>3 DEF NextRequest
<1> QED BY <1>11, <1>12, GoesOnIsGood

LEMMA RefreshingFits ==
    ASSUME NEW p, PageFits(p), NEW q, q = Refreshing(p)
    PROVE  PageFits(q) /\ SameRun(q, p) /\ q.trail = p.trail /\ q.busy = p.busy
<1>1. p \in Page
    BY DEF PageFits
<1>2. q \in Page /\ q.trail = p.trail /\ q.busy = p.busy /\ SameRun(q, p) /\ SameSelection(p, q)
    BY <1>1 DEF Refreshing, Page, SameRun, SameSelection
<1> QED BY <1>2, SameSelectionFits

LEMMA DialogDoneStep ==
    ASSUME IndInv, NEW i, DialogDone(i)
    PROVE  GoodStep /\ Counted
<1>1. /\ i \in DOMAIN flows /\ flows[i] \in GoodFlows(consent) /\ flows[i].fn \in DialogFns
    BY FlowsAre DEF DialogDone, LastReply, Replied
<1>2. PICK f, r, q, q1, q2 :
         /\ f = flows[i] /\ r = Head(f.todo) /\ q = CloseDialog(page, DialogOf(f.fn))
         /\ q1 = [q EXCEPT !.preview = IF r.op = "deleteFile" /\ @ \in r.files THEN NoId ELSE @]
         /\ q2 = Refreshing(q1)
    OBVIOUS
<1>3. Resume(q2, With(i, ToList(f)))
    BY <1>2 DEF DialogDone
<1>4. PageFits(q) /\ SameRun(q, page) /\ q.trail = page.trail /\ q.busy = page.busy
    BY <1>2, InvariantIs, ClosedFits
<1>5. PageFits(q1) /\ SameRun(q1, q) /\ q1.trail = q.trail /\ q1.busy = q.busy
    <2>1. PICK x : x = IF r.op = "deleteFile" /\ q.preview \in r.files THEN NoId ELSE q.preview
        OBVIOUS
    <2>2. q \in Page
        BY <1>4 DEF PageFits
    <2>3. x \in Files \cup {NoId}
        BY <2>1, <2>2 DEF Page
    <2>4. q1 = [q EXCEPT !.preview = x]
        BY <1>2, <2>1, <2>2
    <2>5. q1 \in Page /\ q1.trail = q.trail /\ q1.busy = q.busy /\ SameRun(q1, q) /\ SameSelection(q, q1)
        BY <2>2, <2>3, <2>4 DEF Page, SameRun, SameSelection
    <2> QED BY <1>4, <2>5, SameSelectionFits
<1>6. PageFits(q2) /\ SameRun(q2, q1) /\ q2.trail = q1.trail /\ q2.busy = q1.busy
    <2>1. q2 = Refreshing(q1) /\ PageFits(q1)
        BY <1>2, <1>5
    <2> QED BY <2>1, RefreshingFits
<1>7. PICK g : g = ToList(f) /\ g \in GoodFlows(consent) /\ GoesOn(f, g)
    BY <1>1, <1>2, ListFlow DEF DialogFns
<1>8. SameRun(q2, page)
    BY <1>4, <1>5, <1>6, NothingIsWaiting DEF SameRun
<1>9. GoesOnWell(q2, i, g)
    BY <1>1, <1>2, <1>4, <1>5, <1>6, <1>7, <1>8 DEF GoesOnWell
<1> QED BY <1>3, <1>7, <1>9, GoesOnIsGood

LEMMA DialogFailedStep ==
    ASSUME IndInv, NEW i, DialogFailed(i)
    PROVE  GoodStep /\ Counted
<1>1. /\ i \in DOMAIN flows /\ flows[i] \in GoodFlows(consent) /\ flows[i].fn \in DialogFns
    BY FlowsAre DEF DialogFailed, Replied
<1>2. PICK q : q = IF flows[i].fn = "confirm" THEN CloseDialog(page, ConfirmModes) ELSE page
    OBVIOUS
<1>3. PICK q1 : q1 = [q EXCEPT !.busy = FALSE]
    OBVIOUS
<1>4. Resume(q1, Ended(i))
    BY <1>2, <1>3 DEF DialogFailed
<1>5. PageFits(q) /\ SameRun(q, page) /\ q.trail = page.trail
    BY <1>2, InvariantIs, ClosedFits DEF SameRun
<1>6. PageFits(q1) /\ SameRun(q1, q) /\ q1.trail = q.trail /\ q1.busy = FALSE
    <2>1. q \in Page
        BY <1>5 DEF PageFits
    <2>2. q1 \in Page /\ q1.trail = q.trail /\ q1.busy = FALSE /\ SameRun(q1, q) /\ SameSelection(q, q1)
        BY <1>3, <2>1 DEF Page, SameRun, SameSelection
    <2> QED BY <1>5, <2>2, SameSelectionFits
<1>7. SameRun(q1, page)
    BY <1>5, <1>6, NothingIsWaiting DEF SameRun
<1>8. EndsWell(q1, i)
    BY <1>1, <1>5, <1>6, <1>7 DEF EndsWell, LiveCrumbs, DialogFns
<1> QED BY <1>4, <1>8, EndedIsGood

LEMMA DeselectedFits ==
    ASSUME NEW p, PageFits(p), NEW q, q = NoSelection(p)
    PROVE  PageFits(q) /\ SameRun(q, p) /\ q.trail = p.trail /\ q.busy = p.busy
<1>1. p \in Page
    BY DEF PageFits
<1>2. /\ q \in Page /\ q.trail = p.trail /\ q.busy = p.busy /\ SameRun(q, p) /\ q.dialog = p.dialog
      /\ q.selected = {} /\ q.kinds = {}
    BY <1>1 DEF NoSelection, Page, SameRun
<1>3. DialogFits(q)
    BY <1>2 DEF DialogFits, PageFits
<1> QED BY <1>2, <1>3, NoSelectionFits

LEMMA MoveDoneStep ==
    ASSUME IndInv, NEW i, MoveDone(i)
    PROVE  GoodStep /\ Counted
<1>1. /\ i \in DOMAIN flows /\ flows[i] \in GoodFlows(consent) /\ flows[i].fn = "move"
    BY FlowsAre DEF MoveDone, LastReply, Replied
<1>2. PICK q : q = NoSelection(page)
    OBVIOUS
<1>3. PICK q1 : q1 = Refreshing(q)
    OBVIOUS
<1>4. PICK g : g = ToList(flows[i])
    OBVIOUS
<1>5. Resume(q1, With(i, g))
    BY <1>2, <1>3, <1>4 DEF MoveDone
<1>6. PageFits(q) /\ SameRun(q, page) /\ q.trail = page.trail /\ q.busy = page.busy
    BY <1>2, InvariantIs, DeselectedFits
<1>7. PageFits(q1) /\ SameRun(q1, q) /\ q1.trail = q.trail /\ q1.busy = q.busy
    BY <1>3, <1>6, RefreshingFits
<1>8. g \in GoodFlows(consent) /\ GoesOn(flows[i], g)
    BY <1>1, <1>4, ListFlow
<1>9. SameRun(q1, page)
    BY <1>6, <1>7, NothingIsWaiting DEF SameRun
<1>10. GoesOnWell(q1, i, g)
    BY <1>1, <1>6, <1>7, <1>8, <1>9 DEF GoesOnWell
<1> QED BY <1>5, <1>10, GoesOnIsGood

LEMMA ThenRefreshStep ==
    ASSUME IndInv, NEW i, ThenRefresh(i)
    PROVE  GoodStep /\ Counted
<1>1. /\ i \in DOMAIN flows /\ flows[i] \in GoodFlows(consent) /\ flows[i].fn \in {"restore", "copy"}
    BY FlowsAre DEF ThenRefresh, LastReply, Replied
<1>2. PICK q : q = Refreshing(page)
    OBVIOUS
<1>3. PICK g : g = ToList(flows[i])
    OBVIOUS
<1>4. Resume(q, With(i, g))
    BY <1>2, <1>3 DEF ThenRefresh
<1>5. PageFits(q) /\ SameRun(q, page) /\ q.trail = page.trail /\ q.busy = page.busy
    BY <1>2, InvariantIs, RefreshingFits
<1>6. g \in GoodFlows(consent) /\ GoesOn(flows[i], g)
    BY <1>1, <1>3, ListFlow
<1>7. GoesOnWell(q, i, g)
    BY <1>1, <1>5, <1>6 DEF GoesOnWell
<1> QED BY <1>4, <1>7, GoesOnIsGood

\* What the end of a flow that has to do with no dialog and no trail leaves of the page.
LEMMA PlainEnd ==
    ASSUME IndInv, NEW i \in DOMAIN flows, flows[i].fn \notin DialogFns \cup {"crumbs"},
           NEW q, SetsWell(q)
    PROVE  EndsWell(q, i)
BY DEF SetsWell, EndsWell, LiveCrumbs

LEMMA PageSets ==
    ASSUME IndInv
    PROVE  SetsWell(page)
BY InvariantIs DEF SetsWell, SameRun

LEMMA ViewSets ==
    ASSUME IndInv, NEW q \in Page, SameSelection(page, q), SameRun(q, page), q.trail = page.trail,
           q.busy = page.busy
    PROVE  SetsWell(q)
BY InvariantIs, SameSelectionFits DEF SetsWell

LEMMA MoveFailedStep ==
    ASSUME IndInv, NEW i, MoveFailed(i)
    PROVE  GoodStep /\ Counted
<1>1. /\ i \in DOMAIN flows /\ flows[i] \in GoodFlows(consent) /\ flows[i].fn = "move"
    BY FlowsAre DEF MoveFailed, Replied
<1>2. page \in Page
    BY InvariantIs
<1>3. PICK moving \in BOOLEAN : moving <=> (page.moving /\ ~flows[i].live)
    OBVIOUS
<1>4. PICK q : q = [page EXCEPT !.moving = moving]
    OBVIOUS
<1>5. Resume(q, Ended(i))
    <2>1. page.moving \in BOOLEAN /\ flows[i].live \in BOOLEAN
        BY <1>1, <1>2, FlowOf DEF Page
    <2>2. [page EXCEPT !.moving = @ /\ ~flows[i].live] = q
        BY <1>2, <1>3, <1>4, <2>1
    <2> QED BY <2>2 DEF MoveFailed
<1>6. q \in Page /\ SameSelection(page, q) /\ SameRun(q, page) /\ q.trail = page.trail /\ q.busy = page.busy
    BY <1>2, <1>4 DEF Page, SameRun, SameSelection
<1>7. EndsWell(q, i)
    BY <1>1, <1>6, ViewSets, PlainEnd DEF DialogFns
<1> QED BY <1>5, <1>7, EndedIsGood

LEMMA GivenUpStep ==
    ASSUME IndInv, NEW i, GivenUp(i)
    PROVE  GoodStep /\ Counted
<1>1. i \in DOMAIN flows /\ flows[i].fn \in {"restore", "copy", "switch"}
    BY DEF GivenUp, Replied
<1>2. EndsWell(page, i)
    BY <1>1, PageSets, PlainEnd DEF DialogFns
<1>3. Resume(page, Ended(i))
    BY DEF GivenUp
<1> QED BY <1>2, <1>3, EndedIsGood

LEMMA ExtractDoneStep ==
    ASSUME IndInv, NEW i, ExtractDone(i)
    PROVE  GoodStep /\ Counted
<1>1. /\ i \in DOMAIN flows /\ flows[i] \in GoodFlows(consent) /\ flows[i].fn = "extract"
    BY FlowsAre DEF ExtractDone, LastReply, Replied
<1>2. PICK p \in flows[i].reply.folders :
         Resume([NoSelection(page) EXCEPT !.section = "my-files", !.folder = p, !.preview = NoId,
                                          !.extracting = NoId], Ended(i))
    BY DEF ExtractDone
<1>3. p \in Folders
    BY <1>1, FlowOf
<1>4. PICK q : q = NoSelection(page)
    OBVIOUS
<1>5. PICK q1 : q1 = [q EXCEPT !.section = "my-files", !.folder = p, !.preview = NoId, !.extracting = NoId]
    OBVIOUS
<1>6. Resume(q1, Ended(i))
    BY <1>2, <1>4, <1>5
<1>7. PageFits(q) /\ SameRun(q, page) /\ q.trail = page.trail /\ q.busy = page.busy
    BY <1>4, InvariantIs, DeselectedFits
<1>8. q1 \in Page /\ SameSelection(q, q1) /\ SameRun(q1, q) /\ q1.trail = q.trail /\ q1.busy = q.busy
    <2>1. q \in Page
        BY <1>7 DEF PageFits
    <2> QED BY <1>3, <1>5, <2>1, PageAssumption DEF Page, SameRun, SameSelection
<1>9. PageFits(q1) /\ SameRun(q1, page)
    BY <1>7, <1>8, SameSelectionFits, NothingIsWaiting DEF SameRun
<1>10. SetsWell(q1)
    BY <1>7, <1>8, <1>9 DEF SetsWell
<1>11. EndsWell(q1, i)
    BY <1>1, <1>10, PlainEnd DEF DialogFns
<1> QED BY <1>6, <1>11, EndedIsGood

LEMMA ExtractFailedStep ==
    ASSUME IndInv, NEW i, ExtractFailed(i)
    PROVE  GoodStep /\ Counted
<1>1. i \in DOMAIN flows /\ flows[i].fn = "extract"
    BY DEF ExtractFailed, Replied
<1>2. PICK q : q = [page EXCEPT !.extracting = NoId]
    OBVIOUS
<1>3. Resume(q, Ended(i))
    BY <1>2 DEF ExtractFailed
<1>4. page \in Page
    BY InvariantIs
<1>5. q \in Page /\ SameSelection(page, q) /\ SameRun(q, page) /\ q.trail = page.trail /\ q.busy = page.busy
    BY <1>2, <1>4 DEF Page, SameRun, SameSelection
<1>6. EndsWell(q, i)
    BY <1>1, <1>5, ViewSets, PlainEnd DEF DialogFns
<1> QED BY <1>3, <1>6, EndedIsGood

LEMMA CrumbsAnsweredStep ==
    ASSUME IndInv, NEW i, CrumbsAnswered(i)
    PROVE  GoodStep /\ Counted
<1>1. /\ i \in DOMAIN flows /\ flows[i] \in GoodFlows(consent) /\ flows[i].fn = "crumbs"
      /\ flows[i].at = "back" /\ (LiveCrumbs(flows[i]) => flows[i].todo[1].to = page.folder)
    BY FlowsAre DEF CrumbsAnswered
<1>2. PICK f : f = flows[i]
    OBVIOUS
<1>3. PICK trail : trail = IF f.reply.ok THEN Head(f.todo).to ELSE Root
    OBVIOUS
<1>4. PICK q : q = IF f.live THEN [page EXCEPT !.trail = trail] ELSE page
    OBVIOUS
<1>5. Resume(q, Ended(i))
    BY <1>2, <1>3, <1>4 DEF CrumbsAnswered
<1>6. page \in Page /\ f.live \in BOOLEAN
    BY <1>1, <1>2, InvariantIs, FlowOf
<1>7. CASE f.live
    <2>1. Head(f.todo) = f.todo[1]
        <3>1. f.todo \in Seq(AskedRequests(consent)) /\ f.todo # <<>>
            BY <1>1, <1>2, FlowOf DEF GoodFlow
        <3> QED BY <3>1
    <2>2. trail \in {Root, page.folder}
        BY <1>1, <1>2, <1>3, <1>7, <2>1 DEF LiveCrumbs
    <2>3. trail \in Folders \cup {Root}
        BY <1>6, <2>2 DEF Page
    <2>4. q \in Page /\ SameSelection(page, q) /\ SameRun(q, page) /\ q.trail = trail /\ q.busy = page.busy
        BY <1>4, <1>6, <1>7, <2>3 DEF Page, SameRun, SameSelection
    <2>5. PageFits(q)
        BY <2>4, InvariantIs, SameSelectionFits
    <2>6. EndsWell(q, i)
        BY <1>1, <1>2, <1>7, <2>2, <2>4, <2>5 DEF EndsWell, LiveCrumbs, DialogFns
    <2> QED BY <1>5, <2>6, EndedIsGood
<1>8. CASE ~f.live
    <2>1. q = page
        BY <1>4, <1>8
    <2>2. EndsWell(page, i)
        BY <1>1, <1>2, <1>8, PageSets DEF SetsWell, EndsWell, LiveCrumbs, DialogFns
    <2> QED BY <1>5, <2>1, <2>2, EndedIsGood
<1> QED BY <1>6, <1>7, <1>8

LEMMA TreeAnsweredStep ==
    ASSUME IndInv, NEW i, TreeAnswered(i)
    PROVE  GoodStep /\ Counted
<1>1. /\ i \in DOMAIN flows /\ flows[i] \in GoodFlows(consent) /\ flows[i].fn = "tree"
    BY FlowsAre DEF TreeAnswered
<1>2. PICK tree : tree = IF flows[i].live THEN flows[i].reply.folders ELSE page.tree
    OBVIOUS
<1>3. PICK q : q = [page EXCEPT !.tree = tree]
    OBVIOUS
<1>4. page \in Page
    BY InvariantIs
<1>5. tree \in SUBSET Folders
    BY <1>1, <1>2, <1>4, FlowOf DEF Page
<1>6. Resume(q, Ended(i))
    BY <1>2, <1>3, <1>4 DEF TreeAnswered
<1>7. q \in Page /\ SameSelection(page, q) /\ SameRun(q, page) /\ q.trail = page.trail /\ q.busy = page.busy
    BY <1>3, <1>4, <1>5 DEF Page, SameRun, SameSelection
<1>8. EndsWell(q, i)
    BY <1>1, <1>7, ViewSets, PlainEnd DEF DialogFns
<1> QED BY <1>6, <1>8, EndedIsGood

LEMMA SwitchAnsweredStep ==
    ASSUME IndInv, NEW i, SwitchAnswered(i)
    PROVE  GoodStep /\ Counted
<1>1. i \in DOMAIN flows /\ flows[i].fn = "switch"
    BY DEF SwitchAnswered, LastReply, Replied
<1>2. PICK q : q = [page EXCEPT !.ws = active]
    OBVIOUS
<1>3. /\ page' = Effects(q, Ended(i), TRUE).page /\ flows' = Effects(q, Ended(i), TRUE).flows
      /\ UNCHANGED <<disk, active, uploads, clicks, troubles, habit, consent>>
    BY <1>2 DEF SwitchAnswered
<1>4. Quiet /\ Counted
    BY <1>3, InvariantIs DEF Quiet, Counted
<1>5. page \in Page /\ active \in Workspaces
    BY InvariantIs
<1>6. q \in Page /\ SameSelection(page, q) /\ SameRun(q, page) /\ q.trail = page.trail /\ q.busy = page.busy
    BY <1>2, <1>5 DEF Page, SameRun, SameSelection
<1>7. EndsWell(q, i)
    BY <1>1, <1>6, ViewSets, PlainEnd DEF DialogFns
<1> QED BY <1>3, <1>4, <1>7, EndIsGood

LEMMA AfterRefreshEnds ==
    ASSUME IndInv, NEW i \in DOMAIN flows, flows[i].at \in Answered, NEW p, SetsWell(p),
           NEW q, q = AfterRefresh(p, flows[i])
    PROVE  EndsWell(q, i)
<1>1. flows[i] \in GoodFlows(consent) /\ flows[i].fn # "crumbs" /\ flows[i].live \in BOOLEAN
    BY FlowsAre, FlowOf DEF GoodFlow
<1>2. p \in Page /\ PageFits(p)
    BY DEF SetsWell, PageFits
<1>3. CASE flows[i].fn \in DialogFns
    <2>1. q = [p EXCEPT !.busy = FALSE]
        BY <1>3 DEF AfterRefresh, DialogFns
    <2>2. q \in Page /\ SameSelection(p, q) /\ SameRun(q, p) /\ q.trail = p.trail /\ q.busy = FALSE
        BY <1>2, <2>1 DEF Page, SameRun, SameSelection
    <2>3. PageFits(q) /\ SameRun(q, page)
        BY <1>2, <2>2, SameSelectionFits, NothingIsWaiting DEF SetsWell, SameRun
    <2> QED BY <1>1, <1>3, <2>2, <2>3 DEF EndsWell, LiveCrumbs, SetsWell
<1>4. CASE flows[i].fn = "move"
    <2>1. PICK r : r = CloseDialog(p, {"move", "copy"})
        OBVIOUS
    <2>2. PageFits(r) /\ SameRun(r, p) /\ r.trail = p.trail /\ r.busy = p.busy
        BY <1>2, <2>1, ClosedFits
    <2>3. r \in Page /\ r.moving \in BOOLEAN
        BY <2>2 DEF PageFits, Page
    <2>4. PICK moving \in BOOLEAN : moving <=> (r.moving /\ ~flows[i].live)
        OBVIOUS
    <2>5. q = [r EXCEPT !.moving = moving]
        <3>1. q = [r EXCEPT !.moving = @ /\ ~flows[i].live]
            BY <1>4, <2>1 DEF AfterRefresh, DialogFns
        <3> QED BY <1>1, <2>3, <2>4, <3>1
    <2>6. q \in Page /\ SameSelection(r, q) /\ SameRun(q, r) /\ q.trail = r.trail /\ q.busy = r.busy
        BY <2>3, <2>5 DEF Page, SameRun, SameSelection
    <2>7. PageFits(q) /\ SameRun(q, page)
        BY <2>2, <2>6, SameSelectionFits, NothingIsWaiting DEF SetsWell, SameRun
    <2>8. SetsWell(q)
        BY <2>2, <2>6, <2>7 DEF SetsWell
    <2> QED BY <1>4, <2>8, PlainEnd DEF DialogFns
<1>5. CASE flows[i].fn \notin DialogFns /\ flows[i].fn # "move"
    <2>1. q = p
        BY <1>5 DEF AfterRefresh
    <2> QED BY <1>1, <1>5, <2>1, PlainEnd
<1> QED BY <1>3, <1>4, <1>5

LEMMA ListedStep ==
    ASSUME IndInv, NEW i, Listed(i)
    PROVE  GoodStep /\ Counted
<1>1. /\ i \in DOMAIN flows /\ flows[i] \in GoodFlows(consent) /\ flows[i].at = "listed"
    BY FlowsAre DEF Listed
<1>2. PICK q : q = NoSelection(page)
    OBVIOUS
<1>3. PICK q1 : q1 = [q EXCEPT !.files = flows[i].reply.files, !.folders = flows[i].reply.folders,
                               !.loading = FALSE]
    OBVIOUS
<1>4. Resume(AfterRefresh(q1, flows[i]), Ended(i))
    BY <1>2, <1>3 DEF Listed
<1>5. page \in Page /\ q \in Page /\ SameRun(q, page) /\ q.trail = page.trail /\ q.busy = page.busy
      /\ q.dialog = page.dialog /\ q.selected = {} /\ q.kinds = {}
    BY <1>2, InvariantIs DEF NoSelection, Page, SameRun
<1>6. PICK files \in SUBSET Files, folders \in SUBSET Folders :
         files = flows[i].reply.files /\ folders = flows[i].reply.folders
    BY <1>1, FlowOf
<1>7. /\ q1 \in Page /\ q1.dialog = page.dialog /\ SameRun(q1, page) /\ q1.trail = page.trail
      /\ q1.busy = page.busy /\ q1.selected = {} /\ q1.kinds = {}
    <2>1. q1 = [q EXCEPT !.files = files, !.folders = folders, !.loading = FALSE]
        BY <1>3, <1>6
    <2>0. q \in Page
        BY <1>5
    <2>2. /\ q1 \in Page /\ q1.dialog = q.dialog /\ q1.trail = q.trail /\ q1.busy = q.busy
          /\ q1.selected = q.selected /\ q1.kinds = q.kinds
          /\ q1.run = q.run /\ q1.lock = q.lock /\ q1.jobs = q.jobs
        BY <2>0, <2>1 DEF Page
    <2> QED BY <1>5, <2>2 DEF SameRun
<1>8. DialogFits(q1)
    BY <1>7, InvariantIs DEF DialogFits, PageFits
<1>9. SetsWell(q1)
    BY <1>7, <1>8, NoSelectionFits DEF SetsWell
<1>10. EndsWell(AfterRefresh(q1, flows[i]), i)
    BY <1>1, <1>9, AfterRefreshEnds DEF Answered
<1> QED BY <1>4, <1>10, EndedIsGood

LEMMA UnlistedStep ==
    ASSUME IndInv, NEW i, Unlisted(i)
    PROVE  GoodStep /\ Counted
<1>1. i \in DOMAIN flows /\ flows[i].at = "unlisted"
    BY DEF Unlisted
<1>2. PICK q : q = [page EXCEPT !.loading = FALSE]
    OBVIOUS
<1>3. Resume(AfterRefresh(q, flows[i]), Ended(i))
    BY <1>2 DEF Unlisted
<1>4. page \in Page
    BY InvariantIs
<1>5. q \in Page /\ SameSelection(page, q) /\ SameRun(q, page) /\ q.trail = page.trail /\ q.busy = page.busy
    BY <1>2, <1>4 DEF Page, SameRun, SameSelection
<1>6. SetsWell(q)
    BY <1>5, ViewSets
<1>7. EndsWell(AfterRefresh(q, flows[i]), i)
    BY <1>1, <1>6, AfterRefreshEnds DEF Answered
<1> QED BY <1>3, <1>7, EndedIsGood

LEMMA FlowStepIsGood ==
    ASSUME IndInv, NEW i, FlowStep(i)
    PROVE  GoodStep /\ Counted
BY ServeStep, NextRequestStep, DialogDoneStep, DialogFailedStep, MoveDoneStep, MoveFailedStep, ThenRefreshStep,
   GivenUpStep, ExtractDoneStep, ExtractFailedStep, CrumbsAnsweredStep, TreeAnsweredStep, SwitchAnsweredStep,
   ServeListStep, ListedStep, UnlistedStep DEF FlowStep

-----------------------------------------------------------------------------
(* Uploads                                                                 *)

\* What is known of the one upload under way.
Sending(u, p, d) ==
    /\ u \in Upload /\ u.run = p.run /\ u.job <= u.size /\ p.lock
    /\ \A j \in DOMAIN p.jobs : p.jobs[j] = "uploading" => j = u.job
    /\ u.at \in {"put", "complete", "created"} => Claimed(d, TokenOf(u))

LEMMA TheUpload ==
    ASSUME IndInv, NEW k \in DOMAIN uploads
    PROVE  k = 1 /\ uploads = <<uploads[k]>> /\ Sending(uploads[k], page, disk)
<1>1. UploadsFit(uploads, page, disk)
    BY InvariantIs
<1>2. uploads # <<>>
    OBVIOUS
<1>3. page.lock /\ OneRun(uploads, page, disk)
    BY <1>1, <1>2 DEF UploadsFit
<1>4. PICK u \in Upload :
             /\ uploads = <<u>> /\ u.run = page.run /\ u.job <= u.size
             /\ \A j \in DOMAIN page.jobs : page.jobs[j] = "uploading" => j = u.job
             /\ u.at \in {"put", "complete", "created"} => Claimed(disk, TokenOf(u))
    BY <1>3 DEF OneRun
<1>5. k = 1 /\ uploads[k] = u
    BY <1>4
<1> QED BY <1>3, <1>4, <1>5 DEF Sending

LEMMA SendingFits ==
    ASSUME NEW u, NEW p, NEW d, Sending(u, p, d)
    PROVE  UploadsFit(<<u>>, p, d)
BY DEF Sending, UploadsFit, OneRun

LEMMA UploadOf ==
    ASSUME NEW u \in Upload
    PROVE  /\ u.run \in 1..MaxClicks /\ u.size \in 1..MaxDrop /\ u.job \in 1..MaxDrop /\ u.tries \in 1..MaxTries
           /\ u.folder \in Folders \cup {Root} /\ u.job \in Nat /\ u.size \in Nat
           /\ u.section \in Sections /\ u.ws \in Workspaces \cup {Nobody} /\ u.key \in Files \cup {NoId}
<1>1. u.size \in 1..MaxDrop /\ u.job \in 1..MaxDrop /\ MaxDrop \in Nat
    BY BoundsAssumption DEF Upload
<1> QED BY <1>1 DEF Upload

\* p with the status of one of its jobs changed.
JobIs(q, p, u, status) ==
    /\ q \in Page /\ SameSelection(p, q) /\ q.run = p.run /\ q.lock = p.lock /\ q.trail = p.trail
    /\ q.busy = p.busy /\ DOMAIN q.jobs = DOMAIN p.jobs
    /\ \A j \in DOMAIN p.jobs :
          q.jobs[j] = IF p.run = u.run /\ j = u.job THEN status ELSE p.jobs[j]

LEMMA JobAsIs ==
    ASSUME NEW p \in Page, NEW u, NEW status \in JobStatus, NEW q, q = JobAs(p, u, status)
    PROVE  JobIs(q, p, u, status)
<1>1. CASE p.run = u.run /\ u.job \in DOMAIN p.jobs
    <2>1. PICK n \in 0..MaxDrop : p.jobs \in [1..n -> JobStatus]
        BY DEF Page
    <2>2. PICK jobs : jobs = [p.jobs EXCEPT ![u.job] = status]
        OBVIOUS
    <2>3. jobs \in [1..n -> JobStatus] /\ DOMAIN jobs = DOMAIN p.jobs
          /\ \A j \in DOMAIN p.jobs : jobs[j] = IF j = u.job THEN status ELSE p.jobs[j]
        BY <2>1, <2>2
    <2>4. jobs \in UNION {[1..m -> JobStatus] : m \in 0..MaxDrop}
        BY <2>3
    <2>5. q = [p EXCEPT !.jobs = jobs]
        BY <1>1, <2>2 DEF JobAs, Page
    <2>6. /\ q \in Page /\ SameSelection(p, q) /\ q.run = p.run /\ q.lock = p.lock /\ q.trail = p.trail
          /\ q.busy = p.busy /\ q.jobs = jobs
        BY <2>4, <2>5 DEF Page, SameSelection
    <2> QED BY <1>1, <2>3, <2>6 DEF JobIs
<1>2. CASE ~(p.run = u.run /\ u.job \in DOMAIN p.jobs)
    <2>1. q = p
        BY <1>2 DEF JobAs
    <2> QED BY <1>2, <2>1 DEF JobIs, SameSelection
<1> QED BY <1>1, <1>2

LEMMA UploadRenderIsGood ==
    ASSUME IndInv, Counted, NEW q, NEW us, NEW d, us = uploads', d = disk',
           Before(q, flows, us, d, consent), q.run <= clicks', Render(q, flows),
           IsStored(d), StepOK, UNCHANGED <<active, consent>>
    PROVE  GoodStep
<1>1. page' = Effects(q, flows, FALSE).page /\ flows' = Effects(q, flows, FALSE).flows
    BY DEF Render
<1>2. Fits(page', flows', us, d, consent) /\ page'.run = q.run
    BY <1>1, EffectsFit
<1>3. active' = active /\ consent' = consent
    OBVIOUS
<1>4. Fits(page', flows', uploads', disk', consent')
    BY <1>2, <1>3
<1> QED BY <1>2, <1>3, <1>4, InvariantIs DEF GoodStep

\* The page when a job has its status and the lock is given back or kept.
LEMMA JobDone ==
    ASSUME NEW p, PageFits(p), NEW u, NEW d, Sending(u, p, d), NEW status \in JobStatus \ {"uploading"},
           NEW added \in SUBSET Files, NEW q, q = JobAs([p EXCEPT !.files = @ \cup added], u, status)
    PROVE  /\ PageFits(q) /\ q.trail = p.trail /\ q.busy = p.busy /\ q.run = p.run /\ q.lock = p.lock
           /\ \A j \in DOMAIN q.jobs : q.jobs[j] # "uploading"
<1>1. PICK r : r = [p EXCEPT !.files = @ \cup added]
    OBVIOUS
<1>2. p \in Page /\ p.files \in SUBSET Files
    BY DEF PageFits, Page
<1>3. PICK files : files = p.files \cup added /\ files \in SUBSET Files
    BY <1>2
<1>4. r = [p EXCEPT !.files = files]
    BY <1>1, <1>2, <1>3
<1>a. p \in Page
    BY <1>2
<1>5. /\ r \in Page /\ r.trail = p.trail /\ r.busy = p.busy /\ r.run = p.run /\ r.lock = p.lock
      /\ r.jobs = p.jobs /\ r.selected = p.selected /\ r.kinds = p.kinds /\ r.dialog = p.dialog
      /\ r.files = files /\ r.folders = p.folders
    BY <1>3, <1>4, <1>a DEF Page
<1>6. PageFits(r)
    BY <1>3, <1>5 DEF PageFits, DialogFits
<1>7. JobIs(q, r, u, status)
    BY <1>1, <1>5, JobAsIs
<1>8. PageFits(q)
    BY <1>6, <1>7, SameSelectionFits DEF JobIs
<1>9. ASSUME NEW j \in DOMAIN q.jobs PROVE q.jobs[j] # "uploading"
    <2>1. /\ j \in DOMAIN p.jobs /\ r.run = u.run
          /\ q.jobs[j] = IF r.run = u.run /\ j = u.job THEN status ELSE p.jobs[j]
        BY <1>5, <1>7 DEF JobIs, Sending
    <2>2. j # u.job => p.jobs[j] # "uploading"
        BY <2>1 DEF Sending
    <2> QED BY <2>1, <2>2
<1>10. q.trail = r.trail /\ q.busy = r.busy /\ q.run = r.run /\ q.lock = r.lock
    BY <1>7 DEF JobIs
<1> QED BY <1>5, <1>8, <1>9, <1>10

\* The file of an upload is dealt with.
Dealt(k, status, stop, added) ==
    /\ k \in DOMAIN uploads /\ status \in JobStatus \ {"uploading"} /\ stop \in BOOLEAN /\ added \in SUBSET Files
    /\ NextFile(k, status, stop, added)

LEMMA NextFileIsGood ==
    ASSUME IndInv, Counted, NEW k, NEW status, NEW stop, NEW added, Dealt(k, status, stop, added),
           IsStored(disk'), StepOK, UNCHANGED <<active, consent>>
    PROVE  GoodStep
<1>0. /\ k \in DOMAIN uploads /\ status \in JobStatus \ {"uploading"} /\ stop \in BOOLEAN /\ added \in SUBSET Files
      /\ NextFile(k, status, stop, added)
    BY DEF Dealt
<1>1. PICK u : u = uploads[k]
    OBVIOUS
<1>2. k = 1 /\ uploads = <<u>> /\ Sending(u, page, disk)
    BY <1>0, <1>1, TheUpload
<1>3. PICK v : v = [u EXCEPT !.at = "init", !.job = @ + 1, !.tries = 1, !.aborted = FALSE,
                             !.ws = Nobody, !.key = NoId]
    OBVIOUS
<1>4. PICK p : p = JobAs([page EXCEPT !.files = @ \cup added], u, status)
    OBVIOUS
<1>5. /\ PageFits(p) /\ p.trail = page.trail /\ p.busy = page.busy /\ p.run = page.run /\ p.lock = page.lock
      /\ \A j \in DOMAIN p.jobs : p.jobs[j] # "uploading"
    <2>1. PageFits(page) /\ Sending(u, page, disk)
        BY <1>2, InvariantIs
    <2> QED BY <1>0, <1>4, <2>1, JobDone
<1>6. p \in Page /\ FlowsFit(flows, page.folder, p.trail, p.busy, consent) /\ p.run <= clicks'
    BY <1>5, InvariantIs DEF PageFits, Counted
<1>7. IF stop \/ u.job = u.size
      THEN Render([p EXCEPT !.lock = FALSE], flows) /\ uploads' = RemoveAt(uploads, k)
      ELSE Render(JobAs(p, v, "uploading"), flows) /\ uploads' = ReplaceAt(uploads, k, v)
    BY <1>0, <1>1, <1>3, <1>4 DEF NextFile
<1>8. CASE stop \/ u.job = u.size
    <2>1. PICK q : q = [p EXCEPT !.lock = FALSE]
        OBVIOUS
    <2>2. PICK us : us = uploads'
        OBVIOUS
    <2>3. us = <<>>
        <3>1. us = RemoveAt(<<u>>, 1)
            BY <1>2, <1>7, <1>8, <2>2
        <3>2. <<u>> \in Seq({u}) /\ Len(<<u>>) = 1 /\ 1 \in DOMAIN <<u>>
            OBVIOUS
        <3>3. PICK one : one = <<u>>
            OBVIOUS
        <3>4. one \in Seq({u}) /\ 1 \in DOMAIN one /\ us = RemoveAt(one, 1) /\ Len(one) = 1
            BY <3>1, <3>2, <3>3
        <3>5. us \in Seq({u}) /\ Len(us) = Len(one) - 1
            BY <3>4, Shortened
        <3>6. us \in Seq({u}) /\ Len(us) = 0
            BY <3>4, <3>5
        <3> QED BY <3>6, EmptySeq
    <2>4. /\ q \in Page /\ SameSelection(p, q) /\ q.trail = p.trail /\ q.busy = p.busy /\ q.run = p.run
          /\ q.lock = FALSE /\ q.jobs = p.jobs
        BY <1>6, <2>1 DEF Page, SameSelection
    <2>5. PageFits(q)
        BY <1>5, <2>4, SameSelectionFits
    <2>6. PICK d : d = disk'
        OBVIOUS
    <2>7. UploadsFit(us, q, d)
        BY <1>5, <2>3, <2>4 DEF UploadsFit
    <2>8. Before(q, flows, us, d, consent)
        BY <1>6, <2>4, <2>5, <2>7 DEF Before
    <2>9. Render(q, flows)
        BY <1>7, <1>8, <2>1
    <2> QED BY <1>6, <2>2, <2>4, <2>6, <2>8, <2>9, UploadRenderIsGood
<1>9. CASE ~(stop \/ u.job = u.size)
    <2>1. PICK q : q = JobAs(p, v, "uploading")
        OBVIOUS
    <2>2. PICK us : us = uploads'
        OBVIOUS
    <2>3. us = <<v>>
        BY <1>2, <1>7, <1>9, <2>2 DEF ReplaceAt
    <2>4. v \in Upload /\ v.at = "init" /\ v.job = u.job + 1 /\ v.run = u.run /\ v.size = u.size
        <3>1. u \in Upload /\ u.job \in 1..MaxDrop /\ u.size \in 1..MaxDrop /\ u.job <= u.size
              /\ u.job # u.size /\ MaxDrop \in Nat /\ 1 \in 1..MaxTries
            BY <1>2, <1>9, UploadOf, BoundsAssumption DEF Sending
        <3>2. PICK n : n = u.job + 1 /\ n \in 1..MaxDrop
            BY <3>1
        <3>3. v = [u EXCEPT !.at = "init", !.job = n, !.tries = 1, !.aborted = FALSE,
                            !.ws = Nobody, !.key = NoId]
            BY <1>3, <3>1, <3>2 DEF Upload
        <3> QED BY <3>1, <3>2, <3>3 DEF Upload
    <2>5. JobIs(q, p, v, "uploading")
        BY <1>6, <2>1, JobAsIs DEF JobStatus
    <2>6. PageFits(q)
        BY <1>5, <2>5, SameSelectionFits DEF JobIs
    <2>7. PICK d : d = disk'
        OBVIOUS
    <2>8. v.job <= v.size
        <3>1. u.job \in Nat /\ u.size \in Nat /\ u.job <= u.size /\ u.job # u.size
            BY <1>2, <1>9, UploadOf DEF Sending
        <3> QED BY <2>4, <3>1
    <2>9. \A j \in DOMAIN q.jobs : q.jobs[j] = "uploading" => j = v.job
        BY <1>5, <2>5 DEF JobIs
    <2>10. Sending(v, q, d)
        BY <1>2, <1>5, <2>4, <2>5, <2>8, <2>9 DEF Sending, JobIs
    <2>11. UploadsFit(us, q, d)
        BY <2>3, <2>10, SendingFits
    <2>12. Before(q, flows, us, d, consent) /\ q.run <= clicks'
        BY <1>6, <2>5, <2>6, <2>11 DEF Before, JobIs
    <2>13. Render(q, flows)
        BY <1>7, <1>9, <2>1
    <2> QED BY <2>2, <2>7, <2>12, <2>13, UploadRenderIsGood
<1> QED BY <1>0, <1>8, <1>9

\* The upload goes on, and nothing on the page shows it.
LEMMA GoOnIsGood ==
    ASSUME IndInv, Counted, NEW k \in DOMAIN uploads, NEW v, NEW d, d = disk', GoOn(k, v), Sending(v, page, d),
           IsStored(d), StepOK, UNCHANGED <<active, consent>>
    PROVE  GoodStep
<1>1. uploads' = <<v>> /\ page' = page /\ flows' = flows /\ active' = active /\ consent' = consent
    BY TheUpload DEF GoOn, ReplaceAt
<1>2. UploadsFit(<<v>>, page, d)
    BY SendingFits
<1>3. Fits(page', flows', uploads', disk', consent')
    BY <1>1, <1>2, InvariantIs DEF Fits
<1>4. page'.run <= clicks'
    BY <1>1, InvariantIs DEF Counted
<1> QED BY <1>1, <1>3, <1>4, InvariantIs DEF GoodStep

\* A step of the backend that keeps the disk in shape and every object in its place.
LEMMA FineIsOK ==
    ASSUME Keeps(disk, disk', active), disk.object \subseteq disk'.object
    PROVE  IsStored(disk') /\ StepOK
BY DEF Keeps, StepOK

LEMMA UploadCounted ==
    ASSUME IndInv, UNCHANGED <<clicks, habit>>, troubles' \in 0..MaxTroubles
    PROVE  Counted
BY InvariantIs DEF Counted

LEMMA TroubleCounted ==
    ASSUME IndInv, Trouble
    PROVE  troubles' \in 0..MaxTroubles
<1>1. troubles \in 0..MaxTroubles /\ MaxTroubles \in Nat
    BY InvariantIs, BoundsAssumption
<1> QED BY <1>1 DEF Trouble

LEMMA InitAnsweredStep ==
    ASSUME IndInv, NEW k, InitAnswered(k)
    PROVE  GoodStep /\ Counted
<1>1. k \in DOMAIN uploads /\ UNCHANGED <<active, clicks, troubles, habit, consent>> /\ uploads[k].at = "init"
    BY DEF InitAnswered, At
<1>2. PICK u, o : u = uploads[k] /\ o = UploadInit(disk, active, u.folder)
    OBVIOUS
<1>3. /\ o.reply.ok /\ disk' = o.disk
      /\ \E key \in o.reply.files :
            IF u.aborted THEN NextFile(k, "cancelled", TRUE, {})
            ELSE GoOn(k, [u EXCEPT !.at = "put", !.ws = active, !.key = key])
    BY <1>2 DEF InitAnswered
<1>4. Sending(u, page, disk)
    BY <1>1, <1>2, TheUpload
<1>5. u \in Upload
    BY <1>4 DEF Sending
<1>6. u.folder \in Folders \cup {Root}
    BY <1>5, UploadOf
<1>7. Fine(disk, active, o)
    BY <1>2, InvariantIs, UploadInitIsFine
<1>8. IsStored(disk') /\ StepOK
    BY <1>3, <1>7, FineIsOK DEF Fine
<1>9. Counted
    BY <1>1, UploadCounted, InvariantIs
<1>10. PICK key \in o.reply.files :
            IF u.aborted THEN NextFile(k, "cancelled", TRUE, {})
            ELSE GoOn(k, [u EXCEPT !.at = "put", !.ws = active, !.key = key])
    BY <1>3
<1>11. CASE u.aborted
    <2>1. Dealt(k, "cancelled", TRUE, {})
        BY <1>1, <1>10, <1>11 DEF JobStatus, Dealt
    <2> QED BY <1>1, <1>8, <1>9, <2>1, NextFileIsGood
<1>12. CASE ~u.aborted
    <2>1. PICK v : v = [u EXCEPT !.at = "put", !.ws = active, !.key = key]
        OBVIOUS
    <2>2. PICK d : d = disk'
        OBVIOUS
    <2>3. GoOn(k, v)
        BY <1>10, <1>12, <2>1
    <2>4. active \in Workspaces
        BY InvariantIs
    <2>5. Claimed(o.disk, [ws |-> active, in |-> u.folder, key |-> key])
        BY <1>2, <1>3, <1>6, <1>10, <2>4, InvariantIs, UploadInitClaims
    <2>6. key \in Files
        BY <2>5 DEF Claimed
    <2>7. /\ v \in Upload /\ v.at = "put" /\ v.run = u.run /\ v.job = u.job /\ v.size = u.size
          /\ v.folder = u.folder /\ v.ws = active /\ v.key = key
        BY <1>5, <2>1, <2>4, <2>6 DEF Upload
    <2>8. Claimed(d, TokenOf(v))
        BY <1>3, <2>2, <2>5, <2>7 DEF TokenOf
    <2>9. Sending(v, page, d)
        BY <1>4, <2>7, <2>8 DEF Sending
    <2>10. IsStored(d)
        BY <1>8, <2>2
    <2> QED BY <1>1, <1>8, <1>9, <2>2, <2>3, <2>9, <2>10, GoOnIsGood
<1> QED BY <1>9, <1>11, <1>12

LEMMA InitLimitedStep ==
    ASSUME IndInv, NEW k, InitLimited(k)
    PROVE  GoodStep /\ Counted
<1>1. k \in DOMAIN uploads /\ UNCHANGED <<disk, active, clicks, troubles, habit, consent>>
    BY DEF InitLimited, At
<1>2. PICK u : u = uploads[k]
    OBVIOUS
<1>3. IF u.tries = MaxTries THEN NextFile(k, "error", FALSE, {})
      ELSE GoOn(k, [u EXCEPT !.at = "wait", !.tries = @ + 1])
    BY <1>2 DEF InitLimited
<1>4. Sending(u, page, disk) /\ u \in Upload
    BY <1>1, <1>2, TheUpload DEF Sending
<1>5. IsStored(disk') /\ StepOK
    BY <1>1, SameDiskIsOK, InvariantIs
<1>6. Counted
    BY <1>1, UploadCounted, InvariantIs
<1>7. CASE u.tries = MaxTries
    <2>1. Dealt(k, "error", FALSE, {})
        BY <1>1, <1>3, <1>7 DEF JobStatus, Dealt
    <2> QED BY <1>1, <1>5, <1>6, <2>1, NextFileIsGood
<1>8. CASE u.tries # MaxTries
    <2>0. u.tries \in 1..MaxTries /\ MaxTries \in Nat
        BY <1>4, UploadOf, BoundsAssumption
    <2>1. PICK n : n = u.tries + 1 /\ n \in 1..MaxTries
        BY <1>8, <2>0
    <2>2. PICK v : v = [u EXCEPT !.at = "wait", !.tries = @ + 1]
        OBVIOUS
    <2>3. v = [u EXCEPT !.at = "wait", !.tries = n]
        BY <1>4, <2>1, <2>2 DEF Upload
    <2>4. v \in Upload /\ v.at = "wait" /\ v.run = u.run /\ v.job = u.job /\ v.size = u.size
        BY <1>4, <2>1, <2>3 DEF Upload
    <2>5. PICK d : d = disk'
        OBVIOUS
    <2>6. Sending(v, page, d) /\ IsStored(d)
        BY <1>4, <1>5, <2>4, <2>5 DEF Sending
    <2>7. GoOn(k, v)
        BY <1>3, <1>8, <2>2
    <2> QED BY <1>1, <1>5, <1>6, <2>5, <2>6, <2>7, GoOnIsGood
<1> QED BY <1>6, <1>7, <1>8

LEMMA InitRetriedStep ==
    ASSUME IndInv, NEW k, InitRetried(k)
    PROVE  GoodStep /\ Counted
<1>1. k \in DOMAIN uploads /\ UNCHANGED <<disk, active, clicks, troubles, habit, consent>>
    BY DEF InitRetried, At
<1>2. PICK u : u = uploads[k]
    OBVIOUS
<1>3. PICK v : v = [u EXCEPT !.at = "init"]
    OBVIOUS
<1>4. GoOn(k, v)
    BY <1>2, <1>3 DEF InitRetried
<1>5. Sending(u, page, disk) /\ u \in Upload
    BY <1>1, <1>2, TheUpload DEF Sending
<1>6. v \in Upload /\ v.at = "init" /\ v.run = u.run /\ v.job = u.job /\ v.size = u.size
    BY <1>3, <1>5 DEF Upload
<1>7. IsStored(disk') /\ StepOK
    BY <1>1, SameDiskIsOK, InvariantIs
<1>8. Counted
    BY <1>1, UploadCounted, InvariantIs
<1>9. PICK d : d = disk'
    OBVIOUS
<1>10. Sending(v, page, d) /\ IsStored(d)
    BY <1>5, <1>6, <1>7, <1>9 DEF Sending
<1> QED BY <1>1, <1>4, <1>7, <1>8, <1>9, <1>10, GoOnIsGood

\* A file that fails changes nothing on the disk.
LEMMA FailedFile ==
    ASSUME IndInv, NEW k, NEW status, NEW stop, NEW added, Dealt(k, status, stop, added),
           UNCHANGED <<disk, active, clicks, habit, consent>>, troubles' \in 0..MaxTroubles
    PROVE  GoodStep /\ Counted
<1>1. IsStored(disk') /\ StepOK
    BY SameDiskIsOK, InvariantIs
<1>2. Counted
    BY UploadCounted
<1> QED BY <1>1, <1>2, NextFileIsGood

LEMMA UploadRefusedStep ==
    ASSUME IndInv, NEW k, UploadRefused(k)
    PROVE  GoodStep /\ Counted
<1>1. UNCHANGED <<disk, active, clicks, troubles, habit, consent>> /\ Dealt(k, "error", FALSE, {})
    BY DEF UploadRefused, At, JobStatus, Dealt
<1>2. troubles' \in 0..MaxTroubles
    BY <1>1, InvariantIs
<1> QED BY <1>1, <1>2, FailedFile

LEMMA UploadLostStep ==
    ASSUME IndInv, NEW k, UploadLost(k)
    PROVE  GoodStep /\ Counted
<1>1. UNCHANGED <<disk, active, clicks, habit, consent>> /\ Trouble /\ Dealt(k, "error", FALSE, {})
    BY DEF UploadLost, At, JobStatus, Dealt
<1> QED BY <1>1, TroubleCounted, FailedFile

LEMMA CompleteAnsweredStep ==
    ASSUME IndInv, NEW k, CompleteAnswered(k)
    PROVE  GoodStep /\ Counted
<1>1. /\ k \in DOMAIN uploads /\ UNCHANGED <<disk, active, clicks, troubles, habit, consent>>
      /\ uploads[k].at = "created" /\ "completed" \in JobStatus \ {"uploading"}
      /\ NextFile(k, "completed", FALSE, IF uploads[k].section = "my-files" THEN {uploads[k].key} ELSE {})
    BY DEF CompleteAnswered, At, JobStatus
<1>2. uploads[k].key \in Files
    <2>1. Claimed(disk, TokenOf(uploads[k]))
        BY <1>1, TheUpload DEF Sending
    <2> QED BY <2>1 DEF Claimed, TokenOf
<1>3. PICK added \in SUBSET Files : added = IF uploads[k].section = "my-files" THEN {uploads[k].key} ELSE {}
    BY <1>2
<1>4. Dealt(k, "completed", FALSE, added)
    BY <1>1, <1>3 DEF Dealt
<1>5. troubles' \in 0..MaxTroubles
    BY <1>1, InvariantIs
<1> QED BY <1>1, <1>4, <1>5, FailedFile

\* The object of the upload is put, if it is.
LEMMA PutIsOK ==
    ASSUME IndInv, NEW k \in DOMAIN uploads, uploads[k].at = "put", NEW put, put \subseteq {uploads[k].key},
           disk' = [disk EXCEPT !.object = @ \cup put]
    PROVE  IsStored(disk') /\ StepOK /\ Keeps(disk, disk', active)
<1>1. Claimed(disk, TokenOf(uploads[k]))
    BY TheUpload DEF Sending
<1>2. put \in SUBSET Files /\ \A f \in put : f <= disk.keys
    BY <1>1 DEF Claimed, TokenOf
<1>3. PICK d : d = disk'
    OBVIOUS
<1>4. IsStored(disk) /\ Put(disk, put, d)
    BY <1>2, <1>3, InvariantIs DEF Put
<1>5. Keeps(disk, d, active) /\ disk.object \subseteq d.object
    BY <1>4, PutIsFine
<1>6. Keeps(disk, disk', active) /\ disk.object \subseteq disk'.object
    BY <1>3, <1>5
<1> QED BY <1>6, FineIsOK

LEMMA ObjectPutStep ==
    ASSUME IndInv, NEW k, ObjectPut(k)
    PROVE  GoodStep /\ Counted
<1>1. /\ k \in DOMAIN uploads /\ UNCHANGED <<active, clicks, troubles, habit, consent>>
      /\ uploads[k].at = "put" /\ disk' = [disk EXCEPT !.object = @ \cup {uploads[k].key}]
    BY DEF ObjectPut, At
<1>2. IsStored(disk') /\ StepOK /\ Keeps(disk, disk', active)
    BY <1>1, PutIsOK
<1>3. Counted
    BY <1>1, UploadCounted, InvariantIs
<1>4. PICK u : u = uploads[k]
    OBVIOUS
<1>5. PICK v : v = [u EXCEPT !.at = "complete"]
    OBVIOUS
<1>6. GoOn(k, v)
    BY <1>4, <1>5 DEF ObjectPut
<1>7. Sending(u, page, disk) /\ u \in Upload /\ u.at = "put"
    BY <1>1, <1>4, TheUpload DEF Sending
<1>8. /\ v \in Upload /\ v.at = "complete" /\ v.run = u.run /\ v.job = u.job /\ v.size = u.size
      /\ v.ws = u.ws /\ v.folder = u.folder /\ v.key = u.key
    BY <1>5, <1>7 DEF Upload
<1>9. PICK d : d = disk'
    OBVIOUS
<1>10. Claimed(d, TokenOf(u))
    <2>1. Claimed(disk, TokenOf(u))
        BY <1>7 DEF Sending
    <2>2. Keeps(disk, d, active)
        BY <1>2, <1>9
    <2> QED BY <2>1, <2>2, InvariantIs, ClaimsStay
<1>11. TokenOf(v) = TokenOf(u)
    BY <1>8 DEF TokenOf
<1>12. Sending(v, page, d) /\ IsStored(d)
    BY <1>2, <1>7, <1>8, <1>9, <1>10, <1>11 DEF Sending
<1> QED BY <1>1, <1>2, <1>3, <1>6, <1>9, <1>12, GoOnIsGood

LEMMA PutAbortedStep ==
    ASSUME IndInv, NEW k, PutAborted(k)
    PROVE  GoodStep /\ Counted
<1>1. /\ k \in DOMAIN uploads /\ UNCHANGED <<active, clicks, troubles, habit, consent>>
      /\ uploads[k].at = "put" /\ Dealt(k, "cancelled", TRUE, {})
    BY DEF PutAborted, At, JobStatus, Dealt
<1>2. PICK late \in BOOLEAN : disk' = [disk EXCEPT !.object = @ \cup (IF late THEN {uploads[k].key} ELSE {})]
    BY DEF PutAborted
<1>3. IsStored(disk') /\ StepOK
    <2>1. PICK put : put = IF late THEN {uploads[k].key} ELSE {}
        OBVIOUS
    <2>2. put \subseteq {uploads[k].key} /\ disk' = [disk EXCEPT !.object = @ \cup put]
        BY <1>2, <2>1
    <2> QED BY <1>1, <2>2, PutIsOK
<1>4. Counted
    BY <1>1, UploadCounted, InvariantIs
<1> QED BY <1>1, <1>3, <1>4, NextFileIsGood

LEMMA CompleteServedStep ==
    ASSUME IndInv, NEW k, CompleteServed(k)
    PROVE  GoodStep /\ Counted
<1>1. k \in DOMAIN uploads /\ UNCHANGED <<active, clicks, troubles, habit, consent>> /\ uploads[k].at = "complete"
    BY DEF CompleteServed, At
<1>2. PICK u : u = uploads[k]
    OBVIOUS
<1>3. PICK o \in UploadComplete(disk, active, TokenOf(u)) :
         disk' = o.disk /\ GoOn(k, [u EXCEPT !.at = IF o.reply.ok THEN "created" ELSE "refused"])
    BY <1>2 DEF CompleteServed, TokenOf
<1>4. Sending(u, page, disk) /\ u \in Upload
    BY <1>1, <1>2, TheUpload DEF Sending
<1>5. Claimed(disk, TokenOf(u))
    BY <1>1, <1>2, <1>4 DEF Sending
<1>6. Completed(disk, active, TokenOf(u), o)
    BY <1>3, <1>5, InvariantIs, UploadCompleteIsFine
<1>7. IsStored(disk') /\ Claimed(disk', TokenOf(u)) /\ StepOK
    <2>1. \A p \in Folders : RowKept(active, disk.folder[p], disk.folder[p])
        <3>1. \A p \in Folders : disk.folder[p] \in Row
            BY InvariantIs, DiskIs
        <3> QED BY <3>1 DEF RowKept
    <2>2. /\ disk'.folder = disk.folder
          /\ \A f \in Files : RowKept(active, disk.file[f], disk'.file[f])
          /\ \A f \in disk.object \ disk'.object : f = uploads[k].key /\ disk.file[f] = NoRow
        BY <1>2, <1>3, <1>6 DEF Completed, TokenOf
    <2>3. \A f \in disk.object \ disk'.object : RefusedUpload(f)
        BY <1>1, <2>2 DEF RefusedUpload, At
    <2>4. StepOK
        BY <2>1, <2>2, <2>3 DEF StepOK
    <2> QED BY <1>3, <1>6, <2>4 DEF Completed
<1>8. Counted
    BY <1>1, UploadCounted, InvariantIs
<1>9. PICK at \in {"created", "refused"} : at = IF o.reply.ok THEN "created" ELSE "refused"
    OBVIOUS
<1>10. PICK v : v = [u EXCEPT !.at = at]
    OBVIOUS
<1>11. /\ v \in Upload /\ v.run = u.run /\ v.job = u.job /\ v.size = u.size
       /\ v.ws = u.ws /\ v.folder = u.folder /\ v.key = u.key
    BY <1>4, <1>9, <1>10 DEF Upload
<1>12. PICK d : d = disk'
    OBVIOUS
<1>13. TokenOf(v) = TokenOf(u)
    BY <1>11 DEF TokenOf
<1>14. Sending(v, page, d) /\ IsStored(d)
    BY <1>4, <1>7, <1>11, <1>12, <1>13 DEF Sending
<1>15. GoOn(k, v)
    BY <1>3, <1>9, <1>10
<1> QED BY <1>1, <1>7, <1>8, <1>12, <1>14, <1>15, GoOnIsGood

LEMMA UploadStepIsGood ==
    ASSUME IndInv, NEW k, UploadStep(k)
    PROVE  GoodStep /\ Counted
BY InitAnsweredStep, InitRetriedStep, UploadRefusedStep, ObjectPutStep, PutAbortedStep, CompleteServedStep,
   CompleteAnsweredStep DEF UploadStep

-----------------------------------------------------------------------------
(* What the page shows                                                     *)

LEMMA VisibleAre ==
    ASSUME NEW p \in Page
    PROVE  /\ VisibleFiles(p) \in Seq(p.files) /\ VisibleFolders(p) \in Seq(p.folders)
           /\ VisibleIds(p) \in Seq(p.files \cup p.folders)
<1>1. p.files \in SUBSET Files /\ p.folders \in SUBSET Folders /\ p.filters \in Filters
    BY DEF Page
<1>2. PICK fs, ps : fs = FilterFiles(p.files, p.filters) /\ ps = FilterFolders(p.folders, p.filters)
    OBVIOUS
<1>3. fs \subseteq p.files /\ ps \subseteq p.folders
    BY <1>2 DEF FilterFiles, FilterFolders
<1>4. fs \in SUBSET Files /\ ps \in SUBSET Folders
    BY <1>1, <1>3
<1>5. PICK n \in Nat : SortFiles(fs, p.filters) \in [1..n -> fs]
    BY <1>1, <1>4, FilesAreSorted
<1>6. PICK m \in Nat : SortFolders(ps, p.filters) \in [1..m -> ps]
    BY <1>1, <1>4, FoldersAreSorted
<1>7. SortFiles(fs, p.filters) \in Seq(fs) /\ SortFolders(ps, p.filters) \in Seq(ps)
    BY <1>5, <1>6, SeqDef
<1>8. PICK a, b : a = VisibleFiles(p) /\ b = VisibleFolders(p)
    OBVIOUS
<1>9. a \in Seq(fs) /\ b \in Seq(ps)
    BY <1>2, <1>7, <1>8 DEF VisibleFiles, VisibleFolders
<1>10. a \in Seq(p.files) /\ b \in Seq(p.folders)
    BY <1>3, <1>9, SeqMonotonic
<1>11. a \in Seq(p.files \cup p.folders) /\ b \in Seq(p.files \cup p.folders)
    <2>1. p.files \subseteq p.files \cup p.folders /\ p.folders \subseteq p.files \cup p.folders
        OBVIOUS
    <2> QED BY <1>10, <2>1, SeqMonotonic
<1>12. b \o a \in Seq(p.files \cup p.folders)
    BY <1>11, ConcatProperties
<1> QED BY <1>8, <1>10, <1>12 DEF VisibleIds

LEMMA ToSetIs ==
    ASSUME NEW S, NEW s \in Seq(S)
    PROVE  ToSet(s) \subseteq S
<1>1. DOMAIN s = 1..Len(s)
    BY LenProperties
<1>2. \A i \in DOMAIN s : s[i] \in S
    BY <1>1, ElementOfSeq
<1> QED BY <1>2 DEF ToSet

LEMMA ShownAre ==
    ASSUME IndInv
    PROVE  /\ ShownFiles(page) \subseteq page.files /\ ShownFolders(page) \subseteq page.folders
           /\ WithCommands(page) \subseteq page.files
           /\ page.files \in SUBSET Files /\ page.folders \in SUBSET Folders
<1>1. page \in Page
    BY InvariantIs
<1>2. ToSet(VisibleFiles(page)) \subseteq page.files /\ ToSet(VisibleFolders(page)) \subseteq page.folders
    BY <1>1, VisibleAre, ToSetIs
<1>3. ShownFiles(page) \subseteq page.files /\ ShownFolders(page) \subseteq page.folders
    BY <1>2 DEF ShownFiles, ShownFolders
<1>4. WithCommands(page) \subseteq page.files
    BY <1>3 DEF WithCommands, PreviewedFiles
<1>5. page.files \in SUBSET Files /\ page.folders \in SUBSET Folders
    BY <1>1 DEF Page
<1> QED BY <1>3, <1>4, <1>5

-----------------------------------------------------------------------------
(* What the user does with the view                                        *)

LEMMA OpenSectionStep ==
    ASSUME IndInv, Counted, NEW section \in Sections, OpenSection(section)
    PROVE  GoodStep
<1>0. page \in Page
    BY InvariantIs
<1>1. PICK folder : folder = IF section = "my-files" THEN page.folder ELSE Root
    OBVIOUS
<1>2. folder \in Folders \cup {Root}
    BY <1>0, <1>1 DEF Page
<1>3. PICK q : q = [page EXCEPT !.section = section, !.folder = folder, !.preview = NoId]
    OBVIOUS
<1>4. Set(q)
    BY <1>1, <1>3 DEF OpenSection
<1>5. q \in Page /\ SameSelection(page, q) /\ SameRun(q, page) /\ q.trail = page.trail /\ q.busy = page.busy
    BY <1>0, <1>2, <1>3 DEF Page, SameSelection, SameRun
<1> QED BY <1>4, <1>5, ViewSets, SetIsGood

LEMMA FolderSets ==
    ASSUME IndInv, Counted, NEW p \in Folders \cup {Root}, Set([page EXCEPT !.folder = p])
    PROVE  GoodStep
<1>0. page \in Page
    BY InvariantIs
<1>1. PICK q : q = [page EXCEPT !.folder = p]
    OBVIOUS
<1>2. q \in Page /\ SameSelection(page, q) /\ SameRun(q, page) /\ q.trail = page.trail /\ q.busy = page.busy
    BY <1>0, <1>1 DEF Page, SameSelection, SameRun
<1> QED BY <1>1, <1>2, ViewSets, SetIsGood

LEMMA OpenFolderStep ==
    ASSUME IndInv, Counted, NEW p \in Folders \cup {Root}, OpenFolder(p) \/ OpenCrumb(p)
    PROVE  GoodStep
BY FolderSets DEF OpenFolder, OpenCrumb

LEMMA OpenFileStep ==
    ASSUME IndInv, Counted, NEW f \in Files, OpenRow(f) \/ OpenTile(f)
    PROVE  GoodStep
<1>0. page \in Page
    BY InvariantIs
<1>1. PICK q : q = [page EXCEPT !.preview = f]
    OBVIOUS
<1>2. Set(q)
    BY <1>1 DEF OpenRow, OpenTile
<1>3. q \in Page /\ SameSelection(page, q) /\ SameRun(q, page) /\ q.trail = page.trail /\ q.busy = page.busy
    BY <1>0, <1>1 DEF Page, SameSelection, SameRun
<1> QED BY <1>2, <1>3, ViewSets, SetIsGood

LEMMA ChangeFiltersStep ==
    ASSUME IndInv, Counted, NEW filters \in FiltersTried, ChangeFilters(filters)
    PROVE  GoodStep
<1>0. page \in Page /\ filters \in Filters
    BY InvariantIs, PageAssumption
<1>1. PICK q : q = [page EXCEPT !.filters = filters]
    OBVIOUS
<1>2. Set(q)
    BY <1>1 DEF ChangeFilters
<1>3. q \in Page /\ SameSelection(page, q) /\ SameRun(q, page) /\ q.trail = page.trail /\ q.busy = page.busy
    BY <1>0, <1>1 DEF Page, SameSelection, SameRun
<1> QED BY <1>2, <1>3, ViewSets, SetIsGood

LEMMA PickTargetStep ==
    ASSUME IndInv, Counted, NEW p \in Folders, PickTarget(p)
    PROVE  GoodStep
<1>0. page \in Page
    BY InvariantIs
<1>1. PICK q : q = [page EXCEPT !.target = p]
    OBVIOUS
<1>2. Set(q)
    BY <1>1 DEF PickTarget
<1>3. q \in Page /\ SameSelection(page, q) /\ SameRun(q, page) /\ q.trail = page.trail /\ q.busy = page.busy
    BY <1>0, <1>1 DEF Page, SameSelection, SameRun
<1> QED BY <1>2, <1>3, ViewSets, SetIsGood

LEMMA DismissUploadsStep ==
    ASSUME IndInv, Counted, DismissUploads
    PROVE  GoodStep
<1>0. page \in Page
    BY InvariantIs
<1>1. PICK q : q = [page EXCEPT !.jobs = <<>>]
    OBVIOUS
<1>2. Set(q)
    BY <1>1 DEF DismissUploads
<1>3. q \in Page /\ SameSelection(page, q) /\ SameRun(q, page) /\ q.trail = page.trail /\ q.busy = page.busy
    BY <1>0, <1>1, NothingIsWaiting DEF Page, SameSelection, SameRun
<1> QED BY <1>2, <1>3, ViewSets, SetIsGood

LEMMA CancelUploadsStep ==
    ASSUME IndInv, Counted, CancelUploads
    PROVE  GoodStep
<1>1. /\ uploads' = [k \in DOMAIN uploads |-> [uploads[k] EXCEPT !.aborted = TRUE]]
      /\ UNCHANGED <<disk, active, page, flows, consent>>
    BY DEF CancelUploads
<1>2. PICK us : us = uploads'
    OBVIOUS
<1>3. UploadsFit(us, page, disk)
    <2>1. CASE uploads = <<>>
        <3>1. us = <<>>
            BY <1>1, <1>2, <2>1
        <3> QED BY <2>1, <3>1, InvariantIs
    <2>2. CASE uploads # <<>>
        <3>1. UploadsFit(uploads, page, disk)
            BY InvariantIs
        <3>2. PICK u \in Upload : uploads = <<u>>
            BY <2>2, <3>1 DEF UploadsFit, OneRun
        <3>3. 1 \in DOMAIN uploads /\ uploads[1] = u
            BY <3>2
        <3>4. Sending(u, page, disk)
            BY <3>3, TheUpload
        <3>5. PICK v : v = [u EXCEPT !.aborted = TRUE]
            OBVIOUS
        <3>6. us = <<v>>
            <4>1. DOMAIN uploads = 1..1 /\ \A k \in DOMAIN uploads : uploads[k] = u
                BY <3>2
            <4>2. us \in [1..1 -> {v}]
                BY <1>1, <1>2, <3>5, <4>1
            <4>3. <<v>> \in [1..1 -> {v}]
                OBVIOUS
            <4>4. \A f, g \in [1..1 -> {v}] : f = g
                OBVIOUS
            <4> QED BY <4>2, <4>3, <4>4
        <3>7. /\ v \in Upload /\ v.at = u.at /\ v.run = u.run /\ v.job = u.job /\ v.size = u.size
              /\ v.ws = u.ws /\ v.folder = u.folder /\ v.key = u.key
            BY <3>2, <3>5 DEF Upload
        <3>8. TokenOf(v) = TokenOf(u)
            BY <3>7 DEF TokenOf
        <3>9. Sending(v, page, disk)
            BY <3>4, <3>7, <3>8 DEF Sending
        <3> QED BY <3>6, <3>9, SendingFits
    <2> QED BY <2>1, <2>2
<1>4. StepOK
    BY <1>1, SameDiskIsOK
<1>5. Fits(page', flows', uploads', disk', consent')
    BY <1>1, <1>2, <1>3, InvariantIs DEF Fits
<1>6. page'.run <= clicks'
    BY <1>1, InvariantIs DEF Counted
<1> QED BY <1>1, <1>4, <1>5, <1>6, InvariantIs DEF GoodStep

-----------------------------------------------------------------------------
(* What the user selects                                                   *)

LEMMA ClearSelectionStep ==
    ASSUME IndInv, Counted, Set(NoSelection(page))
    PROVE  GoodStep
<1>1. PICK q : q = NoSelection(page)
    OBVIOUS
<1>2. PageFits(q) /\ SameRun(q, page) /\ q.trail = page.trail /\ q.busy = page.busy
    BY <1>1, InvariantIs, DeselectedFits
<1> QED BY <1>1, <1>2, SetIsGood DEF SetsWell

\* A selection that is made while no dialog is open.
Selects(q, selected, last) ==
    /\ selected \subseteq page.files \cup page.folders /\ last \in Ids \cup {NoId}
    /\ q = [page EXCEPT !.last = last, !.selected = selected, !.kinds = {<<x, KindOf(x)>> : x \in selected}]

LEMMA SelectsWell ==
    ASSUME IndInv, ~IsModal(page), NEW q, NEW selected, NEW last, Selects(q, selected, last)
    PROVE  SetsWell(q)
<1>0. page \in Page /\ page.dialog.kind = "none"
    BY InvariantIs DEF IsModal
<1>1. page.files \in SUBSET Files /\ page.folders \in SUBSET Folders
    BY <1>0 DEF Page
<1>2. /\ selected \subseteq page.files \cup page.folders /\ last \in Ids \cup {NoId}
      /\ q = [page EXCEPT !.last = last, !.selected = selected, !.kinds = {<<x, KindOf(x)>> : x \in selected}]
    BY DEF Selects
<1>3. selected \in SUBSET Ids
    BY <1>1, <1>2 DEF Ids
<1>4. PICK kinds : kinds = {<<x, KindOf(x)>> : x \in selected}
    OBVIOUS
<1>5. kinds \in SUBSET (Ids \X {"file", "folder"})
    BY <1>3, <1>4 DEF KindOf
<1>6. q = [page EXCEPT !.last = last, !.selected = selected, !.kinds = kinds]
    BY <1>2, <1>4
<1>a. page \in Page /\ last \in Ids \cup {NoId}
    BY <1>0, <1>2
<1>7. /\ q \in Page /\ q.selected = selected /\ q.kinds = kinds /\ q.files = page.files /\ q.folders = page.folders
      /\ q.dialog = page.dialog /\ q.trail = page.trail /\ q.busy = page.busy
      /\ q.run = page.run /\ q.lock = page.lock /\ q.jobs = page.jobs
    BY <1>a, <1>3, <1>5, <1>6 DEF Page
<1>8. DialogFits(q)
    BY <1>0, <1>7 DEF DialogFits
<1>9. PageFits(q)
    BY <1>2, <1>4, <1>7, <1>8 DEF PageFits
<1> QED BY <1>7, <1>9 DEF SetsWell, SameRun

LEMMA ToggleSelectAllStep ==
    ASSUME IndInv, Counted, ~IsModal(page), ToggleSelectAll
    PROVE  GoodStep
<1>1. PICK visible : visible = ToSet(VisibleIds(page))
    OBVIOUS
<1>2. \/ Set(NoSelection(page))
      \/ Set([page EXCEPT !.selected = visible, !.kinds = {<<x, KindOf(x)>> : x \in visible}])
    BY <1>1 DEF ToggleSelectAll
<1>3. CASE Set(NoSelection(page))
    BY <1>3, ClearSelectionStep
<1>4. CASE Set([page EXCEPT !.selected = visible, !.kinds = {<<x, KindOf(x)>> : x \in visible}])
    <2>0. page \in Page
        BY InvariantIs
    <2>1. visible \subseteq page.files \cup page.folders
        BY <1>1, <2>0, VisibleAre, ToSetIs
    <2>2. PICK q : q = [page EXCEPT !.selected = visible, !.kinds = {<<x, KindOf(x)>> : x \in visible}]
        OBVIOUS
    <2>3. page.last \in Ids \cup {NoId}
        BY <2>0 DEF Page
    <2>4. q = [page EXCEPT !.last = page.last, !.selected = visible, !.kinds = {<<x, KindOf(x)>> : x \in visible}]
        BY <2>0, <2>2 DEF Page
    <2>5. Selects(q, visible, page.last)
        BY <2>1, <2>3, <2>4 DEF Selects
    <2> QED BY <1>4, <2>2, <2>5, SelectsWell, SetIsGood
<1> QED BY <1>2, <1>3, <1>4

\* Where something is in a sequence, or 0.
Place(s, x) ==
    LET I == {i \in 1..Len(s) : s[i] = x}
    IN  IF I # {} THEN Min(I) ELSE 0

LEMMA PlaceIs ==
    ASSUME NEW S, NEW s \in Seq(S), NEW x
    PROVE  Place(s, x) \in 0..Len(s)
<1>1. PICK I : I = {i \in 1..Len(s) : s[i] = x}
    OBVIOUS
<1>2. Place(s, x) = IF I # {} THEN Min(I) ELSE 0
    BY <1>1 DEF Place
<1>3. PICK n \in Nat : n = Len(s)
    BY LenProperties
<1>4. I \in SUBSET (1..n)
    BY <1>1, <1>3
<1> QED BY <1>2, <1>3, <1>4, WhereIs

LEMMA SliceIs ==
    ASSUME NEW S, NEW s \in Seq(S), NEW a \in 1..Len(s), NEW b \in 1..Len(s)
    PROVE  ToSet(SubSeq(s, a, b)) \subseteq S
<1>1. Len(s) \in Nat /\ a \in Int /\ b \in Int
    BY LenProperties
<1>2. \A i \in a..b : s[i] \in S
    BY <1>1, ElementOfSeq
<1> QED BY <1>1, <1>2, SubSeqProperties, ToSetIs

LEMMA SliceIsVisible ==
    ASSUME NEW S, NEW s \in Seq(S), NEW from \in 0..Len(s), NEW to \in 0..Len(s), from > 0, to > 0
    PROVE  ToSet(IF from < to THEN SubSeq(s, from, to) ELSE SubSeq(s, to, from)) \subseteq S
<1>1. from \in 1..Len(s) /\ to \in 1..Len(s)
    BY LenProperties
<1> QED BY <1>1, SliceIs

\* The kinds of a selection that grows by a range.
LEMMA RangeKinds ==
    ASSUME NEW A, NEW slice, NEW kinds, kinds = {<<x, KindOf(x)>> : x \in A}
    PROVE  {r \in kinds : r[1] \notin slice} \cup {<<y, KindOf(y)>> : y \in slice}
              = {<<x, KindOf(x)>> : x \in A \cup slice}
OBVIOUS

\* The kinds of a selection that one item goes in or out of.
LEMMA OneKind ==
    ASSUME NEW A, NEW x, NEW kinds, kinds = {<<y, KindOf(y)>> : y \in A}
    PROVE  (IF \E r \in kinds : r[1] = x THEN {r \in kinds : r[1] # x} ELSE kinds \cup {<<x, KindOf(x)>>})
              = {<<y, KindOf(y)>> : y \in SymDiff(A, {x})}
<1>1. (\E r \in kinds : r[1] = x) <=> x \in A
    <2>1. ASSUME x \in A PROVE \E r \in kinds : r[1] = x
        <3>1. <<x, KindOf(x)>> \in kinds /\ <<x, KindOf(x)>>[1] = x
            BY <2>1
        <3> QED BY <3>1
    <2>2. ASSUME NEW r \in kinds, r[1] = x PROVE x \in A
        BY <2>2
    <2> QED BY <2>1, <2>2
<1>2. CASE x \in A
    <2>1. SymDiff(A, {x}) = A \ {x}
        BY <1>2 DEF SymDiff
    <2>2. {r \in kinds : r[1] # x} = {<<y, KindOf(y)>> : y \in A \ {x}}
        OBVIOUS
    <2> QED BY <1>1, <1>2, <2>1, <2>2
<1>3. CASE x \notin A
    <2>1. SymDiff(A, {x}) = A \cup {x}
        BY <1>3 DEF SymDiff
    <2>2. kinds \cup {<<x, KindOf(x)>>} = {<<y, KindOf(y)>> : y \in A \cup {x}}
        OBVIOUS
    <2> QED BY <1>1, <1>3, <2>1, <2>2
<1> QED BY <1>2, <1>3

LEMMA ApplyRangeSelectStep ==
    ASSUME IndInv, Counted, ~IsModal(page), NEW x \in Ids, NEW shift \in BOOLEAN, ApplyRangeSelect(x, shift)
    PROVE  GoodStep
<1>0. page \in Page
    BY InvariantIs
<1>1. PICK visible : visible = VisibleIds(page)
    OBVIOUS
<1>2. PICK from, to : /\ from = SelectInSeq(visible, LAMBDA y : y = page.last)
                      /\ to = SelectInSeq(visible, LAMBDA y : y = x)
    OBVIOUS
<1>3. PICK slice : slice = ToSet(IF from < to THEN SubSeq(visible, from, to) ELSE SubSeq(visible, to, from))
    OBVIOUS
<1>4. /\ x \in ShownFiles(page) \cup ShownFolders(page)
      /\ \/ /\ from > 0 /\ to > 0
            /\ Set([[page EXCEPT !.last = x] EXCEPT
                       !.selected = @ \cup slice,
                       !.kinds = {r \in @ : r[1] \notin slice} \cup {<<y, KindOf(y)>> : y \in slice}])
         \/ Set([[page EXCEPT !.last = x] EXCEPT
                       !.selected = SymDiff(@, {x}),
                       !.kinds = IF \E r \in @ : r[1] = x THEN {r \in @ : r[1] # x}
                                 ELSE @ \cup {<<x, KindOf(x)>>}])
    BY <1>1, <1>2, <1>3 DEF ApplyRangeSelect
<1>5. /\ visible \in Seq(page.files \cup page.folders) /\ x \in page.files \cup page.folders
      /\ page.selected \subseteq page.files \cup page.folders
      /\ page.kinds = {<<y, KindOf(y)>> : y \in page.selected}
    BY <1>0, <1>1, <1>4, VisibleAre, ShownAre, InvariantIs DEF PageFits
<1>6. CASE /\ from > 0 /\ to > 0
           /\ Set([[page EXCEPT !.last = x] EXCEPT
                       !.selected = @ \cup slice,
                       !.kinds = {r \in @ : r[1] \notin slice} \cup {<<y, KindOf(y)>> : y \in slice}])
    <2>0. from = Place(visible, page.last) /\ to = Place(visible, x)
        BY <1>2 DEF SelectInSeq, Place
    <2>1. from \in 0..Len(visible) /\ to \in 0..Len(visible)
        BY <1>5, <2>0, PlaceIs
    <2>2. slice \subseteq page.files \cup page.folders
        BY <1>3, <1>5, <1>6, <2>1, SliceIsVisible
    <2>3. PICK q : q = [[page EXCEPT !.last = x] EXCEPT
                       !.selected = @ \cup slice,
                       !.kinds = {r \in @ : r[1] \notin slice} \cup {<<y, KindOf(y)>> : y \in slice}]
        OBVIOUS
    <2>4. PICK selected, kinds : /\ selected = page.selected \cup slice
                                 /\ kinds = {r \in page.kinds : r[1] \notin slice} \cup {<<y, KindOf(y)>> : y \in slice}
        OBVIOUS
    <2>5. kinds = {<<y, KindOf(y)>> : y \in selected}
        BY <1>5, <2>4, RangeKinds
    <2>6. q = [page EXCEPT !.last = x, !.selected = selected, !.kinds = kinds]
        BY <1>0, <2>3, <2>4 DEF Page
    <2>7. Selects(q, selected, x)
        BY <1>5, <2>2, <2>4, <2>5, <2>6 DEF Selects
    <2>8. Set(q)
        BY <1>6, <2>3
    <2> QED BY <2>7, <2>8, SelectsWell, SetIsGood
<1>7. CASE Set([[page EXCEPT !.last = x] EXCEPT
                    !.selected = SymDiff(@, {x}),
                    !.kinds = IF \E r \in @ : r[1] = x THEN {r \in @ : r[1] # x}
                              ELSE @ \cup {<<x, KindOf(x)>>}])
    <2>3. PICK q : q = [[page EXCEPT !.last = x] EXCEPT
                    !.selected = SymDiff(@, {x}),
                    !.kinds = IF \E r \in @ : r[1] = x THEN {r \in @ : r[1] # x}
                              ELSE @ \cup {<<x, KindOf(x)>>}]
        OBVIOUS
    <2>4. PICK selected, kinds :
             /\ selected = SymDiff(page.selected, {x})
             /\ kinds = IF \E r \in page.kinds : r[1] = x THEN {r \in page.kinds : r[1] # x}
                        ELSE page.kinds \cup {<<x, KindOf(x)>>}
        OBVIOUS
    <2>5. kinds = {<<y, KindOf(y)>> : y \in selected}
        BY <1>5, <2>4, OneKind
    <2>6. q = [page EXCEPT !.last = x, !.selected = selected, !.kinds = kinds]
        BY <1>0, <2>3, <2>4 DEF Page
    <2>7. selected \subseteq page.files \cup page.folders
        BY <1>5, <2>4 DEF SymDiff
    <2>8. Selects(q, selected, x)
        BY <1>5, <2>5, <2>6, <2>7 DEF Selects
    <2>9. Set(q)
        BY <1>7, <2>3
    <2> QED BY <2>8, <2>9, SelectsWell, SetIsGood
<1> QED BY <1>4, <1>6, <1>7

-----------------------------------------------------------------------------
(* Dialogs                                                                 *)

\* What a dialog is opened for.
AskedFor(kind, x) ==
    /\ kind \in DialogKinds /\ x \in Ids \cup {NoId}
    /\ kind \in {"delete-file", "purge-file"} => x \in Files
    /\ kind \in {"delete-folder", "purge-folder"} => x \in Folders

LEMMA AskIsGood ==
    ASSUME IndInv, Counted, NEW kind, NEW x, AskedFor(kind, x), Ask(kind, x)
    PROVE  GoodStep
<1>0. page \in Page
    BY InvariantIs
<1>1. PICK dialog : dialog = [kind |-> kind, id |-> x, asked |-> page.selected]
    OBVIOUS
<1>2. page.selected \in SUBSET Ids
    BY <1>0 DEF Page
<1>3. dialog \in Dialog
    BY <1>1, <1>2 DEF AskedFor, Dialog
<1>4. PICK q : q = [page EXCEPT !.dialog = dialog]
    OBVIOUS
<1>5. /\ q \in Page /\ q.dialog = dialog /\ q.selected = page.selected /\ q.kinds = page.kinds
      /\ q.files = page.files /\ q.folders = page.folders /\ q.trail = page.trail /\ q.busy = page.busy
      /\ q.run = page.run /\ q.lock = page.lock /\ q.jobs = page.jobs
    BY <1>0, <1>3, <1>4 DEF Page
<1>6. DialogFits(q)
    BY <1>1, <1>5 DEF DialogFits, AskedFor
<1>7. PageFits(q)
    BY <1>5, <1>6, InvariantIs DEF PageFits
<1>8. Set(q)
    BY <1>1, <1>4 DEF Ask
<1>9. SetsWell(q)
    BY <1>5, <1>7 DEF SetsWell, SameRun
<1> QED BY <1>8, <1>9, SetIsGood

LEMMA AskRenameStep ==
    ASSUME IndInv, Counted, NEW x \in Ids, AskRename(x) \/ AskDelete(x) \/ AskPurge(x)
    PROVE  GoodStep
<1>1. /\ ShownFiles(page) \subseteq Files /\ ShownFolders(page) \subseteq Folders
      /\ WithCommands(page) \subseteq Files
    BY ShownAre
<1>2. PICK kind, y : AskedFor(kind, y) /\ Ask(kind, y)
    <2>1. CASE AskRename(x)
        <3>1. AskedFor("rename", x) /\ Ask("rename", x)
            BY <2>1 DEF AskRename, AskedFor, DialogKinds
        <3> QED BY <3>1
    <2>2. CASE AskDelete(x)
        <3>1. \/ AskedFor("delete-file", x) /\ Ask("delete-file", x)
              \/ AskedFor("delete-folder", x) /\ Ask("delete-folder", x)
            BY <1>1, <2>2 DEF AskDelete, AskedFor, DialogKinds, ConfirmModes
        <3> QED BY <3>1
    <2>3. CASE AskPurge(x)
        <3>1. \/ AskedFor("purge-file", x) /\ Ask("purge-file", x)
              \/ AskedFor("purge-folder", x) /\ Ask("purge-folder", x)
            BY <1>1, <2>3 DEF AskPurge, AskedFor, DialogKinds, ConfirmModes
        <3> QED BY <3>1
    <2> QED BY <2>1, <2>2, <2>3
<1> QED BY <1>2, AskIsGood

LEMMA AskOtherStep ==
    ASSUME IndInv, Counted, AskCreate \/ AskEmptyTrash \/ AskSelected
    PROVE  GoodStep
<1>1. PICK kind, y : AskedFor(kind, y) /\ Ask(kind, y)
    <2>1. CASE AskCreate
        <3>1. AskedFor("create", NoId) /\ Ask("create", NoId)
            BY <2>1 DEF AskCreate, AskedFor, DialogKinds
        <3> QED BY <3>1
    <2>2. CASE AskEmptyTrash
        <3>1. AskedFor("empty-trash", NoId) /\ Ask("empty-trash", NoId)
            BY <2>2 DEF AskEmptyTrash, AskedFor, DialogKinds, ConfirmModes
        <3> QED BY <3>1
    <2>3. CASE AskSelected
        <3>1. \/ AskedFor("purge-selected", NoId) /\ Ask("purge-selected", NoId)
              \/ AskedFor("delete-selected", NoId) /\ Ask("delete-selected", NoId)
            BY <2>3 DEF AskSelected, AskedFor, DialogKinds, ConfirmModes
        <3> QED BY <3>1
    <2> QED BY <2>1, <2>2, <2>3
<1> QED BY <1>1, AskIsGood

LEMMA CancelDialogStep ==
    ASSUME IndInv, Counted, CancelDialog
    PROVE  GoodStep
<1>1. PICK kinds : kinds = {page.dialog.kind}
    OBVIOUS
<1>2. PICK q : q = CloseDialog(page, kinds)
    OBVIOUS
<1>3. Set(q)
    BY <1>1, <1>2 DEF CancelDialog, CloseDialog
<1>4. PageFits(q) /\ SameRun(q, page) /\ q.trail = page.trail /\ q.busy = page.busy
    BY <1>2, InvariantIs, ClosedFits
<1> QED BY <1>3, <1>4, SetIsGood DEF SetsWell

\* The flows that ask for a move or for the tree of folders belong to a dialog that is gone.
WithoutMoves(fs) == [i \in DOMAIN fs |-> [fs[i] EXCEPT !.live = @ /\ fs[i].fn \notin {"move", "tree"}]]

StaysOn(f, g) == g.fn = f.fn /\ g.todo = f.todo /\ (LiveCrumbs(g) <=> LiveCrumbs(f))

LEMMA ClosedFlowsFit ==
    ASSUME NEW fs, NEW folder, NEW trail, NEW busy, NEW c, FlowsFit(fs, folder, trail, busy, c),
           NEW gs, gs = WithoutMoves(fs)
    PROVE  FlowsFit(gs, folder, trail, busy, c)
<1>1. /\ fs \in Seq(GoodFlows(c)) /\ DOMAIN fs = 1..Len(fs) /\ Len(fs) \in Nat
      /\ fs \in [1..Len(fs) -> GoodFlows(c)]
    BY LenProperties DEF FlowsFit
<1>2. ASSUME NEW f \in GoodFlows(c), NEW g, g = [f EXCEPT !.live = @ /\ f.fn \notin {"move", "tree"}]
      PROVE  g \in GoodFlows(c) /\ StaysOn(f, g)
    <2>1. f.live \in BOOLEAN
        BY DEF GoodFlows
    <2>2. PICK b \in BOOLEAN : b <=> (f.live /\ f.fn \notin {"move", "tree"})
        OBVIOUS
    <2>3. g = [f EXCEPT !.live = b]
        BY <1>2, <2>1, <2>2
    <2>4. g.fn = f.fn /\ g.at = f.at /\ g.todo = f.todo /\ g.live = b /\ g.reply = f.reply
        BY <2>3 DEF GoodFlows
    <2>5. LiveCrumbs(g) <=> LiveCrumbs(f)
        BY <2>1, <2>2, <2>4 DEF LiveCrumbs
    <2> QED BY <2>2, <2>3, <2>4, <2>5 DEF GoodFlows, GoodFlow, StaysOn
<1>3. DOMAIN gs = DOMAIN fs /\ \A j \in DOMAIN gs : gs[j] \in GoodFlows(c) /\ StaysOn(fs[j], gs[j])
    BY <1>1, <1>2 DEF WithoutMoves
<1>4. gs \in Seq(GoodFlows(c))
    <2>0. gs = [j \in DOMAIN gs |-> gs[j]]
        BY DEF WithoutMoves
    <2>1. gs \in [1..Len(fs) -> GoodFlows(c)]
        BY <1>1, <1>3, <2>0
    <2> QED BY <1>1, <2>1, SeqDef
<1>5. \A j : OfDialog(gs, j) <=> OfDialog(fs, j)
    BY <1>3 DEF OfDialog, StaysOn
<1>6. \A j \in DOMAIN gs : /\ LiveCrumbs(gs[j]) <=> LiveCrumbs(fs[j])
                           /\ gs[j].todo = fs[j].todo
    BY <1>3 DEF StaysOn
<1> QED BY <1>3, <1>4, <1>5, <1>6 DEF FlowsFit

LEMMA AskMoveStep ==
    ASSUME IndInv, Counted, NEW kind \in {"move", "copy"}, AskMove(kind)
    PROVE  GoodStep
<1>0. page \in Page
    BY InvariantIs
<1>1. PICK q : q = [page EXCEPT !.dialog = [kind |-> kind, id |-> NoId, asked |-> @.asked],
                                !.tree = {}, !.target = Root, !.moving = FALSE]
    OBVIOUS
<1>2. PICK gs : gs = WithoutMoves(flows)
    OBVIOUS
<1>3. PICK todo : todo = <<Request("tree", {}, {}, Root)>>
    OBVIOUS
<1>4. PICK g : g = Flow("tree", page, todo)
    OBVIOUS
<1>5. Render(q, Append(gs, g)) /\ UNCHANGED <<disk, active, uploads, consent>>
    BY <1>1, <1>2, <1>3, <1>4 DEF AskMove, WithoutMoves
<1>6. MayBegin(consent, "tree", todo)
    <2>1. PICK r : r = Request("tree", {}, {}, Root)
        OBVIOUS
    <2>2. r \in Requests /\ r.op = "tree" /\ r.to = Root
        BY <2>1, RequestIs DEF Request, Ops
    <2>3. r \in AskedRequests(consent)
        BY <2>2 DEF AskedRequests, Asked, Erasing
    <2>4. <<r>> \in Seq(AskedRequests(consent)) /\ <<r>> # <<>>
        BY <2>3
    <2> QED BY <1>3, <2>1, <2>4 DEF MayBegin, Fns
<1>7. Begun(consent, "tree", todo, g)
    BY <1>0, <1>4, <1>6, FlowIs
<1>8. page.dialog \in Dialog
    BY <1>0 DEF Page
<1>9. PICK dialog : dialog = [kind |-> kind, id |-> NoId, asked |-> page.dialog.asked]
    OBVIOUS
<1>10. dialog \in Dialog
    BY <1>8, <1>9 DEF Dialog, DialogKinds
<1>11. q = [page EXCEPT !.dialog = dialog, !.tree = {}, !.target = Root, !.moving = FALSE]
    BY <1>0, <1>1, <1>9 DEF Page
<1>12. /\ q \in Page /\ q.dialog = dialog /\ q.selected = page.selected /\ q.kinds = page.kinds
       /\ q.files = page.files /\ q.folders = page.folders /\ q.trail = page.trail /\ q.busy = page.busy
       /\ q.run = page.run /\ q.lock = page.lock /\ q.jobs = page.jobs
    BY <1>0, <1>10, <1>11 DEF Page
<1>13. DialogFits(q)
    BY <1>9, <1>12 DEF DialogFits
<1>14. PageFits(q)
    BY <1>12, <1>13, InvariantIs DEF PageFits
<1>15. FlowsFit(gs, page.folder, page.trail, page.busy, consent)
    BY <1>2, InvariantIs, ClosedFlowsFit
<1>16. FlowsFit(Append(gs, g), page.folder, q.trail, q.busy, consent)
    <2>1. g \in GoodFlows(consent) /\ g.fn = "tree" /\ page.busy \in BOOLEAN
        BY <1>7, InvariantIs DEF Begun
    <2> QED BY <1>12, <1>15, <2>1, BegunFits DEF DialogFns
<1>17. SameRun(q, page)
    BY <1>12 DEF SameRun
<1>18. UploadsFit(uploads, q, disk)
    BY <1>17, InvariantIs, SameUploads
<1>19. q.run <= clicks'
    BY <1>12, InvariantIs DEF Counted
<1>20. Before(q, Append(gs, g), uploads, disk, consent)
    BY <1>14, <1>16, <1>18 DEF Before
<1>21. /\ page' = Effects(q, Append(gs, g), FALSE).page /\ flows' = Effects(q, Append(gs, g), FALSE).flows
       /\ Quiet
    BY <1>5 DEF Render, Quiet
<1> QED BY <1>19, <1>20, <1>21, RenderIsGood

-----------------------------------------------------------------------------
(* What the user starts                                                    *)

Clicked == clicks < MaxClicks /\ clicks' = clicks + 1

LEMMA RunUploadsStep ==
    ASSUME IndInv, Counted, Clicked, NEW n \in 1..MaxDrop, RunUploads(n)
    PROVE  GoodStep
<1>1. PICK folder : folder = IF page.section = "my-files" THEN page.folder ELSE Root
    OBVIOUS
<1>2. PICK u : u = [at |-> "init", run |-> page.run + 1, size |-> n, job |-> 1, tries |-> 1,
                    aborted |-> FALSE, section |-> page.section, folder |-> folder,
                    ws |-> Nobody, key |-> NoId]
    OBVIOUS
<1>3. PICK p : p = [page EXCEPT !.lock = TRUE, !.run = u.run, !.jobs = [j \in 1..n |-> "pending"]]
    OBVIOUS
<1>4. PICK q : q = JobAs(p, u, "uploading")
    OBVIOUS
<1>5. /\ ~page.lock /\ uploads' = Append(uploads, u) /\ Render(q, flows) /\ UNCHANGED <<disk, active, consent>>
    BY <1>1, <1>2, <1>3, <1>4 DEF RunUploads
<1>6. page \in Page /\ page.run \in Nat /\ page.run <= clicks /\ clicks \in Nat /\ MaxClicks \in Nat
      /\ MaxDrop \in Nat /\ MaxTries \in Nat \ {0}
    BY InvariantIs, BoundsAssumption
<1>7. PICK run : run = page.run + 1 /\ run \in 1..MaxClicks /\ run <= clicks'
    BY <1>6 DEF Clicked
<1>8. folder \in Folders \cup {Root} /\ page.section \in Sections
    BY <1>1, <1>6 DEF Page
<1>9. /\ u \in Upload /\ u.at = "init" /\ u.run = run /\ u.size = n /\ u.job = 1
    <2>1. n \in 1..MaxDrop /\ 1 \in 1..MaxDrop /\ 1 \in 1..MaxTries
        BY <1>6
    <2> QED BY <1>2, <1>7, <1>8, <2>1 DEF Upload
<1>10. PICK jobs : jobs = [j \in 1..n |-> "pending"]
    OBVIOUS
<1>11. jobs \in UNION {[1..m -> JobStatus] : m \in 0..MaxDrop} /\ DOMAIN jobs = 1..n
       /\ \A j \in DOMAIN jobs : jobs[j] = "pending"
    <2>1. n \in 0..MaxDrop /\ jobs \in [1..n -> JobStatus]
        BY <1>6, <1>10 DEF JobStatus
    <2> QED BY <1>10, <2>1
<1>12. p = [page EXCEPT !.lock = TRUE, !.run = run, !.jobs = jobs] /\ run \in 0..MaxClicks
    BY <1>3, <1>6, <1>7, <1>9, <1>10
<1>13. /\ p \in Page /\ SameSelection(page, p) /\ p.run = run /\ p.lock = TRUE /\ p.jobs = jobs
       /\ p.trail = page.trail /\ p.busy = page.busy
    <2>1. page \in Page
        BY <1>6
    <2> QED BY <1>11, <1>12, <2>1 DEF Page, SameSelection
<1>14. PageFits(p)
    BY <1>13, InvariantIs, SameSelectionFits
<1>15. JobIs(q, p, u, "uploading")
    BY <1>4, <1>13, JobAsIs DEF JobStatus
<1>16. PageFits(q)
    BY <1>14, <1>15, SameSelectionFits DEF JobIs
<1>17. /\ q.run = run /\ q.lock = TRUE /\ q.trail = page.trail /\ q.busy = page.busy
       /\ DOMAIN q.jobs = 1..n
       /\ \A j \in 1..n : q.jobs[j] = IF j = 1 THEN "uploading" ELSE "pending"
    BY <1>9, <1>11, <1>13, <1>15 DEF JobIs
<1>18. PICK us : us = uploads'
    OBVIOUS
<1>19. us = <<u>>
    <2>1. uploads = <<>>
        BY <1>5, InvariantIs DEF UploadsFit
    <2> QED BY <1>5, <1>18, <2>1
<1>20. PICK d : d = disk'
    OBVIOUS
<1>21. Sending(u, q, d)
    BY <1>9, <1>17 DEF Sending
<1>22. UploadsFit(us, q, d)
    BY <1>19, <1>21, SendingFits
<1>23. Before(q, flows, us, d, consent)
    BY <1>16, <1>17, <1>22, InvariantIs DEF Before
<1>24. IsStored(d) /\ StepOK
    BY <1>5, <1>20, InvariantIs, SameDiskIsOK
<1> QED BY <1>5, <1>7, <1>17, <1>18, <1>20, <1>23, <1>24, UploadRenderIsGood

\* A request that erases nothing and does not switch.
LEMMA PlainRequest ==
    ASSUME NEW c, NEW op \in Ops \ (Erasing \cup {"switch", "emptyTrash"}), NEW fs \in SUBSET Files,
           NEW ps \in SUBSET Folders, NEW to \in Folders \cup {Root}
    PROVE  Request(op, fs, ps, to) \in AskedRequests(c)
<1>1. PICK r : r = Request(op, fs, ps, to)
    OBVIOUS
<1>2. r \in Requests /\ r.op = op /\ r.to = to
    BY <1>1, RequestIs DEF Request
<1> QED BY <1>1, <1>2 DEF AskedRequests, Asked

LEMMA OneRequest ==
    ASSUME NEW c, NEW r \in AskedRequests(c), NEW fn \in Fns \ {"crumbs"}
    PROVE  MayBegin(c, fn, <<r>>)
<1>1. <<r>> \in Seq(AskedRequests(c)) /\ <<r>> # <<>>
    OBVIOUS
<1> QED BY <1>1 DEF MayBegin

LEMMA OneStarts ==
    ASSUME IndInv, Counted, NEW r \in AskedRequests(consent), NEW fn \in Fns \ (DialogFns \cup {"crumbs"}),
           NEW q, SetsWell(q), Start(q, fn, <<r>>)
    PROVE  GoodStep
<1>1. MayBegin(consent, fn, <<r>>)
    BY OneRequest
<1>2. BeginsWell(q, fn, <<r>>)
    BY <1>1 DEF BeginsWell, SetsWell
<1> QED BY <1>2, StartIsGood

LEMMA BusySets ==
    ASSUME IndInv, NEW q, q = [page EXCEPT !.busy = TRUE]
    PROVE  PageFits(q) /\ SameRun(q, page) /\ q.trail = page.trail /\ q.busy = TRUE
<1>1. page \in Page
    BY InvariantIs
<1>2. q \in Page /\ SameSelection(page, q) /\ SameRun(q, page) /\ q.trail = page.trail /\ q.busy = TRUE
    BY <1>1 DEF Page, SameSelection, SameRun
<1> QED BY <1>2, InvariantIs, SameSelectionFits

LEMMA SubmitNameStep ==
    ASSUME IndInv, Counted, SubmitName
    PROVE  GoodStep
<1>0. page \in Page /\ page.folder \in Folders \cup {Root}
    BY InvariantIs DEF Page
<1>1. PICK q : q = [page EXCEPT !.busy = TRUE]
    OBVIOUS
<1>2. PageFits(q) /\ SameRun(q, page) /\ q.trail = page.trail /\ q.busy = TRUE
    BY <1>1, BusySets
<1>3. page.busy = FALSE
    BY InvariantIs DEF SubmitName
<1>4. PICK x : x = page.dialog.id
    OBVIOUS
<1>5. \/ Start(q, "create", <<Request("createFolder", {}, {}, page.folder)>>)
      \/ x \in Files /\ Start(q, "rename", <<Request("renameFile", {x}, {}, Root)>>)
      \/ x \in Folders /\ Start(q, "rename", <<Request("renameFolder", {}, {x}, Root)>>)
    BY <1>1, <1>4 DEF SubmitName
<1>6. PICK fn \in {"create", "rename"}, r \in AskedRequests(consent) : Start(q, fn, <<r>>)
    <2>1. CASE Start(q, "create", <<Request("createFolder", {}, {}, page.folder)>>)
        <3>1. Request("createFolder", {}, {}, page.folder) \in AskedRequests(consent)
            <4>1. "createFolder" \in Ops \ (Erasing \cup {"switch", "emptyTrash"})
                BY DEF Ops, Erasing
            <4> QED BY <1>0, <4>1, PlainRequest
        <3> QED BY <2>1, <3>1
    <2>2. CASE x \in Files /\ Start(q, "rename", <<Request("renameFile", {x}, {}, Root)>>)
        <3>1. Request("renameFile", {x}, {}, Root) \in AskedRequests(consent)
            <4>1. "renameFile" \in Ops \ (Erasing \cup {"switch", "emptyTrash"}) /\ {x} \in SUBSET Files
                BY <2>2 DEF Ops, Erasing
            <4> QED BY <4>1, PlainRequest
        <3> QED BY <2>2, <3>1
    <2>3. CASE x \in Folders /\ Start(q, "rename", <<Request("renameFolder", {}, {x}, Root)>>)
        <3>1. Request("renameFolder", {}, {x}, Root) \in AskedRequests(consent)
            <4>1. "renameFolder" \in Ops \ (Erasing \cup {"switch", "emptyTrash"}) /\ {x} \in SUBSET Folders
                BY <2>3 DEF Ops, Erasing
            <4> QED BY <4>1, PlainRequest
        <3> QED BY <2>3, <3>1
    <2> QED BY <1>5, <2>1, <2>2, <2>3
<1>7. MayBegin(consent, fn, <<r>>)
    BY OneRequest DEF Fns, DialogFns
<1>8. BeginsWell(q, fn, <<r>>)
    BY <1>2, <1>3, <1>7 DEF BeginsWell, DialogFns
<1> QED BY <1>6, <1>8, StartIsGood

\* The selection, split by its kinds.
LEMMA SplitSelection ==
    ASSUME NEW p, PageFits(p)
    PROVE  /\ SelectedOf(p, "file") \in SUBSET Files /\ SelectedOf(p, "folder") \in SUBSET Folders
           /\ SelectedOf(p, "file") \subseteq p.selected /\ SelectedOf(p, "folder") \subseteq p.selected
<1>1. p.selected \in SUBSET Ids /\ p.kinds = {<<x, KindOf(x)>> : x \in p.selected}
    BY DEF PageFits, Page
<1>2. ASSUME NEW x \in p.selected, NEW kind, <<x, kind>> \in p.kinds
      PROVE  kind = KindOf(x)
    BY <1>1, <1>2
<1>3. \A x \in SelectedOf(p, "file") : x \in p.selected /\ "file" = KindOf(x)
    BY <1>2 DEF SelectedOf
<1>4. \A x \in SelectedOf(p, "folder") : x \in p.selected /\ "folder" = KindOf(x)
    BY <1>2 DEF SelectedOf
<1>5. \A x \in SelectedOf(p, "file") : x \in Files
    BY <1>1, <1>3 DEF KindOf, Ids
<1>6. \A x \in SelectedOf(p, "folder") : x \in Folders
    BY <1>1, <1>4 DEF KindOf, Ids
<1> QED BY <1>3, <1>4, <1>5, <1>6

LEMMA HandleMoveConfirmStep ==
    ASSUME IndInv, Counted, HandleMoveConfirm
    PROVE  GoodStep
<1>0. page \in Page /\ PageFits(page)
    BY InvariantIs
<1>1. PICK files, folders : files = SelectedOf(page, "file") /\ folders = SelectedOf(page, "folder")
    OBVIOUS
<1>2. PICK copy \in BOOLEAN : copy <=> page.dialog.kind = "copy"
    OBVIOUS
<1>3. PICK a : a = IF files = {} THEN <<>>
                   ELSE <<Request(IF copy THEN "bulkCopyFiles" ELSE "bulkMoveFiles", files, {}, page.target)>>
    OBVIOUS
<1>4. PICK b : b = IF copy \/ folders = {} THEN <<>>
                   ELSE <<Request("bulkMoveFolders", {}, folders, page.target)>>
    OBVIOUS
<1>5. PICK q : q = [page EXCEPT !.moving = TRUE]
    OBVIOUS
<1>6. Start(IF a \o b = <<>> THEN Refreshing(NoSelection(q)) ELSE q, "move", a \o b)
    BY <1>1, <1>2, <1>3, <1>4, <1>5 DEF HandleMoveConfirm
<1>7. files \in SUBSET Files /\ folders \in SUBSET Folders /\ page.target \in Folders \cup {Root}
    BY <1>0, <1>1, SplitSelection DEF Page
<1>8. PICK op \in {"bulkCopyFiles", "bulkMoveFiles"} : op = IF copy THEN "bulkCopyFiles" ELSE "bulkMoveFiles"
    OBVIOUS
<1>9. /\ Request(op, files, {}, page.target) \in AskedRequests(consent)
      /\ Request("bulkMoveFolders", {}, folders, page.target) \in AskedRequests(consent)
    <2>1. /\ op \in Ops \ (Erasing \cup {"switch", "emptyTrash"})
          /\ "bulkMoveFolders" \in Ops \ (Erasing \cup {"switch", "emptyTrash"})
        BY <1>8 DEF Ops, Erasing
    <2> QED BY <1>7, <2>1, PlainRequest
<1>10. PICK S : S = AskedRequests(consent)
    OBVIOUS
<1>11. a \in Seq(S) /\ b \in Seq(S)
    <2>1. <<>> \in Seq(S) /\ \A r \in S : <<r>> \in Seq(S)
        BY EmptySeq
    <2> QED BY <1>3, <1>4, <1>8, <1>9, <1>10, <2>1
<1>12. PICK todo : todo = a \o b
    OBVIOUS
<1>13. todo \in Seq(S)
    BY <1>11, <1>12, ConcatProperties
<1>14. MayBegin(consent, "move", todo)
    BY <1>10, <1>13 DEF MayBegin, Fns
<1>15. q \in Page /\ SameSelection(page, q) /\ SameRun(q, page) /\ q.trail = page.trail /\ q.busy = page.busy
    BY <1>0, <1>5 DEF Page, SameSelection, SameRun
<1>16. SetsWell(q)
    BY <1>15, ViewSets
<1>17. PICK r : r = IF todo = <<>> THEN Refreshing(NoSelection(q)) ELSE q
    OBVIOUS
<1>18. SetsWell(r)
    <2>1. CASE todo = <<>>
        <3>1. PICK s : s = NoSelection(q)
            OBVIOUS
        <3>2. PageFits(s) /\ SameRun(s, q) /\ s.trail = q.trail /\ s.busy = q.busy
            BY <1>16, <3>1, DeselectedFits DEF SetsWell
        <3>3. r = Refreshing(s)
            BY <1>17, <2>1, <3>1
        <3>4. PageFits(r) /\ SameRun(r, s) /\ r.trail = s.trail /\ r.busy = s.busy
            BY <3>2, <3>3, RefreshingFits
        <3> QED BY <1>16, <3>2, <3>4, NothingIsWaiting DEF SetsWell, SameRun
    <2>2. CASE todo # <<>>
        BY <1>16, <1>17, <2>2
    <2> QED BY <2>1, <2>2
<1>19. BeginsWell(r, "move", todo)
    BY <1>14, <1>18 DEF BeginsWell, SetsWell, DialogFns
<1>20. Start(r, "move", todo)
    BY <1>6, <1>12, <1>17
<1> QED BY <1>19, <1>20, StartIsGood

LEMMA RestoreStep ==
    ASSUME IndInv, Counted, NEW fs \in SUBSET Files, NEW ps \in SUBSET Folders, HandleRestore(fs, ps)
    PROVE  GoodStep
<1>1. PICK r : r = Request("restore", fs, ps, Root)
    OBVIOUS
<1>2. r \in AskedRequests(consent)
    <2>1. "restore" \in Ops \ (Erasing \cup {"switch", "emptyTrash"})
        BY DEF Ops, Erasing
    <2> QED BY <1>1, <2>1, PlainRequest
<1>3. Start(page, "restore", <<r>>) /\ "restore" \in Fns \ (DialogFns \cup {"crumbs"})
    BY <1>1 DEF HandleRestore, Fns, DialogFns
<1> QED BY <1>2, <1>3, PageSets, OneStarts

LEMMA RestoreRowStep ==
    ASSUME IndInv, Counted, NEW x \in Ids, RestoreRow(x)
    PROVE  GoodStep
<1>1. ShownFiles(page) \subseteq Files /\ ShownFolders(page) \subseteq Folders
    BY ShownAre
<1>2. \/ {x} \in SUBSET Files /\ HandleRestore({x}, {})
      \/ {x} \in SUBSET Folders /\ HandleRestore({}, {x})
    BY <1>1 DEF RestoreRow
<1>3. {} \in SUBSET Files /\ {} \in SUBSET Folders
    OBVIOUS
<1> QED BY <1>2, <1>3, RestoreStep

LEMMA RestoreSelectedStep ==
    ASSUME IndInv, Counted, RestoreSelected
    PROVE  GoodStep
<1>1. SelectedOf(page, "file") \in SUBSET Files /\ SelectedOf(page, "folder") \in SUBSET Folders
    BY InvariantIs, SplitSelection
<1>2. HandleRestore(SelectedOf(page, "file"), SelectedOf(page, "folder"))
    BY DEF RestoreSelected
<1> QED BY <1>1, <1>2, RestoreStep

LEMMA CopyHereStep ==
    ASSUME IndInv, Counted, NEW f \in Ids, CopyHere(f)
    PROVE  GoodStep
<1>1. f \in Files /\ Start(page, "copy", <<Request("copyFile", {f}, {}, page.folder)>>)
    BY ShownAre DEF CopyHere
<1>2. PICK r : r = Request("copyFile", {f}, {}, page.folder)
    OBVIOUS
<1>3. r \in AskedRequests(consent)
    <2>1. "copyFile" \in Ops \ (Erasing \cup {"switch", "emptyTrash"})
        BY DEF Ops, Erasing
    <2>2. page.folder \in Folders \cup {Root} /\ {f} \in SUBSET Files
        BY <1>1, InvariantIs DEF Page
    <2> QED BY <1>2, <2>1, <2>2, PlainRequest
<1>4. Start(page, "copy", <<r>>) /\ "copy" \in Fns \ (DialogFns \cup {"crumbs"})
    BY <1>1, <1>2 DEF Fns, DialogFns
<1> QED BY <1>3, <1>4, PageSets, OneStarts

LEMMA ExtractStep ==
    ASSUME IndInv, Counted, NEW f \in Files, HandleExtract(f)
    PROVE  GoodStep
<1>1. PICK r : r = Request("extract", {f}, {}, Root)
    OBVIOUS
<1>2. r \in AskedRequests(consent)
    <2>1. "extract" \in Ops \ (Erasing \cup {"switch", "emptyTrash"})
        BY DEF Ops, Erasing
    <2> QED BY <1>1, <2>1, PlainRequest
<1>3. PICK q : q = [page EXCEPT !.extracting = f]
    OBVIOUS
<1>4. Start(q, "extract", <<r>>) /\ "extract" \in Fns \ (DialogFns \cup {"crumbs"})
    BY <1>1, <1>3 DEF HandleExtract, Fns, DialogFns
<1>5. page \in Page
    BY InvariantIs
<1>6. q \in Page /\ SameSelection(page, q) /\ SameRun(q, page) /\ q.trail = page.trail /\ q.busy = page.busy
    BY <1>3, <1>5 DEF Page, SameSelection, SameRun
<1>7. SetsWell(q)
    BY <1>6, ViewSets
<1> QED BY <1>2, <1>4, <1>7, OneStarts

LEMMA ExtractRowStep ==
    ASSUME IndInv, Counted, NEW f \in Files, ExtractRow(f)
    PROVE  GoodStep
BY ExtractStep DEF ExtractRow

LEMMA ExtractSelectedStep ==
    ASSUME IndInv, Counted, ExtractSelected
    PROVE  GoodStep
BY ExtractStep, ShownAre DEF ExtractSelected

LEMMA HandleWorkspaceStep ==
    ASSUME IndInv, Counted, NEW ws \in Workspaces, HandleWorkspace(ws)
    PROVE  GoodStep
<1>1. PICK r : r = Request("switch", {}, {}, ws)
    OBVIOUS
<1>2. r \in Requests /\ r.op = "switch" /\ r.to = ws
    BY <1>1, RequestIs DEF Request, Ops
<1>3. r \in AskedRequests(consent)
    BY <1>2 DEF AskedRequests, Asked, Erasing
<1>4. Start(page, "switch", <<r>>) /\ "switch" \in Fns \ (DialogFns \cup {"crumbs"})
    BY <1>1 DEF HandleWorkspace, Fns, DialogFns
<1> QED BY <1>3, <1>4, PageSets, OneStarts

-----------------------------------------------------------------------------
(* A confirmation                                                          *)

\* A request that erases only what was agreed to.
LEMMA ErasingRequest ==
    ASSUME NEW c, NEW op \in Erasing, NEW fs \in SUBSET Files, NEW ps \in SUBSET Folders,
           fs \subseteq c.ids, ps \subseteq c.ids
    PROVE  Request(op, fs, ps, Root) \in AskedRequests(c)
<1>1. PICK r : r = Request(op, fs, ps, Root)
    OBVIOUS
<1>2. r \in Requests /\ r.op = op /\ r.to = Root /\ r.files = fs /\ r.folders = ps
    BY <1>1, RequestIs DEF Request, Ops
<1> QED BY <1>1, <1>2 DEF AskedRequests, Asked, Erasing

LEMMA EachFile ==
    ASSUME NEW c, NEW fs \in SUBSET Files, fs \subseteq c.ids
    PROVE  SetToSeq({Request("purge", {f}, {}, Root) : f \in fs}) \in Seq(AskedRequests(c))
<1>1. PICK R : R = AskedRequests(c)
    OBVIOUS
<1>2. \A f \in fs : Request("purge", {f}, {}, Root) \in R
    <2>1. "purge" \in Erasing /\ \A f \in fs : {f} \in SUBSET Files /\ {f} \subseteq c.ids
        BY DEF Erasing
    <2>2. {} \in SUBSET Folders /\ {} \subseteq c.ids
        OBVIOUS
    <2> QED BY <1>1, <2>1, <2>2, ErasingRequest
<1>3. PICK g : g = [f \in fs |-> Request("purge", {f}, {}, Root)]
    OBVIOUS
<1>4. g \in [fs -> R]
    BY <1>2, <1>3
<1>5. PICK T : T = {g[f] : f \in fs}
    OBVIOUS
<1>6. IsFiniteSet(fs)
    BY SizeOf DEF Numbered
<1>a. g \in Surjection(fs, T)
    BY <1>4, <1>5 DEF Surjection
<1>7. SetToSeq(T) \in Seq(T)
    BY <1>6, <1>a, OneForEach
<1>8. T \subseteq R
    BY <1>4, <1>5
<1>9. SetToSeq(T) \in Seq(R)
    BY <1>7, <1>8, SeqMonotonic
<1>10. T = {Request("purge", {f}, {}, Root) : f \in fs}
    BY <1>3, <1>5
<1> QED BY <1>1, <1>9, <1>10

LEMMA EachFolder ==
    ASSUME NEW c, NEW ps \in SUBSET Folders, ps \subseteq c.ids
    PROVE  SetToSeq({Request("purge", {}, {p}, Root) : p \in ps}) \in Seq(AskedRequests(c))
<1>1. PICK R : R = AskedRequests(c)
    OBVIOUS
<1>2. \A p \in ps : Request("purge", {}, {p}, Root) \in R
    <2>1. "purge" \in Erasing /\ \A p \in ps : {p} \in SUBSET Folders /\ {p} \subseteq c.ids
        BY DEF Erasing
    <2>2. {} \in SUBSET Files /\ {} \subseteq c.ids
        OBVIOUS
    <2> QED BY <1>1, <2>1, <2>2, ErasingRequest
<1>3. PICK g : g = [p \in ps |-> Request("purge", {}, {p}, Root)]
    OBVIOUS
<1>4. g \in [ps -> R]
    BY <1>2, <1>3
<1>5. PICK T : T = {g[p] : p \in ps}
    OBVIOUS
<1>6. IsFiniteSet(ps)
    BY SizeOf DEF Numbered
<1>a. g \in Surjection(ps, T)
    BY <1>4, <1>5 DEF Surjection
<1>7. SetToSeq(T) \in Seq(T)
    BY <1>6, <1>a, OneForEach
<1>8. T \subseteq R
    BY <1>4, <1>5
<1>9. SetToSeq(T) \in Seq(R)
    BY <1>7, <1>8, SeqMonotonic
<1>10. T = {Request("purge", {}, {p}, Root) : p \in ps}
    BY <1>3, <1>5
<1> QED BY <1>1, <1>9, <1>10

\* What the confirmation of a dialog says.
Confirms(p, e) ==
    /\ PageFits(p)
    /\ {p.dialog.id} \cap Ids \subseteq e.ids
    /\ p.dialog.kind \in {"delete-selected", "purge-selected"} => p.dialog.asked \subseteq e.ids
    /\ p.dialog.kind = "empty-trash" => e.trash # {}

LEMMA OneIsConfirmed ==
    ASSUME NEW p, NEW e, Confirms(p, e)
    PROVE  /\ p.dialog.kind \in {"delete-file", "purge-file"} =>
                 {p.dialog.id} \in SUBSET Files /\ {p.dialog.id} \subseteq e.ids
           /\ p.dialog.kind \in {"delete-folder", "purge-folder"} =>
                 {p.dialog.id} \in SUBSET Folders /\ {p.dialog.id} \subseteq e.ids
BY DEF Confirms, PageFits, DialogFits, Ids

LEMMA ConfirmRequestsAre ==
    ASSUME NEW p, NEW e, Confirms(p, e), p.dialog.kind \in ConfirmModes
    PROVE  ConfirmRequests(p) \in Seq(AskedRequests(e))
<1>1. PICK R : R = AskedRequests(e)
    OBVIOUS
<1>2. PICK files, folders, x : files = SelectedOf(p, "file") /\ folders = SelectedOf(p, "folder") /\ x = p.dialog.id
    OBVIOUS
<1>3. /\ files \in SUBSET Files /\ folders \in SUBSET Folders
      /\ files \subseteq p.selected /\ folders \subseteq p.selected
    BY <1>2, SplitSelection DEF Confirms
<1>4. p.dialog.kind \in {"delete-selected", "purge-selected"} => files \subseteq e.ids /\ folders \subseteq e.ids
    BY <1>3 DEF Confirms, PageFits, DialogFits
<1>5. {} \in SUBSET Files /\ {} \in SUBSET Folders /\ {} \subseteq e.ids
    OBVIOUS
<1>6. <<>> \in Seq(R) /\ \A r \in R : <<r>> \in Seq(R)
    BY EmptySeq
<1>7. CASE p.dialog.kind = "delete-selected"
    <2>1. PICK a, b : /\ a = IF files \cup {} = {} THEN <<>> ELSE <<Request("bulkDeleteFiles", files, {}, Root)>>
                      /\ b = IF {} \cup folders = {} THEN <<>> ELSE <<Request("bulkDeleteFolders", {}, folders, Root)>>
        OBVIOUS
    <2>2. ConfirmRequests(p) = a \o b
        BY <1>2, <1>7, <2>1 DEF ConfirmRequests
    <2>3. /\ Request("bulkDeleteFiles", files, {}, Root) \in R
          /\ Request("bulkDeleteFolders", {}, folders, Root) \in R
        <3>1. "bulkDeleteFiles" \in Erasing /\ "bulkDeleteFolders" \in Erasing
            BY DEF Erasing
        <3> QED BY <1>1, <1>3, <1>4, <1>5, <1>7, <3>1, ErasingRequest
    <2>4. a \in Seq(R) /\ b \in Seq(R)
        BY <1>6, <2>1, <2>3
    <2> QED BY <1>1, <2>2, <2>4, ConcatProperties
<1>8. CASE p.dialog.kind = "purge-selected"
    <2>1. PICK a, b : /\ a = SetToSeq({Request("purge", {f}, {}, Root) : f \in files})
                      /\ b = SetToSeq({Request("purge", {}, {q}, Root) : q \in folders})
        OBVIOUS
    <2>2. ConfirmRequests(p) = a \o b
        BY <1>2, <1>8, <2>1 DEF ConfirmRequests
    <2>3. a \in Seq(R) /\ b \in Seq(R)
        BY <1>1, <1>3, <1>4, <1>8, <2>1, EachFile, EachFolder
    <2> QED BY <1>1, <2>2, <2>3, ConcatProperties
<1>9. CASE p.dialog.kind \in {"delete-file", "purge-file", "delete-folder", "purge-folder"}
    <2>1. /\ p.dialog.kind \in {"delete-file", "purge-file"} => {x} \in SUBSET Files /\ {x} \subseteq e.ids
          /\ p.dialog.kind \in {"delete-folder", "purge-folder"} => {x} \in SUBSET Folders /\ {x} \subseteq e.ids
        BY <1>2, OneIsConfirmed
    <2>2. /\ p.dialog.kind = "delete-file" => Request("deleteFile", {x}, {}, Root) \in R
          /\ p.dialog.kind = "delete-folder" => Request("deleteFolder", {}, {x}, Root) \in R
          /\ p.dialog.kind = "purge-file" => Request("purge", {x}, {}, Root) \in R
          /\ p.dialog.kind = "purge-folder" => Request("purge", {}, {x}, Root) \in R
        <3>1. "deleteFile" \in Erasing /\ "deleteFolder" \in Erasing /\ "purge" \in Erasing
            BY DEF Erasing
        <3> QED BY <1>1, <1>5, <2>1, <3>1, ErasingRequest
    <2>3. PICK r \in R : ConfirmRequests(p) = <<r>>
        BY <1>2, <1>9, <2>2 DEF ConfirmRequests
    <2> QED BY <1>1, <1>6, <2>3
<1>10. CASE p.dialog.kind = "empty-trash"
    <2>1. PICK r : r = Request("emptyTrash", {}, {}, Root)
        OBVIOUS
    <2>2. r \in Requests /\ r.op = "emptyTrash" /\ r.to = Root
        BY <2>1, RequestIs DEF Request, Ops
    <2>3. r \in R
        BY <1>1, <1>10, <2>2 DEF AskedRequests, Asked, Erasing, Confirms
    <2>4. ConfirmRequests(p) = <<r>>
        BY <1>10, <2>1 DEF ConfirmRequests
    <2> QED BY <1>1, <1>6, <2>3, <2>4
<1> QED BY <1>7, <1>8, <1>9, <1>10 DEF ConfirmModes

LEMMA AgreedIs ==
    ASSUME IndInv, NEW e, e = Agreed(page.dialog)
    PROVE  /\ Confirms(page, e) /\ e \in Consents
           /\ consent.ids \subseteq e.ids /\ consent.trash \subseteq e.trash
<1>1. page \in Page /\ PageFits(page) /\ consent \in Consents
    BY InvariantIs
<1>2. page.dialog \in Dialog /\ page.ws \in Workspaces
    BY <1>1 DEF Page
<1>3. PICK ids : ids = consent.ids \cup ({page.dialog.id} \cap Ids) \cup
                       (IF page.dialog.kind \in {"delete-selected", "purge-selected"}
                        THEN page.dialog.asked ELSE {})
    OBVIOUS
<1>4. PICK trash : trash = consent.trash \cup (IF page.dialog.kind = "empty-trash" THEN {page.ws} ELSE {})
    OBVIOUS
<1>5. e = [consent EXCEPT !.ids = ids, !.trash = trash]
    BY <1>1, <1>3, <1>4 DEF Agreed, Consents
<1>6. ids \in SUBSET Ids /\ trash \in SUBSET Workspaces
    <2>1. page.dialog.asked \in SUBSET Ids
        BY <1>2 DEF Dialog
    <2> QED BY <1>1, <1>2, <1>3, <1>4, <2>1 DEF Consents
<1>7. e.ids = ids /\ e.trash = trash /\ e \in Consents
    BY <1>1, <1>5, <1>6 DEF Consents
<1> QED BY <1>1, <1>3, <1>4, <1>7 DEF Confirms

LEMMA RunConfirmStep ==
    ASSUME IndInv, Counted, RunConfirm
    PROVE  GoodStep
<1>0. page \in Page
    BY InvariantIs
<1>1. PICK todo : todo = ConfirmRequests(page)
    OBVIOUS
<1>2. PICK busy : busy = [page EXCEPT !.busy = TRUE]
    OBVIOUS
<1>3. PICK q : q = IF todo = <<>> THEN Refreshing(CloseDialog(busy, ConfirmModes)) ELSE busy
    OBVIOUS
<1>4. PICK g : g = Flow("confirm", page, todo)
    OBVIOUS
<1>5. PICK e : e = Agreed(page.dialog)
    OBVIOUS
<1>6. /\ page.dialog.kind \in ConfirmModes /\ page.busy = FALSE
      /\ Render(q, Append(flows, g)) /\ consent' = e /\ UNCHANGED <<disk, active, uploads>>
    BY <1>1, <1>2, <1>3, <1>4, <1>5, InvariantIs DEF RunConfirm
<1>7. /\ Confirms(page, e) /\ e \in Consents
      /\ consent.ids \subseteq e.ids /\ consent.trash \subseteq e.trash
    BY <1>5, AgreedIs
<1>8. todo \in Seq(AskedRequests(e))
    BY <1>1, <1>6, <1>7, ConfirmRequestsAre
<1>9. Begun(e, "confirm", todo, g)
    <2>1. MayBegin(e, "confirm", todo)
        BY <1>8 DEF MayBegin, Fns, DialogFns
    <2> QED BY <1>0, <1>4, <2>1, FlowIs
<1>10. PageFits(busy) /\ SameRun(busy, page) /\ busy.trail = page.trail /\ busy.busy = TRUE
    BY <1>2, BusySets
<1>11. PageFits(q) /\ SameRun(q, page) /\ q.trail = page.trail /\ q.busy = TRUE
    <2>1. CASE todo = <<>>
        <3>1. PICK r, kinds : r = CloseDialog(busy, kinds) /\ kinds = ConfirmModes
            OBVIOUS
        <3>2. PageFits(r) /\ SameRun(r, busy) /\ r.trail = busy.trail /\ r.busy = busy.busy
            BY <1>10, <3>1, ClosedFits
        <3>3. q = Refreshing(r)
            BY <1>3, <2>1, <3>1
        <3>4. PageFits(q) /\ SameRun(q, r) /\ q.trail = r.trail /\ q.busy = r.busy
            BY <3>2, <3>3, RefreshingFits
        <3> QED BY <1>10, <3>2, <3>4, NothingIsWaiting DEF SameRun
    <2>2. CASE todo # <<>>
        BY <1>3, <1>10, <2>2
    <2> QED BY <2>1, <2>2
<1>12. FlowsFit(flows, page.folder, page.trail, page.busy, e)
    BY <1>7, InvariantIs, MoreIsAgreed
<1>13. FlowsFit(Append(flows, g), page.folder, q.trail, q.busy, e)
    <2>1. g \in GoodFlows(e) /\ g.fn = "confirm" /\ page.busy \in BOOLEAN
        BY <1>9, InvariantIs DEF Begun
    <2> QED BY <1>6, <1>11, <1>12, <2>1, BegunFits DEF DialogFns
<1>14. UploadsFit(uploads, q, disk)
    BY <1>11, InvariantIs, SameUploads
<1>15. q.run <= clicks'
    BY <1>11, InvariantIs DEF Counted, SameRun
<1>16. Before(q, Append(flows, g), uploads, disk, e)
    BY <1>11, <1>13, <1>14 DEF Before
<1>17. page' = Effects(q, Append(flows, g), FALSE).page /\ flows' = Effects(q, Append(flows, g), FALSE).flows
    BY <1>6 DEF Render
<1>18. Fits(page', flows', uploads, disk, e) /\ page'.run = q.run
    BY <1>16, <1>17, EffectsFit
<1>19. StepOK
    BY <1>6, SameDiskIsOK
<1> QED BY <1>6, <1>7, <1>15, <1>18, <1>19, InvariantIs DEF GoodStep

-----------------------------------------------------------------------------
(* The specification                                                       *)

LEMMA OnPageStep ==
    ASSUME IndInv, Counted, Clicked, ~IsModal(page), NEW family, OnPage(family)
    PROVE  GoodStep
<1>1. CASE \/ \E section \in Sections : OpenSection(section)
           \/ \E p \in Folders \cup {Root} : OpenFolder(p) \/ OpenCrumb(p)
    BY <1>1, OpenSectionStep, OpenFolderStep
<1>2. CASE \/ \E f \in Files : OpenRow(f) \/ OpenTile(f)
           \/ \E filters \in FiltersTried : ChangeFilters(filters)
    BY <1>2, OpenFileStep, ChangeFiltersStep
<1>3. CASE \/ \E x \in Ids, shift \in BOOLEAN : ApplyRangeSelect(x, shift)
           \/ ToggleSelectAll \/ ClearSelection
    BY <1>3, ApplyRangeSelectStep, ToggleSelectAllStep, ClearSelectionStep DEF ClearSelection
<1>4. CASE \/ \E kind \in {"move", "copy"} : AskMove(kind)
           \/ \E x \in Ids : AskRename(x) \/ CopyHere(x)
           \/ AskCreate
    BY <1>4, AskMoveStep, AskRenameStep, CopyHereStep, AskOtherStep
<1>5. CASE \/ \E x \in Ids : AskDelete(x) \/ AskPurge(x)
           \/ AskEmptyTrash \/ AskSelected
    BY <1>5, AskRenameStep, AskOtherStep
<1>6. CASE (\E x \in Ids : RestoreRow(x)) \/ RestoreSelected
    BY <1>6, RestoreRowStep, RestoreSelectedStep
<1>7. CASE (\E f \in Files : ExtractRow(f)) \/ ExtractSelected
    BY <1>7, ExtractRowStep, ExtractSelectedStep
<1>8. CASE \/ UploadOffered /\ \E n \in 1..MaxDrop : RunUploads(n)
           \/ CancelUploads \/ DismissUploads
    BY <1>8, RunUploadsStep, CancelUploadsStep, DismissUploadsStep
<1>9. CASE \E ws \in Workspaces : HandleWorkspace(ws)
    BY <1>9, HandleWorkspaceStep
<1> QED BY <1>1, <1>2, <1>3, <1>4, <1>5, <1>6, <1>7, <1>8, <1>9 DEF OnPage

LEMMA UserStep ==
    ASSUME IndInv, User
    PROVE  GoodStep /\ Counted
<1>1. UNCHANGED <<troubles, habit>>
    BY DEF User
<1>2. CASE IsModal(page) /\ InDialog /\ UNCHANGED clicks
    <2>1. Counted
        BY <1>1, <1>2, InvariantIs DEF Counted
    <2> QED BY <1>2, <2>1, CancelDialogStep, RunConfirmStep, PickTargetStep DEF InDialog
<1>3. CASE /\ clicks < MaxClicks /\ clicks' = clicks + 1
           /\ \/ IsModal(page) /\ Submit
              \/ ~IsModal(page) /\ \E family \in habit : OnPage(family)
    <2>1. Clicked
        BY <1>3 DEF Clicked
    <2>2. Counted
        <3>1. clicks \in 0..MaxClicks /\ MaxClicks \in Nat
            BY InvariantIs, BoundsAssumption
        <3>2. clicks' \in 0..MaxClicks /\ clicks <= clicks'
            BY <2>1, <3>1 DEF Clicked
        <3> QED BY <1>1, <3>2, InvariantIs DEF Counted
    <2> QED BY <1>3, <2>1, <2>2, OnPageStep, SubmitNameStep, HandleMoveConfirmStep DEF Submit
<1> QED BY <1>2, <1>3 DEF User

LEMMA OtherTabStep ==
    ASSUME IndInv, NEW ws \in Workspaces, OtherTab(ws)
    PROVE  GoodStep /\ Counted
<1>1. active' = ws /\ UNCHANGED <<disk, page, flows, uploads, clicks, habit, consent>> /\ Trouble
    BY DEF OtherTab
<1>2. Counted
    BY <1>1, TroubleCounted, UploadCounted
<1>3. StepOK
    BY <1>1, SameDiskIsOK
<1>4. Fits(page', flows', uploads', disk', consent') /\ page'.run <= clicks'
    BY <1>1, InvariantIs DEF Fits
<1> QED BY <1>1, <1>2, <1>3, <1>4, InvariantIs DEF GoodStep

LEMMA StutterStep ==
    ASSUME IndInv, UNCHANGED vars
    PROVE  GoodStep /\ Counted
<1>1. UNCHANGED <<disk, active, page, flows, uploads, clicks, troubles, habit, consent>>
    BY DEF vars
<1>2. Counted
    BY <1>1, UploadCounted, InvariantIs
<1>3. StepOK
    BY <1>1, SameDiskIsOK
<1>4. Fits(page', flows', uploads', disk', consent') /\ page'.run <= clicks'
    BY <1>1, InvariantIs DEF Fits
<1> QED BY <1>1, <1>2, <1>3, <1>4, InvariantIs DEF GoodStep

LEMMA Step ==
    ASSUME IndInv, [Next]_vars
    PROVE  IndInv' /\ StepOK
<1>1. GoodStep /\ Counted
    <2>1. CASE Working
        BY <2>1, FlowStepIsGood, UploadStepIsGood DEF Working
    <2>2. CASE User
        BY <2>2, UserStep
    <2>3. CASE \E i \in DOMAIN flows : Lose(i)
        BY <2>3, LoseStep
    <2>4. CASE \E k \in DOMAIN uploads : InitLimited(k) \/ UploadLost(k)
        BY <2>4, InitLimitedStep, UploadLostStep
    <2>5. CASE \E ws \in Workspaces : OtherTab(ws)
        BY <2>5, OtherTabStep
    <2>6. CASE UNCHANGED vars
        BY <2>6, StutterStep
    <2> QED BY <2>1, <2>2, <2>3, <2>4, <2>5, <2>6 DEF Next
<1> QED BY <1>1, StepIsInductive

LEMMA InitIsGood ==
    Init => IndInv
<1> SUFFICES ASSUME Init PROVE IndInv
    OBVIOUS
<1>1. /\ disk = Stored /\ active = Home /\ page = Mounted /\ uploads = <<>>
      /\ flows = <<Flow("refresh", Mounted, <<>>)>>
      /\ clicks = 0 /\ troubles = 0 /\ habit \in Habits /\ consent = [ids |-> {}, trash |-> {}]
    BY DEF Init
<1>2. PICK p : p = Mounted
    OBVIOUS
<1>3. p \in Page
    <2>1. "my-files" \in Sections /\ Home \in Workspaces /\ 0 \in 0..MaxClicks
        BY PageAssumption, StoredAssumption, BoundsAssumption
    <2> QED BY <1>2, <2>1, NothingIsWaiting DEF Mounted, Page
<1>4. /\ p.selected = {} /\ p.kinds = {} /\ p.dialog = NoDialog /\ p.folder = Root /\ p.trail = Root
      /\ p.busy = FALSE /\ p.lock = FALSE /\ p.jobs = <<>> /\ p.run = 0
    BY <1>2 DEF Mounted
<1>5. PageFits(p)
    BY <1>3, <1>4, NothingIsWaiting, NoSelectionFits DEF DialogFits
<1>6. PICK c : c = consent
    OBVIOUS
<1>7. FlowsFit(flows, Root, Root, FALSE, c)
    <2>1. PICK f : f = Flow("refresh", p, <<>>)
        OBVIOUS
    <2>2. f \in GoodFlows(c) /\ f.fn = "refresh"
        BY <1>3, <2>1, RefreshIs
    <2>3. flows = <<f>>
        BY <1>1, <1>2, <2>1
    <2>4. flows \in Seq(GoodFlows(c)) /\ DOMAIN flows = {1} /\ flows[1] = f
        BY <2>2, <2>3
    <2>5. \A i \in DOMAIN flows : ~LiveCrumbs(flows[i])
        BY <2>2, <2>4 DEF LiveCrumbs
    <2>6. \A i : ~OfDialog(flows, i)
        BY <2>2, <2>4 DEF OfDialog, DialogFns
    <2> QED BY <2>4, <2>5, <2>6 DEF FlowsFit
<1>8. UploadsFit(uploads, p, disk)
    BY <1>1, <1>4, NothingIsWaiting DEF UploadsFit
<1>9. Fits(page, flows, uploads, disk, consent)
    BY <1>1, <1>2, <1>4, <1>5, <1>6, <1>7, <1>8 DEF Fits
<1>10. CountsFit
    BY <1>1, <1>2, <1>4, BoundsAssumption DEF CountsFit, Consents
<1> QED BY <1>1, <1>9, <1>10, StoredAssumption DEF IndInv

\* The invariant holds in every state, for every disk, set of workspaces and bound: what
\* the functions of the page still ask, the user agreed to; what the page shows of them
\* is true.
THEOREM Invariance == Spec => []IndInv
<1>1. IndInv /\ [Next]_vars => IndInv'
    BY Step
<1> QED BY <1>1, InitIsGood, PTL DEF Spec

-----------------------------------------------------------------------------
(* What follows from the invariant                                         *)

LEMMA InvTypes ==
    ASSUME IndInv
    PROVE  TypeOK
<1>1. /\ disk \in Disk /\ active \in Workspaces /\ page \in Page
      /\ clicks \in 0..MaxClicks /\ troubles \in 0..MaxTroubles /\ habit \in Habits
      /\ flows \in Seq(GoodFlows(consent)) /\ UploadsFit(uploads, page, disk)
    BY InvariantIs
<1>2. \A i \in DOMAIN flows :
         [fn |-> flows[i].fn, at |-> flows[i].at, section |-> flows[i].section,
          folder |-> flows[i].folder, live |-> flows[i].live] \in FlowType
    <2> SUFFICES ASSUME NEW i \in DOMAIN flows
                 PROVE  [fn |-> flows[i].fn, at |-> flows[i].at, section |-> flows[i].section,
                         folder |-> flows[i].folder, live |-> flows[i].live] \in FlowType
        OBVIOUS
    <2>1. PICK f : f = flows[i]
        OBVIOUS
    <2>2. f \in GoodFlows(consent)
        BY <1>1, <2>1
    <2>3. /\ f.fn \in Fns /\ f.at \in {"call", "back"} \cup Answered /\ f.section \in Sections
          /\ f.folder \in Folders \cup {Root} /\ f.live \in BOOLEAN
        BY <2>2 DEF GoodFlows
    <2>4. [fn |-> f.fn, at |-> f.at, section |-> f.section, folder |-> f.folder, live |-> f.live] \in FlowType
        BY <2>3 DEF Answered, FlowType
    <2> QED BY <2>1, <2>4
<1>3. \A k \in DOMAIN uploads : uploads[k] \in Upload
    <2>1. CASE uploads = <<>>
        BY <2>1
    <2>2. CASE OneRun(uploads, page, disk)
        <3>1. PICK u \in Upload : uploads = <<u>>
            BY <2>2 DEF OneRun
        <3>2. DOMAIN uploads = {1} /\ uploads[1] = u
            BY <3>1
        <3> QED BY <3>2
    <2> QED BY <1>1, <2>1, <2>2 DEF UploadsFit
<1> QED BY <1>1, <1>2, <1>3 DEF TypeOK

LEMMA InvTransfers ==
    ASSUME IndInv
    PROVE  OneTransferAtATime
<1>1. UploadsFit(uploads, page, disk) /\ page \in Page
    BY InvariantIs
<1>2. page.lock \in BOOLEAN
    BY <1>1 DEF Page
<1>3. CASE uploads = <<>> /\ ~page.lock /\ \A j \in DOMAIN page.jobs : page.jobs[j] # "uploading"
    <2>1. Len(uploads) = 0
        BY <1>3
    <2> QED BY <1>3, <2>1 DEF OneTransferAtATime
<1>4. CASE page.lock /\ OneRun(uploads, page, disk)
    <2>1. PICK u \in Upload : /\ uploads = <<u>> /\ u.run = page.run
                              /\ \A j \in DOMAIN page.jobs : page.jobs[j] = "uploading" => j = u.job
        BY <1>4 DEF OneRun
    <2>2. Len(uploads) = 1 /\ DOMAIN uploads = {1} /\ uploads[1] = u /\ uploads # <<>>
        BY <2>1
    <2>3. \A j \in DOMAIN page.jobs : page.jobs[j] = "uploading" =>
             \E k \in DOMAIN uploads : uploads[k].run = page.run /\ uploads[k].job = j
        BY <2>1, <2>2
    <2> QED BY <1>4, <2>2, <2>3 DEF OneTransferAtATime
<1> QED BY <1>1, <1>3, <1>4 DEF UploadsFit

LEMMA InvDialogs ==
    ASSUME IndInv
    PROVE  OneDialogCommandAtATime
<1>1. PICK running : running = {i \in DOMAIN flows : flows[i].fn \in DialogFns}
    OBVIOUS
<1>2. FlowsFit(flows, page.folder, page.trail, page.busy, consent)
    BY InvariantIs
<1>3. page.busy <=> running # {}
    BY <1>1, <1>2 DEF FlowsFit, OfDialog
<1>4. \A i, j \in running : i = j
    BY <1>1, <1>2 DEF FlowsFit, OfDialog
<1>5. Cardinality(running) <= 1
    <2>1. CASE running = {}
        <3>1. Cardinality(running) = 0
            BY <2>1, FS_EmptySet
        <3> QED BY <3>1
    <2>2. CASE running # {}
        <3>1. PICK i : running = {i}
            BY <1>4, <2>2
        <3>2. Cardinality(running) = 1
            BY <3>1, FS_Singleton
        <3> QED BY <3>2
    <2> QED BY <2>1, <2>2
<1> QED BY <1>1, <1>3, <1>5 DEF OneDialogCommandAtATime

LEMMA InvTrail ==
    ASSUME IndInv
    PROVE  TrailIsOfTheOpenFolder
<1>1. (\A i \in DOMAIN flows : ~LiveCrumbs(flows[i])) => page.trail \in {Root, page.folder}
    BY InvariantIs DEF FlowsFit
<1> QED BY <1>1 DEF LiveCrumbs, TrailIsOfTheOpenFolder

LEMMA KeptRow ==
    ASSUME NEW ws, NEW old \in Row, NEW new \in Row, RowKept(ws, old, new), new # old
    PROVE  {old.ws, new.ws} \subseteq {ws, Nobody}
BY DEF RowKept

-----------------------------------------------------------------------------
(* The theorems                                                            *)

\* In every reachable state the variables hold values of their kinds, whatever the
\* answers of the backend and the switches of another tab come after.
THEOREM TypesAreKept == Spec => []TypeOK
<1>1. IndInv => TypeOK
    BY InvTypes
<1> QED BY <1>1, Invariance, PTL

\* applyRangeSelect, toggleSelectAll and every list that arrives keep selectedKinds and
\* selected together, for any files and folders.
THEOREM KindsAgree == Spec => []SelectionKindsAgree
<1>1. IndInv => SelectionKindsAgree
    BY InvariantIs DEF PageFits, SelectionKindsAgree
<1> QED BY <1>1, Invariance, PTL

\* Nothing is selected that the page does not list, however many flows set the lists.
THEOREM SelectedIsListed == Spec => []SelectionIsListed
<1>1. IndInv => SelectionIsListed
    BY InvariantIs DEF PageFits, SelectionIsListed
<1> QED BY <1>1, Invariance, PTL

\* The lock of runUploads is held exactly while one call of it is at work, and a job
\* shows as uploading only for that call.
THEOREM TransfersAreSingle == Spec => []OneTransferAtATime
<1>1. IndInv => OneTransferAtATime
    BY InvTransfers
<1> QED BY <1>1, Invariance, PTL

\* The breadcrumbs are those of the open folder as soon as no request for them is awaited.
THEOREM TrailFollows == Spec => []TrailIsOfTheOpenFolder
<1>1. IndInv => TrailIsOfTheOpenFolder
    BY InvTrail
<1> QED BY <1>1, Invariance, PTL

\* dialogBusy is set exactly while one command of a dialog is under way.
THEOREM DialogCommandsAreSingle == Spec => []OneDialogCommandAtATime
<1>1. IndInv => OneDialogCommandAtATime
    BY InvDialogs
<1> QED BY <1>1, Invariance, PTL

\* The handlers of service/disk.go, in any order the page sends them, never put a folder
\* into itself, for any number of folders.
THEOREM FoldersStayATree == Spec => []FoldersFormATree
<1>1. IndInv => FoldersFormATree
    BY InvariantIs, StoredIs DEF FoldersFormATree
<1> QED BY <1>1, Invariance, PTL

\* No file and no folder ends in a folder of another workspace, although an upload is
\* completed for the workspace and the folder of its token.
THEOREM RowsStay == Spec => []RowsStayWithTheirFolder
<1>1. IndInv => RowsStayWithTheirFolder
    BY InvariantIs, StoredIs DEF RowsStayWithTheirFolder
<1> QED BY <1>1, Invariance, PTL

\* A step of the page, of the backend or of another tab leaves the rows of every
\* workspace alone that the session does not have as its active one.
THEOREM OthersAreLeftAlone == Spec => OnlyTheActiveWorkspaceChanges
<1>1. IndInv /\ [Next]_vars =>
        [/\ \A f \in Files : disk'.file[f] # disk.file[f] =>
                {disk.file[f].ws, disk'.file[f].ws} \subseteq {active, Nobody}
         /\ \A p \in Folders : disk'.folder[p] # disk.folder[p] =>
                {disk.folder[p].ws, disk'.folder[p].ws} \subseteq {active, Nobody}]_vars
    <2> SUFFICES ASSUME IndInv, [Next]_vars
                 PROVE  /\ \A f \in Files : disk'.file[f] # disk.file[f] =>
                              {disk.file[f].ws, disk'.file[f].ws} \subseteq {active, Nobody}
                        /\ \A p \in Folders : disk'.folder[p] # disk.folder[p] =>
                              {disk.folder[p].ws, disk'.folder[p].ws} \subseteq {active, Nobody}
        OBVIOUS
    <2>1. IndInv' /\ StepOK
        BY Step
    <2>2. disk \in Disk
        BY InvariantIs
    <2>3. disk' \in Disk
        BY <2>1, StoredIs DEF IndInv
    <2>4. PICK d, e : d = disk /\ e = disk'
        OBVIOUS
    <2>5. d.file \in [Files -> Row] /\ d.folder \in [Folders -> Row]
        BY <2>2, <2>4, DiskIs
    <2>6. e.file \in [Files -> Row] /\ e.folder \in [Folders -> Row]
        BY <2>3, <2>4, DiskIs
    <2>7. /\ \A f \in Files : RowKept(active, d.file[f], e.file[f])
          /\ \A p \in Folders : RowKept(active, d.folder[p], e.folder[p])
        BY <2>1, <2>4 DEF StepOK
    <2>8. \A f \in Files : e.file[f] # d.file[f] => {d.file[f].ws, e.file[f].ws} \subseteq {active, Nobody}
        BY <2>5, <2>6, <2>7, KeptRow
    <2>9. \A p \in Folders :
             e.folder[p] # d.folder[p] => {d.folder[p].ws, e.folder[p].ws} \subseteq {active, Nobody}
        BY <2>5, <2>6, <2>7, KeptRow
    <2> QED BY <2>4, <2>8, <2>9
<1> QED BY <1>1, Invariance, PTL DEF Spec, OnlyTheActiveWorkspaceChanges

\* Whatever is asked again, moved between the question and the answer, retried or cut
\* short, the content of a file goes only when the user agreed to lose it; what goes
\* without is at most the object of an upload that has no row yet and is being completed.
THEOREM ErasingIsConfirmed == Spec => ErasedWasConfirmed
<1> DEFINE Sure(f) ==
        \/ f \in consent.ids
        \/ \E p \in consent.ids \cap Folders :
              disk.file[f].in \in CollectSubtreeIDs(disk, p, FALSE)
        \/ InTrash(disk.file[f]) /\ consent.trash # {}
        \/ disk.file[f] = NoRow /\ \E k \in DOMAIN uploads : At(k, "complete") /\ uploads[k].key = f
<1>1. IndInv /\ [Next]_vars => [\A f \in disk.object \ disk'.object : Sure(f)]_vars
    <2> SUFFICES ASSUME IndInv, [Next]_vars, NEW f \in disk.object \ disk'.object
                 PROVE  Sure(f)
        OBVIOUS
    <2>1. Confirmed(disk, f, consent) \/ RefusedUpload(f)
        BY Step DEF StepOK
    <2> QED BY <2>1 DEF Confirmed, RefusedUpload
<1> QED BY <1>1, Invariance, PTL DEF Spec, ErasedWasConfirmed
=============================================================================
