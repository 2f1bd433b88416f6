-------------------------- MODULE VectorizeProofs --------------------------
(***************************************************************************)
(* Machine-checked proofs about Vectorize, for every set of files, chunk   *)
(* sizes, workers and handlers, and for every bound.                       *)
(***************************************************************************)
EXTENDS Vectorize, TLAPS

\* A worker between LoadFile and the SetFileStatus of a file.
InHand == {"delete", "embed", "insert", "mark", "skip", "fail", "unavailable"}

\* The chunks that one pass over f leaves after n texts, b of which had no vector.
Pass(f, n, b, s, j, a) ==
    [file : {f}, index : (1..n) \ b, size : {s}, job : {j}, attempt : {a}]

-----------------------------------------------------------------------------
(* What holds in every state *)

\* An idle worker has nothing in its locals; a busy one has a job and the number
\* of its claim; a file in hand is one of those to do.
WorkerLocal(w) ==
    /\ worker[w].pc = "idle" => worker[w] = IdleWorker
    /\ worker[w].pc # "idle" => /\ worker[w].job \in JobIds
                                /\ worker[w].attempt \in 1..MaxAttempts
    /\ worker[w].pc \in {"idle", "list"} => /\ worker[w].todo = {}
                                            /\ \A f \in Files : worker[w].seen[f] = NoRow
    /\ worker[w].pc \in InHand => worker[w].file \in worker[w].todo
    /\ worker[w].pc \in {"delete", "embed"} => worker[w].index = 1
    /\ worker[w].pc \in {"embed", "insert"} => worker[w].index <= Cut(w)
WorkerLocals == \A w \in Workers : WorkerLocal(w)

\* Nobody has tried a job that is still queued.
JobRows ==
    \A j \in JobIds : job[j].status \in {"none", "queued"} => job[j].attempts = 0

\* A detach has a file.
RequestLocals ==
    \A r \in Requests : request[r].pc = "detach" => request[r].file \in Files

\* A file that is gone has no row, and an indexed row counts the chunks of its file.
FileRows ==
    \A f \in Files :
        /\ f \notin onDisk => file[f].status = "none"
        /\ file[f].status = "indexed" => \E s \in Sizes : file[f].count = Pieces[f][s]

Always == TypeOK /\ WorkerLocals /\ JobRows /\ RequestLocals /\ FileRows

-----------------------------------------------------------------------------
(* What holds until the chunks are disturbed *)

\* One worker at most is busy, and none while a clear or a detach is half done.
Alone ==
    /\ \A v, w \in Workers : worker[v].pc # "idle" /\ worker[w].pc # "idle" => v = w
    /\ \A r \in Requests, w \in Workers :
          request[r].pc \in {"clear", "detach"} => worker[w].pc = "idle"

\* A file without a row has no chunks, nor has one that is being detached.
Unattached ==
    \A f \in Files :
        \/ file[f].status = "none"
        \/ \E r \in Requests : request[r].pc = "detach" /\ request[r].file = f
        => ChunksOf(f) = {}

\* The row of a file still to do is as it was listed, unless the file is gone.
Listed(w) ==
    \A f \in Files :
        f \in worker[w].todo => /\ worker[w].seen[f].status # "none"
                                /\ f \in onDisk => file[f] = worker[w].seen[f]

\* What the pass over the file in hand has done so far.
PassSoFar(w) ==
    LET x == worker[w] IN
    \A f \in Files :
        x.file = f =>
        /\ x.pc \in {"delete", "embed", "insert", "mark"} => ~Unchanged(x.seen[f])
        /\ x.pc = "embed" => ChunksOf(f) = {}
        /\ x.pc = "insert" /\ f \in onDisk
              => ChunksOf(f) = Pass(f, x.index - 1, x.blank, x.size, x.job, x.attempt)
        /\ x.pc = "mark" /\ f \in onDisk
              => ChunksOf(f) = Pass(f, Pieces[f][x.size], x.blank, x.size, x.job, x.attempt)

\* A file that was listed and is no longer to do has its verdict.
Covered(w) ==
    faults = 0 => \A f \in Files :
        worker[w].seen[f].status # "none" /\ f \notin worker[w].todo
            => \/ f \notin onDisk
               \/ file[f].status \notin {"none", "pending"}

\* IndexedIsComplete, file by file: only a clear, or a detach of that very file,
\* may take the chunks away before the row.
Complete(f) ==
    \E j \in JobIds, a \in 1..MaxAttempts, s \in Sizes :
        ChunksOf(f) = Pass(f, file[f].count, file[f].blank, s, j, a)
IndexedComplete ==
    \A f \in Files :
        \/ file[f].status # "indexed"
        \/ \E r \in Requests : \/ request[r].pc = "clear"
                               \/ request[r].pc = "detach" /\ request[r].file = f
        \/ Complete(f)

Diligent(w) == Listed(w) /\ PassSoFar(w) /\ Covered(w)

Quiet == Alone /\ Unattached /\ IndexedComplete /\ \A w \in Workers : Diligent(w)

\* The inductive invariant.
IndInv == Always /\ (~disturbed => Quiet)

-----------------------------------------------------------------------------
(* What the elementary updates do to well-typed locals *)

LEMMA WorkerFields ==
    ASSUME NEW x \in Worker
    PROVE  /\ x.pc \in WorkerPc /\ x.job \in JobIds \cup {NoJob}
           /\ x.attempt \in 0..MaxAttempts /\ x.seen \in [Files -> FileRow]
           /\ x.todo \in SUBSET Files /\ x.file \in Files \cup {NoFile}
           /\ x.size \in Sizes /\ x.index \in 1..(MaxPieces + 1)
           /\ x.blank \in SUBSET (1..MaxPieces)
  BY DEF Worker

LEMMA RowTypes ==
    /\ NoRow \in FileRow /\ Pending \in FileRow
    /\ \A s \in FileStatus, n \in 0..MaxPieces, b \in SUBSET (1..MaxPieces) :
          [status |-> s, count |-> n, blank |-> b] \in FileRow
    /\ \A x \in FileRow : x.status \in FileStatus /\ x.count \in 0..MaxPieces
  BY BoundsAssumption DEF NoRow, Pending, FileRow, FileStatus

LEMMA JobFields ==
    ASSUME NEW x \in Job
    PROVE  /\ x.status \in JobStatus /\ x.attempts \in 0..MaxAttempts
           /\ x.lease \in {"none", "live", "expired"}
  BY DEF Job

LEMMA JobUpdates ==
    /\ \A x \in Job : [x EXCEPT !.status = "queued"] \in Job
    /\ \A x \in Job : [x EXCEPT !.lease = "expired"] \in Job
    /\ \A x \in Job, s \in JobStatus : [x EXCEPT !.lease = "none", !.status = s] \in Job
    /\ \A n \in 0..MaxAttempts : [status |-> "running", lease |-> "live", attempts |-> n] \in Job
  BY DEF Job, JobStatus

LEMMA IdleWorkerType == IdleWorker \in Worker
<1>1. [f \in Files |-> NoRow] \in [Files -> FileRow]
  BY RowTypes
<1> QED
  BY <1>1, MaxAttemptsAssumption, BoundsAssumption, SizesAssumption
  DEF IdleWorker, Worker, WorkerPc

LEMMA GotoType ==
    ASSUME request \in [Requests -> Request], NEW r \in Requests,
           NEW pc \in {"idle", "enqueue", "clear", "detach"},
           NEW f \in Files \cup {NoFile}, Goto(r, pc, f)
    PROVE  request' \in [Requests -> Request]
<1>1. [pc |-> pc, file |-> f] \in Request
  BY DEF Request
<1> QED
  BY <1>1 DEF Goto

LEMMA ReturnType ==
    ASSUME request \in [Requests -> Request], NEW r \in Requests, Return(r)
    PROVE  request' \in [Requests -> Request]
<1>1. IdleRequest \in Request
  BY DEF IdleRequest, Request
<1> QED
  BY <1>1 DEF Return

LEMMA LocalsType ==
    ASSUME worker \in [Workers -> Worker], NEW w \in Workers, NEW x \in Worker, Locals(w, x)
    PROVE  worker' \in [Workers -> Worker]
  BY DEF Locals

LEMMA StepType ==
    ASSUME worker \in [Workers -> Worker], NEW w \in Workers,
           NEW pc \in WorkerPc, Step(w, pc)
    PROVE  worker' \in [Workers -> Worker]
<1>1. [worker[w] EXCEPT !.pc = pc] \in Worker
  BY DEF Worker
<1> QED
  BY <1>1, LocalsType DEF Step

LEMMA ReleaseType ==
    ASSUME worker \in [Workers -> Worker], NEW w \in Workers, Release(w)
    PROVE  worker' \in [Workers -> Worker]
  BY IdleWorkerType, LocalsType DEF Release

\* A record update of many fields is taken a few fields at a time.
LEMMA HandType ==
    ASSUME NEW x \in Worker, NEW pc \in WorkerPc, NEW f \in Files \cup {NoFile},
           NEW s \in Sizes, NEW i \in 1..(MaxPieces + 1)
    PROVE  [x EXCEPT !.pc = pc, !.file = f, !.size = s, !.index = i] \in Worker
<1> DEFINE y == [x EXCEPT !.pc = pc, !.file = f]
           z == [y EXCEPT !.size = s, !.index = i]
<1>1. y \in Worker
  BY DEF Worker
<1> HIDE DEF y
<1>2. z \in Worker
  BY <1>1 DEF Worker
<1> QED
  BY <1>2 DEF y

LEMMA ClaimType ==
    ASSUME NEW x \in Worker, NEW j \in JobIds, NEW a \in 0..MaxAttempts
    PROVE  [x EXCEPT !.pc = "list", !.job = j, !.attempt = a] \in Worker
<1> DEFINE y == [x EXCEPT !.pc = "list", !.job = j]
<1>1. y \in Worker
  BY DEF Worker, WorkerPc
<1> HIDE DEF y
<1>2. [y EXCEPT !.attempt = a] \in Worker
  BY <1>1 DEF Worker
<1> QED
  BY <1>2 DEF y

LEMMA ListType ==
    ASSUME NEW x \in Worker, NEW s \in [Files -> FileRow], NEW t \in SUBSET Files
    PROVE  [x EXCEPT !.pc = "next", !.seen = s, !.todo = t] \in Worker
<1> DEFINE y == [x EXCEPT !.pc = "next", !.seen = s]
<1>1. y \in Worker
  BY DEF Worker, WorkerPc
<1> HIDE DEF y
<1>2. [y EXCEPT !.todo = t] \in Worker
  BY <1>1 DEF Worker
<1> QED
  BY <1>2 DEF y

LEMMA FileInHandType ==
    ASSUME NEW x \in Worker, NEW f \in Files, NEW pc \in WorkerPc
    PROVE  [x EXCEPT !.pc = pc, !.file = f] \in Worker
<1> DEFINE y == [x EXCEPT !.pc = pc]
<1>1. y \in Worker
  BY DEF Worker
<1> HIDE DEF y
<1>2. [y EXCEPT !.file = f] \in Worker
  BY <1>1 DEF Worker
<1> QED
  BY <1>2 DEF y

LEMMA SizeInHandType ==
    ASSUME NEW x \in Worker, NEW s \in Sizes
    PROVE  [x EXCEPT !.size = s] \in Worker
  BY DEF Worker

LEMMA NextFileType ==
    ASSUME worker \in [Workers -> Worker], NEW w \in Workers, NEW f,
           NEW pc \in WorkerPc, NextFile(w, f, pc)
    PROVE  worker' \in [Workers -> Worker]
<1> DEFINE x == worker[w]
           y == [x EXCEPT !.pc = pc, !.todo = x.todo \ {f}]
           z == [y EXCEPT !.file = NoFile, !.size = DefaultSize]
           u == [z EXCEPT !.index = 1]
           t == [u EXCEPT !.blank = {}]
<1>1. x.todo \ {f} \in SUBSET Files
  BY WorkerFields
<1>2. y \in Worker
  BY <1>1 DEF Worker
<1> HIDE DEF y
<1>3. z \in Worker
  BY <1>2, SizesAssumption DEF Worker
<1> HIDE DEF z
<1>4. u \in Worker
  BY <1>3, BoundsAssumption DEF Worker
<1> HIDE DEF u
<1>5. t \in Worker
  BY <1>4 DEF Worker
<1> QED
  BY <1>5, LocalsType DEF NextFile, y, z, u

\* What Embed and InsertChunk do to the locals, when they do not give the file up.
LEMMA EmbedType ==
    ASSUME NEW x \in Worker, NEW b \in SUBSET (1..MaxPieces)
    PROVE  [x EXCEPT !.pc = "insert", !.blank = b] \in Worker
  BY DEF Worker, WorkerPc

LEMMA NextChunkType ==
    ASSUME NEW x \in Worker, NEW i \in 1..(MaxPieces + 1), NEW pc \in WorkerPc
    PROVE  [x EXCEPT !.index = i, !.pc = pc] \in Worker
  BY DEF Worker

-----------------------------------------------------------------------------
(* TypeOK is preserved *)

LEMMA CutType ==
    ASSUME TypeOK, WorkerLocals, NEW w \in Workers, worker[w].pc \in InHand
    PROVE  worker[w].file \in Files /\ Cut(w) \in 0..MaxPieces
<1>1. worker[w].file \in Files /\ worker[w].size \in Sizes
  BY WorkerFields DEF TypeOK, WorkerLocals, WorkerLocal
<1> QED
  BY <1>1, PiecesAssumption DEF Cut

LEMMA WriteRowType ==
    ASSUME file \in [Files -> FileRow], NEW f \in Files, NEW s \in FileStatus,
           NEW n \in 0..MaxPieces, NEW b \in SUBSET (1..MaxPieces), WriteFileRow(f, s, n, b)
    PROVE  file' \in [Files -> FileRow]
  BY RowTypes DEF WriteFileRow

LEMMA TypeStep ==
    ASSUME Always, [Next]_vars
    PROVE  TypeOK'
<1> USE MaxAttemptsAssumption, BoundsAssumption, SizesAssumption, FilesAssumption
    DEF Always, TypeOK
<1>1. ASSUME NEW f \in Files, AttachFile(f)
      PROVE  TypeOK'
  BY <1>1, RowTypes DEF AttachFile, history
<1>2. ASSUME NEW r \in Requests, NEW f \in Files, DetachChunks(r, f)
      PROVE  TypeOK'
  BY <1>2, GotoType DEF DetachChunks
<1>3. ASSUME NEW r \in Requests, DetachRow(r)
      PROVE  TypeOK'
  BY <1>3, ReturnType, RowTypes DEF DetachRow
<1>4. ASSUME NEW r \in Requests, ClearChunks(r)
      PROVE  TypeOK'
  BY <1>4, GotoType DEF ClearChunks
<1>5. ASSUME NEW r \in Requests, ClearRows(r)
      PROVE  TypeOK'
  BY <1>5, ReturnType, RowTypes DEF ClearRows
<1>6. ASSUME NEW s \in Sizes, Resize(s)
      PROVE  TypeOK'
  BY <1>6 DEF Resize
<1>7. ASSUME NEW r \in Requests, FindNoRunningJob(r)
      PROVE  TypeOK'
  BY <1>7, GotoType DEF FindNoRunningJob, tables, history
<1>8. ASSUME NEW r \in Requests, EnqueueJob(r)
      PROVE  TypeOK'
  <2>1. PICK j \in JobIds : job' = [job EXCEPT ![j].status = "queued"]
    BY <1>8 DEF EnqueueJob
  <2>2. job' \in [JobIds -> Job]
    BY <2>1, JobUpdates
  <2> QED
    BY <1>8, <2>2, ReturnType DEF EnqueueJob, tables, history
<1>9. ASSUME NEW r \in Requests, RequestCutOff(r)
      PROVE  TypeOK'
  BY <1>9, ReturnType DEF RequestCutOff, tables
<1>10. ASSUME NEW f \in Files, FileDeleted(f)
       PROVE  TypeOK'
  BY <1>10, RowTypes DEF FileDeleted, history
<1>11. ASSUME NEW w \in Workers, ClaimJob(w)
       PROVE  TypeOK'
  <2>1. PICK j \in JobIds :
            /\ Claimable(j)
            /\ job' = [job EXCEPT ![j] = [status |-> "running", lease |-> "live",
                                          attempts |-> job[j].attempts + 1]]
            /\ Locals(w, [worker[w] EXCEPT !.pc = "list", !.job = j,
                                           !.attempt = job[j].attempts + 1])
    BY <1>11 DEF ClaimJob
  <2>2. job[j].attempts + 1 \in 0..MaxAttempts
    BY <2>1, JobFields DEF Claimable, JobRows
  <2>3. [worker[w] EXCEPT !.pc = "list", !.job = j, !.attempt = job[j].attempts + 1] \in Worker
    BY <2>2, ClaimType
  <2> QED
    BY <1>11, <2>1, <2>2, <2>3, JobUpdates, LocalsType DEF ClaimJob, tables
<1>12. ASSUME NEW w \in Workers, ListFiles(w)
       PROVE  TypeOK'
  <2>1. [worker[w] EXCEPT !.pc = "next", !.seen = file,
                          !.todo = {f \in Files : file[f].status # "none"}] \in Worker
    BY ListType
  <2> QED
    BY <1>12, <2>1, LocalsType DEF ListFiles, tables, history
<1>13. ASSUME NEW w \in Workers, NEW f \in Files, LoadFile(w, f)
       PROVE  TypeOK'
  <2>1. /\ [worker[w] EXCEPT !.pc = "fail", !.file = f] \in Worker
        /\ [worker[w] EXCEPT !.pc = "skip", !.file = f] \in Worker
    <3>1. worker[w] \in Worker /\ "fail" \in WorkerPc /\ "skip" \in WorkerPc
      BY DEF WorkerPc
    <3> QED
      BY <3>1, FileInHandType
  <2>2. [worker[w] EXCEPT !.pc = "delete", !.file = f, !.size = size, !.index = 1] \in Worker
    <3>1. /\ worker[w] \in Worker /\ size \in Sizes /\ 1 \in 1..(MaxPieces + 1)
          /\ "delete" \in WorkerPc /\ f \in Files \cup {NoFile}
      BY DEF WorkerPc
    <3> QED
      BY <3>1, HandType
  <2>3. \/ Locals(w, [worker[w] EXCEPT !.pc = "fail", !.file = f])
        \/ Locals(w, [worker[w] EXCEPT !.pc = "skip", !.file = f])
        \/ NextFile(w, f, "next")
        \/ Locals(w, [worker[w] EXCEPT !.pc = "delete", !.file = f,
                                       !.size = size, !.index = 1])
    BY <1>13 DEF LoadFile
  <2>4. worker' \in [Workers -> Worker]
    <3>1. CASE NextFile(w, f, "next")
      BY <3>1, NextFileType DEF WorkerPc
    <3> QED
      BY <2>1, <2>2, <2>3, <3>1, LocalsType
  <2> QED
    BY <1>13, <2>4 DEF LoadFile, tables, history
<1>14. ASSUME NEW w \in Workers, DeleteChunks(w)
       PROVE  TypeOK'
  BY <1>14, StepType DEF DeleteChunks, WorkerPc, history
<1>15. ASSUME NEW w \in Workers, Embed(w)
       PROVE  TypeOK'
  <2>1. Cut(w) \in 0..MaxPieces
    BY <1>15, CutType DEF Embed, InHand
  <2>2. worker' \in [Workers -> Worker]
    <3>1. CASE Step(w, "unavailable")
      BY <3>1, StepType DEF WorkerPc
    <3>2. ASSUME NEW b \in SUBSET (1..Cut(w)),
                 Locals(w, [worker[w] EXCEPT !.pc = "insert", !.blank = b])
          PROVE  worker' \in [Workers -> Worker]
      <4>1. b \in SUBSET (1..MaxPieces)
        BY <2>1, <3>2
      <4> QED
        BY <3>2, <4>1, EmbedType, LocalsType
    <3> QED
      BY <1>15, <3>1, <3>2 DEF Embed
  <2> QED
    BY <1>15, <2>2 DEF Embed, tables, history
<1>16. ASSUME NEW w \in Workers, InsertChunk(w)
       PROVE  TypeOK'
  <2> DEFINE f == worker[w].file
             i == worker[w].index
             c == [file |-> f, index |-> i, size |-> worker[w].size,
                   job |-> worker[w].job, attempt |-> worker[w].attempt]
  <2>1. f \in Files /\ i \in 1..Cut(w) /\ Cut(w) \in 0..MaxPieces
    BY <1>16, CutType, WorkerFields DEF InsertChunk, InHand, WorkerLocals, WorkerLocal
  <2>2. c \in Chunk
    BY <1>16, <2>1, WorkerFields DEF Chunk, InsertChunk, WorkerLocals, WorkerLocal
  <2>3. \A pc \in WorkerPc : [worker[w] EXCEPT !.index = i + 1, !.pc = pc] \in Worker
    <3>1. i + 1 \in 1..(MaxPieces + 1)
      BY <2>1
    <3> QED
      BY <3>1, NextChunkType
  <2>4. worker' \in [Workers -> Worker]
    BY <1>16, <2>3, LocalsType, StepType DEF InsertChunk, WorkerPc
  <2>5. chunks' = chunks \/ chunks' = chunks \cup {c}
    BY <1>16 DEF InsertChunk
  <2> QED
    BY <1>16, <2>2, <2>4, <2>5 DEF InsertChunk, history
<1>17. ASSUME NEW w \in Workers, SetFileStatus(w)
       PROVE  TypeOK'
  <2>1. worker[w].file \in Files /\ Cut(w) \in 0..MaxPieces
    BY <1>17, CutType DEF SetFileStatus, InHand
  <2>2. file' \in [Files -> FileRow]
    BY <1>17, <2>1, WriteRowType, WorkerFields DEF SetFileStatus, FileStatus
  <2>3. worker' \in [Workers -> Worker]
    BY <1>17, NextFileType DEF SetFileStatus, WorkerPc
  <2> QED
    BY <1>17, <2>2, <2>3 DEF SetFileStatus, history
<1>18. ASSUME NEW w \in Workers, FinishJob(w)
       PROVE  TypeOK'
  <2>1. worker[w].job \in JobIds
    BY <1>18 DEF FinishJob, Done, WorkerLocals, WorkerLocal
  <2>2. job' \in [JobIds -> Job]
    BY <1>18, <2>1, JobUpdates DEF FinishJob, JobStatus
  <2> QED
    BY <1>18, <2>2, ReleaseType DEF FinishJob, tables, history
<1>19. ASSUME NEW w \in Workers, WorkerSqlError(w)
       PROVE  TypeOK'
  <2>1. worker' \in [Workers -> Worker]
    BY <1>19, StepType, NextFileType DEF WorkerSqlError, WorkerPc
  <2> QED
    BY <1>19, <2>1 DEF WorkerSqlError, tables
<1>20. ASSUME NEW w \in Workers, SettingsSqlError(w)
       PROVE  TypeOK'
  <2>1. [worker[w] EXCEPT !.size = DefaultSize] \in Worker
    BY SizesAssumption, SizeInHandType
  <2> QED
    BY <1>20, <2>1, LocalsType DEF SettingsSqlError, tables
<1>21. ASSUME NEW w \in Workers, FinishSqlError(w)
       PROVE  TypeOK'
  BY <1>21, ReleaseType DEF FinishSqlError, tables
<1>22. ASSUME NEW w \in Workers, WorkerCrash(w)
       PROVE  TypeOK'
  BY <1>22, ReleaseType DEF WorkerCrash, tables
<1>23. ASSUME NEW j \in JobIds, LeaseExpires(j)
       PROVE  TypeOK'
  BY <1>23, JobUpdates DEF LeaseExpires, tables, history
<1>24. CASE UNCHANGED vars
  BY <1>24 DEF vars
<1> QED
  BY <1>1, <1>2, <1>3, <1>4, <1>5, <1>6, <1>7, <1>8, <1>9, <1>10, <1>11, <1>12, <1>13,
     <1>14, <1>15, <1>16, <1>17, <1>18, <1>19, <1>20, <1>21, <1>22, <1>23, <1>24
  DEF Next, RequestNext, WorkerStep

-----------------------------------------------------------------------------
(* What each update of the locals does, field by field *)

Others(w) == \A v \in Workers : v # w => worker'[v] = worker[v]
SameJob(w) == /\ worker'[w].job = worker[w].job
              /\ worker'[w].attempt = worker[w].attempt
SameList(w) == /\ worker'[w].seen = worker[w].seen
               /\ worker'[w].todo = worker[w].todo
SameHand(w) == /\ worker'[w].file = worker[w].file
               /\ worker'[w].size = worker[w].size
               /\ worker'[w].index = worker[w].index
               /\ worker'[w].blank = worker[w].blank

LEMMA StepEffect ==
    ASSUME worker \in [Workers -> Worker], NEW w \in Workers, NEW pc, Step(w, pc)
    PROVE  /\ Others(w) /\ worker'[w].pc = pc
           /\ SameJob(w) /\ SameList(w) /\ SameHand(w)
<1>1. worker'[w] = [worker[w] EXCEPT !.pc = pc] /\ Others(w)
  BY DEF Step, Locals, Others
<1> QED
  BY <1>1 DEF SameJob, SameList, SameHand, Worker

LEMMA ReleaseEffect ==
    ASSUME worker \in [Workers -> Worker], NEW w \in Workers, Release(w)
    PROVE  Others(w) /\ worker'[w] = IdleWorker
  BY DEF Release, Locals, Others

LEMMA NextFileEffect ==
    ASSUME worker \in [Workers -> Worker], NEW w \in Workers, NEW f, NEW pc,
           NextFile(w, f, pc)
    PROVE  /\ Others(w) /\ worker'[w].pc = pc /\ SameJob(w)
           /\ worker'[w].seen = worker[w].seen
           /\ worker'[w].todo = worker[w].todo \ {f}
           /\ worker'[w].file = NoFile
<1>1. /\ Others(w)
      /\ worker'[w] = [worker[w] EXCEPT !.pc = pc, !.todo = worker[w].todo \ {f},
                          !.file = NoFile, !.size = DefaultSize, !.index = 1, !.blank = {}]
  BY DEF NextFile, Locals, Others
<1>2. worker[w] \in Worker
  OBVIOUS
<1> QED
  BY <1>1, <1>2 DEF SameJob, Worker

LEMMA ClaimEffect ==
    ASSUME TypeOK, JobRows, NEW w \in Workers, ClaimJob(w)
    PROVE  /\ Others(w) /\ worker'[w].pc = "list"
           /\ worker'[w].job \in JobIds /\ worker'[w].attempt \in 1..MaxAttempts
           /\ SameList(w) /\ SameHand(w)
           /\ \A i \in JobIds : job'[i] = job[i] \/ job'[i].status = "running"
<1>1. PICK j \in JobIds :
          /\ Claimable(j)
          /\ job' = [job EXCEPT ![j] = [status |-> "running", lease |-> "live",
                                        attempts |-> job[j].attempts + 1]]
          /\ Locals(w, [worker[w] EXCEPT !.pc = "list", !.job = j,
                                         !.attempt = job[j].attempts + 1])
  BY DEF ClaimJob
<1> DEFINE a == job[j].attempts + 1
<1>2. a \in 1..MaxAttempts
  BY <1>1, JobFields, MaxAttemptsAssumption DEF Claimable, JobRows, TypeOK
<1>3. /\ worker \in [Workers -> Worker] /\ Others(w)
      /\ worker'[w] = [worker[w] EXCEPT !.pc = "list", !.job = j, !.attempt = a]
  BY <1>1 DEF Locals, Others, TypeOK
<1>4. \A i \in JobIds : job'[i] = job[i] \/ job'[i].status = "running"
  BY <1>1 DEF TypeOK
<1> HIDE DEF a
<1> QED
  BY <1>2, <1>3, <1>4 DEF SameList, SameHand, Worker

LEMMA ListEffect ==
    ASSUME worker \in [Workers -> Worker], NEW w \in Workers, ListFiles(w)
    PROVE  /\ Others(w) /\ worker'[w].pc = "next" /\ worker'[w].seen = file
           /\ worker'[w].todo = {f \in Files : file[f].status # "none"}
           /\ SameJob(w) /\ SameHand(w)
<1> DEFINE t == {f \in Files : file[f].status # "none"}
<1>1. /\ Others(w)
      /\ worker'[w] = [worker[w] EXCEPT !.pc = "next", !.seen = file, !.todo = t]
  BY DEF ListFiles, Locals, Others
<1> HIDE DEF t
<1>2. /\ worker'[w].pc = "next" /\ worker'[w].seen = file /\ worker'[w].todo = t
      /\ SameJob(w) /\ SameHand(w)
  BY <1>1 DEF SameJob, SameHand, Worker
<1> QED
  BY <1>1, <1>2 DEF t

\* LoadFile takes the file in hand, or leaves it behind as unchanged.
LEMMA LoadEffect ==
    ASSUME TypeOK, NEW w \in Workers, NEW f \in Files, LoadFile(w, f)
    PROVE  /\ Others(w) /\ SameJob(w) /\ worker'[w].seen = worker[w].seen
           /\ \/ /\ worker'[w].pc \in {"fail", "skip"}
                 /\ worker'[w].todo = worker[w].todo /\ worker'[w].file = f
              \/ /\ Unchanged(worker[w].seen[f]) /\ worker'[w].pc = "next"
                 /\ worker'[w].todo = worker[w].todo \ {f} /\ worker'[w].file = NoFile
              \/ /\ ~Unchanged(worker[w].seen[f]) /\ worker'[w].pc = "delete"
                 /\ worker'[w].todo = worker[w].todo /\ worker'[w].file = f
                 /\ worker'[w].size = size /\ worker'[w].index = 1
<1>1. worker \in [Workers -> Worker] /\ worker[w] \in Worker
  BY DEF TypeOK
<1>2. ASSUME NEW pc \in {"fail", "skip"},
             Locals(w, [worker[w] EXCEPT !.pc = pc, !.file = f])
      PROVE  /\ Others(w) /\ SameJob(w) /\ SameList(w)
             /\ worker'[w].pc = pc /\ worker'[w].file = f
  <2>1. Others(w) /\ worker'[w] = [worker[w] EXCEPT !.pc = pc, !.file = f]
    BY <1>1, <1>2 DEF Locals, Others
  <2> QED
    BY <2>1, <1>1 DEF SameJob, SameList, Worker
<1>3. ASSUME Locals(w, [worker[w] EXCEPT !.pc = "delete", !.file = f,
                                         !.size = size, !.index = 1])
      PROVE  /\ Others(w) /\ SameJob(w) /\ SameList(w)
             /\ worker'[w].pc = "delete" /\ worker'[w].file = f
             /\ worker'[w].size = size /\ worker'[w].index = 1
  <2>1. /\ Others(w)
        /\ worker'[w] = [worker[w] EXCEPT !.pc = "delete", !.file = f,
                                          !.size = size, !.index = 1]
    BY <1>1, <1>3 DEF Locals, Others
  <2> QED
    BY <2>1, <1>1 DEF SameJob, SameList, Worker
<1>4. \/ Locals(w, [worker[w] EXCEPT !.pc = "fail", !.file = f])
      \/ Locals(w, [worker[w] EXCEPT !.pc = "skip", !.file = f])
      \/ NextFile(w, f, "next") /\ Unchanged(worker[w].seen[f])
      \/ /\ Locals(w, [worker[w] EXCEPT !.pc = "delete", !.file = f,
                                        !.size = size, !.index = 1])
         /\ ~Unchanged(worker[w].seen[f])
  BY DEF LoadFile
<1>5. CASE NextFile(w, f, "next") /\ Unchanged(worker[w].seen[f])
  BY <1>5, <1>1, NextFileEffect
<1> QED
  BY <1>2, <1>3, <1>4, <1>5 DEF SameList

LEMMA EmbedEffect ==
    ASSUME TypeOK, NEW w \in Workers, Embed(w)
    PROVE  /\ Others(w) /\ SameJob(w) /\ SameList(w)
           /\ worker'[w].pc \in {"insert", "unavailable"}
           /\ worker'[w].index = worker[w].index
           /\ worker'[w].file = worker[w].file /\ worker'[w].size = worker[w].size
<1>1. worker \in [Workers -> Worker] /\ worker[w] \in Worker
  BY DEF TypeOK
<1>2. CASE Step(w, "unavailable")
  BY <1>1, <1>2, StepEffect DEF SameHand
<1>3. ASSUME NEW b, Locals(w, [worker[w] EXCEPT !.pc = "insert", !.blank = b])
      PROVE  /\ Others(w) /\ SameJob(w) /\ SameList(w) /\ worker'[w].pc = "insert"
             /\ worker'[w].index = worker[w].index
             /\ worker'[w].file = worker[w].file /\ worker'[w].size = worker[w].size
  <2>1. Others(w) /\ worker'[w] = [worker[w] EXCEPT !.pc = "insert", !.blank = b]
    BY <1>1, <1>3 DEF Locals, Others
  <2> QED
    BY <1>1, <2>1 DEF SameJob, SameList, Worker
<1> QED
  BY <1>2, <1>3 DEF Embed

\* A chunk is inserted or passed over, and the next one is at hand.
MovesOn(w) == worker[w].index \in worker[w].blank \/ worker[w].file \in onDisk

LEMMA InsertEffect ==
    ASSUME TypeOK, NEW w \in Workers, InsertChunk(w), MovesOn(w)
    PROVE  /\ Others(w) /\ SameJob(w) /\ SameList(w)
           /\ worker'[w].pc = IF worker[w].index = Cut(w) THEN "mark" ELSE "insert"
           /\ worker'[w].index = worker[w].index + 1
           /\ worker'[w].file = worker[w].file /\ worker'[w].size = worker[w].size
           /\ worker'[w].blank = worker[w].blank
<1> DEFINE pc == IF worker[w].index = Cut(w) THEN "mark" ELSE "insert"
           i == worker[w].index + 1
<1>1. /\ worker \in [Workers -> Worker] /\ Others(w)
      /\ worker'[w] = [worker[w] EXCEPT !.index = i, !.pc = pc]
  BY DEF TypeOK, InsertChunk, MovesOn, Locals, Others
<1> HIDE DEF pc, i
<1>2. /\ SameJob(w) /\ SameList(w) /\ worker'[w].pc = pc /\ worker'[w].index = i
      /\ worker'[w].file = worker[w].file /\ worker'[w].size = worker[w].size
      /\ worker'[w].blank = worker[w].blank
  BY <1>1 DEF SameJob, SameList, Worker
<1> QED
  BY <1>1, <1>2 DEF pc, i

LEMMA ResizeEffect ==
    ASSUME TypeOK, NEW w \in Workers, SettingsSqlError(w)
    PROVE  /\ Others(w) /\ SameJob(w) /\ SameList(w)
           /\ worker'[w].pc = worker[w].pc /\ worker'[w].file = worker[w].file
           /\ worker'[w].size = DefaultSize /\ worker'[w].index = worker[w].index
<1>1. /\ worker \in [Workers -> Worker] /\ Others(w)
      /\ worker'[w] = [worker[w] EXCEPT !.size = DefaultSize]
  BY DEF TypeOK, SettingsSqlError, Locals, Others
<1> QED
  BY <1>1 DEF SameJob, SameList, Worker

-----------------------------------------------------------------------------
(* WorkerLocals, JobRows, RequestLocals and FileRows are preserved *)

LEMMA OthersKeepLocals ==
    ASSUME WorkerLocals, NEW w \in Workers, Others(w), WorkerLocal(w)'
    PROVE  WorkerLocals'
  BY DEF WorkerLocals, WorkerLocal, Others, Cut

LEMMA IdleKeepsLocals ==
    ASSUME WorkerLocals, NEW w \in Workers, Others(w), worker'[w] = IdleWorker
    PROVE  WorkerLocals'
<1>1. WorkerLocal(w)'
  BY DEF WorkerLocal, IdleWorker, InHand
<1> QED
  BY <1>1, OthersKeepLocals

LEMMA LocalsStep ==
    ASSUME Always, NEW w \in Workers,
           WorkerStep(w) \/ WorkerSqlError(w) \/ SettingsSqlError(w)
           \/ FinishSqlError(w) \/ WorkerCrash(w)
    PROVE  WorkerLocals'
<1>0. WorkerLocals /\ WorkerLocal(w) /\ worker \in [Workers -> Worker] /\ worker[w] \in Worker
  BY DEF Always, TypeOK, WorkerLocals
<1> SUFFICES ASSUME worker'[w] # IdleWorker \/ ~Others(w)
             PROVE  WorkerLocals'
  BY <1>0, IdleKeepsLocals
<1> USE MaxAttemptsAssumption, BoundsAssumption
<1>1. CASE ClaimJob(w)
  <2>1. worker[w].pc = "idle"
    BY <1>1 DEF ClaimJob
  <2>2. Others(w) /\ WorkerLocal(w)'
    BY <1>0, <1>1, <2>1, ClaimEffect DEF WorkerLocal, InHand, SameList, Always
  <2> QED
    BY <1>0, <2>2, OthersKeepLocals
<1>2. CASE ListFiles(w)
  <2>1. WorkerLocal(w)'
    BY <1>0, <1>2, ListEffect DEF WorkerLocal, InHand, SameJob, ListFiles
  <2> QED
    BY <1>0, <1>2, <2>1, ListEffect, OthersKeepLocals
<1>3. ASSUME NEW f \in Files, LoadFile(w, f)
      PROVE  WorkerLocals'
  <2>1. WorkerLocal(w)'
    BY <1>0, <1>3, LoadEffect DEF WorkerLocal, InHand, SameJob, LoadFile, Always
  <2> QED
    BY <1>0, <1>3, <2>1, LoadEffect, OthersKeepLocals DEF Always
<1>4. CASE DeleteChunks(w)
  <2>1. Cut(w) \in 0..MaxPieces
    BY <1>4, CutType DEF DeleteChunks, InHand, Always
  <2>2. Others(w) /\ WorkerLocal(w)'
    BY <1>0, <1>4, <2>1, StepEffect
    DEF WorkerLocal, InHand, DeleteChunks, SameJob, SameList, SameHand, Cut
  <2> QED
    BY <1>0, <2>2, OthersKeepLocals
<1>5. CASE Embed(w)
  <2>1. Others(w) /\ WorkerLocal(w)'
    BY <1>0, <1>5, EmbedEffect
    DEF WorkerLocal, InHand, Embed, SameJob, SameList, Cut, Always
  <2> QED
    BY <1>0, <2>1, OthersKeepLocals
<1>6. CASE InsertChunk(w)
  <2>1. CASE MovesOn(w)
    <3>1. Others(w) /\ WorkerLocal(w)'
      <4>1. /\ worker[w].index \in 1..Cut(w) /\ Cut(w) \in 0..MaxPieces
            /\ worker[w].pc = "insert"
        BY <1>0, <1>6, CutType, WorkerFields DEF InsertChunk, InHand, WorkerLocal, Always
      <4>2. /\ Others(w) /\ SameJob(w) /\ SameList(w)
            /\ worker'[w].pc = IF worker[w].index = Cut(w) THEN "mark" ELSE "insert"
            /\ worker'[w].index = worker[w].index + 1
            /\ worker'[w].file = worker[w].file /\ worker'[w].size = worker[w].size
        BY <1>6, <2>1, InsertEffect DEF Always
      <4> QED
        BY <1>0, <4>1, <4>2 DEF WorkerLocal, InHand, SameJob, SameList, Cut
    <3> QED
      BY <1>0, <3>1, OthersKeepLocals
  <2>2. CASE ~MovesOn(w)
    <3>1. Others(w) /\ WorkerLocal(w)'
      BY <1>0, <1>6, <2>2, StepEffect
      DEF WorkerLocal, InHand, InsertChunk, MovesOn, SameJob, SameList, SameHand, Cut
    <3> QED
      BY <1>0, <3>1, OthersKeepLocals
  <2> QED
    BY <2>1, <2>2
<1>7. CASE SetFileStatus(w)
  <2>1. Others(w) /\ WorkerLocal(w)'
    BY <1>0, <1>7, NextFileEffect DEF WorkerLocal, InHand, SetFileStatus, SameJob
  <2> QED
    BY <1>0, <2>1, OthersKeepLocals
<1>8. CASE FinishJob(w) \/ FinishSqlError(w) \/ WorkerCrash(w)
  BY <1>0, <1>8, ReleaseEffect DEF FinishJob, FinishSqlError, WorkerCrash
<1>9. CASE WorkerSqlError(w)
  <2>1. Others(w) /\ WorkerLocal(w)'
    BY <1>0, <1>9, StepEffect, NextFileEffect
    DEF WorkerLocal, InHand, WorkerSqlError, SameJob, SameList, SameHand, Cut
  <2> QED
    BY <1>0, <2>1, OthersKeepLocals
<1>10. CASE SettingsSqlError(w)
  <2>1. Others(w) /\ WorkerLocal(w)'
    BY <1>0, <1>10, ResizeEffect
    DEF WorkerLocal, InHand, SettingsSqlError, SameJob, SameList, Always
  <2> QED
    BY <1>0, <2>1, OthersKeepLocals
<1> QED
  BY <1>1, <1>2, <1>3, <1>4, <1>5, <1>6, <1>7, <1>8, <1>9, <1>10 DEF WorkerStep

LEMMA JobRowsStep ==
    ASSUME Always, [Next]_vars
    PROVE  JobRows'
<1> USE DEF Always, TypeOK
<1>1. CASE UNCHANGED job
  BY <1>1 DEF JobRows
<1>2. ASSUME NEW r \in Requests, EnqueueJob(r)
      PROVE  JobRows'
  BY <1>2, JobFields DEF EnqueueJob, JobRows, Job
<1>3. ASSUME NEW w \in Workers, ClaimJob(w)
      PROVE  JobRows'
  BY <1>3, ClaimEffect DEF JobRows
<1>4. ASSUME NEW w \in Workers, FinishJob(w)
      PROVE  JobRows'
  <2>1. worker[w].job \in JobIds
    BY <1>4 DEF FinishJob, Done, WorkerLocals, WorkerLocal
  <2> QED
    BY <1>4, <2>1 DEF FinishJob, JobRows, Job
<1>5. ASSUME NEW j \in JobIds, LeaseExpires(j)
      PROVE  JobRows'
  BY <1>5 DEF LeaseExpires, JobRows, Job
<1> QED
  BY <1>1, <1>2, <1>3, <1>4, <1>5
  DEF Next, RequestNext, WorkerStep, vars, tables, history, AttachFile, FileDeleted, Resize,
      DetachChunks, DetachRow, ClearChunks, ClearRows, FindNoRunningJob, RequestCutOff,
      ListFiles, LoadFile, DeleteChunks, Embed, InsertChunk, SetFileStatus,
      WorkerSqlError, SettingsSqlError, FinishSqlError, WorkerCrash

LEMMA RequestLocalsStep ==
    ASSUME Always, [Next]_vars
    PROVE  RequestLocals'
<1> USE DEF Always, TypeOK, RequestLocals
<1>1. CASE UNCHANGED request
  BY <1>1
<1>2. ASSUME NEW r \in Requests, RequestNext(r)
      PROVE  RequestLocals'
  BY <1>2 DEF RequestNext, DetachChunks, DetachRow, ClearChunks, ClearRows, FindNoRunningJob,
              EnqueueJob, RequestCutOff, Goto, Return, IdleRequest
<1> QED
  BY <1>1, <1>2
  DEF Next, WorkerStep, vars, tables, history, AttachFile, FileDeleted, Resize, LeaseExpires,
      ClaimJob, ListFiles, LoadFile, DeleteChunks, Embed, InsertChunk, SetFileStatus, FinishJob,
      WorkerSqlError, SettingsSqlError, FinishSqlError, WorkerCrash

LEMMA FileRowsStep ==
    ASSUME Always, [Next]_vars
    PROVE  FileRows'
<1> USE DEF Always, TypeOK
<1>1. CASE UNCHANGED <<onDisk, file>>
  BY <1>1 DEF FileRows
<1>2. ASSUME NEW f \in Files, AttachFile(f) \/ FileDeleted(f)
      PROVE  FileRows'
  BY <1>2 DEF AttachFile, FileDeleted, FileRows, Pending, NoRow
<1>3. ASSUME NEW r \in Requests, DetachRow(r) \/ ClearRows(r)
      PROVE  FileRows'
  BY <1>3 DEF DetachRow, ClearRows, FileRows, Pending, NoRow
<1>4. ASSUME NEW w \in Workers, SetFileStatus(w)
      PROVE  FileRows'
  <2>1. worker[w].file \in Files /\ worker[w].size \in Sizes
    BY <1>4, CutType, WorkerFields DEF SetFileStatus, InHand
  <2>2. /\ onDisk' = onDisk
        /\ \/ WriteFileRow(worker[w].file, "indexed", Cut(w), worker[w].blank)
           \/ \E s \in {"skipped", "failed"} : WriteFileRow(worker[w].file, s, 0, {})
    BY <1>4 DEF SetFileStatus
  <2> QED
    BY <2>1, <2>2 DEF WriteFileRow, FileRows, Cut
<1> QED
  BY <1>1, <1>2, <1>3, <1>4
  DEF Next, RequestNext, WorkerStep, vars, tables, history, Resize, DetachChunks, ClearChunks,
      FindNoRunningJob, EnqueueJob, RequestCutOff, ClaimJob, ListFiles, LoadFile, DeleteChunks,
      Embed, InsertChunk, FinishJob, WorkerSqlError, SettingsSqlError, FinishSqlError,
      WorkerCrash, LeaseExpires

LEMMA AlwaysStep ==
    ASSUME Always, [Next]_vars
    PROVE  Always'
<1>1. WorkerLocals'
  <2>1. CASE UNCHANGED worker
    BY <2>1 DEF Always, WorkerLocals, WorkerLocal, Cut
  <2> QED
    BY <2>1, LocalsStep
    DEF Next, RequestNext, vars, tables, history, AttachFile, FileDeleted, Resize, DetachChunks,
        DetachRow, ClearChunks, ClearRows, FindNoRunningJob, EnqueueJob, RequestCutOff, LeaseExpires
<1> QED
  BY <1>1, TypeStep, JobRowsStep, RequestLocalsStep, FileRowsStep DEF Always

LEMMA AlwaysInit ==
    ASSUME Init
    PROVE  Always
<1> USE MaxAttemptsAssumption, BoundsAssumption, SizesAssumption, FilesAssumption DEF Init
<1>1. TypeOK
  <2>1. job \in [JobIds -> Job]
    BY DEF NoJobRow, Job, JobStatus
  <2>2. request \in [Requests -> Request]
    BY DEF IdleRequest, Request
  <2>3. worker \in [Workers -> Worker]
    BY IdleWorkerType
  <2>4. file \in [Files -> FileRow]
    BY RowTypes
  <2>5. crashes \in 0..MaxCrashes /\ faults \in 0..MaxFaults
    OBVIOUS
  <2>6. disturbed \in BOOLEAN
    OBVIOUS
  <2>7. /\ onDisk \subseteq Files /\ chunks \subseteq Chunk
        /\ size \in Sizes /\ outdated \subseteq JobIds
    OBVIOUS
  <2> HIDE DEF Init
  <2> QED
    BY <2>1, <2>2, <2>3, <2>4, <2>5, <2>6, <2>7 DEF TypeOK
<1>2. WorkerLocals
  BY DEF WorkerLocals, WorkerLocal, IdleWorker, InHand
<1>3. JobRows /\ RequestLocals /\ FileRows
  BY DEF JobRows, RequestLocals, FileRows, NoJobRow, IdleRequest, NoRow
<1> QED
  BY <1>1, <1>2, <1>3 DEF Always

-----------------------------------------------------------------------------
(* What a step does to the chunks of each file *)

LEMMA SameChunks ==
    ASSUME UNCHANGED <<onDisk, chunks>>
    PROVE  \A f \in Files : ChunksOf(f)' = ChunksOf(f)
  BY DEF ChunksOf

LEMMA ChunksTakenAway ==
    ASSUME NEW f \in Files, chunks' = chunks \ StaleChunks(f), onDisk' = onDisk
    PROVE  /\ ChunksOf(f)' = {}
           /\ \A g \in Files : g # f => ChunksOf(g)' = ChunksOf(g)
  BY DEF ChunksOf, StaleChunks

LEMMA ChunksOfDeleted ==
    ASSUME NEW f \in Files, onDisk' = onDisk \ {f}, chunks' = chunks
    PROVE  /\ ChunksOf(f)' = {}
           /\ \A g \in Files : g # f => ChunksOf(g)' = ChunksOf(g)
  BY DEF ChunksOf

LEMMA ChunkAdded ==
    ASSUME NEW f \in Files, NEW c, c.file = f, f \in onDisk,
           chunks' = chunks \cup {c}, onDisk' = onDisk
    PROVE  /\ ChunksOf(f)' = ChunksOf(f) \cup {c}
           /\ \A g \in Files : g # f => ChunksOf(g)' = ChunksOf(g)
  BY DEF ChunksOf

\* One more insert makes one more chunk of the pass; a text without a vector makes none.
LEMMA PassGrows ==
    ASSUME NEW f, NEW i \in Nat \ {0}, NEW b, NEW s, NEW j, NEW a
    PROVE  Pass(f, i, b, s, j, a) = Pass(f, i - 1, b, s, j, a) \cup
              (IF i \in b THEN {}
               ELSE {[file |-> f, index |-> i, size |-> s, job |-> j, attempt |-> a]})
<1> DEFINE c == [file |-> f, index |-> i, size |-> s, job |-> j, attempt |-> a]
<1>1. 1..i = 1..(i - 1) \cup {i}
  OBVIOUS
<1>2. CASE i \in b
  <2>1. (1..i) \ b = (1..(i - 1)) \ b
    BY <1>1, <1>2
  <2> QED
    BY <1>2, <2>1 DEF Pass
<1>3. CASE i \notin b
  <2>1. (1..i) \ b = ((1..(i - 1)) \ b) \cup {i}
    BY <1>1, <1>3
  <2> DEFINE I == (1..i) \ b  J == (1..(i - 1)) \ b
  <2> HIDE DEF I, J
  <2>2. [file : {f}, index : J \cup {i}, size : {s}, job : {j}, attempt : {a}]
           = [file : {f}, index : J, size : {s}, job : {j}, attempt : {a}] \cup {c}
    <3>1. ASSUME NEW d \in [file : {f}, index : J \cup {i}, size : {s}, job : {j}, attempt : {a}]
          PROVE  d \in [file : {f}, index : J, size : {s}, job : {j}, attempt : {a}] \cup {c}
      <4>1. d = [file |-> f, index |-> d.index, size |-> s, job |-> j, attempt |-> a]
        BY <3>1
      <4>2. d.index \in J \/ d.index = i
        BY <3>1
      <4> QED
        BY <4>1, <4>2
    <3>2. c \in [file : {f}, index : J \cup {i}, size : {s}, job : {j}, attempt : {a}]
      OBVIOUS
    <3>3. ASSUME NEW d \in [file : {f}, index : J, size : {s}, job : {j}, attempt : {a}]
          PROVE  d \in [file : {f}, index : J \cup {i}, size : {s}, job : {j}, attempt : {a}]
      OBVIOUS
    <3> HIDE DEF c
    <3> QED
      BY <3>1, <3>2, <3>3
  <2> QED
    BY <1>3, <2>1, <2>2 DEF Pass, J
<1> QED
  BY <1>2, <1>3

LEMMA EmptyPass ==
    ASSUME NEW f, NEW b, NEW s, NEW j, NEW a
    PROVE  Pass(f, 0, b, s, j, a) = {}
<1>1. (1..0) \ b = {}
  OBVIOUS
<1> QED
  BY <1>1 DEF Pass

-----------------------------------------------------------------------------
(* Quiet is preserved while nothing disturbs the chunks *)

LEMMA RowsFrame ==
    ASSUME Unattached, IndexedComplete, UNCHANGED <<onDisk, file, chunks, request>>
    PROVE  Unattached' /\ IndexedComplete'
<1>1. \A f \in Files : ChunksOf(f)' = ChunksOf(f)
  BY SameChunks
<1>2. \A f \in Files : Complete(f) => Complete(f)'
  BY <1>1 DEF Complete
<1> QED
  BY <1>1, <1>2 DEF Unattached, IndexedComplete

\* A worker without a list of files has nothing to answer for.
LEMMA IdleDiligent ==
    ASSUME WorkerLocals', NEW w \in Workers, worker'[w].pc \in {"idle", "list"}
    PROVE  Diligent(w)'
<1>1. WorkerLocal(w)'
  BY DEF WorkerLocals
<1>2. worker'[w].todo = {} /\ \A f \in Files : worker'[w].seen[f] = NoRow
  BY <1>1 DEF WorkerLocal
<1> QED
  BY <1>2 DEF Diligent, Listed, PassSoFar, Covered, NoRow

\* The busy worker is the only one.
LEMMA OneBusy ==
    ASSUME Alone, WorkerLocals', NEW w \in Workers, worker[w].pc # "idle", Others(w),
           request' = request, Diligent(w)'
    PROVE  Alone' /\ \A v \in Workers : Diligent(v)'
<1>1. \A v \in Workers : v # w => worker'[v].pc = "idle"
  BY DEF Alone, Others
<1>2. \A r \in Requests : request'[r].pc \notin {"clear", "detach"}
  BY DEF Alone
<1>3. Alone'
  BY <1>1, <1>2 DEF Alone
<1> QED
  BY <1>1, <1>3, IdleDiligent

\* When nobody is busy, only the rows and the chunks remain to be looked at.
LEMMA NobodyBusy ==
    ASSUME WorkerLocals', \A w \in Workers : worker'[w].pc = "idle"
    PROVE  Alone' /\ \A w \in Workers : Diligent(w)'
  BY IdleDiligent DEF Alone

\* A handler that finds no worker busy.
LEMMA HandlerStep ==
    ASSUME Always, Always', Quiet, Busy = {}, NEW r \in Requests,
           \/ \E f \in Files : DetachChunks(r, f)
           \/ DetachRow(r) \/ ClearChunks(r) \/ ClearRows(r)
    PROVE  Quiet'
<1> USE DEF Always
<1>1. worker' = worker /\ onDisk' = onDisk
  BY DEF DetachChunks, DetachRow, ClearChunks, ClearRows
<1>2. Alone' /\ \A w \in Workers : Diligent(w)'
  BY <1>1, NobodyBusy DEF Busy
<1> SUFFICES Unattached' /\ IndexedComplete'
  BY <1>2 DEF Quiet
<1>3. ASSUME NEW f \in Files, DetachChunks(r, f)
      PROVE  Unattached' /\ IndexedComplete'
  <2>1. /\ file' = file /\ ChunksOf(f)' = {}
        /\ \A g \in Files : g # f => ChunksOf(g)' = ChunksOf(g)
    BY <1>3, ChunksTakenAway DEF DetachChunks
  <2>2. /\ request'[r].pc = "detach" /\ request'[r].file = f /\ request[r].pc = "idle"
        /\ \A q \in Requests : q # r => request'[q] = request[q]
    BY <1>3 DEF DetachChunks, Goto, TypeOK
  <2>3. \A g \in Files : g # f /\ Complete(g) => Complete(g)'
    BY <2>1 DEF Complete
  <2> QED
    BY <2>1, <2>2, <2>3 DEF Quiet, Unattached, IndexedComplete
<1>4. CASE DetachRow(r)
  <2> DEFINE f == request[r].file
  <2>1. /\ f \in Files /\ request[r].pc = "detach" /\ file'[f] = NoRow
        /\ \A g \in Files : g # f => file'[g] = file[g]
    BY <1>4 DEF DetachRow, RequestLocals, TypeOK
  <2>2. request'[r] = IdleRequest /\ \A q \in Requests : q # r => request'[q] = request[q]
    BY <1>4 DEF DetachRow, Return, TypeOK
  <2>3. \A g \in Files : ChunksOf(g)' = ChunksOf(g)
    BY <1>4, SameChunks DEF DetachRow
  <2>4. \A g \in Files : g # f /\ Complete(g) => Complete(g)'
    BY <2>1, <2>3 DEF Complete
  <2> QED
    BY <2>1, <2>2, <2>3, <2>4 DEF Quiet, Unattached, IndexedComplete, IdleRequest, NoRow
<1>5. CASE ClearChunks(r)
  <2>1. \A f \in Files : ChunksOf(f)' = {}
    BY <1>5 DEF ClearChunks, ChunksOf
  <2>2. request'[r].pc = "clear"
    BY <1>5 DEF ClearChunks, Goto, TypeOK
  <2> QED
    BY <2>1, <2>2 DEF Unattached, IndexedComplete
<1>6. CASE ClearRows(r)
  <2>1. \A f \in Files : ChunksOf(f)' = ChunksOf(f)
    BY <1>6, SameChunks DEF ClearRows
  <2>2. \A f \in Files : /\ file'[f].status # "indexed"
                         /\ file'[f].status = "none" <=> file[f].status = "none"
    BY <1>6 DEF ClearRows, NoRow, Pending
  <2>3. request[r].pc = "clear" /\ request'[r] = IdleRequest
        /\ \A q \in Requests : q # r => request'[q] = request[q]
    BY <1>6 DEF ClearRows, Return, TypeOK
  <2> QED
    BY <2>1, <2>2, <2>3 DEF Quiet, Unattached, IndexedComplete, IdleRequest
<1> QED
  BY <1>3, <1>4, <1>5, <1>6

\* A job is claimed while nobody is busy, or given back by the one who is.
LEMMA ClaimOrRelease ==
    ASSUME Always, Always', Quiet, NEW w \in Workers,
           \/ ClaimJob(w) /\ ~disturbed'
           \/ FinishJob(w) \/ FinishSqlError(w) \/ WorkerCrash(w)
    PROVE  Quiet'
<1>1. UNCHANGED <<onDisk, file, chunks, request>>
  BY DEF ClaimJob, FinishJob, FinishSqlError, WorkerCrash, tables
<1>2. Unattached' /\ IndexedComplete'
  BY <1>1, RowsFrame DEF Quiet
<1>3. CASE ClaimJob(w) /\ ~disturbed'
  <2>1. /\ \A v \in Workers : worker[v].pc = "idle"
        /\ \A r \in Requests : request[r].pc \notin {"clear", "detach"}
    BY <1>3 DEF ClaimJob, Busy
  <2>2. Others(w) /\ worker'[w].pc = "list"
    BY <1>3, ClaimEffect DEF Always
  <2>3. Alone'
    BY <1>1, <2>1, <2>2 DEF Alone, Others
  <2>4. \A v \in Workers : Diligent(v)'
    BY <2>1, <2>2, IdleDiligent DEF Always, Others
  <2> QED
    BY <1>2, <2>3, <2>4 DEF Quiet
<1>4. CASE FinishJob(w) \/ FinishSqlError(w) \/ WorkerCrash(w)
  <2>1. worker[w].pc # "idle"
    BY <1>4 DEF FinishJob, FinishSqlError, WorkerCrash, Done
  <2>2. Others(w) /\ worker'[w].pc = "idle"
    BY <1>4, ReleaseEffect
    DEF FinishJob, FinishSqlError, WorkerCrash, Always, TypeOK, IdleWorker
  <2>3. \A v \in Workers : worker'[v].pc = "idle"
    BY <2>1, <2>2 DEF Quiet, Alone, Others
  <2> QED
    BY <1>2, <2>3, NobodyBusy DEF Quiet, Always
<1> QED
  BY <1>3, <1>4

\* The steps of a worker that leave all rows and chunks alone.
LEMMA LocalStep ==
    ASSUME Always, Always', Quiet, NEW w \in Workers,
           \/ ListFiles(w) \/ \E f \in Files : LoadFile(w, f)
           \/ Embed(w) \/ WorkerSqlError(w) \/ SettingsSqlError(w)
    PROVE  Quiet'
<1>1. UNCHANGED <<onDisk, file, chunks, request>>
  BY DEF ListFiles, LoadFile, Embed, WorkerSqlError, SettingsSqlError, tables
<1>2. Unattached' /\ IndexedComplete'
  BY <1>1, RowsFrame DEF Quiet
<1>3. \A f \in Files : ChunksOf(f)' = ChunksOf(f)
  BY <1>1, SameChunks
<1>4. /\ worker \in [Workers -> Worker] /\ worker[w] \in Worker /\ WorkerLocal(w)
      /\ Listed(w) /\ PassSoFar(w) /\ Covered(w)
  BY DEF Always, TypeOK, WorkerLocals, Quiet, Diligent
<1> SUFFICES worker[w].pc # "idle" /\ Others(w) /\ Diligent(w)'
  BY <1>1, <1>2, OneBusy DEF Quiet, Always
<1>5. CASE ListFiles(w)
  <2>1. /\ Others(w) /\ worker'[w].pc = "next" /\ worker'[w].seen = file
        /\ worker'[w].todo = {f \in Files : file[f].status # "none"}
    BY <1>4, <1>5, ListEffect
  <2>2. Listed(w)' /\ PassSoFar(w)' /\ Covered(w)'
    BY <1>1, <2>1 DEF Listed, PassSoFar, Covered
  <2> QED
    BY <1>5, <2>1, <2>2 DEF ListFiles, Diligent
<1>6. ASSUME NEW f \in Files, LoadFile(w, f)
      PROVE  worker[w].pc # "idle" /\ Others(w) /\ Diligent(w)'
  <2>1. /\ Others(w) /\ SameJob(w) /\ worker'[w].seen = worker[w].seen
        /\ \/ /\ worker'[w].pc \in {"fail", "skip"}
              /\ worker'[w].todo = worker[w].todo /\ worker'[w].file = f
           \/ /\ Unchanged(worker[w].seen[f]) /\ worker'[w].pc = "next"
              /\ worker'[w].todo = worker[w].todo \ {f} /\ worker'[w].file = NoFile
           \/ /\ ~Unchanged(worker[w].seen[f]) /\ worker'[w].pc = "delete"
              /\ worker'[w].todo = worker[w].todo /\ worker'[w].file = f
              /\ worker'[w].size = size /\ worker'[w].index = 1
    BY <1>6, LoadEffect DEF Always
  <2>2. f \in worker[w].todo /\ worker[w].pc = "next" /\ faults' = faults
    BY <1>6 DEF LoadFile, history
  <2>3. Listed(w)'
    BY <1>1, <1>4, <2>1 DEF Listed
  <2>4. PassSoFar(w)'
    BY <2>1 DEF PassSoFar
  <2>5. Covered(w)'
    BY <1>1, <1>4, <2>1, <2>2 DEF Listed, Covered, Unchanged
  <2> QED
    BY <2>1, <2>2, <2>3, <2>4, <2>5 DEF Diligent
<1>7. CASE Embed(w)
  <2>2. /\ Others(w) /\ SameJob(w) /\ SameList(w)
        /\ worker'[w].pc \in {"insert", "unavailable"}
        /\ worker'[w].index = worker[w].index /\ worker'[w].file = worker[w].file
    BY <1>7, EmbedEffect DEF Always
  <2>3. worker[w].pc = "embed" /\ worker[w].index = 1 /\ faults' = faults
    BY <1>4, <1>7 DEF Embed, WorkerLocal, history
  <2>4. Listed(w)' /\ Covered(w)'
    BY <1>1, <1>4, <2>2, <2>3 DEF Listed, Covered, SameList
  <2>5. ASSUME NEW f \in Files, worker[w].file = f
        PROVE  ChunksOf(f)' = Pass(f, worker'[w].index - 1, worker'[w].blank,
                                   worker'[w].size, worker'[w].job, worker'[w].attempt)
    <3>1. worker'[w].index - 1 = 0
      BY <2>2, <2>3
    <3> QED
      BY <1>3, <1>4, <2>3, <2>5, <3>1, EmptyPass DEF PassSoFar
  <2>6. PassSoFar(w)'
    BY <1>4, <2>2, <2>3, <2>5 DEF PassSoFar, SameList
  <2> QED
    BY <2>2, <2>3, <2>4, <2>6 DEF Diligent
<1>8. CASE WorkerSqlError(w)
  <2>1. /\ Others(w) /\ worker[w].pc # "idle" /\ worker'[w].seen = worker[w].seen
        /\ worker'[w].todo \subseteq worker[w].todo
        /\ worker'[w].pc \in {"give_up", "next", "fail"} /\ faults' # 0
    BY <1>4, <1>8, StepEffect, NextFileEffect DEF WorkerSqlError, SameList, Always, TypeOK
  <2>2. Listed(w)' /\ PassSoFar(w)' /\ Covered(w)'
    BY <1>1, <1>4, <2>1 DEF Listed, PassSoFar, Covered
  <2> QED
    BY <2>1, <2>2 DEF Diligent
<1>9. CASE SettingsSqlError(w)
  <2>1. /\ Others(w) /\ SameList(w) /\ worker'[w].pc = worker[w].pc
        /\ worker'[w].file = worker[w].file
    BY <1>9, ResizeEffect DEF Always
  <2>2. worker[w].pc = "delete" /\ faults' # 0
    BY <1>9 DEF SettingsSqlError, Always, TypeOK
  <2>3. Listed(w)' /\ PassSoFar(w)' /\ Covered(w)'
    BY <1>1, <1>4, <2>1, <2>2 DEF Listed, PassSoFar, Covered, SameList
  <2> QED
    BY <2>1, <2>2, <2>3 DEF Diligent
<1> QED
  BY <1>5, <1>6, <1>7, <1>8, <1>9

\* A file that is about to be indexed anew is on record as having no chunks, or its
\* row does not say indexed.
LEMMA NotYetIndexed ==
    ASSUME Always, Quiet, NEW w \in Workers, NEW f \in Files, worker[w].file = f,
           worker[w].pc \in {"delete", "embed", "insert", "mark"},
           file[f].status = "indexed"
    PROVE  f \in onDisk /\ file[f].count = 0 /\ \A s \in Sizes : Pieces[f][s] = 0
<1>1. f \in onDisk
  BY DEF Always, FileRows
<1>2. f \in worker[w].todo
  BY DEF Always, WorkerLocals, WorkerLocal, InHand
<1>3. file[f] = worker[w].seen[f] /\ ~Unchanged(worker[w].seen[f])
  BY <1>1, <1>2 DEF Quiet, Diligent, Listed, PassSoFar
<1>4. file[f].count = 0
  BY <1>3, RowTypes, BoundsAssumption DEF Unchanged, Always, TypeOK
<1>5. PICK s \in Sizes : Pieces[f][s] = 0
  BY <1>4 DEF Always, FileRows
<1> QED
  BY <1>1, <1>4, <1>5, EmptyAssumption

LEMMA DeleteStep ==
    ASSUME Always, Always', Quiet, NEW w \in Workers, DeleteChunks(w),
           NEW f \in Files, worker[w].file = f
    PROVE  Quiet'
<1> DEFINE x == worker[w]
<1>1. /\ worker \in [Workers -> Worker] /\ x \in Worker /\ WorkerLocal(w) /\ x.pc = "delete"
      /\ Listed(w) /\ PassSoFar(w) /\ Covered(w)
      /\ UNCHANGED <<onDisk, file, request, faults>>
  BY DEF Always, TypeOK, WorkerLocals, Quiet, Diligent, DeleteChunks, history
<1>2. f \in Files /\ f \in x.todo
  BY <1>1, WorkerFields DEF WorkerLocal, InHand
<1>3. ChunksOf(f)' = {} /\ \A g \in Files : g # f => ChunksOf(g)' = ChunksOf(g)
  BY <1>2, ChunksTakenAway DEF DeleteChunks
<1>4. /\ Others(w) /\ SameJob(w) /\ SameList(w) /\ SameHand(w)
      /\ worker'[w].pc = IF Cut(w) = 0 THEN "mark" ELSE "embed"
  BY <1>1, StepEffect DEF DeleteChunks
<1>5. Listed(w)' /\ Covered(w)'
  BY <1>1, <1>4 DEF Listed, Covered, SameList
<1>6. PassSoFar(w)'
  <2>1. ~Unchanged(worker'[w].seen[f]) /\ worker'[w].file = f
    BY <1>1, <1>2, <1>4 DEF PassSoFar, SameList, SameHand
  <2>2. CASE Cut(w) # 0
    BY <1>2, <1>3, <1>4, <2>1, <2>2 DEF PassSoFar
  <2>3. CASE Cut(w) = 0
    <3>1. worker'[w].pc = "mark" /\ Pieces[f][worker'[w].size] = 0
      BY <1>4, <2>3 DEF SameHand, Cut
    <3>2. Pass(f, Pieces[f][worker'[w].size], worker'[w].blank, worker'[w].size,
               worker'[w].job, worker'[w].attempt) = {}
      BY <3>1, EmptyPass
    <3> QED
      BY <1>2, <1>3, <2>1, <3>1, <3>2 DEF PassSoFar
  <2> QED
    BY <2>2, <2>3
<1>7. Unattached'
  BY <1>1, <1>2, <1>3 DEF Quiet, Unattached
<1>8. IndexedComplete'
  <2>1. \A g \in Files : g # f /\ Complete(g) => Complete(g)'
    BY <1>1, <1>3 DEF Complete
  <2>2. ASSUME file[f].status = "indexed"
        PROVE  Complete(f)'
    <3>1. file'[f].count = 0
      BY <1>1, <1>2, <2>2, NotYetIndexed
    <3>2. x.job \in JobIds /\ x.attempt \in 1..MaxAttempts /\ x.size \in Sizes
      BY <1>1, WorkerFields DEF WorkerLocal
    <3>3. ChunksOf(f)' = Pass(f, file'[f].count, file'[f].blank, x.size, x.job, x.attempt)
      BY <1>3, <3>1, EmptyPass
    <3> QED
      BY <3>2, <3>3 DEF Complete
  <2> QED
    BY <1>1, <1>2, <2>1, <2>2 DEF Quiet, IndexedComplete
<1> QED
  BY <1>1, <1>4, <1>5, <1>6, <1>7, <1>8, OneBusy DEF Quiet, Diligent, Always

LEMMA InsertStep ==
    ASSUME Always, Always', Quiet, NEW w \in Workers, InsertChunk(w),
           NEW f \in Files, worker[w].file = f
    PROVE  Quiet'
<1> DEFINE i == worker[w].index
           x == worker[w]
<1>1. /\ worker \in [Workers -> Worker] /\ x \in Worker /\ WorkerLocal(w) /\ x.pc = "insert"
      /\ Listed(w) /\ PassSoFar(w) /\ Covered(w)
      /\ UNCHANGED <<onDisk, file, request, faults>>
  BY DEF Always, TypeOK, WorkerLocals, Quiet, Diligent, InsertChunk, history
<1>2. /\ f \in Files /\ f \in x.todo /\ Cut(w) \in 0..MaxPieces
      /\ i \in Nat \ {0} /\ i <= Cut(w) /\ x.size \in Sizes
  BY <1>1, CutType, WorkerFields, BoundsAssumption DEF WorkerLocal, InHand, Always
<1>3. CASE ~MovesOn(w)
  <2>1. /\ Others(w) /\ SameList(w) /\ worker'[w].pc = "fail" /\ chunks' = chunks
    BY <1>1, <1>3, StepEffect DEF InsertChunk, MovesOn
  <2>2. Diligent(w)'
    BY <1>1, <2>1 DEF Diligent, Listed, Covered, PassSoFar, SameList
  <2> QED
    BY <1>1, <2>1, <2>2, OneBusy, RowsFrame DEF Quiet, Always
<1>4. CASE MovesOn(w)
  <2> DEFINE c == [file |-> f, index |-> i, size |-> x.size, job |-> x.job,
                   attempt |-> x.attempt]
  <2>1. /\ Others(w) /\ SameJob(w) /\ SameList(w)
        /\ worker'[w].pc = IF i = Cut(w) THEN "mark" ELSE "insert"
        /\ worker'[w].index = i + 1
        /\ worker'[w].file = f /\ worker'[w].size = x.size /\ worker'[w].blank = x.blank
    BY <1>4, InsertEffect DEF Always
  <2>2. /\ ChunksOf(f)' = ChunksOf(f) \cup (IF i \in x.blank THEN {} ELSE {c})
        /\ \A g \in Files : g # f => ChunksOf(g)' = ChunksOf(g)
    <3>1. CASE i \in x.blank
      <4>1. chunks' = chunks
        BY <3>1 DEF InsertChunk
      <4> QED
        BY <1>1, <1>2, <3>1, <4>1, SameChunks
    <3>2. CASE i \notin x.blank
      <4>1. chunks' = chunks \cup {c} /\ f \in onDisk
        BY <1>4, <3>2 DEF InsertChunk, MovesOn
      <4> QED
        BY <1>1, <1>2, <3>2, <4>1, ChunkAdded
    <3> QED
      BY <3>1, <3>2
  <2>3. f \in onDisk => ChunksOf(f)' = Pass(f, i, x.blank, x.size, x.job, x.attempt)
    <3>1. f \in onDisk => ChunksOf(f) = Pass(f, i - 1, x.blank, x.size, x.job, x.attempt)
      BY <1>1, <1>2 DEF PassSoFar
    <3> QED
      BY <1>2, <2>2, <3>1, PassGrows
  <2>4. Listed(w)' /\ Covered(w)'
    BY <1>1, <2>1 DEF Listed, Covered, SameList
  <2>5. PassSoFar(w)'
    <3>1. ~Unchanged(worker'[w].seen[f])
      BY <1>1, <1>2, <2>1 DEF PassSoFar, SameList
    <3>2. worker'[w].index - 1 = i
      BY <1>2, <2>1
    <3>3. worker'[w].pc = "mark" => Pieces[f][worker'[w].size] = i
      BY <2>1 DEF Cut
    <3>4. onDisk' = onDisk
      BY <1>1
    <3> QED
      BY <1>2, <2>1, <2>3, <3>1, <3>2, <3>3, <3>4 DEF PassSoFar, SameJob
  <2>6. Unattached'
    <3>1. ASSUME f \in onDisk PROVE file[f].status # "none"
      BY <1>1, <1>2, <3>1 DEF Listed
    <3>2. \A r \in Requests : request[r].pc # "detach"
      BY <1>1 DEF Quiet, Alone
    <3>3. f \notin onDisk => ChunksOf(f)' = {}
      BY <1>1 DEF ChunksOf
    <3> QED
      BY <1>1, <2>2, <3>1, <3>2, <3>3 DEF Quiet, Unattached
  <2>7. IndexedComplete'
    <3>1. file[f].status # "indexed"
      <4>1. Pieces[f][x.size] # 0
        BY <1>2 DEF Cut
      <4> QED
        BY <1>1, <1>2, <4>1, NotYetIndexed
    <3>2. \A g \in Files : g # f /\ Complete(g) => Complete(g)'
      BY <1>1, <2>2 DEF Complete
    <3> QED
      BY <1>1, <3>1, <3>2 DEF Quiet, IndexedComplete
  <2> QED
    BY <1>1, <2>1, <2>4, <2>5, <2>6, <2>7, OneBusy DEF Quiet, Diligent, Always
<1> QED
  BY <1>3, <1>4

LEMMA SetStatusStep ==
    ASSUME Always, Always', Quiet, NEW w \in Workers, SetFileStatus(w),
           NEW f \in Files, worker[w].file = f
    PROVE  Quiet'
<1> DEFINE x == worker[w]
<1>1. /\ worker \in [Workers -> Worker] /\ x \in Worker /\ WorkerLocal(w)
      /\ x.pc \in {"mark", "skip", "fail", "unavailable"}
      /\ Listed(w) /\ PassSoFar(w) /\ Covered(w)
      /\ UNCHANGED <<onDisk, chunks, request, faults>>
  BY DEF Always, TypeOK, WorkerLocals, Quiet, Diligent, SetFileStatus, history
<1>2. /\ f \in Files /\ f \in x.todo /\ x.size \in Sizes
      /\ x.job \in JobIds /\ x.attempt \in 1..MaxAttempts
  BY <1>1, WorkerFields DEF WorkerLocal, InHand
<1>3. /\ Others(w) /\ worker'[w].pc \in {"next", "give_up"}
      /\ worker'[w].seen = x.seen /\ worker'[w].todo = x.todo \ {f}
  BY <1>1, NextFileEffect DEF SetFileStatus
<1>4. \A g \in Files : ChunksOf(g)' = ChunksOf(g)
  BY <1>1, SameChunks
<1>5. /\ \A g \in Files : g # f => file'[g] = file[g]
      /\ file[f].status = "none" => file'[f] = file[f]
      /\ file[f].status # "none" =>
            \/ file'[f].status \in {"skipped", "failed"}
            \/ x.pc = "mark" /\ file'[f] = [status |-> "indexed", count |-> Cut(w),
                                        blank |-> x.blank]
  BY <1>2 DEF SetFileStatus, WriteFileRow, Always, TypeOK
<1>6. Listed(w)' /\ PassSoFar(w)'
  BY <1>1, <1>3, <1>5 DEF Listed, PassSoFar
<1>7. Covered(w)'
  BY <1>1, <1>2, <1>3, <1>5 DEF Listed, Covered
<1>8. Unattached'
  BY <1>1, <1>2, <1>4, <1>5 DEF Quiet, Unattached
<1>9. IndexedComplete'
  <2>1. \A g \in Files : g # f /\ Complete(g) => Complete(g)'
    BY <1>4, <1>5 DEF Complete
  <2>2. ASSUME file'[f].status = "indexed"
        PROVE  Complete(f)'
    <3>1. f \in onDisk /\ file[f].status # "none"
      BY <1>1, <1>2, <1>5, <2>2 DEF Always, FileRows
    <3>2. /\ x.pc = "mark" /\ file'[f].count = Pieces[f][x.size]
          /\ file'[f].blank = x.blank
      BY <1>5, <2>2, <3>1 DEF Cut
    <3>3. ChunksOf(f)' = Pass(f, file'[f].count, file'[f].blank, x.size, x.job, x.attempt)
      BY <1>1, <1>2, <1>4, <3>1, <3>2 DEF PassSoFar
    <3> QED
      BY <1>2, <3>3 DEF Complete
  <2> QED
    BY <1>1, <1>2, <1>5, <2>1, <2>2 DEF Quiet, IndexedComplete
<1> QED
  BY <1>1, <1>3, <1>6, <1>7, <1>8, <1>9, OneBusy DEF Quiet, Diligent, Always

\* Files come and go while a worker may be busy.
LEMMA FileStep ==
    ASSUME Always, Always', Quiet, NEW f \in Files, AttachFile(f) \/ FileDeleted(f)
    PROVE  Quiet'
<1>1. UNCHANGED <<chunks, worker, request, faults>>
  BY DEF AttachFile, FileDeleted, history
<1>2. ASSUME NEW w \in Workers
      PROVE  Listed(w) /\ PassSoFar(w) /\ Covered(w)
  BY DEF Quiet, Diligent
<1>3. Alone'
  BY <1>1 DEF Quiet, Alone
<1>4. CASE AttachFile(f)
  <2>1. /\ onDisk' = onDisk /\ f \in onDisk /\ file[f].status = "none" /\ file'[f] = Pending
        /\ \A g \in Files : g # f => file'[g] = file[g]
    BY <1>4 DEF AttachFile, Always, TypeOK
  <2>2. \A g \in Files : ChunksOf(g)' = ChunksOf(g)
    BY <1>1, <2>1, SameChunks
  <2>3. Unattached'
    BY <1>1, <2>1, <2>2 DEF Quiet, Unattached, Pending
  <2>4. IndexedComplete'
    <3>1. \A g \in Files : g # f /\ Complete(g) => Complete(g)'
      BY <2>1, <2>2 DEF Complete
    <3> QED
      BY <1>1, <2>1, <3>1 DEF Quiet, IndexedComplete, Pending
  <2>5. ASSUME NEW w \in Workers
        PROVE  Diligent(w)'
    <3>1. Listed(w)'
      BY <1>1, <1>2, <2>1 DEF Listed
    <3>2. PassSoFar(w)'
      BY <1>1, <1>2, <2>1, <2>2 DEF PassSoFar
    <3>3. Covered(w)'
      BY <1>1, <1>2, <2>1 DEF Covered
    <3> QED
      BY <3>1, <3>2, <3>3 DEF Diligent
  <2> QED
    BY <1>3, <2>3, <2>4, <2>5 DEF Quiet
<1>5. CASE FileDeleted(f)
  <2>1. /\ onDisk' = onDisk \ {f} /\ file'[f] = NoRow
        /\ \A g \in Files : g # f => file'[g] = file[g]
    BY <1>5 DEF FileDeleted, Always, TypeOK
  <2>2. ChunksOf(f)' = {} /\ \A g \in Files : g # f => ChunksOf(g)' = ChunksOf(g)
    BY <1>1, <2>1, ChunksOfDeleted
  <2>3. Unattached'
    BY <1>1, <2>1, <2>2 DEF Quiet, Unattached
  <2>4. IndexedComplete'
    <3>1. \A g \in Files : g # f /\ Complete(g) => Complete(g)'
      BY <2>1, <2>2 DEF Complete
    <3> QED
      BY <1>1, <2>1, <3>1 DEF Quiet, IndexedComplete, NoRow
  <2>5. ASSUME NEW w \in Workers
        PROVE  Diligent(w)'
    <3>1. Listed(w)'
      BY <1>1, <1>2, <2>1 DEF Listed
    <3>2. PassSoFar(w)'
      BY <1>1, <1>2, <2>1, <2>2 DEF PassSoFar
    <3>3. Covered(w)'
      BY <1>1, <1>2, <2>1 DEF Covered
    <3> QED
      BY <3>1, <3>2, <3>3 DEF Diligent
  <2> QED
    BY <1>3, <2>3, <2>4, <2>5 DEF Quiet
<1> QED
  BY <1>4, <1>5

\* The steps that touch neither files, chunks nor workers, nor begin or end a clear
\* or a detach.
LEMMA BystanderStep ==
    ASSUME Always, Always', Quiet,
           \/ \E s \in Sizes : Resize(s)
           \/ \E r \in Requests : \/ FindNoRunningJob(r) \/ EnqueueJob(r)
                                  \/ RequestCutOff(r) /\ ~disturbed'
           \/ \E j \in JobIds : LeaseExpires(j)
           \/ UNCHANGED vars
    PROVE  Quiet'
<1>1. /\ UNCHANGED <<onDisk, file, chunks, worker>>
      /\ faults' = 0 => faults = 0
  BY DEF Resize, FindNoRunningJob, EnqueueJob, RequestCutOff, LeaseExpires, vars, tables,
         history, Always, TypeOK
<1>2. \A r \in Requests :
         \/ request'[r] = request[r]
         \/ /\ request[r].pc \notin {"clear", "detach"}
            /\ request'[r].pc \notin {"clear", "detach"}
  BY DEF Resize, FindNoRunningJob, EnqueueJob, RequestCutOff, LeaseExpires, vars, tables,
         Goto, Return, IdleRequest, Always, TypeOK
<1>3. \A f \in Files : ChunksOf(f)' = ChunksOf(f)
  BY <1>1, SameChunks
<1>4. Alone'
  BY <1>1, <1>2 DEF Quiet, Alone
<1>5. Unattached'
  BY <1>1, <1>2, <1>3 DEF Quiet, Unattached
<1>6. IndexedComplete'
  <2>1. \A f \in Files : Complete(f) => Complete(f)'
    BY <1>1, <1>3 DEF Complete
  <2> QED
    BY <1>1, <1>2, <2>1 DEF Quiet, IndexedComplete
<1>7. ASSUME NEW w \in Workers
      PROVE  Diligent(w)'
  BY <1>1, <1>3 DEF Quiet, Diligent, Listed, PassSoFar, Covered
<1> QED
  BY <1>4, <1>5, <1>6, <1>7 DEF Quiet

LEMMA QuietStep ==
    ASSUME Always, Always', ~disturbed => Quiet, [Next]_vars, ~disturbed'
    PROVE  Quiet'
<1>1. ~disturbed
  BY DEF Next, RequestNext, WorkerStep, vars, history, AttachFile, FileDeleted, Resize,
         DetachChunks, DetachRow, ClearChunks, ClearRows, FindNoRunningJob, EnqueueJob,
         RequestCutOff, ClaimJob, ListFiles, LoadFile, DeleteChunks, Embed, InsertChunk,
         SetFileStatus, FinishJob, WorkerSqlError, SettingsSqlError, FinishSqlError,
         WorkerCrash, LeaseExpires
<1>2. Quiet
  BY <1>1
<1>3. ASSUME NEW r \in Requests,
             (\E f \in Files : DetachChunks(r, f)) \/ DetachRow(r)
                \/ ClearChunks(r) \/ ClearRows(r)
      PROVE  Quiet'
  <2>1. Busy = {}
    BY <1>3 DEF DetachChunks, DetachRow, ClearChunks, ClearRows
  <2> QED
    BY <1>2, <1>3, <2>1, HandlerStep
<1>4. ASSUME NEW w \in Workers, DeleteChunks(w) \/ InsertChunk(w) \/ SetFileStatus(w)
      PROVE  Quiet'
  <2>1. worker[w].file \in Files
    BY <1>4, CutType DEF DeleteChunks, InsertChunk, SetFileStatus, InHand, Always
  <2> QED
    BY <1>2, <1>4, <2>1, DeleteStep, InsertStep, SetStatusStep
<1>5. ASSUME NEW w \in Workers, ClaimJob(w) \/ FinishJob(w) \/ FinishSqlError(w) \/ WorkerCrash(w)
      PROVE  Quiet'
  BY <1>2, <1>5, ClaimOrRelease
<1>6. ASSUME NEW w \in Workers, ListFiles(w) \/ (\E f \in Files : LoadFile(w, f))
                \/ Embed(w) \/ WorkerSqlError(w) \/ SettingsSqlError(w)
      PROVE  Quiet'
  BY <1>2, <1>6, LocalStep
<1> QED
  BY <1>2, <1>3, <1>4, <1>5, <1>6, FileStep, BystanderStep DEF Next, RequestNext, WorkerStep

-----------------------------------------------------------------------------
(* Theorems *)

\* The invariant is inductive: rows, locals and chunks of a knowledge base stay
\* related as IndInv says, whatever handlers, workers and the disk do.
THEOREM IndInvInvariant == Spec => []IndInv
<1>1. Init => IndInv
  <2> SUFFICES ASSUME Init
               PROVE  IndInv
    OBVIOUS
  <2>1. Always
    BY AlwaysInit
  <2>2. \A f \in Files : file[f].status = "none" /\ ChunksOf(f) = {}
    BY DEF Init, NoRow, ChunksOf
  <2>3. Alone /\ \A w \in Workers : worker[w].pc = "idle"
    BY DEF Init, IdleWorker, Alone
  <2>4. ASSUME NEW w \in Workers
        PROVE  Diligent(w)
    BY DEF Init, IdleWorker, Diligent, Listed, PassSoFar, Covered, NoRow
  <2> QED
    BY <2>1, <2>2, <2>3, <2>4 DEF IndInv, Quiet, Unattached, IndexedComplete
<1>2. IndInv /\ [Next]_vars => IndInv'
  BY AlwaysStep, QuietStep DEF IndInv
<1> QED
  BY <1>1, <1>2, PTL DEF Spec

\* Rows and locals always have the types of the schema and the code.
THEOREM TypeCorrect == Spec => []TypeOK
<1>1. IndInv => TypeOK
  BY DEF IndInv, Always
<1> QED
  BY <1>1, IndInvInvariant, PTL

\* Search finds a file that is called indexed exactly as one pass cut it, as long as
\* no two writers met and no clear was cut off.
THEOREM IndexedFilesAreComplete == Spec => []IndexedIsComplete
<1>1. IndInv => IndexedIsComplete
  <2> SUFFICES ASSUME IndInv, ~disturbed, ~HalfDone, NEW f \in Files,
                      file[f].status = "indexed"
               PROVE  \E j \in JobIds, a \in 1..MaxAttempts, s \in Sizes :
                         ChunksOf(f) = [file : {f}, index : (1..file[f].count) \ file[f].blank,
                                        size : {s}, job : {j}, attempt : {a}]
    BY DEF IndexedIsComplete
  <2>1. Complete(f)
    BY DEF IndInv, Quiet, IndexedComplete, HalfDone
  <2> QED
    BY <2>1 DEF Complete, Pass
<1> QED
  BY <1>1, IndInvInvariant, PTL

\* Search finds nothing in a file of the disk that is not attached.
THEOREM NothingIsLeftBehind == Spec => []NothingLeftBehind
<1>1. IndInv => NothingLeftBehind
  BY DEF IndInv, Quiet, Unattached, NothingLeftBehind
<1> QED
  BY <1>1, IndInvInvariant, PTL

\* A job that completes has come to a verdict on every file it listed.
THEOREM CompletedJobsCover == Spec => CompletedCoversItsFiles
<1>1. IndInv /\ [Next]_vars =>
         [\A w \in Workers :
             /\ worker[w].pc # "idle"
             /\ job[worker[w].job].status = "running"
             /\ job'[worker[w].job].status = "completed"
             /\ ~disturbed /\ faults = 0
             => \A f \in Files : worker[w].seen[f].status # "none"
                                   => file[f].status # "pending"]_vars
  <2> SUFFICES ASSUME IndInv, [Next]_vars, NEW w \in Workers, worker[w].pc # "idle",
                      job[worker[w].job].status = "running",
                      job'[worker[w].job].status = "completed",
                      ~disturbed, faults = 0,
                      NEW f \in Files, worker[w].seen[f].status # "none"
               PROVE  file[f].status # "pending"
    OBVIOUS
  <2>0. worker[w].job \in JobIds /\ Quiet /\ TypeOK /\ JobRows
    BY DEF IndInv, Always, WorkerLocals, WorkerLocal
  <2>1. CASE UNCHANGED job
    BY <2>1
  <2>2. ASSUME NEW r \in Requests, EnqueueJob(r)
        PROVE  FALSE
    BY <2>0, <2>2 DEF EnqueueJob, TypeOK, Job
  <2>3. ASSUME NEW v \in Workers, ClaimJob(v)
        PROVE  FALSE
    BY <2>0, <2>3, ClaimEffect
  <2>4. ASSUME NEW j \in JobIds, LeaseExpires(j)
        PROVE  FALSE
    BY <2>0, <2>4 DEF LeaseExpires, TypeOK, Job
  <2>5. ASSUME NEW v \in Workers, FinishJob(v)
        PROVE  file[f].status # "pending"
    <3>1. v = w
      BY <2>0, <2>5 DEF FinishJob, Done, Quiet, Alone
    <3>2. worker[w].pc = "next" /\ worker[w].todo = {}
      BY <2>0, <2>5, <3>1 DEF FinishJob, Done, TypeOK, Job
    <3>3. f \notin onDisk \/ file[f].status \notin {"none", "pending"}
      BY <2>0, <3>2 DEF Quiet, Diligent, Covered
    <3> QED
      BY <3>3 DEF IndInv, Always, FileRows
  <2> QED
    BY <2>1, <2>2, <2>3, <2>4, <2>5
    DEF Next, RequestNext, WorkerStep, vars, tables, history, AttachFile, FileDeleted, Resize,
        DetachChunks, DetachRow, ClearChunks, ClearRows, FindNoRunningJob, RequestCutOff,
        ListFiles, LoadFile, DeleteChunks, Embed, InsertChunk, SetFileStatus,
        WorkerSqlError, SettingsSqlError, FinishSqlError, WorkerCrash
<1> QED
  BY <1>1, IndInvInvariant, PTL DEF Spec, CompletedCoversItsFiles

=============================================================================
