----------------------------- MODULE Vectorize -----------------------------
(***************************************************************************)
(* Vectorization of one knowledge base: the handlers of                    *)
(* service/knowledge.go, the loop of service/vectorize_worker.go and the   *)
(* tables of migration 009 that they share.                                *)
(*                                                                         *)
(* One step is one SQL statement, as nothing here runs in a transaction;   *)
(* reads that only fill locals are joined with the step that uses them.    *)
(* The text extracted from a disk file is taken to be the same each time:  *)
(* disk files are never overwritten.  How many chunks it gives depends on  *)
(* the chunk size of the knowledge base.                                   *)
(***************************************************************************)
EXTENDS Integers, FiniteSets

CONSTANTS
    Files,        \* disk files that may be attached
    NoFile,       \* no file in hand
    Sizes,        \* settings of knowledge_bases.chunk_size
    DefaultSize,  \* defaultChunkSize, which a new knowledge base has
    Pieces,       \* Pieces[f][s]: the number of chunks of f, cut by size s
    MaxPieces,    \* bound: chunks of one file (200 in the code)
    Workers,      \* one VectorizeWorker goroutine per API process
    Requests,     \* HTTP handlers that may run at the same time
    MaxAttempts,  \* vectorize_jobs.max_attempts (5 in migration 009)
    MaxJobs,      \* bound: jobs ever enqueued
    MaxCrashes,   \* bound: crashes of a worker process
    MaxFaults     \* bound: SQL errors, and requests cut off half way

ASSUME MaxAttemptsAssumption == MaxAttempts \in Nat \ {0}
ASSUME BoundsAssumption == /\ MaxPieces \in Nat /\ MaxJobs \in Nat
                           /\ MaxCrashes \in Nat /\ MaxFaults \in Nat
ASSUME SizesAssumption == DefaultSize \in Sizes
ASSUME PiecesAssumption == Pieces \in [Files -> [Sizes -> 0..MaxPieces]]
ASSUME FilesAssumption == NoFile \notin Files
\* Only a text without a word gives no chunks, whatever the size.
ASSUME EmptyAssumption == \A f \in Files : \A s, t \in Sizes :
                              Pieces[f][s] = 0 => Pieces[f][t] = 0

VARIABLES
    onDisk,   \* workspace_files: the files that exist
    file,     \* knowledge_base_files rows
    chunks,   \* knowledge_chunks rows
    size,     \* knowledge_bases.chunk_size
    job,      \* vectorize_jobs rows
    worker,   \* the locals of each worker's ProcessNext
    request,  \* the locals of each handler
    crashes, faults,  \* spent budgets
    disturbed,  \* history: chunks were written by two at once, or half cleared
    outdated    \* history: jobs enqueued before the last change of the chunk size

tables == <<onDisk, file, chunks, size>>
history == <<crashes, faults, disturbed, outdated>>
vars == <<onDisk, file, chunks, size, job, worker, request,
          crashes, faults, disturbed, outdated>>

JobIds == 1..MaxJobs
NoJob  == 0

FileStatus == {"none", "pending", "indexed", "skipped", "failed"}
\* blank is history: the chunks the row counts though the gateway sent no vector for
\* them.
FileRow == [status : FileStatus, count : 0..MaxPieces, blank : SUBSET (1..MaxPieces)]
NoRow   == [status |-> "none", count |-> 0, blank |-> {}]
Pending == [status |-> "pending", count |-> 0, blank |-> {}]

\* A chunk row, with the claim that wrote it.  Its file_id reads as NULL once the
\* file is gone from the disk: ON DELETE SET NULL.
Chunk == [file : Files, index : 1..MaxPieces, size : Sizes,
          job : JobIds, attempt : 1..MaxAttempts]
ChunksOf(f) == {c \in chunks : c.file = f /\ f \in onDisk}

JobStatus == {"none", "queued", "running", "completed", "failed"}
Job == [status : JobStatus, attempts : 0..MaxAttempts, lease : {"none", "live", "expired"}]
NoJobRow == [status |-> "none", attempts |-> 0, lease |-> "none"]

\* seen is the list that ListFiles returned, todo its files not yet processed; blank
\* are the chunks of the file in hand whose vector came back empty.
WorkerPc == {"idle", "list", "next", "delete", "embed", "insert",
             "mark", "skip", "fail", "unavailable", "give_up"}
Worker == [pc : WorkerPc, job : JobIds \cup {NoJob}, attempt : 0..MaxAttempts,
           seen : [Files -> FileRow], todo : SUBSET Files,
           file : Files \cup {NoFile}, size : Sizes, index : 1..(MaxPieces + 1),
           blank : SUBSET (1..MaxPieces)]
IdleWorker == [pc |-> "idle", job |-> NoJob, attempt |-> 0,
               seen |-> [f \in Files |-> NoRow], todo |-> {},
               file |-> NoFile, size |-> DefaultSize, index |-> 1, blank |-> {}]

Request == [pc : {"idle", "enqueue", "clear", "detach"}, file : Files \cup {NoFile}]
IdleRequest == [pc |-> "idle", file |-> NoFile]

Init ==
    /\ onDisk = Files
    /\ file = [f \in Files |-> NoRow]
    /\ chunks = {}
    /\ size = DefaultSize
    /\ job = [j \in JobIds |-> NoJobRow]
    /\ worker = [w \in Workers |-> IdleWorker]
    /\ request = [r \in Requests |-> IdleRequest]
    /\ crashes = 0 /\ faults = 0
    /\ disturbed = FALSE
    /\ outdated = {}

Busy == {w \in Workers : worker[w].pc # "idle"}
InFlight == {j \in JobIds : job[j].status \in {"queued", "running"}}

-----------------------------------------------------------------------------
(* Requests *)

\* (mutant) The chunks of an earlier pass are left where they are.
StaleChunksKept(f) == {}

\* DeleteChunksForFile: what it removes.
StaleChunks(f) == ChunksOf(f)

Goto(r, pc, f) == request' = [request EXCEPT ![r] = [pc |-> pc, file |-> f]]
Return(r) == request' = [request EXCEPT ![r] = IdleRequest]

\* AttachFiles: ON CONFLICT DO NOTHING, and the foreign key wants the file on disk.
AttachFile(f) ==
    /\ f \in onDisk
    /\ file[f].status = "none"
    /\ file' = [file EXCEPT ![f] = Pending]
    /\ UNCHANGED <<onDisk, chunks, size, job, worker, request, history>>

\* DetachFiles: the chunks, then the row.
DetachChunks(r, f) ==
    /\ request[r].pc = "idle"
    /\ chunks' = chunks \ StaleChunks(f)
    /\ Goto(r, "detach", f)
    /\ disturbed' = (disturbed \/ Busy # {})
    /\ UNCHANGED <<onDisk, file, size, job, worker, crashes, faults, outdated>>

DetachRow(r) ==
    /\ request[r].pc = "detach"
    /\ file' = [file EXCEPT ![request[r].file] = NoRow]
    /\ Return(r)
    /\ disturbed' = (disturbed \/ Busy # {})
    /\ UNCHANGED <<onDisk, chunks, size, job, worker, crashes, faults, outdated>>

\* ClearVectors: the chunks, then the rows.
ClearChunks(r) ==
    /\ request[r].pc = "idle"
    /\ chunks' = {}
    /\ Goto(r, "clear", NoFile)
    /\ disturbed' = (disturbed \/ Busy # {})
    /\ UNCHANGED <<onDisk, file, size, job, worker, crashes, faults, outdated>>

ClearRows(r) ==
    /\ request[r].pc = "clear"
    /\ file' = [f \in Files |-> IF file[f].status = "none" THEN NoRow ELSE Pending]
    /\ Return(r)
    /\ disturbed' = (disturbed \/ Busy # {})
    /\ UNCHANGED <<onDisk, chunks, size, job, worker, crashes, faults, outdated>>

\* UpdateSettings, of which only the chunk size matters here.
Resize(s) ==
    /\ s # size
    /\ size' = s
    /\ outdated' = {j \in JobIds : job[j].status # "none"}
    /\ UNCHANGED <<onDisk, file, chunks, job, worker, request, crashes, faults, disturbed>>

\* Vectorize: RunningJobForKB, then EnqueueJob.
FindNoRunningJob(r) ==
    /\ request[r].pc = "idle"
    /\ InFlight = {}
    /\ Goto(r, "enqueue", NoFile)
    /\ UNCHANGED <<tables, job, worker, history>>

EnqueueJob(r) ==
    /\ request[r].pc = "enqueue"
    /\ \E j \in JobIds :
          /\ job[j].status = "none"
          /\ \A i \in JobIds : i < j => job[i].status # "none"
          /\ job' = [job EXCEPT ![j].status = "queued"]
    /\ Return(r)
    /\ UNCHANGED <<tables, worker, history>>

\* An SQL error, a closed connection or the death of the process.
RequestCutOff(r) ==
    /\ request[r].pc # "idle"
    /\ faults < MaxFaults
    /\ faults' = faults + 1
    /\ disturbed' = (disturbed \/ request[r].pc \in {"clear", "detach"})
    /\ Return(r)
    /\ UNCHANGED <<tables, job, worker, crashes, outdated>>

\* The disk purges a file.  The row goes with it (ON DELETE CASCADE), the chunks
\* stay and lose their file_id (ON DELETE SET NULL).
FileDeleted(f) ==
    /\ f \in onDisk
    /\ onDisk' = onDisk \ {f}
    /\ file' = [file EXCEPT ![f] = NoRow]
    /\ UNCHANGED <<chunks, size, job, worker, request, history>>

-----------------------------------------------------------------------------
(* VectorizeWorker.ProcessNext and indexFile *)

Locals(w, x) == worker' = [worker EXCEPT ![w] = x]
Step(w, pc) == Locals(w, [worker[w] EXCEPT !.pc = pc])
Release(w) == Locals(w, IdleWorker)
NextFile(w, f, pc) ==
    Locals(w, [worker[w] EXCEPT !.pc = pc, !.todo = worker[w].todo \ {f}, !.file = NoFile,
                                !.size = DefaultSize, !.index = 1, !.blank = {}])

\* (mutants) An expired job is taken over without a limit, or never.
ClaimableUnlimited(j) ==
    job[j].status = "queued" \/ (job[j].status = "running" /\ job[j].lease = "expired")
ClaimableQueuedOnly(j) == job[j].status = "queued"

\* ClaimJob's inner SELECT.
Claimable(j) ==
    \/ job[j].status = "queued"
    \/ /\ job[j].status = "running"
       /\ job[j].lease = "expired"
       /\ job[j].attempts < MaxAttempts

ClaimJob(w) ==
    /\ worker[w].pc = "idle"
    /\ \E j \in JobIds :
          /\ Claimable(j)
          /\ \A i \in JobIds : i < j => ~Claimable(i)
          /\ job' = [job EXCEPT ![j] = [status |-> "running", lease |-> "live",
                                        attempts |-> job[j].attempts + 1]]
          /\ Locals(w, [worker[w] EXCEPT !.pc = "list", !.job = j,
                                          !.attempt = job[j].attempts + 1])
    /\ disturbed' = (disturbed \/ Busy # {}
                     \/ \E r \in Requests : request[r].pc \in {"clear", "detach"})
    /\ UNCHANGED <<tables, request, crashes, faults, outdated>>

ListFiles(w) ==
    /\ worker[w].pc = "list"
    /\ Locals(w, [worker[w] EXCEPT !.pc = "next", !.seen = file,
                                    !.todo = {f \in Files : file[f].status # "none"}])
    /\ UNCHANGED <<tables, job, request, history>>

\* The test for unchanged text.  The hash of an indexed row is that of its text,
\* so it always agrees.
Unchanged(row) == row.status = "indexed" /\ row.count > 0

\* The files come in the order of their names, which may change meanwhile.  The
\* download and the extraction may fail, and a file that has been renamed may no
\* longer be ingestible.
LoadFile(w, f) ==
    /\ worker[w].pc = "next"
    /\ f \in worker[w].todo
    /\ \/ Locals(w, [worker[w] EXCEPT !.pc = "fail", !.file = f])
       \/ /\ f \in onDisk
          /\ Locals(w, [worker[w] EXCEPT !.pc = "skip", !.file = f])
       \/ /\ f \in onDisk
          /\ IF Unchanged(worker[w].seen[f])
             THEN NextFile(w, f, "next")
             ELSE Locals(w, [worker[w] EXCEPT !.pc = "delete", !.file = f,
                                              !.size = size, !.index = 1])
    /\ UNCHANGED <<tables, job, request, history>>

\* (mutant) The chunk size is read again each time it is needed.
CutByPresentSize(w) == Pieces[worker[w].file][size]

\* The number of chunks the worker has cut the file in hand into.
Cut(w) == Pieces[worker[w].file][worker[w].size]

DeleteChunks(w) ==
    /\ worker[w].pc = "delete"
    /\ chunks' = chunks \ StaleChunks(worker[w].file)
    /\ Step(w, IF Cut(w) = 0 THEN "mark" ELSE "embed")
    /\ UNCHANGED <<onDisk, file, size, job, request, history>>

\* The gateway answers with an embedding for each text, or not at all.  That none of
\* them is empty is checked by nobody but the loop of inserts.
Embed(w) ==
    /\ worker[w].pc = "embed"
    /\ \/ Step(w, "unavailable")
       \/ \E b \in SUBSET (1..Cut(w)) :
             Locals(w, [worker[w] EXCEPT !.pc = "insert", !.blank = b])
    /\ UNCHANGED <<tables, job, request, history>>

\* InsertChunk, once for each chunk with a vector; the others are passed over without
\* a word.  The foreign key fails when the file is gone.
InsertChunk(w) ==
    LET f == worker[w].file
        i == worker[w].index
        NextChunk == Locals(w, [worker[w] EXCEPT !.index = i + 1,
                                    !.pc = IF i = Cut(w) THEN "mark" ELSE "insert"])
    IN
    /\ worker[w].pc = "insert"
    /\ \/ /\ i \in worker[w].blank
          /\ NextChunk
          /\ UNCHANGED chunks
       \/ /\ i \notin worker[w].blank /\ f \in onDisk
          /\ chunks' = chunks \cup
                  {[file |-> f, index |-> i, size |-> worker[w].size,
                    job |-> worker[w].job, attempt |-> worker[w].attempt]}
          /\ NextChunk
       \/ /\ i \notin worker[w].blank /\ f \notin onDisk
          /\ Step(w, "fail")
          /\ UNCHANGED chunks
    /\ UNCHANGED <<onDisk, file, size, job, request, history>>

\* SetFileStatus, which changes nothing when the row is gone.
WriteFileRow(f, s, n, b) ==
    file' = IF file[f].status = "none" THEN file
            ELSE [file EXCEPT ![f] = [status |-> s, count |-> n, blank |-> b]]

SetFileStatus(w) ==
    LET f == worker[w].file IN
    /\ \/ /\ worker[w].pc = "mark"
          /\ WriteFileRow(f, "indexed", Cut(w), worker[w].blank)
          /\ NextFile(w, f, "next")
       \/ /\ worker[w].pc = "skip"
          /\ WriteFileRow(f, "skipped", 0, {})
          /\ NextFile(w, f, "next")
       \/ /\ worker[w].pc = "fail"
          /\ WriteFileRow(f, "failed", 0, {})
          /\ NextFile(w, f, "next")
       \/ /\ worker[w].pc = "unavailable"
          /\ WriteFileRow(f, "failed", 0, {})
          /\ NextFile(w, f, "give_up")
    /\ UNCHANGED <<onDisk, chunks, size, job, request, history>>

\* (mutant) The loop ends with files left to do.
DoneEarly(w) == worker[w].pc = "next"

\* The loop over the listed files is over.
Done(w) == worker[w].pc = "next" /\ worker[w].todo = {}

\* FinishJob, by id alone: completed when the loop ran to its end.
FinishJob(w) ==
    /\ Done(w) \/ worker[w].pc = "give_up"
    /\ LET j == worker[w].job IN
       job' = [job EXCEPT ![j] = [job[j] EXCEPT !.lease = "none",
                  !.status = IF worker[w].pc = "next" THEN "completed" ELSE "failed"]]
    /\ Release(w)
    /\ UNCHANGED <<tables, request, history>>

\* An SQL error: ListFiles gives the job up, a statement of indexFile fails the
\* file, and an error of that last SetFileStatus is ignored.
WorkerSqlError(w) ==
    LET pc == worker[w].pc IN
    /\ pc \in {"list", "delete", "insert", "mark", "skip", "fail", "unavailable"}
    /\ pc = "insert" => worker[w].index \notin worker[w].blank
    /\ faults < MaxFaults
    /\ faults' = faults + 1
    /\ CASE pc = "list" -> Step(w, "give_up")
         [] pc = "fail" -> NextFile(w, worker[w].file, "next")
         [] pc = "unavailable" -> NextFile(w, worker[w].file, "give_up")
         [] OTHER -> Step(w, "fail")
    /\ UNCHANGED <<tables, job, request, crashes, disturbed, outdated>>

\* An error of the read of the chunk size is ignored, and the default size is taken.
SettingsSqlError(w) ==
    /\ worker[w].pc = "delete"
    /\ faults < MaxFaults
    /\ faults' = faults + 1
    /\ Locals(w, [worker[w] EXCEPT !.size = DefaultSize])
    /\ UNCHANGED <<tables, job, request, crashes, disturbed, outdated>>

\* An error of FinishJob is ignored: the job stays running until its lease is over.
FinishSqlError(w) ==
    /\ Done(w) \/ worker[w].pc = "give_up"
    /\ faults < MaxFaults
    /\ faults' = faults + 1
    /\ Release(w)
    /\ UNCHANGED <<tables, job, request, crashes, disturbed, outdated>>

\* The process dies, or SIGTERM cancels the worker's context.
WorkerCrash(w) ==
    /\ worker[w].pc # "idle"
    /\ crashes < MaxCrashes
    /\ crashes' = crashes + 1
    /\ Release(w)
    /\ UNCHANGED <<tables, job, request, faults, disturbed, outdated>>

\* Ten minutes after the claim: TouchJob does not renew the lease.
LeaseExpires(j) ==
    /\ job[j].lease = "live"
    /\ job' = [job EXCEPT ![j].lease = "expired"]
    /\ UNCHANGED <<tables, worker, request, history>>

-----------------------------------------------------------------------------
RequestNext(r) ==
    \/ \E f \in Files : DetachChunks(r, f)
    \/ DetachRow(r) \/ ClearChunks(r) \/ ClearRows(r)
    \/ FindNoRunningJob(r) \/ EnqueueJob(r) \/ RequestCutOff(r)

WorkerStep(w) ==
    \/ ClaimJob(w) \/ ListFiles(w) \/ (\E f \in Files : LoadFile(w, f))
    \/ DeleteChunks(w) \/ Embed(w) \/ InsertChunk(w) \/ SetFileStatus(w) \/ FinishJob(w)

Next == \/ \E f \in Files : AttachFile(f) \/ FileDeleted(f)
        \/ \E s \in Sizes : Resize(s)
        \/ \E r \in Requests : RequestNext(r)
        \/ \E w \in Workers : \/ WorkerStep(w) \/ WorkerSqlError(w)
                              \/ SettingsSqlError(w) \/ FinishSqlError(w)
                              \/ WorkerCrash(w)
        \/ \E j \in JobIds : LeaseExpires(j)

Spec == Init /\ [][Next]_vars

\* The worker loop polls every two seconds, its calls end, and the clock runs.
Fairness == /\ \A w \in Workers : WF_vars(WorkerStep(w))
            /\ \A j \in JobIds : WF_vars(LeaseExpires(j))

FairSpec == Spec /\ Fairness

-----------------------------------------------------------------------------
(* Properties *)

\* Rows and locals have the types of the schema and the code; in particular
\* attempts never pass max_attempts and no file has more chunks than were cut.
TypeOK ==
    /\ onDisk \subseteq Files
    /\ file \in [Files -> FileRow]
    /\ chunks \subseteq Chunk
    /\ size \in Sizes
    /\ job \in [JobIds -> Job]
    /\ worker \in [Workers -> Worker]
    /\ request \in [Requests -> Request]
    /\ crashes \in 0..MaxCrashes /\ faults \in 0..MaxFaults
    /\ disturbed \in BOOLEAN
    /\ outdated \subseteq JobIds

\* The two statements of a clear or a detach are not both done.
HalfDone == \E r \in Requests : request[r].pc \in {"clear", "detach"}

\* A file whose row says indexed is found by search exactly as its last pass cut it:
\* each of its chunks once, from one pass of one size, as many as the row says but for
\* those the gateway answered with an empty vector, which indexFile passes over and
\* counts all the same.  Crashes, SQL errors, a lost gateway and repeated deliveries
\* of a job do not break this; two writers at once can, and so can half a clear.
IndexedIsComplete ==
    ~disturbed /\ ~HalfDone =>
        \A f \in Files : file[f].status = "indexed" =>
            \E j \in JobIds, a \in 1..MaxAttempts, s \in Sizes :
                ChunksOf(f) = [file : {f}, index : (1..file[f].count) \ file[f].blank,
                               size : {s}, job : {j}, attempt : {a}]

\* Nothing is found in a file of the disk that is not attached: a file that was
\* detached, by the two statements of DetachFiles while no pass was under way, leaves
\* no chunks behind, and a pass writes none for a file that was not attached.
NothingLeftBehind ==
    ~disturbed => \A f \in Files : file[f].status = "none" => ChunksOf(f) = {}

\* A job that completes has come to a verdict on every file it listed that is still
\* attached, when no SQL error hit it.
CompletedCoversItsFiles ==
    [][\A w \in Workers :
          /\ worker[w].pc # "idle"
          /\ job[worker[w].job].status = "running"
          /\ job'[worker[w].job].status = "completed"
          /\ ~disturbed /\ faults = 0
          => \A f \in Files : worker[w].seen[f].status # "none"
                                => file[f].status # "pending"]_vars

\* The last claim of the job is spent and nobody works on it: ClaimJob passes it
\* over, and Vectorize answers that it is busy.
Exhausted(j) ==
    /\ job[j].status = "running" /\ job[j].lease = "expired"
    /\ job[j].attempts = MaxAttempts
    /\ \A w \in Workers : worker[w].job # j

\* A vectorization that was asked for ends, whatever crashes and errors hit its
\* workers, unless its attempts are used up.
VectorizationEnds ==
    \A j \in JobIds : job[j].status = "queued"
        ~> job[j].status \in {"completed", "failed"} \/ Exhausted(j)

\* Rule 10-document-ingestion, line 23: deleting invalidates chunks.  The code keeps
\* the chunks of a deleted file, and SearchVector joins them from the left.
DeletedFilesNotFound == \A c \in chunks : c.file \in onDisk

\* KnowledgeListPage.tsx, line 339: after a change of the chunk size, start the
\* vectorization anew.  The code skips every file whose text is unchanged.
NewSizeTakesEffect ==
    [][\A j \in JobIds \ outdated :
          job[j].status = "running" /\ job'[j].status = "completed"
          => \A f \in Files : file[f].status = "indexed"
                => \A c \in ChunksOf(f) : c.size = size]_vars

=============================================================================
