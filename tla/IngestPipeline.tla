--------------------------- MODULE IngestPipeline ---------------------------
(***************************************************************************)
(* Document ingestion: the request handlers of service/document.go, the    *)
(* worker loop of service/ingest_worker.go and the two tables they share   *)
(* through repository/document.go (document_versions and ingest_jobs).     *)
(*                                                                         *)
(* One step is one SQL statement: nothing here runs in a transaction, so   *)
(* other handlers and workers run between any two statements of a handler. *)
(* FromFile always creates a document together with its version 1, so a    *)
(* document and its version share an id.  Ids are handed out in creation   *)
(* order, which is what ORDER BY created_at sees.                          *)
(***************************************************************************)
EXTENDS Integers, FiniteSets

CONSTANTS
    Files,        \* disk files a user may turn into documents
    NoFile,       \* the NULL of a file reference
    Content,      \* Content[f]: the SHA-256 of the stored object of f
    Workers,      \* one IngestWorker goroutine per API process
    Requests,     \* HTTP handlers that may run at the same time
    MaxAttempts,  \* ingest_jobs.max_attempts (5 in migration 008)
    MaxVersions,  \* bound: documents ever created
    MaxJobs,      \* bound: jobs ever enqueued
    MaxCrashes,   \* bound: crashes of a worker process
    MaxFaults     \* bound: SQL errors, and requests cut off half way

ASSUME MaxAttemptsAssumption == MaxAttempts \in Nat \ {0}
ASSUME BoundsAssumption == /\ MaxVersions \in Nat /\ MaxJobs \in Nat
                           /\ MaxCrashes \in Nat /\ MaxFaults \in Nat
ASSUME FilesAssumption == NoFile \notin Files /\ DOMAIN Content = Files

VARIABLES
    doc,      \* documents row: none, empty (no current version), current
    status,   \* document_versions.status, "none" before the row exists
    source,   \* document_versions.disk_file_id
    job,      \* ingest_jobs rows
    worker,   \* the locals of each worker's ProcessNext
    request,  \* the locals of each handler
    crashes, faults,  \* spent budgets
    lost,     \* history: lost[j], the attempts of j whose worker died on them
    dropped   \* history: versions whose handler was cut off before their job was
              \* in, or whose worker ended the job without its verdict

store == <<doc, status, source>>
history == <<crashes, faults, lost, dropped>>
vars == <<doc, status, source, job, worker, request, crashes, faults, lost, dropped>>

Versions == 1..MaxVersions
JobIds   == 1..MaxJobs
NoJob    == 0
NoVersion == 0

Active    == {"queued", "running"}
Reusable  == Active \cup {"awaiting_review", "published"}
Retryable == {"failed", "rejected"}
Status    == Reusable \cup Retryable \cup {"none"}

JobStatus == {"none", "queued", "running", "completed", "failed"}
Lease     == {"none", "live", "expired"}
Job == [version : Versions \cup {NoVersion}, status : JobStatus,
        attempts : 0..MaxAttempts, lease : Lease]

\* Before the verdict on the version is written, and after.
PreVerdict  == {"load", "mark", "extract", "store", "fail"}
PostVerdict == {"completed", "failed"}
Worker == [pc : {"idle"} \cup PreVerdict \cup PostVerdict,
           job : JobIds \cup {NoJob}, attempt : 0..MaxAttempts]

RequestPc == {"idle", "hash", "create", "version", "link", "enqueue_new",
              "compensate", "retry", "reset", "enqueue_retry", "approve", "reject"}
\* The handler has written a queued version and has not yet enqueued its job.
Enqueuing == {"link", "enqueue_new", "enqueue_retry"}
\* ... or is about to write the version off, because that failed.
Responsible == Enqueuing \cup {"compensate"}
Request == [pc : RequestPc, file : Files \cup {NoFile},
            version : Versions \cup {NoVersion}]

IdleWorker  == [pc |-> "idle", job |-> NoJob, attempt |-> 0]
IdleRequest == [pc |-> "idle", file |-> NoFile, version |-> NoVersion]
NoRow == [version |-> NoVersion, status |-> "none", attempts |-> 0, lease |-> "none"]

Init ==
    /\ doc = [v \in Versions |-> "none"]
    /\ status = [v \in Versions |-> "none"]
    /\ source = [v \in Versions |-> NoFile]
    /\ job = [j \in JobIds |-> NoRow]
    /\ worker = [w \in Workers |-> IdleWorker]
    /\ request = [r \in Requests |-> IdleRequest]
    /\ crashes = 0 /\ faults = 0
    /\ lost = [j \in JobIds |-> {}]
    /\ dropped = {}

-----------------------------------------------------------------------------
(* The statements of repository/document.go *)

\* (mutants) The guard misses one of its statuses, or is not there at all.
ExtractGuardRunningOnly(v) == status[v] = "running"
ExtractGuardMissing(v) == status[v] # "none"

\* UpdateVersionExtract: guarded by status IN ('queued', 'running').
ExtractGuard(v) == status[v] \in Active
\* UpdateVersionExtract affects no row (ErrNotFound) when its guard fails.
WriteVerdict(v, s) ==
    status' = IF ExtractGuard(v) THEN [status EXCEPT ![v] = s] ELSE status

\* (mutants) ClaimJob without the limit, with failed jobs, or without expired leases.
ClaimableUnlimited(j) ==
    job[j].status = "queued" \/ (job[j].status = "running" /\ job[j].lease = "expired")
ClaimableFailedToo(j) ==
    \/ job[j].status = "queued"
    \/ job[j].status \in {"running", "failed"} /\ job[j].lease # "live"
       /\ job[j].attempts < MaxAttempts
ClaimableQueuedOnly(j) == job[j].status = "queued"

\* ClaimJob's inner SELECT.
Claimable(j) ==
    \/ job[j].status = "queued"
    \/ /\ job[j].status = "running"
       /\ job[j].lease = "expired"
       /\ job[j].attempts < MaxAttempts

\* (mutant) A claim that marks the attempt instead of counting it.
NextAttemptConstant(j) == 1

\* ClaimJob's attempts + 1, which RETURNING hands to the worker.
NextAttempt(j) == job[j].attempts + 1

\* FinishJob: by id alone, whoever holds the job by now.
FinishJob(j, s) == job' = [job EXCEPT ![j].status = s, ![j].lease = "none"]

\* EnqueueJob: a new row in created_at order.
EnqueueJob(v) ==
    \E j \in JobIds :
        /\ job[j].status = "none"
        /\ \A i \in JobIds : i < j => job[i].status # "none"
        /\ job' = [job EXCEPT ![j] = [version |-> v, status |-> "queued",
                                      attempts |-> 0, lease |-> "none"]]

\* Bound: a handler that will need a job row starts only while one is left for it.
RoomForJob == Cardinality({j \in JobIds : job[j].status = "none"})
                > Cardinality({r \in Requests : request[r].pc \in Enqueuing})

FindByDiskFile(f) == {v \in Versions : status[v] # "none" /\ source[v] = f}
FindByHash(h) ==
    {v \in Versions : status[v] \in Reusable /\ Content[source[v]] = h}

-----------------------------------------------------------------------------
(* DocumentService.FromFile, Retry and Review *)

Goto(r, pc, f, v) ==
    request' = [request EXCEPT ![r] = [pc |-> pc, file |-> f, version |-> v]]
Return(r) == request' = [request EXCEPT ![r] = IdleRequest]

\* FromFile's look-up by disk file.  A reusable version is returned as it is,
\* which changes nothing; a failed or rejected one goes through Retry.
FromFile(r, f) ==
    /\ request[r].pc = "idle"
    /\ \/ /\ FindByDiskFile(f) = {}
          /\ Goto(r, "hash", f, NoVersion)
       \/ \E v \in FindByDiskFile(f) : /\ status[v] \in Retryable
                                       /\ Goto(r, "retry", NoFile, v)
    /\ UNCHANGED <<store, job, worker, history>>

\* HashAndSize reads the object, then FindByHash looks for a duplicate.
HashFile(r) ==
    /\ request[r].pc = "hash"
    /\ IF FindByHash(Content[request[r].file]) = {}
       THEN Goto(r, "create", request[r].file, NoVersion)
       ELSE Return(r)
    /\ UNCHANGED <<store, job, worker, history>>

CreateDocument(r) ==
    /\ request[r].pc = "create"
    /\ \E v \in Versions :
          /\ doc[v] = "none"
          /\ \A u \in Versions : u < v => doc[u] # "none"
          /\ doc' = [doc EXCEPT ![v] = "empty"]
          /\ Goto(r, "version", request[r].file, v)
    /\ UNCHANGED <<status, source, job, worker, history>>

CreateVersion(r) ==
    LET v == request[r].version IN
    /\ request[r].pc = "version"
    /\ RoomForJob
    /\ status' = [status EXCEPT ![v] = "queued"]
    /\ source' = [source EXCEPT ![v] = request[r].file]
    /\ Goto(r, "link", NoFile, v)
    /\ UNCHANGED <<doc, job, worker, history>>

SetCurrentVersion(r) ==
    LET v == request[r].version IN
    /\ request[r].pc = "link"
    /\ doc' = [doc EXCEPT ![v] = "current"]
    /\ Goto(r, "enqueue_new", NoFile, v)
    /\ UNCHANGED <<status, source, job, worker, history>>

Enqueue(r) ==
    LET v == request[r].version IN
    /\ request[r].pc \in {"enqueue_new", "enqueue_retry"}
    /\ EnqueueJob(v)
    /\ Return(r)
    /\ dropped' = dropped \ {v}    \* the new job takes the version up again
    /\ UNCHANGED <<store, worker, crashes, faults, lost>>

\* The first read of Retry, on its own or reached through FromFile.
RetryRead(r, v) ==
    /\ \/ request[r].pc = "idle" /\ status[v] # "none"
       \/ request[r].pc = "retry" /\ request[r].version = v
    /\ IF status[v] \in Retryable THEN Goto(r, "reset", NoFile, v) ELSE Return(r)
    /\ UNCHANGED <<store, job, worker, history>>

ResetVersionForRetry(r) ==
    LET v == request[r].version IN
    /\ request[r].pc = "reset"
    /\ RoomForJob
    /\ IF status[v] \in Retryable
       THEN /\ status' = [status EXCEPT ![v] = "queued"]
            /\ Goto(r, "enqueue_retry", NoFile, v)
       ELSE Return(r) /\ UNCHANGED status
    /\ UNCHANGED <<doc, source, job, worker, history>>

ReviewRead(r, v) ==
    /\ request[r].pc = "idle"
    /\ status[v] = "awaiting_review"
    /\ \E action \in {"approve", "reject"} : Goto(r, action, NoFile, v)
    /\ UNCHANGED <<store, job, worker, history>>

\* UpdateVersionStatus: compare-and-set on the status that was read.
ReviewWrite(r) ==
    LET v == request[r].version IN
    /\ request[r].pc \in {"approve", "reject"}
    /\ status' = IF status[v] = "awaiting_review"
                 THEN [status EXCEPT ![v] = IF request[r].pc = "approve"
                                            THEN "published" ELSE "rejected"]
                 ELSE status
    /\ Return(r)
    /\ UNCHANGED <<doc, source, job, worker, history>>

\* An SQL error, a closed connection (which cancels the handler's context) or the
\* death of the process: the handler stops where it is and undoes nothing.
RequestCutOff(r) ==
    /\ request[r].pc # "idle"
    /\ faults < MaxFaults
    /\ faults' = faults + 1
    /\ dropped' = IF request[r].pc \in Responsible
                  THEN dropped \cup {request[r].version} ELSE dropped
    /\ Return(r)
    /\ UNCHANGED <<store, job, worker, crashes, lost>>

\* FromFile, and only FromFile, writes the version off when EnqueueJob fails.
EnqueueFails(r) ==
    /\ request[r].pc = "enqueue_new"
    /\ faults < MaxFaults
    /\ faults' = faults + 1
    /\ Goto(r, "compensate", NoFile, request[r].version)
    /\ UNCHANGED <<store, job, worker, crashes, lost, dropped>>

Compensate(r) ==
    /\ request[r].pc = "compensate"
    /\ WriteVerdict(request[r].version, "failed")
    /\ Return(r)
    /\ UNCHANGED <<doc, source, job, worker, history>>

-----------------------------------------------------------------------------
(* IngestWorker.ProcessNext and runExtract *)

Step(w, pc) == worker' = [worker EXCEPT ![w].pc = pc]
Release(w) == worker' = [worker EXCEPT ![w] = IdleWorker]
VersionOf(w) == job[worker[w].job].version

ClaimJob(w) ==
    /\ worker[w].pc = "idle"
    /\ \E j \in JobIds :
          /\ Claimable(j)
          /\ \A i \in JobIds : i < j => ~Claimable(i)
          /\ job' = [job EXCEPT ![j].status = "running", ![j].lease = "live",
                                ![j].attempts = NextAttempt(j)]
          /\ worker' = [worker EXCEPT ![w] =
                  [pc |-> "load", job |-> j, attempt |-> NextAttempt(j)]]
    /\ UNCHANGED <<store, request, history>>

GetVersion(w) ==
    /\ worker[w].pc = "load"
    /\ Step(w, "mark")
    /\ UNCHANGED <<store, job, request, history>>

\* SetVersionStatus queued -> running; its error is ignored.
MarkRunning(w) ==
    LET v == VersionOf(w) IN
    /\ worker[w].pc = "mark"
    /\ status' = IF status[v] = "queued" THEN [status EXCEPT ![v] = "running"]
                 ELSE status
    /\ Step(w, "extract")
    /\ UNCHANGED <<doc, source, job, request, history>>

\* Download (no deadline) and extraction (90 s): either may fail.
Extract(w) ==
    /\ worker[w].pc = "extract"
    /\ \E pc \in {"store", "fail"} : Step(w, pc)
    /\ UNCHANGED <<store, job, request, history>>

\* UpdateVersionExtract to awaiting_review; when no row matches, fail() is next.
StoreText(w) ==
    /\ worker[w].pc = "store"
    /\ WriteVerdict(VersionOf(w), "awaiting_review")
    /\ Step(w, IF ExtractGuard(VersionOf(w)) THEN "completed" ELSE "fail")
    /\ UNCHANGED <<doc, source, job, request, history>>

\* fail(): UpdateVersionExtract to failed, its error ignored.
StoreFailure(w) ==
    /\ worker[w].pc = "fail"
    /\ WriteVerdict(VersionOf(w), "failed")
    /\ Step(w, "failed")
    /\ UNCHANGED <<doc, source, job, request, history>>

Finish(w) ==
    /\ worker[w].pc \in PostVerdict
    /\ FinishJob(worker[w].job, worker[w].pc)
    /\ Release(w)
    /\ UNCHANGED <<store, request, history>>

\* An SQL error at each statement of ProcessNext, and what the code makes of it.
\* GetVersion: the job fails, the version is left as it is.  SetVersionStatus:
\* ignored.  The verdict: a text falls back to fail(), a failure is dropped.
WorkerSqlError(w) ==
    LET pc == worker[w].pc  v == VersionOf(w) IN
    /\ pc \in {"load", "mark", "store", "fail"}
    /\ faults < MaxFaults
    /\ faults' = faults + 1
    /\ dropped' = IF pc \in {"load", "fail"} THEN dropped \cup {v} ELSE dropped
    /\ Step(w, CASE pc = "mark" -> "extract"
                 [] pc = "store" -> "fail"
                 [] OTHER -> "failed")
    /\ UNCHANGED <<store, job, request, crashes, lost>>

Abandon(w) ==
    /\ lost' = [lost EXCEPT ![worker[w].job] = @ \cup {worker[w].attempt}]
    /\ Release(w)
    /\ UNCHANGED <<store, job, request, dropped>>

\* FinishJob fails: the job stays running until its lease is over.
FinishSqlError(w) ==
    /\ worker[w].pc \in PostVerdict
    /\ faults < MaxFaults
    /\ faults' = faults + 1
    /\ Abandon(w)
    /\ UNCHANGED crashes

\* The process dies, or SIGTERM cancels the worker's context: every later
\* statement of this ProcessNext fails.
WorkerCrash(w) ==
    /\ worker[w].pc # "idle"
    /\ crashes < MaxCrashes
    /\ crashes' = crashes + 1
    /\ Abandon(w)
    /\ UNCHANGED faults

\* Five minutes after the claim.  No heartbeat extends a lease, and a download has
\* no deadline, so a lease can run out under a worker that is still busy.
LeaseExpires(j) ==
    /\ job[j].lease = "live"
    /\ job' = [job EXCEPT ![j].lease = "expired"]
    /\ UNCHANGED <<store, worker, request, history>>

-----------------------------------------------------------------------------
RequestNext(r) ==
    \/ \E f \in Files : FromFile(r, f)
    \/ \E v \in Versions : RetryRead(r, v) \/ ReviewRead(r, v)
    \/ HashFile(r) \/ CreateDocument(r) \/ CreateVersion(r) \/ SetCurrentVersion(r)
    \/ Enqueue(r) \/ ResetVersionForRetry(r) \/ ReviewWrite(r)
    \/ EnqueueFails(r) \/ Compensate(r) \/ RequestCutOff(r)

\* One pass of ProcessNext without errors.
WorkerStep(w) ==
    \/ ClaimJob(w) \/ GetVersion(w) \/ MarkRunning(w) \/ Extract(w)
    \/ StoreText(w) \/ StoreFailure(w) \/ Finish(w)

WorkerNext(w) ==
    WorkerStep(w) \/ WorkerSqlError(w) \/ FinishSqlError(w) \/ WorkerCrash(w)

Next == \/ \E r \in Requests : RequestNext(r)
        \/ \E w \in Workers : WorkerNext(w)
        \/ \E j \in JobIds : LeaseExpires(j)

Spec == Init /\ [][Next]_vars

\* The worker loop polls every two seconds, its downloads and extractions end, the
\* clock runs, and a handler that has started carries on.
Fairness ==
    /\ \A w \in Workers : WF_vars(WorkerStep(w))
    /\ \A j \in JobIds : WF_vars(LeaseExpires(j))
    /\ \A r \in Requests : WF_vars(Enqueue(r) \/ SetCurrentVersion(r) \/ Compensate(r))

FairSpec == Spec /\ Fairness

-----------------------------------------------------------------------------
(* Properties *)

\* Rows and locals have the types of the schema and the code; in particular
\* attempts never pass max_attempts.
TypeOK ==
    /\ doc \in [Versions -> {"none", "empty", "current"}]
    /\ status \in [Versions -> Status]
    /\ source \in [Versions -> Files \cup {NoFile}]
    /\ job \in [JobIds -> Job]
    /\ worker \in [Workers -> Worker]
    /\ request \in [Requests -> Request]
    /\ crashes \in 0..MaxCrashes /\ faults \in 0..MaxFaults
    /\ lost \in [JobIds -> SUBSET (1..MaxAttempts)]
    /\ dropped \subseteq Versions

\* A worker's hold on a job: the attempt number ClaimJob returned to it.
Holds(w, j, a) == worker[w].pc # "idle" /\ worker[w].job = j /\ worker[w].attempt = a

\* Leases overlap when a worker outlives its own, but no two claims of a job share
\* an attempt number: attempts is a fencing token, though FinishJob ignores it.
AttemptsFence ==
    \A w1, w2 \in Workers : \A j \in JobIds : \A a \in 1..MaxAttempts :
        Holds(w1, j, a) /\ Holds(w2, j, a) => w1 = w2

\* A worker has the job in hand and has still to write the verdict on its version.
InHand(j) == \E w \in Workers : worker[w].pc \in PreVerdict /\ worker[w].job = j

\* Somebody will still decide the job's version: it is queued, ClaimJob may hand it
\* out again once its lease is over, or a worker has it in hand.
InProgress(j) ==
    \/ job[j].status = "queued"
    \/ job[j].status = "running" /\ (job[j].attempts < MaxAttempts \/ InHand(j))

\* Every attempt that max_attempts permits died: ClaimJob will not pick the job up.
Exhausted(j) == job[j].status = "running" /\ lost[j] = 1..MaxAttempts

\* The job a version was last queued as.
LastJob(j, v) ==
    job[j].version = v /\ \A i \in JobIds : job[i].version = v => i <= j

\* What becomes of a queued or running version.  Its handler is about to enqueue
\* its job or to write it off, or its last job is in progress; it is stuck in two
\* ways only, both named.  Its last job lost each of its max_attempts workers, one
\* death fewer strands nothing; or the statement that would have saved it failed
\* (dropped: EnqueueJob or the write-off behind it, GetVersion, fail()).  Expired
\* leases, late workers, retries, a failed SetVersionStatus, a failed store of the
\* text and a failed EnqueueJob that is written off strand no version.
NoStrandedVersion ==
    \A v \in Versions : status[v] \in Active =>
        \/ \E r \in Requests : request[r].pc \in Responsible /\ request[r].version = v
        \/ \E j \in JobIds : LastJob(j, v) /\ (InProgress(j) \/ Exhausted(j))
        \/ v \in dropped

\* A finished job is not reopened: a late FinishJob may flip its outcome, but
\* nothing makes it queued or running again.
FinishedStaysFinished ==
    [][\A j \in JobIds : job[j].status \in PostVerdict
                            => job'[j].status \in PostVerdict]_vars

Lifecycle == INSTANCE DocumentLifecycle

\* The versions table follows the review workflow whatever workers, leases and
\* retries do: in particular nothing leaves published, and a late worker does not
\* overwrite a reviewer's decision.
ImplementsLifecycle == Lifecycle!Spec

\* A queued or running version is decided in the end, unless the statement that
\* would have done it failed, or all the attempts of its last job died.
EventuallyDecided ==
    \A v \in Versions :
        (status[v] \in Active /\ v \notin dropped)
            ~> \/ status[v] \notin Active
               \/ v \in dropped
               \/ \E j \in JobIds : LastJob(j, v) /\ Exhausted(j)

\* Rule 09-jobs-events, line 17: abandoned jobs can recover; line 21: poison jobs go
\* to a dead letter.  The code does neither for a job whose last attempt died: it
\* stays running for ever.
AbandonedJobsEnd ==
    \A j \in JobIds : job[j].status = "running" ~> job[j].status \in PostVerdict

\* Rule 09-jobs-events, line 11: consumers are idempotent.  A text that was stored
\* belongs to a job that completed or is still running.
StoredTextHasItsJob ==
    \A v \in Versions : status[v] \in {"awaiting_review", "published"} =>
        \E j \in JobIds : /\ job[j].version = v
                          /\ job[j].status \in {"running", "completed"}

=============================================================================
