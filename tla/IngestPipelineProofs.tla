------------------------ MODULE IngestPipelineProofs ------------------------
(***************************************************************************)
(* Machine-checked proofs about IngestPipeline, for every number of        *)
(* workers, handlers, versions and jobs, and for every max_attempts.       *)
(***************************************************************************)
EXTENDS IngestPipeline, TLAPS

\* A busy worker holds a claimed job, under an attempt number that ClaimJob has
\* handed out and that no crash has written off.
WorkerLocals ==
    \A w \in Workers : worker[w].pc # "idle" =>
        LET j == worker[w].job IN
        /\ j \in JobIds
        /\ job[j].status \notin {"none", "queued"}
        /\ worker[w].attempt \in 1..job[j].attempts
        /\ worker[w].attempt \notin lost[j]

\* A row that exists names a version; nobody has tried a job that is still queued.
JobRows ==
    \A j \in JobIds :
        /\ job[j].status # "none" => job[j].version \in Versions
        /\ job[j].status \in {"none", "queued"} => job[j].attempts = 0
        /\ lost[j] \subseteq 1..job[j].attempts

\* A handler past CreateDocument, or in Retry or Review, has a version id; before
\* it has a file.
RequestLocals ==
    \A r \in Requests :
        /\ request[r].pc \notin {"idle", "hash", "create"} => request[r].version \in Versions
        /\ request[r].pc \in {"hash", "create", "version"} => request[r].file \in Files

\* The version id a handler is about to insert is its own and unused.
FreshVersions ==
    /\ \A v \in Versions : doc[v] = "none" =>
          /\ status[v] = "none"
          /\ \A r \in Requests : request[r].pc = "version" => request[r].version # v
    /\ \A r \in Requests : request[r].pc = "version" => status[request[r].version] = "none"
    /\ \A r1, r2 \in Requests :
          /\ request[r1].pc = "version" /\ request[r2].pc = "version"
          /\ request[r1].version = request[r2].version
          => r1 = r2

\* Job rows are handed out in order, and a row not yet handed out names no version.
JobOrder ==
    /\ \A i, j \in JobIds : i < j /\ job[j].status # "none" => job[i].status # "none"
    /\ \A j \in JobIds : job[j].status = "none" => job[j].version = NoVersion

\* Every attempt of the job is accounted for: its worker died on it, or has it in
\* hand and has still to write the verdict.  This is what makes InProgress or
\* Exhausted inductive: it says who holds the job when the last attempt is spent.
Accounted(j) ==
    \/ job[j].status = "queued"
    \/ /\ job[j].status = "running"
       /\ \A a \in 1..job[j].attempts :
             \/ a \in lost[j]
             \/ \E w \in Workers : Holds(w, j, a) /\ worker[w].pc \in PreVerdict

Pending(v) == \E r \in Requests : request[r].pc \in Responsible /\ request[r].version = v
Served(v) == \E j \in JobIds : LastJob(j, v) /\ Accounted(j)

\* The strengthening of NoStrandedVersion.
AllAccounted ==
    \A v \in Versions : status[v] \in Active /\ v \notin dropped => Pending(v) \/ Served(v)

\* The inductive invariant.
IndInv ==
    /\ TypeOK /\ WorkerLocals /\ JobRows /\ RequestLocals /\ FreshVersions
    /\ AttemptsFence /\ JobOrder /\ AllAccounted
-----------------------------------------------------------------------------
(* What the elementary updates do to a well-typed state *)

LEMMA GotoType ==
    ASSUME request \in [Requests -> Request], NEW r \in Requests,
           NEW pc \in RequestPc, NEW f \in Files \cup {NoFile},
           NEW v \in Versions \cup {NoVersion}, Goto(r, pc, f, v)
    PROVE  request' \in [Requests -> Request]
<1>1. [pc |-> pc, file |-> f, version |-> v] \in Request
  BY DEF Request
<1> QED
  BY <1>1 DEF Goto

LEMMA ReturnType ==
    ASSUME request \in [Requests -> Request], NEW r \in Requests, Return(r)
    PROVE  request' \in [Requests -> Request]
<1>1. IdleRequest \in Request
  BY DEF IdleRequest, Request, RequestPc
<1> QED
  BY <1>1 DEF Return

LEMMA StepType ==
    ASSUME worker \in [Workers -> Worker], NEW w \in Workers,
           NEW pc \in PreVerdict \cup PostVerdict, Step(w, pc)
    PROVE  worker' \in [Workers -> Worker]
<1>1. [worker[w] EXCEPT !.pc = pc] \in Worker
  BY DEF Worker
<1> QED
  BY <1>1 DEF Step

LEMMA ReleaseType ==
    ASSUME worker \in [Workers -> Worker], NEW w \in Workers, Release(w)
    PROVE  worker' \in [Workers -> Worker]
<1>1. IdleWorker \in Worker
  BY MaxAttemptsAssumption DEF IdleWorker, Worker
<1> QED
  BY <1>1 DEF Release

LEMMA JobFieldsType ==
    ASSUME NEW x \in Job
    PROVE  /\ x.version \in Versions \cup {NoVersion} /\ x.status \in JobStatus
           /\ x.attempts \in 0..MaxAttempts /\ x.lease \in Lease
  BY DEF Job

LEMMA JobUpdateType ==
    /\ \A x \in Job, n \in 0..MaxAttempts :
          [x EXCEPT !.status = "running", !.lease = "live", !.attempts = n] \in Job
    /\ \A x \in Job, s \in PostVerdict : [x EXCEPT !.status = s, !.lease = "none"] \in Job
    /\ \A x \in Job : [x EXCEPT !.lease = "expired"] \in Job
  BY DEF Job, JobStatus, Lease, PostVerdict

LEMMA WorkerFieldsType ==
    ASSUME NEW x \in Worker
    PROVE  /\ x.pc \in {"idle"} \cup PreVerdict \cup PostVerdict
           /\ x.job \in JobIds \cup {NoJob} /\ x.attempt \in 0..MaxAttempts
  BY DEF Worker

LEMMA RequestFieldsType ==
    ASSUME NEW x \in Request
    PROVE  /\ x.pc \in RequestPc /\ x.file \in Files \cup {NoFile}
           /\ x.version \in Versions \cup {NoVersion}
  BY DEF Request

\* The version a busy worker works on exists.
LEMMA WorkerHasVersion ==
    ASSUME TypeOK, WorkerLocals, JobRows, NEW w \in Workers, worker[w].pc # "idle"
    PROVE  worker[w].job \in JobIds /\ VersionOf(w) \in Versions
  BY DEF WorkerLocals, JobRows, VersionOf

\* WriteVerdict leaves a well-typed status.
LEMMA VerdictType ==
    ASSUME status \in [Versions -> Status], NEW v \in Versions,
           NEW s \in {"awaiting_review", "failed"}, WriteVerdict(v, s)
    PROVE  status' \in [Versions -> Status]
  BY DEF WriteVerdict, Status, Reusable, Retryable

\* TypeOK is preserved by every step.
LEMMA TypeStep ==
    ASSUME TypeOK, WorkerLocals, JobRows, RequestLocals, [Next]_vars
    PROVE  TypeOK'
<1> USE MaxAttemptsAssumption, BoundsAssumption, FilesAssumption DEF TypeOK
<1>1. ASSUME NEW r \in Requests, NEW f \in Files, FromFile(r, f)
      PROVE  TypeOK'
  BY <1>1, GotoType DEF FromFile, RequestPc, FindByDiskFile, store, history
<1>2. ASSUME NEW r \in Requests, NEW v \in Versions, RetryRead(r, v)
      PROVE  TypeOK'
  BY <1>2, GotoType, ReturnType DEF RetryRead, RequestPc, store, history
<1>3. ASSUME NEW r \in Requests, NEW v \in Versions, ReviewRead(r, v)
      PROVE  TypeOK'
  BY <1>3, GotoType DEF ReviewRead, RequestPc, store, history
<1>4. ASSUME NEW r \in Requests, HashFile(r)
      PROVE  TypeOK'
  BY <1>4, GotoType, ReturnType DEF HashFile, RequestPc, RequestLocals, store, history
<1>5. ASSUME NEW r \in Requests, CreateDocument(r)
      PROVE  TypeOK'
  BY <1>5, GotoType DEF CreateDocument, RequestPc, RequestLocals, store, history
<1>6. ASSUME NEW r \in Requests, CreateVersion(r)
      PROVE  TypeOK'
  BY <1>6, GotoType DEF CreateVersion, RequestPc, RequestLocals, Status, Reusable, Active, store, history
<1>7. ASSUME NEW r \in Requests, SetCurrentVersion(r)
      PROVE  TypeOK'
  BY <1>7, GotoType DEF SetCurrentVersion, RequestPc, RequestLocals, store, history
<1>8. ASSUME NEW r \in Requests, Enqueue(r)
      PROVE  TypeOK'
  <2>1. request[r].version \in Versions
    BY <1>8 DEF Enqueue, RequestLocals
  <2>2. [version |-> request[r].version, status |-> "queued",
         attempts |-> 0, lease |-> "none"] \in Job
    BY <2>1 DEF Job, JobStatus, Lease
  <2>3. job' \in [JobIds -> Job]
    BY <1>8, <2>2 DEF Enqueue, EnqueueJob
  <2> QED
    BY <1>8, <2>3, ReturnType DEF Enqueue, store
<1>9. ASSUME NEW r \in Requests, ResetVersionForRetry(r)
      PROVE  TypeOK'
  BY <1>9, GotoType, ReturnType DEF ResetVersionForRetry, RequestPc, RequestLocals, Status, Reusable, Active, store, history
<1>10. ASSUME NEW r \in Requests, ReviewWrite(r)
      PROVE  TypeOK'
  BY <1>10, ReturnType DEF ReviewWrite, RequestLocals, Status, Reusable, Retryable, store, history
<1>11. ASSUME NEW r \in Requests, EnqueueFails(r)
      PROVE  TypeOK'
  BY <1>11, GotoType DEF EnqueueFails, RequestPc, RequestLocals, store, history
<1>12. ASSUME NEW r \in Requests, Compensate(r)
      PROVE  TypeOK'
  BY <1>12, ReturnType, VerdictType DEF Compensate, RequestLocals, store, history
<1>13. ASSUME NEW r \in Requests, RequestCutOff(r)
      PROVE  TypeOK'
  BY <1>13, ReturnType DEF RequestCutOff, RequestLocals, Responsible, Enqueuing, store, history
<1>14. ASSUME NEW w \in Workers, ClaimJob(w)
      PROVE  TypeOK'
  <2>1. PICK j \in JobIds :
            /\ Claimable(j)
            /\ job' = [job EXCEPT ![j].status = "running", ![j].lease = "live",
                                  ![j].attempts = @ + 1]
            /\ worker' = [worker EXCEPT ![w] =
                  [pc |-> "load", job |-> j, attempt |-> job[j].attempts + 1]]
    BY <1>14 DEF ClaimJob, NextAttempt
  <2>2. job[j].attempts + 1 \in 0..MaxAttempts
    BY <2>1, JobFieldsType DEF Claimable, JobRows
  <2>3. [job[j] EXCEPT !.status = "running", !.lease = "live",
                       !.attempts = job[j].attempts + 1] \in Job
    BY <2>2, JobUpdateType
  <2>4. job' \in [JobIds -> Job]
    BY <2>1, <2>3
  <2>5. [pc |-> "load", job |-> j, attempt |-> job[j].attempts + 1] \in Worker
    BY <2>2 DEF Worker, PreVerdict
  <2>6. worker' \in [Workers -> Worker]
    BY <2>1, <2>5
  <2> QED
    BY <1>14, <2>4, <2>6 DEF ClaimJob, store, history
<1>15. ASSUME NEW w \in Workers, GetVersion(w)
      PROVE  TypeOK'
  BY <1>15, StepType DEF GetVersion, PreVerdict, store, history
<1>16. ASSUME NEW w \in Workers, MarkRunning(w)
      PROVE  TypeOK'
  BY <1>16, StepType, WorkerHasVersion DEF MarkRunning, PreVerdict, Status, Reusable, Active, store, history
<1>17. ASSUME NEW w \in Workers, Extract(w)
      PROVE  TypeOK'
  BY <1>17, StepType DEF Extract, PreVerdict, store, history
<1>18. ASSUME NEW w \in Workers, StoreText(w)
      PROVE  TypeOK'
  BY <1>18, StepType, VerdictType, WorkerHasVersion DEF StoreText, PreVerdict, PostVerdict, store, history
<1>19. ASSUME NEW w \in Workers, StoreFailure(w)
      PROVE  TypeOK'
  BY <1>19, StepType, VerdictType, WorkerHasVersion DEF StoreFailure, PreVerdict, PostVerdict, store, history
<1>20. ASSUME NEW w \in Workers, Finish(w)
      PROVE  TypeOK'
  <2>1. worker[w].job \in JobIds /\ worker[w].pc \in PostVerdict
    BY <1>20 DEF Finish, WorkerLocals, PostVerdict
  <2>2. [job[worker[w].job] EXCEPT !.status = worker[w].pc, !.lease = "none"] \in Job
    BY <2>1, JobUpdateType
  <2>3. job' \in [JobIds -> Job]
    BY <1>20, <2>1, <2>2 DEF Finish, FinishJob
  <2> QED
    BY <1>20, <2>3, ReleaseType DEF Finish, store, history
<1>21. ASSUME NEW w \in Workers, WorkerSqlError(w)
      PROVE  TypeOK'
  BY <1>21, StepType, WorkerHasVersion DEF WorkerSqlError, PreVerdict, PostVerdict, store, history
<1>22. ASSUME NEW w \in Workers, FinishSqlError(w)
      PROVE  TypeOK'
  BY <1>22, ReleaseType, WorkerFieldsType DEF FinishSqlError, Abandon, WorkerLocals, store, PostVerdict
<1>23. ASSUME NEW w \in Workers, WorkerCrash(w)
      PROVE  TypeOK'
  BY <1>23, ReleaseType, WorkerFieldsType DEF WorkerCrash, Abandon, WorkerLocals, store
<1>24. ASSUME NEW j \in JobIds, LeaseExpires(j)
      PROVE  TypeOK'
  <2>1. [job[j] EXCEPT !.lease = "expired"] \in Job
    BY JobUpdateType
  <2> QED
    BY <1>24, <2>1 DEF LeaseExpires, store, history
<1>25. CASE UNCHANGED vars
  BY <1>25 DEF vars
<1> QED
  BY <1>1, <1>2, <1>3, <1>4, <1>5, <1>6, <1>7, <1>8, <1>9, <1>10, <1>11, <1>12, <1>13, <1>14, <1>15, <1>16, <1>17, <1>18, <1>19, <1>20, <1>21, <1>22, <1>23, <1>24, <1>25
  DEF Next, RequestNext, WorkerNext, WorkerStep

-----------------------------------------------------------------------------
(* Jobs, workers and attempts *)

\* The statements between ClaimJob and FinishJob only move the worker on.
Busy(w) == worker[w].pc # "idle"
Advances(w) ==
    /\ Busy(w)
    /\ \E pc \in PreVerdict \cup PostVerdict : Step(w, pc)
    /\ UNCHANGED <<job, lost>>

LEMMA WorkerAdvances ==
    ASSUME NEW w \in Workers,
           \/ GetVersion(w) \/ MarkRunning(w) \/ Extract(w) \/ StoreText(w)
           \/ StoreFailure(w) \/ WorkerSqlError(w)
    PROVE  Advances(w)
<1>1. CASE WorkerSqlError(w)
  BY <1>1 DEF WorkerSqlError, Advances, Busy, PreVerdict, PostVerdict
<1>2. CASE GetVersion(w) \/ MarkRunning(w) \/ Extract(w)
  BY <1>2 DEF GetVersion, MarkRunning, Extract, history,
              Advances, Busy, PreVerdict, PostVerdict
<1>3. CASE StoreText(w) \/ StoreFailure(w)
  BY <1>3 DEF StoreText, StoreFailure, history,
              Advances, Busy, PreVerdict, PostVerdict
<1> QED
  BY <1>1, <1>2, <1>3

\* Every step, as the jobs table, the workers and the lost attempts see it.
LEMMA JobSteps ==
    ASSUME [Next]_vars
    PROVE  \/ UNCHANGED <<job, worker, lost>>
           \/ \E r \in Requests : Enqueue(r)
           \/ \E w \in Workers :
                 \/ ClaimJob(w) \/ Advances(w) \/ Finish(w)
                 \/ FinishSqlError(w) \/ WorkerCrash(w)
           \/ \E j \in JobIds : LeaseExpires(j)
<1>1. CASE \E r \in Requests : RequestNext(r)
  <2> PICK r \in Requests : RequestNext(r)
    BY <1>1
  <2> QED
    BY DEF RequestNext, FromFile, RetryRead, ReviewRead, HashFile, CreateDocument,
           CreateVersion, SetCurrentVersion, ResetVersionForRetry, ReviewWrite,
           EnqueueFails, Compensate, RequestCutOff, history
<1>2. CASE \E w \in Workers : WorkerNext(w)
  BY <1>2, WorkerAdvances DEF WorkerNext, WorkerStep
<1> QED
  BY <1>1, <1>2 DEF Next, vars

\* Two claims never share an attempt number, attempts are only ever counted up,
\* and a lost attempt belongs to nobody.
LEMMA JobsStep ==
    ASSUME TypeOK, WorkerLocals, JobRows, RequestLocals, AttemptsFence, [Next]_vars
    PROVE  WorkerLocals' /\ JobRows' /\ AttemptsFence'
<1> USE DEF WorkerLocals, JobRows, AttemptsFence, Holds
<1>t. /\ job \in [JobIds -> Job] /\ worker \in [Workers -> Worker]
      /\ lost \in [JobIds -> SUBSET (1..MaxAttempts)]
      /\ \A j \in JobIds : job[j].attempts \in 0..MaxAttempts
      /\ MaxAttempts \in Nat
  BY JobFieldsType, MaxAttemptsAssumption DEF TypeOK
<1>1. CASE UNCHANGED <<job, worker, lost>>
  BY <1>1
<1>2. ASSUME NEW r \in Requests, Enqueue(r)
      PROVE  WorkerLocals' /\ JobRows' /\ AttemptsFence'
  <2>1. request[r].version \in Versions /\ worker' = worker /\ lost' = lost
    BY <1>2 DEF Enqueue, RequestLocals
  <2>2. PICK j \in JobIds :
           /\ job[j].status = "none"
           /\ job' = [job EXCEPT ![j] = [version |-> request[r].version,
                 status |-> "queued", attempts |-> 0, lease |-> "none"]]
    BY <1>2 DEF Enqueue, EnqueueJob
  <2> QED
    BY <1>t, <2>1, <2>2
<1>3. ASSUME NEW w \in Workers, ClaimJob(w)
      PROVE  WorkerLocals' /\ JobRows' /\ AttemptsFence'
  <2>1. PICK j \in JobIds :
            /\ Claimable(j)
            /\ job' = [job EXCEPT ![j].status = "running", ![j].lease = "live",
                                  ![j].attempts = @ + 1]
            /\ worker' = [worker EXCEPT ![w] =
                  [pc |-> "load", job |-> j, attempt |-> job[j].attempts + 1]]
    BY <1>3 DEF ClaimJob, NextAttempt
  <2>2. lost' = lost /\ job[j].status # "none" /\ job[j].version \in Versions
    BY <1>3, <2>1 DEF ClaimJob, history, Claimable
  <2>3. \A i \in JobIds : /\ i # j => job'[i] = job[i]
                          /\ job'[i].version = job[i].version
    BY <1>t, <2>1
  <2>4. job'[j].status = "running" /\ job'[j].attempts = job[j].attempts + 1
    BY <1>t, <2>1
  <2>5. /\ \A u \in Workers : u # w => worker'[u] = worker[u]
        /\ worker'[w].job = j /\ worker'[w].attempt = job[j].attempts + 1
    BY <1>t, <2>1
  <2>6. JobRows'
    BY <1>t, <2>2, <2>3, <2>4
  <2>7. WorkerLocals'
    BY <1>t, <2>2, <2>3, <2>4, <2>5
  <2>8. AttemptsFence'
    BY <1>t, <2>5
  <2> QED
    BY <2>6, <2>7, <2>8
<1>4. ASSUME NEW w \in Workers, Advances(w)
      PROVE  WorkerLocals' /\ JobRows' /\ AttemptsFence'
  <2>1. /\ \A u \in Workers : /\ worker'[u].job = worker[u].job
                              /\ worker'[u].attempt = worker[u].attempt
                              /\ worker'[u].pc # "idle" => worker[u].pc # "idle"
        /\ UNCHANGED <<job, lost>>
    BY <1>4, <1>t DEF Advances, Busy, Step
  <2> QED
    BY <2>1
<1>5. ASSUME NEW w \in Workers, Finish(w)
      PROVE  WorkerLocals' /\ JobRows' /\ AttemptsFence'
  <2>1. /\ lost' = lost /\ worker[w].pc \in PostVerdict
        /\ worker' = [worker EXCEPT ![w] = IdleWorker]
        /\ job' = [job EXCEPT ![worker[w].job].status = worker[w].pc,
                              ![worker[w].job].lease = "none"]
        /\ worker[w].job \in JobIds
        /\ job[worker[w].job].status \notin {"none", "queued"}
    BY <1>5 DEF Finish, FinishJob, Release, history, PostVerdict
  <2>2. \A i \in JobIds : /\ job'[i].version = job[i].version
                          /\ job'[i].attempts = job[i].attempts
                          /\ \/ job'[i].status = job[i].status
                             \/ /\ i = worker[w].job
                                /\ job'[i].status \in PostVerdict
    BY <1>t, <2>1
  <2>3. /\ \A u \in Workers : u # w => worker'[u] = worker[u]
        /\ worker'[w].pc = "idle"
    BY <1>t, <2>1 DEF IdleWorker
  <2>4. JobRows'
    BY <2>1, <2>2 DEF PostVerdict
  <2>5. WorkerLocals'
    <3> SUFFICES ASSUME NEW u \in Workers, worker'[u].pc # "idle"
                 PROVE  LET j == worker'[u].job IN
                        /\ j \in JobIds
                        /\ job'[j].status \notin {"none", "queued"}
                        /\ worker'[u].attempt \in 1..job'[j].attempts
                        /\ worker'[u].attempt \notin lost'[j]
      OBVIOUS
    <3>1. worker'[u] = worker[u] /\ worker[u].pc # "idle"
      BY <2>3
    <3>2. /\ worker[u].job \in JobIds
          /\ job[worker[u].job].status \notin {"none", "queued"}
          /\ worker[u].attempt \in 1..job[worker[u].job].attempts
          /\ worker[u].attempt \notin lost[worker[u].job]
      BY <3>1
    <3>3. /\ job'[worker[u].job].status \notin {"none", "queued"}
          /\ job'[worker[u].job].attempts = job[worker[u].job].attempts
      BY <2>1, <2>2, <3>2 DEF PostVerdict
    <3>4. lost' = lost
      BY <2>1
    <3> QED
      BY <3>1, <3>2, <3>3, <3>4
  <2>6. AttemptsFence'
    BY <2>3
  <2> QED
    BY <2>4, <2>5, <2>6
<1>6. ASSUME NEW w \in Workers, FinishSqlError(w) \/ WorkerCrash(w)
      PROVE  WorkerLocals' /\ JobRows' /\ AttemptsFence'
  <2>1. /\ job' = job /\ worker' = [worker EXCEPT ![w] = IdleWorker]
        /\ lost' = [lost EXCEPT ![worker[w].job] = @ \cup {worker[w].attempt}]
        /\ worker[w].pc # "idle"
    BY <1>6 DEF FinishSqlError, WorkerCrash, Abandon, Release, PostVerdict
  <2>2. /\ \A u \in Workers : u # w => worker'[u] = worker[u]
        /\ worker'[w].pc = "idle"
    BY <1>t, <2>1 DEF IdleWorker
  <2>3. worker[w].job \in JobIds
        /\ worker[w].attempt \in 1..job[worker[w].job].attempts
    BY <2>1
  <2>4. \A i \in JobIds, a \in 1..MaxAttempts :
           a \in lost'[i] <=> \/ a \in lost[i]
                              \/ i = worker[w].job /\ a = worker[w].attempt
    BY <1>t, <2>1, <2>3
  <2>5. JobRows'
    BY <1>t, <2>1, <2>3, <2>4
  <2>6. WorkerLocals'
    <3> SUFFICES ASSUME NEW u \in Workers, worker'[u].pc # "idle"
                 PROVE  worker'[u].attempt \notin lost'[worker'[u].job]
      BY <1>t, <2>1, <2>2
    <3>1. u # w /\ worker'[u] = worker[u]
      BY <2>2
    <3>2. worker[u].job \in JobIds /\ worker[u].attempt \in 1..MaxAttempts
      BY <1>t, <3>1
    <3>3. ~(worker[u].job = worker[w].job /\ worker[u].attempt = worker[w].attempt)
      BY <2>1, <3>1, <3>2
    <3> QED
      BY <2>4, <3>1, <3>2, <3>3
  <2>7. AttemptsFence'
    BY <2>2
  <2> QED
    BY <2>5, <2>6, <2>7
<1>7. ASSUME NEW j \in JobIds, LeaseExpires(j)
      PROVE  WorkerLocals' /\ JobRows' /\ AttemptsFence'
  <2>1. /\ worker' = worker /\ lost' = lost
        /\ \A i \in JobIds : /\ job'[i].version = job[i].version
                             /\ job'[i].status = job[i].status
                             /\ job'[i].attempts = job[i].attempts
    BY <1>t, <1>7 DEF LeaseExpires, history
  <2> QED
    BY <2>1
<1> QED
  BY <1>1, <1>2, <1>3, <1>4, <1>5, <1>6, <1>7, JobSteps

-----------------------------------------------------------------------------
(* Handlers *)

LEMMA RequestLocalsStep ==
    ASSUME TypeOK, RequestLocals, [Next]_vars
    PROVE  RequestLocals'
<1> USE DEF RequestLocals
<1>t. request \in [Requests -> Request]
  BY DEF TypeOK
<1>1. CASE UNCHANGED request
  BY <1>1
<1>2. ASSUME NEW r \in Requests, RequestNext(r), request' # request
      PROVE  \E new \in Request :
                /\ request' = [request EXCEPT ![r] = new]
                /\ new.pc \notin {"idle", "hash", "create"} => new.version \in Versions
                /\ new.pc \in {"hash", "create", "version"} => new.file \in Files
  <2> USE DEF IdleRequest, Request, RequestPc
  <2>1. CASE Return(r)
    <3>1. IdleRequest \in Request /\ IdleRequest.pc = "idle"
      OBVIOUS
    <3>2. request' = [request EXCEPT ![r] = IdleRequest]
      BY <2>1 DEF Return
    <3> HIDE DEF IdleRequest, Request
    <3> QED
      BY <3>1, <3>2
  <2>2. ASSUME NEW f \in Files, FromFile(r, f), ~Return(r)
        PROVE  \/ Goto(r, "hash", f, NoVersion)
               \/ \E v \in Versions : Goto(r, "retry", NoFile, v)
    BY <2>2 DEF FromFile, FindByDiskFile
  <2>a. ASSUME NEW f \in Files, Goto(r, "hash", f, NoVersion)
        PROVE  [pc |-> "hash", file |-> f, version |-> NoVersion] \in Request
    OBVIOUS
  <2>b. ASSUME NEW v \in Versions, Goto(r, "retry", NoFile, v)
        PROVE  [pc |-> "retry", file |-> NoFile, version |-> v] \in Request
    OBVIOUS
  <2>3. CASE \E f \in Files : FromFile(r, f)
    <3>1. PICK f \in Files : FromFile(r, f)
      BY <2>3
    <3>2. CASE Goto(r, "hash", f, NoVersion)
      BY <3>2, <2>a DEF Goto
    <3>3. CASE \E v \in Versions : Goto(r, "retry", NoFile, v)
      BY <3>3, <2>b DEF Goto
    <3>4. \/ Return(r) \/ Goto(r, "hash", f, NoVersion)
          \/ \E v \in Versions : Goto(r, "retry", NoFile, v)
      BY <2>2, <3>1
    <3> QED
      BY <2>1, <3>2, <3>3, <3>4
  <2>4. CASE \E v \in Versions : RetryRead(r, v) \/ ReviewRead(r, v)
    <3>1. PICK v \in Versions : RetryRead(r, v) \/ ReviewRead(r, v)
      BY <2>4
    <3>2. \/ Return(r)
          \/ \E pc \in {"reset", "approve", "reject"} : Goto(r, pc, NoFile, v)
      BY <3>1 DEF RetryRead, ReviewRead
    <3>3. ASSUME NEW pc \in {"reset", "approve", "reject"}
          PROVE  [pc |-> pc, file |-> NoFile, version |-> v] \in Request
      OBVIOUS
    <3> QED
      BY <2>1, <3>2, <3>3 DEF Goto
  <2>5. CASE HashFile(r) \/ CreateDocument(r)
    BY <2>1, <2>5, <1>t DEF HashFile, CreateDocument, Goto
  <2>6. CASE CreateVersion(r) \/ SetCurrentVersion(r)
    BY <2>6, <1>t DEF CreateVersion, SetCurrentVersion, Goto
  <2>7. CASE ResetVersionForRetry(r) \/ EnqueueFails(r)
    BY <2>1, <2>7, <1>t DEF ResetVersionForRetry, EnqueueFails, Goto
  <2>8. CASE Enqueue(r) \/ ReviewWrite(r) \/ Compensate(r) \/ RequestCutOff(r)
    BY <2>1, <2>8 DEF Enqueue, ReviewWrite, Compensate, RequestCutOff
  <2> QED
    BY <1>2, <2>3, <2>4, <2>5, <2>6, <2>7, <2>8 DEF RequestNext
<1>3. CASE \E r \in Requests : RequestNext(r)
  <2>1. CASE request' = request
    BY <2>1, <1>1
  <2>2. CASE request' # request
    <3>1. PICK r \in Requests, new \in Request :
                /\ request' = [request EXCEPT ![r] = new]
                /\ new.pc \notin {"idle", "hash", "create"} => new.version \in Versions
                /\ new.pc \in {"hash", "create", "version"} => new.file \in Files
      BY <1>2, <1>3, <2>2
    <3>2. request'[r] = new /\ \A q \in Requests : q # r => request'[q] = request[q]
      BY <1>t, <3>1
    <3> QED
      BY <3>1, <3>2
  <2> QED
    BY <2>1, <2>2
<1>4. CASE UNCHANGED vars
  BY <1>1, <1>4 DEF vars
<1>5. ASSUME NEW w \in Workers, WorkerNext(w)
      PROVE  UNCHANGED request
  BY <1>5 DEF WorkerNext, WorkerStep, ClaimJob, GetVersion, MarkRunning, Extract,
              StoreText, StoreFailure, Finish, WorkerSqlError, FinishSqlError,
              WorkerCrash, Abandon
<1>6. ASSUME NEW j \in JobIds, LeaseExpires(j)
      PROVE  UNCHANGED request
  BY <1>6 DEF LeaseExpires
<1> QED
  BY <1>1, <1>3, <1>4, <1>5, <1>6 DEF Next

\* Document ids are taken once: nobody inserts a version over another.
LEMMA FreshVersionsStep ==
    ASSUME TypeOK, WorkerLocals, JobRows, RequestLocals, FreshVersions, [Next]_vars
    PROVE  FreshVersions'
<1> USE DEF FreshVersions
<1>t. /\ request \in [Requests -> Request] /\ status \in [Versions -> Status]
      /\ doc \in [Versions -> {"none", "empty", "current"}]
  BY DEF TypeOK
\* What most steps do: no handler arrives at "version", and no unused id is written.
<1> DEFINE Harmless ==
        /\ \A r \in Requests : request'[r].pc = "version" => request'[r] = request[r]
        /\ \A v \in Versions : status[v] = "none" => status'[v] = "none"
        /\ doc' = doc
<1>1. ASSUME Harmless PROVE FreshVersions'
  BY <1>1, <1>t DEF RequestLocals
<1>2. ASSUME NEW w \in Workers, WorkerNext(w)
      PROVE  Harmless
  <2>1. request' = request /\ doc' = doc
    BY <1>2 DEF WorkerNext, WorkerStep, ClaimJob, GetVersion, MarkRunning, Extract,
                StoreText, StoreFailure, Finish, WorkerSqlError, FinishSqlError,
                WorkerCrash, Abandon, store
  <2>2. CASE UNCHANGED status
    BY <2>1, <2>2
  <2>3. CASE MarkRunning(w) \/ StoreText(w) \/ StoreFailure(w)
    <3>1. VersionOf(w) \in Versions
      BY <2>3, WorkerHasVersion DEF MarkRunning, StoreText, StoreFailure
    <3>2. \A v \in Versions : status[v] = "none" => status'[v] = "none"
      BY <2>3, <1>t, <3>1 DEF MarkRunning, StoreText, StoreFailure, WriteVerdict,
                             ExtractGuard, Active
    <3> QED
      BY <2>1, <3>2
  <2> QED
    BY <1>2, <2>2, <2>3 DEF WorkerNext, WorkerStep, ClaimJob, GetVersion, Extract, Finish,
                WorkerSqlError, FinishSqlError, WorkerCrash, Abandon, store
<1>3. ASSUME NEW j \in JobIds, LeaseExpires(j)
      PROVE  Harmless
  BY <1>3 DEF LeaseExpires, store
<1>4. ASSUME NEW r \in Requests, CreateDocument(r)
      PROVE  FreshVersions'
  <2>1. PICK v \in Versions : /\ doc[v] = "none"
                              /\ doc' = [doc EXCEPT ![v] = "empty"]
                              /\ Goto(r, "version", request[r].file, v)
    BY <1>4 DEF CreateDocument
  <2>2. /\ request'[r].version = v
        /\ \A q \in Requests : q # r => request'[q] = request[q]
    BY <1>t, <2>1 DEF Goto
  <2>3. /\ doc'[v] = "empty"
        /\ \A u \in Versions : u # v => doc'[u] = doc[u]
    BY <1>t, <2>1
  <2>4. status' = status
    BY <1>4 DEF CreateDocument
  <2> QED
    BY <2>1, <2>2, <2>3, <2>4
<1>5. ASSUME NEW r \in Requests, CreateVersion(r)
      PROVE  FreshVersions'
  <2> DEFINE v == request[r].version
  <2>1. /\ v \in Versions /\ doc' = doc /\ doc[v] # "none"
        /\ status' = [status EXCEPT ![v] = "queued"]
        /\ request[r].pc = "version" /\ Goto(r, "link", NoFile, v)
    BY <1>5 DEF CreateVersion, RequestLocals
  <2>2. /\ request'[r].pc = "link"
        /\ \A q \in Requests : q # r => request'[q] = request[q]
    BY <1>t, <2>1 DEF Goto
  <2>3. \A u \in Versions : u # v => status'[u] = status[u]
    BY <1>t, <2>1
  <2>4. \A q \in Requests : request'[q].pc = "version" =>
           /\ q # r /\ request[q].version \in Versions /\ request[q].version # v
    BY <2>1, <2>2 DEF RequestLocals
  <2> QED
    BY <2>1, <2>2, <2>3, <2>4
<1>6. ASSUME NEW r \in Requests, SetCurrentVersion(r)
      PROVE  FreshVersions'
  <2> DEFINE v == request[r].version
  <2>1. /\ v \in Versions /\ doc' = [doc EXCEPT ![v] = "current"]
        /\ status' = status /\ Goto(r, "enqueue_new", NoFile, v)
    BY <1>6 DEF SetCurrentVersion, RequestLocals
  <2>2. /\ request'[r].pc = "enqueue_new"
        /\ \A q \in Requests : q # r => request'[q] = request[q]
    BY <1>t, <2>1 DEF Goto
  <2>3. \A u \in Versions : doc'[u] = "none" => doc[u] = "none"
    BY <1>t, <2>1
  <2> QED
    BY <2>1, <2>2, <2>3
<1>7. ASSUME NEW r \in Requests,
             \/ \E f \in Files : FromFile(r, f)
             \/ \E v \in Versions : RetryRead(r, v) \/ ReviewRead(r, v)
             \/ HashFile(r) \/ Enqueue(r) \/ EnqueueFails(r) \/ RequestCutOff(r)
      PROVE  Harmless
  <2>1. doc' = doc /\ status' = status
    BY <1>7 DEF FromFile, RetryRead, ReviewRead, HashFile, Enqueue, EnqueueFails,
                RequestCutOff, store
  <2>2. \/ Return(r)
        \/ \E pc \in RequestPc \ {"version"}, f \in Files \cup {NoFile},
              v \in Versions \cup {NoVersion} : Goto(r, pc, f, v)
    BY <1>7, <1>t DEF FromFile, FindByDiskFile, RetryRead, ReviewRead, HashFile, Enqueue,
                EnqueueFails, RequestCutOff, RequestPc, RequestLocals
  <2>3. \A q \in Requests : request'[q].pc = "version" => request'[q] = request[q]
    BY <1>t, <2>2 DEF Return, Goto, IdleRequest
  <2> QED
    BY <2>1, <2>3
<1>8. ASSUME NEW r \in Requests, ResetVersionForRetry(r) \/ ReviewWrite(r) \/ Compensate(r)
      PROVE  Harmless
  <2> DEFINE v == request[r].version
  <2>1. doc' = doc /\ v \in Versions
    BY <1>8 DEF ResetVersionForRetry, ReviewWrite, Compensate, RequestLocals
  <2>2. \/ Return(r)
        \/ Goto(r, "enqueue_retry", NoFile, v)
    BY <1>8 DEF ResetVersionForRetry, ReviewWrite, Compensate
  <2>3. \A q \in Requests : request'[q].pc = "version" => request'[q] = request[q]
    BY <1>t, <2>2 DEF Return, Goto, IdleRequest
  <2>4. \A u \in Versions : status[u] = "none" => status'[u] = "none"
    BY <1>8, <1>t, <2>1 DEF ResetVersionForRetry, ReviewWrite, Compensate, WriteVerdict,
                            ExtractGuard, Active, Retryable
  <2> QED
    BY <2>1, <2>3, <2>4
<1>9. CASE UNCHANGED vars
  BY <1>1, <1>9 DEF vars
<1> HIDE DEF Harmless
<1>10. ASSUME NEW r \in Requests, RequestNext(r)
       PROVE  FreshVersions'
  BY <1>1, <1>4, <1>5, <1>6, <1>7, <1>8, <1>10 DEF RequestNext
<1> QED
  BY <1>1, <1>2, <1>3, <1>9, <1>10 DEF Next

-----------------------------------------------------------------------------
(* No version is stranded *)

\* A job stays accounted for over a step that leaves its row alone (but for the
\* lease), loses no record of a lost attempt, and sends each worker that has yet to
\* decide on it on to a state before the verdict, or loses that worker's attempt.
LEMMA AccountedKept ==
    ASSUME NEW j \in JobIds, Accounted(j),
           job'[j].status = job[j].status, job'[j].attempts = job[j].attempts,
           lost[j] \subseteq lost'[j],
           \A w \in Workers, a \in 1..job[j].attempts :
              Holds(w, j, a) /\ worker[w].pc \in PreVerdict =>
                 a \in lost'[j] \/ (Holds(w, j, a) /\ worker[w].pc \in PreVerdict)'
    PROVE  Accounted(j)'
  BY DEF Accounted

LEMMA PendingKept ==
    ASSUME NEW v \in Versions, Pending(v),
           \A q \in Requests : request[q].pc \in Responsible => request'[q] = request[q]
    PROVE  Pending(v)'
  BY DEF Pending

\* Handlers: those that queue a version stay responsible for it until its job is in.
LEMMA HandlersStrandNothing ==
    ASSUME TypeOK, RequestLocals, JobOrder, AllAccounted,
           NEW r \in Requests, RequestNext(r),
           NEW v \in Versions, status'[v] \in Active, v \notin dropped'
    PROVE  Pending(v)' \/ Served(v)'
<1>t. /\ request \in [Requests -> Request] /\ status \in [Versions -> Status]
      /\ job \in [JobIds -> Job]
  BY DEF TypeOK
<1>n. status[v] \in Active /\ v \notin dropped => Pending(v) \/ Served(v)
  BY DEF AllAccounted, Pending, Served
<1>s. ASSUME job' = job, worker' = worker, lost' = lost, Served(v)
      PROVE  Served(v)'
  BY <1>s DEF Served, LastJob, Accounted, Holds
<1>1. CASE \/ \E f \in Files : FromFile(r, f)
           \/ \E u \in Versions : RetryRead(r, u) \/ ReviewRead(r, u)
           \/ HashFile(r) \/ CreateDocument(r) \/ ReviewWrite(r)
  <2>1. UNCHANGED <<job, worker, lost, dropped>>
    BY <1>1 DEF FromFile, RetryRead, ReviewRead, HashFile, CreateDocument, ReviewWrite,
                history
  <2>2. status[v] \in Active
    BY <1>1, <1>t DEF FromFile, RetryRead, ReviewRead, HashFile, CreateDocument,
                ReviewWrite, store, Active
  <2>3. /\ request[r].pc \notin Responsible
        /\ \A q \in Requests : q # r => request'[q] = request[q]
    BY <1>1, <1>t DEF FromFile, RetryRead, ReviewRead, HashFile, CreateDocument,
                ReviewWrite, Responsible, Enqueuing, Goto, Return
  <2> QED
    BY <1>n, <1>s, <2>1, <2>2, <2>3, PendingKept
<1>2. CASE CreateVersion(r) \/ ResetVersionForRetry(r)
  <2>1. UNCHANGED <<job, worker, lost, dropped>> /\ request[r].pc \notin Responsible
    BY <1>2 DEF CreateVersion, ResetVersionForRetry, history, Responsible, Enqueuing
  <2>2. /\ \A q \in Requests : q # r => request'[q] = request[q]
        /\ \/ status' = status
           \/ /\ status' = [status EXCEPT ![request[r].version] = "queued"]
              /\ request'[r].version = request[r].version
              /\ request'[r].pc \in Responsible
    BY <1>2, <1>t DEF CreateVersion, ResetVersionForRetry, Goto, Return, Responsible, Enqueuing
  <2>3. CASE status[v] \in Active
    BY <1>n, <1>s, <2>1, <2>2, <2>3, PendingKept
  <2>4. CASE status[v] \notin Active
    BY <1>t, <2>2, <2>4 DEF Pending
  <2> QED
    BY <2>3, <2>4
<1>3. CASE SetCurrentVersion(r) \/ EnqueueFails(r)
  <2>1. UNCHANGED <<status, job, worker, lost, dropped>>
    BY <1>3 DEF SetCurrentVersion, EnqueueFails, history, store
  <2>2. /\ \A q \in Requests : q # r => request'[q] = request[q]
        /\ request'[r].version = request[r].version /\ request'[r].pc \in Responsible
    BY <1>3, <1>t DEF SetCurrentVersion, EnqueueFails, Goto, Responsible, Enqueuing
  <2>3. CASE Pending(v)
    BY <2>2, <2>3 DEF Pending
  <2> QED
    BY <1>n, <1>s, <2>1, <2>3
<1>4. CASE Enqueue(r)
  <2>1. PICK j \in JobIds :
           /\ job[j].status = "none"
           /\ job' = [job EXCEPT ![j] = [version |-> request[r].version,
                 status |-> "queued", attempts |-> 0, lease |-> "none"]]
    BY <1>4 DEF Enqueue, EnqueueJob
  <2>2. UNCHANGED <<status, worker, lost>> /\ dropped' = dropped \ {request[r].version}
    BY <1>4 DEF Enqueue, store
  <2>3. /\ job'[j].version = request[r].version /\ job'[j].status = "queued"
        /\ \A i \in JobIds : i # j => job'[i] = job[i]
    BY <1>t, <2>1
  <2>4. \A q \in Requests : q # r => request'[q] = request[q]
    BY <1>4, <1>t DEF Enqueue, Return
  <2>0. \A i \in JobIds : i > j => job[i].version = NoVersion
    <3>1. \A i \in JobIds : i > j => job[i].status = "none"
      BY <2>1 DEF JobOrder
    <3> QED
      BY <3>1 DEF JobOrder
  <2>5. CASE v = request[r].version
    <3>1. ASSUME NEW i \in JobIds, i > j PROVE job'[i].version # v
      <4>1. job'[i] = job[i] /\ job[i].version = NoVersion
        BY <2>0, <2>3, <3>1 DEF JobIds
      <4>2. v # NoVersion
        BY DEF Versions, NoVersion
      <4> QED
        BY <4>1, <4>2
    <3>2. LastJob(j, v)'
      BY <2>3, <2>5, <3>1 DEF LastJob, JobIds
    <3> QED
      BY <2>3, <3>2 DEF Served, Accounted
  <2>6. CASE v # request[r].version /\ Pending(v)
    BY <2>4, <2>6 DEF Pending
  <2>7. CASE v # request[r].version /\ Served(v)
    <3>1. PICK i \in JobIds : LastJob(i, v) /\ Accounted(i)
      BY <2>7 DEF Served
    <3>2. i # j
      BY <2>1, <3>1 DEF Accounted
    <3>0. LastJob(i, v)'
      BY <2>3, <2>7, <3>1, <3>2 DEF LastJob
    <3>3. Accounted(i)'
      BY <2>2, <2>3, <3>1, <3>2 DEF Accounted, Holds
    <3> QED
      BY <3>0, <3>3 DEF Served
  <2> QED
    BY <1>n, <2>2, <2>5, <2>6, <2>7
<1>5. CASE RequestCutOff(r)
  <2>1. /\ UNCHANGED <<status, job, worker, lost>>
        /\ dropped \subseteq dropped'
        /\ request[r].pc \in Responsible => request[r].version \in dropped'
    BY <1>5 DEF RequestCutOff, store
  <2>2. \A q \in Requests : q # r => request'[q] = request[q]
    BY <1>5, <1>t DEF RequestCutOff, Return
  <2>3. CASE Pending(v)
    BY <2>1, <2>2, <2>3 DEF Pending
  <2> QED
    BY <1>n, <1>s, <2>1, <2>3
<1>6. CASE Compensate(r)
  <2> DEFINE u == request[r].version
  <2>1. /\ UNCHANGED <<job, worker, lost, dropped>> /\ u \in Versions
        /\ WriteVerdict(u, "failed") /\ Return(r)
    BY <1>6 DEF Compensate, RequestLocals, history
  <2>2. status[v] \in Active /\ v # u
    BY <1>t, <2>1 DEF WriteVerdict, ExtractGuard, Active
  <2>3. \A q \in Requests : q # r => request'[q] = request[q]
    BY <1>t, <2>1 DEF Return
  <2>4. CASE Pending(v)
    BY <2>2, <2>3, <2>4 DEF Pending
  <2> QED
    BY <1>n, <1>s, <2>1, <2>2, <2>4
<1> QED
  BY <1>1, <1>2, <1>3, <1>4, <1>5, <1>6 DEF RequestNext

\* Workers: whoever writes the verdict of a job decides its version, and only the
\* holder of an attempt that is past its verdict finishes a job.
LEMMA WorkersStrandNothing ==
    ASSUME TypeOK, WorkerLocals, JobRows, AttemptsFence,
           NEW w \in Workers, WorkerNext(w),
           NEW v \in Versions, status'[v] \in Active, v \notin dropped',
           NEW j \in JobIds, job[j].version = v, Accounted(j)
    PROVE  job'[j].version = v /\ Accounted(j)'
<1>t. /\ job \in [JobIds -> Job] /\ worker \in [Workers -> Worker]
      /\ lost \in [JobIds -> SUBSET (1..MaxAttempts)]
      /\ status \in [Versions -> Status] /\ MaxAttempts \in Nat
      /\ \A i \in JobIds : job[i].attempts \in 0..MaxAttempts
  BY JobFieldsType, MaxAttemptsAssumption DEF TypeOK
<1>1. CASE ClaimJob(w)
  <2>1. PICK i \in JobIds :
            /\ Claimable(i)
            /\ job' = [job EXCEPT ![i].status = "running", ![i].lease = "live",
                                  ![i].attempts = @ + 1]
            /\ worker' = [worker EXCEPT ![w] =
                  [pc |-> "load", job |-> i, attempt |-> job[i].attempts + 1]]
    BY <1>1 DEF ClaimJob, NextAttempt
  <2>2. lost' = lost /\ worker[w].pc = "idle"
    BY <1>1 DEF ClaimJob, history
  <2>3. /\ \A u \in Workers : u # w => worker'[u] = worker[u]
        /\ worker'[w].job = i /\ worker'[w].attempt = job[i].attempts + 1
        /\ worker'[w].pc = "load"
    BY <1>t, <2>1
  <2>4. \A a \in 1..job[j].attempts, u \in Workers :
           Holds(u, j, a) /\ worker[u].pc \in PreVerdict =>
              Holds(u, j, a)' /\ worker'[u].pc \in PreVerdict
    BY <2>2, <2>3 DEF Holds
  <2>5. CASE i # j
    <3>1. job'[j] = job[j]
      BY <1>t, <2>1, <2>5
    <3> QED
      BY <2>2, <2>4, <3>1, AccountedKept
  <2>6. CASE i = j
    <3>1. /\ job'[j].version = job[j].version /\ job'[j].status = "running"
          /\ job'[j].attempts = job[j].attempts + 1
      BY <1>t, <2>1, <2>6
    <3>2. Holds(w, j, job[j].attempts)' /\ worker'[w].pc \in PreVerdict
      BY <2>3, <2>6, <3>1 DEF Holds, PreVerdict
    <3>3. \A a \in 1..job[j].attempts :
             a \in lost'[j] \/ \E u \in Workers : Holds(u, j, a)' /\ worker'[u].pc \in PreVerdict
      BY <2>2, <2>4, <1>t DEF Accounted, JobRows
    <3> QED
      BY <1>t, <3>1, <3>2, <3>3 DEF Accounted
  <2> QED
    BY <2>5, <2>6
<1>2. ASSUME UNCHANGED <<job, lost>>, NEW pc, Step(w, pc),
             \A a \in 1..job[j].attempts :
                Holds(w, j, a) /\ worker[w].pc \in PreVerdict => pc \in PreVerdict
      PROVE  job'[j].version = v /\ Accounted(j)'
  <2>1. \A u \in Workers : /\ worker'[u].job = worker[u].job
                           /\ worker'[u].attempt = worker[u].attempt
                           /\ u # w => worker'[u].pc = worker[u].pc
    BY <1>2, <1>t DEF Step
  <2>2. worker'[w].pc = pc
    BY <1>2, <1>t DEF Step
  <2>3. \A u \in Workers, a \in 1..job[j].attempts :
           Holds(u, j, a) /\ worker[u].pc \in PreVerdict =>
              (Holds(u, j, a) /\ worker[u].pc \in PreVerdict)'
    BY <1>2, <2>1, <2>2 DEF Holds, PreVerdict
  <2> QED
    BY <1>2, <2>3, AccountedKept
<1>3. CASE GetVersion(w) \/ MarkRunning(w) \/ Extract(w)
  <2>1. \E pc \in PreVerdict : Step(w, pc)
    BY <1>3 DEF GetVersion, MarkRunning, Extract, PreVerdict
  <2>2. UNCHANGED <<job, lost>>
    BY <1>3 DEF GetVersion, MarkRunning, Extract, history
  <2> QED
    BY <1>2, <2>1, <2>2
<1>4. CASE StoreText(w) \/ StoreFailure(w)
  <2>1. /\ \E s \in {"awaiting_review", "failed"} : WriteVerdict(VersionOf(w), s)
        /\ worker[w].pc # "idle" /\ UNCHANGED <<job, lost>>
        /\ \E pc : Step(w, pc)
    BY <1>4 DEF StoreText, StoreFailure, history
  <2>2. VersionOf(w) \in Versions
    BY <2>1, WorkerHasVersion
  <2>3. VersionOf(w) # v
    BY <1>t, <2>1, <2>2 DEF WriteVerdict, ExtractGuard, Active
  <2>4. worker[w].job # j
    BY <2>3 DEF VersionOf
  <2> QED
    BY <1>2, <2>1, <2>4 DEF Holds
<1>5. CASE WorkerSqlError(w)
  <2>1. worker[w].job = j => worker[w].pc \in {"mark", "store"}
    BY <1>5 DEF WorkerSqlError, VersionOf
  <2>2. UNCHANGED <<job, lost>>
    BY <1>5 DEF WorkerSqlError
  <2>3. \E pc : /\ Step(w, pc)
                /\ worker[w].pc \in {"mark", "store"} => pc \in PreVerdict
    BY <1>5 DEF WorkerSqlError, PreVerdict
  <2> QED
    BY <1>2, <2>1, <2>2, <2>3 DEF Holds
<1>6. CASE Finish(w)
  <2>1. /\ worker[w].pc \in PostVerdict /\ lost' = lost
        /\ worker' = [worker EXCEPT ![w] = IdleWorker]
        /\ job' = [job EXCEPT ![worker[w].job].status = worker[w].pc,
                              ![worker[w].job].lease = "none"]
    BY <1>6 DEF Finish, FinishJob, Release, history
  <2>2. worker[w].job # j
    <3> SUFFICES ASSUME worker[w].job = j PROVE FALSE
      OBVIOUS
    <3> DEFINE a == worker[w].attempt
    <3>1. /\ a \in 1..job[j].attempts /\ a \notin lost[j] /\ Holds(w, j, a)
          /\ job[j].status # "queued"
      BY <2>1 DEF WorkerLocals, PostVerdict, Holds
    <3>2. PICK u \in Workers : Holds(u, j, a) /\ worker[u].pc \in PreVerdict
      BY <3>1 DEF Accounted
    <3>3. u = w
      BY <1>t, <3>1, <3>2 DEF AttemptsFence
    <3> QED
      BY <2>1, <3>2, <3>3 DEF PreVerdict, PostVerdict
  <2>3. job'[j] = job[j]
    BY <1>t, <2>1, <2>2
  <2>4. \A u \in Workers : u # w => worker'[u] = worker[u]
    BY <1>t, <2>1
  <2>5. \A u \in Workers, a \in 1..job[j].attempts :
           Holds(u, j, a) => Holds(u, j, a)' /\ worker'[u].pc = worker[u].pc
    BY <2>2, <2>4 DEF Holds
  <2> QED
    BY <2>1, <2>3, <2>5, AccountedKept
<1>7. CASE FinishSqlError(w) \/ WorkerCrash(w)
  <2>1. /\ job' = job /\ worker' = [worker EXCEPT ![w] = IdleWorker]
        /\ lost' = [lost EXCEPT ![worker[w].job] = @ \cup {worker[w].attempt}]
    BY <1>7 DEF FinishSqlError, WorkerCrash, Abandon, Release
  <2>2. \A u \in Workers : u # w => worker'[u] = worker[u]
    BY <1>t, <2>1
  <2>3. /\ lost[j] \subseteq lost'[j]
        /\ worker[w].job = j => worker[w].attempt \in lost'[j]
    BY <1>t, <2>1
  <2>4. \A u \in Workers, a \in 1..job[j].attempts :
           Holds(u, j, a) => a \in lost'[j] \/ (Holds(u, j, a)' /\ worker'[u].pc = worker[u].pc)
    BY <2>2, <2>3 DEF Holds
  <2> QED
    BY <2>1, <2>3, <2>4, AccountedKept
<1> QED
  BY <1>1, <1>3, <1>4, <1>5, <1>6, <1>7 DEF WorkerNext, WorkerStep

\* Only EnqueueJob gives a row its version.
LEMMA VersionsKept ==
    ASSUME TypeOK, WorkerLocals, [Next]_vars, ~ \E r \in Requests : Enqueue(r)
    PROVE  \A j \in JobIds : /\ job'[j].version = job[j].version
                             /\ job'[j].status = "none" <=> job[j].status = "none"
<1> DEFINE Keeps == \A j \in JobIds :
        /\ job'[j].version = job[j].version
        /\ job'[j].status = "none" <=> job[j].status = "none"
<1>t. job \in [JobIds -> Job]
  BY DEF TypeOK
<1>1. ASSUME NEW w \in Workers, ClaimJob(w)
      PROVE  Keeps
  <2>1. PICK i \in JobIds :
            /\ Claimable(i)
            /\ job' = [job EXCEPT ![i].status = "running", ![i].lease = "live",
                                  ![i].attempts = NextAttempt(i)]
    BY <1>1 DEF ClaimJob
  <2>2. job[i].status # "none"
    BY <2>1 DEF Claimable
  <2> QED
    BY <1>t, <2>1, <2>2
<1>2. ASSUME NEW w \in Workers, Finish(w)
      PROVE  Keeps
  <2>1. /\ worker[w].pc \in PostVerdict
        /\ job' = [job EXCEPT ![worker[w].job].status = worker[w].pc,
                              ![worker[w].job].lease = "none"]
    BY <1>2 DEF Finish, FinishJob
  <2>2. worker[w].job \in JobIds /\ job[worker[w].job].status # "none"
    BY <2>1 DEF WorkerLocals, PostVerdict
  <2> QED
    BY <1>t, <2>1, <2>2 DEF PostVerdict
<1>3. ASSUME NEW i \in JobIds, LeaseExpires(i)
      PROVE  Keeps
  BY <1>t, <1>3 DEF LeaseExpires
<1>4. ASSUME NEW w \in Workers, Advances(w) \/ FinishSqlError(w) \/ WorkerCrash(w)
      PROVE  job' = job
  BY <1>4 DEF Advances, FinishSqlError, WorkerCrash, Abandon
<1>5. \/ job' = job
      \/ \E w \in Workers : ClaimJob(w) \/ Finish(w)
      \/ \E j \in JobIds : LeaseExpires(j)
  BY <1>4, JobSteps
<1>6. job' = job => Keeps
  OBVIOUS
<1> HIDE DEF Keeps
<1>7. Keeps
  BY <1>1, <1>2, <1>3, <1>5, <1>6
<1> QED
  BY <1>7 DEF Keeps

LEMMA JobOrderStep ==
    ASSUME TypeOK, WorkerLocals, JobOrder, [Next]_vars
    PROVE  JobOrder'
<1>t. job \in [JobIds -> Job]
  BY DEF TypeOK
<1>1. ASSUME NEW r \in Requests, Enqueue(r)
      PROVE  JobOrder'
  <2>1. PICK j \in JobIds :
           /\ job[j].status = "none"
           /\ \A i \in JobIds : i < j => job[i].status # "none"
           /\ job' = [job EXCEPT ![j] = [version |-> request[r].version,
                 status |-> "queued", attempts |-> 0, lease |-> "none"]]
    BY <1>1 DEF Enqueue, EnqueueJob
  <2>2. job'[j].status = "queued" /\ \A i \in JobIds : i # j => job'[i] = job[i]
    BY <1>t, <2>1
  <2> QED
    BY <2>1, <2>2 DEF JobOrder
<1>2. CASE ~ \E r \in Requests : Enqueue(r)
  BY <1>2, VersionsKept DEF JobOrder
<1> QED
  BY <1>1, <1>2

LEMMA AllAccountedStep ==
    ASSUME TypeOK, WorkerLocals, JobRows, RequestLocals, AttemptsFence, JobOrder,
           AllAccounted, [Next]_vars
    PROVE  AllAccounted'
<1> SUFFICES ASSUME NEW v \in Versions, status'[v] \in Active, v \notin dropped'
             PROVE  Pending(v)' \/ Served(v)'
  BY DEF AllAccounted, Pending, Served
<1>t. status \in [Versions -> Status] /\ job \in [JobIds -> Job]
  BY DEF TypeOK
<1>n. status[v] \in Active /\ v \notin dropped => Pending(v) \/ Served(v)
  BY DEF AllAccounted, Pending, Served
<1>1. CASE \E r \in Requests : RequestNext(r)
  BY <1>1, HandlersStrandNothing
<1>s. ASSUME NEW j \in JobIds, LastJob(j, v), ~ \E r \in Requests : Enqueue(r)
      PROVE  LastJob(j, v)'
  BY <1>s, VersionsKept DEF LastJob
<1>2. ASSUME NEW w \in Workers, WorkerNext(w)
      PROVE  Pending(v)' \/ Served(v)'
  <2>1. request' = request /\ dropped \subseteq dropped'
    BY <1>2 DEF WorkerNext, WorkerStep, ClaimJob, GetVersion, MarkRunning, Extract,
                StoreText, StoreFailure, Finish, WorkerSqlError, FinishSqlError,
                WorkerCrash, Abandon, history
  <2>2. status[v] \in Active
    <3>1. CASE status' = status
      BY <3>1
    <3>2. CASE MarkRunning(w) \/ StoreText(w) \/ StoreFailure(w)
      BY <1>t, <3>2 DEF MarkRunning, StoreText, StoreFailure, WriteVerdict,
                        ExtractGuard, Active
    <3> QED
      BY <1>2, <3>1, <3>2 DEF WorkerNext, WorkerStep, ClaimJob, GetVersion, Extract,
                Finish, WorkerSqlError, FinishSqlError, WorkerCrash, Abandon, store
  <2>3. CASE Pending(v)
    BY <2>1, <2>3, PendingKept
  <2>4. CASE Served(v)
    <3>1. PICK j \in JobIds : LastJob(j, v) /\ Accounted(j)
      BY <2>4 DEF Served
    <3>2. Accounted(j)'
      BY <1>2, <3>1, WorkersStrandNothing DEF LastJob
    <3>3. ~ \E r \in Requests : Enqueue(r)
      <4> SUFFICES ASSUME NEW r \in Requests, Enqueue(r) PROVE FALSE
        OBVIOUS
      <4>1. request'[r] = IdleRequest /\ request[r].pc # "idle"
        BY DEF Enqueue, Return, TypeOK
      <4> QED
        BY <2>1, <4>1 DEF IdleRequest
    <3> QED
      BY <1>s, <3>1, <3>2, <3>3 DEF Served
  <2> QED
    BY <1>n, <2>1, <2>2, <2>3, <2>4
<1>3. ASSUME NEW i \in JobIds, LeaseExpires(i)
      PROVE  Pending(v)' \/ Served(v)'
  <2>1. /\ UNCHANGED <<status, worker, request, lost, dropped>>
        /\ \A j \in JobIds : /\ job'[j].version = job[j].version
                             /\ job'[j].status = job[j].status
                             /\ job'[j].attempts = job[j].attempts
    BY <1>t, <1>3 DEF LeaseExpires, store, history
  <2> QED
    BY <1>n, <2>1 DEF Pending, Served, LastJob, Accounted, Holds
<1>4. CASE UNCHANGED vars
  BY <1>n, <1>4 DEF vars, Pending, Served, LastJob, Accounted, Holds
<1> QED
  BY <1>1, <1>2, <1>3, <1>4 DEF Next

-----------------------------------------------------------------------------
(* The theorems *)

LEMMA IndInvInit == Init => IndInv
<1> SUFFICES ASSUME Init PROVE IndInv
  OBVIOUS
<1> USE MaxAttemptsAssumption, BoundsAssumption DEF Init
<1>1. TypeOK
  <2>1. NoRow \in Job /\ IdleWorker \in Worker /\ IdleRequest \in Request
    BY DEF NoRow, Job, JobStatus, Lease, IdleWorker, Worker, IdleRequest, Request, RequestPc
  <2> QED
    BY <2>1 DEF TypeOK, Status
<1>2. WorkerLocals /\ AttemptsFence
  BY DEF WorkerLocals, AttemptsFence, Holds, IdleWorker
<1>3. JobRows
  BY DEF JobRows, NoRow
<1>4. RequestLocals /\ FreshVersions
  BY DEF RequestLocals, FreshVersions, IdleRequest
<1>5. AllAccounted /\ JobOrder
  BY DEF AllAccounted, Active, JobOrder, NoRow
<1> QED
  BY <1>1, <1>2, <1>3, <1>4, <1>5 DEF IndInv

LEMMA IndInvStep == IndInv /\ [Next]_vars => IndInv'
  BY TypeStep, JobsStep, RequestLocalsStep, FreshVersionsStep, JobOrderStep, AllAccountedStep
  DEF IndInv

THEOREM IndInvInvariant == Spec => []IndInv
  BY IndInvInit, IndInvStep, PTL DEF Spec

\* Rows and locals keep the types of the schema; attempts never pass max_attempts.
THEOREM TypeCorrect == Spec => []TypeOK
<1>1. IndInv => TypeOK
  BY DEF IndInv
<1> QED
  BY <1>1, IndInvInvariant, PTL

\* No two claims of a job share an attempt number.
THEOREM AttemptsFenceClaims == Spec => []AttemptsFence
<1>1. IndInv => AttemptsFence
  BY DEF IndInv
<1> QED
  BY <1>1, IndInvInvariant, PTL

\* A queued or running version is on its way, unless every permitted attempt of its
\* last job died or the statement that would have saved it failed: FromFile's
\* write-off, the claims after a lease and a worker that comes late strand nothing.
THEOREM NothingStranded == Spec => []NoStrandedVersion
<1>1. ASSUME IndInv PROVE NoStrandedVersion
  <2> SUFFICES ASSUME NEW v \in Versions, status[v] \in Active, v \notin dropped, Served(v)
               PROVE  \E j \in JobIds : LastJob(j, v) /\ (InProgress(j) \/ Exhausted(j))
    BY <1>1 DEF IndInv, AllAccounted, NoStrandedVersion, Pending
  <2>1. PICK j \in JobIds : LastJob(j, v) /\ Accounted(j)
    BY DEF Served
  <2>2. /\ job[j].attempts \in 0..MaxAttempts /\ lost[j] \subseteq 1..MaxAttempts
        /\ MaxAttempts \in Nat
    BY <1>1, JobFieldsType, MaxAttemptsAssumption DEF IndInv, TypeOK
  <2>3. ASSUME job[j].status = "running", job[j].attempts = MaxAttempts, ~InHand(j)
        PROVE  lost[j] = 1..MaxAttempts
    BY <2>1, <2>2, <2>3 DEF Accounted, InHand, Holds
  <2>4. InProgress(j) \/ Exhausted(j)
    BY <2>1, <2>2, <2>3 DEF Accounted, InProgress, Exhausted
  <2> QED
    BY <2>1, <2>4
<1> QED
  BY <1>1, IndInvInvariant, PTL

\* A finished job is not reopened.
THEOREM FinishedJobsStay == Spec => FinishedStaysFinished
<1>1. ASSUME IndInv, [Next]_vars
      PROVE  \A j \in JobIds : job[j].status \in PostVerdict
                                  => job'[j].status \in PostVerdict
  <2>t. job \in [JobIds -> Job] /\ \A w \in Workers : worker[w].pc # "idle" => worker[w].job \in JobIds
    BY <1>1 DEF IndInv, TypeOK, WorkerLocals
  <2>1. CASE job' = job
    BY <2>1
  <2>2. ASSUME NEW r \in Requests, Enqueue(r)
        PROVE  \A j \in JobIds : job[j].status \in PostVerdict => job'[j].status \in PostVerdict
    BY <2>t, <2>2 DEF Enqueue, EnqueueJob, PostVerdict
  <2>3. ASSUME NEW w \in Workers, ClaimJob(w)
        PROVE  \A j \in JobIds : job[j].status \in PostVerdict => job'[j].status \in PostVerdict
    <3>1. PICK i \in JobIds :
            /\ Claimable(i)
            /\ job' = [job EXCEPT ![i].status = "running", ![i].lease = "live",
                                  ![i].attempts = NextAttempt(i)]
      BY <2>3 DEF ClaimJob, NextAttempt
    <3>2. job[i].status \notin PostVerdict /\ \A j \in JobIds : j # i => job'[j] = job[j]
      BY <2>t, <3>1 DEF Claimable, PostVerdict
    <3> QED
      BY <3>2
  <2>4. ASSUME NEW w \in Workers, Finish(w)
        PROVE  \A j \in JobIds : job[j].status \in PostVerdict => job'[j].status \in PostVerdict
    BY <2>t, <2>4 DEF Finish, FinishJob
  <2>5. ASSUME NEW i \in JobIds, LeaseExpires(i)
        PROVE  \A j \in JobIds : job[j].status \in PostVerdict => job'[j].status \in PostVerdict
    BY <2>t, <2>5 DEF LeaseExpires
  <2> QED
    BY <1>1, <2>1, <2>2, <2>3, <2>4, <2>5, JobSteps DEF Advances, FinishSqlError, WorkerCrash, Abandon
<1> QED
  BY <1>1, IndInvInvariant, PTL DEF Spec, FinishedStaysFinished

\* The versions table implements the document lifecycle.
THEOREM Refinement == Spec => ImplementsLifecycle
<1>1. Init => Lifecycle!Init
  BY DEF Init, Lifecycle!Init
<1>2. ASSUME IndInv, [Next]_vars
      PROVE  [Lifecycle!Next]_status
  <2> USE DEF Lifecycle!Next, Lifecycle!Move, Lifecycle!Active, Lifecycle!Retryable
  <2>t. status \in [Versions -> Status]
    BY <1>2 DEF IndInv, TypeOK
  <2>1. ASSUME NEW r \in Requests, CreateVersion(r)
        PROVE  Lifecycle!Next
    BY <1>2, <2>1 DEF IndInv, FreshVersions, RequestLocals, CreateVersion, Lifecycle!Submit
  <2>2. ASSUME NEW r \in Requests, ResetVersionForRetry(r), status' # status
        PROVE  Lifecycle!Next
    BY <1>2, <2>2 DEF IndInv, RequestLocals, ResetVersionForRetry, Retryable, Lifecycle!Retry
  <2>3. ASSUME NEW r \in Requests, ReviewWrite(r), status' # status
        PROVE  Lifecycle!Next
    BY <1>2, <2>3 DEF IndInv, RequestLocals, ReviewWrite, Lifecycle!Approve, Lifecycle!Reject
  <2>4. ASSUME NEW v \in Versions, NEW s \in {"awaiting_review", "failed"},
               WriteVerdict(v, s), status' # status
        PROVE  Lifecycle!Next
    BY <2>4 DEF WriteVerdict, ExtractGuard, Active, Lifecycle!Deliver, Lifecycle!Fail
  <2>5. ASSUME NEW r \in Requests, Compensate(r), status' # status
        PROVE  Lifecycle!Next
    BY <1>2, <2>4, <2>5 DEF IndInv, RequestLocals, Compensate
  <2>6. ASSUME NEW w \in Workers, MarkRunning(w), status' # status
        PROVE  Lifecycle!Next
    <3>1. VersionOf(w) \in Versions
      BY <1>2, <2>6, WorkerHasVersion DEF IndInv, MarkRunning
    <3> QED
      BY <2>6, <3>1 DEF MarkRunning, Lifecycle!Start
  <2>7. ASSUME NEW w \in Workers, StoreText(w) \/ StoreFailure(w), status' # status
        PROVE  Lifecycle!Next
    <3>1. VersionOf(w) \in Versions
      BY <1>2, <2>7, WorkerHasVersion DEF IndInv, StoreText, StoreFailure
    <3> QED
      BY <2>4, <2>7, <3>1 DEF StoreText, StoreFailure
  <2>8. ASSUME NEW r \in Requests, RequestNext(r)
        PROVE  status' = status \/ Lifecycle!Next
    BY <2>1, <2>2, <2>3, <2>5, <2>8
    DEF RequestNext, FromFile, RetryRead, ReviewRead, HashFile, CreateDocument,
        SetCurrentVersion, Enqueue, EnqueueFails, RequestCutOff, store
  <2>9. ASSUME NEW w \in Workers, WorkerNext(w)
        PROVE  status' = status \/ Lifecycle!Next
    BY <2>6, <2>7, <2>9
    DEF WorkerNext, WorkerStep, ClaimJob, GetVersion, Extract, Finish, WorkerSqlError,
        FinishSqlError, WorkerCrash, Abandon, store
  <2>10. ASSUME NEW j \in JobIds, LeaseExpires(j)
         PROVE  status' = status
    BY <2>10 DEF LeaseExpires, store
  <2> HIDE DEF Lifecycle!Next
  <2> QED
    BY <1>2, <2>8, <2>9, <2>10 DEF Next, vars
<1> QED
  BY <1>1, <1>2, IndInvInvariant, PTL DEF Spec, ImplementsLifecycle, Lifecycle!Spec
=============================================================================
