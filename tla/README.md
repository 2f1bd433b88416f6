# RigIntel, modelled in TLA+

RigIntel is a workspace for a company's departments: a disk for files, documents
with reviewed text, knowledge bases with vector search, a chat, a registry of models
and requests for training. A Go API (`src/backend`) keeps all state in PostgreSQL and
in an S3 store, and runs two background workers in its own process; a Next.js application
(`src/frontend`) calls it. This directory holds TLA+ models of the back end and of pages of the
front end, their TLC runs and machine-checked proofs.

Paths below are relative to `src/backend/internal` unless they start with `src/`; a bare name of a
`.tsx` or `.ts` file is that of a file under `src/frontend/src`.

## 1. Inventory

| Component | State | Operations | Correct when |
|---|---|---|---|
| Document ingestion (`service/document.go`, `service/ingest_worker.go`, `repository/document.go`) | documents, document_versions, ingest_jobs; the locals of handlers and workers | FromFile, Retry, Review; claim, extract, store, finish | a version follows the review workflow whatever workers do; a queued version is always on its way to a verdict; a finished job stays finished |
| Knowledge bases (`service/knowledge.go`, `service/vectorize_worker.go`) | knowledge_bases, knowledge_base_files, knowledge_chunks, vectorize_jobs | attach, detach, patch, clear, vectorize, search; claim, index a file, finish | a file called indexed has exactly its chunks; chunks of removed files are not found; vectorization can always be asked for again |
| Chunker (`service/chunker.go`) | none (a pure function) | chunkText, breakPoint | it ends, leaves no gap, keeps to the size, overlaps as asked |
| Registration, sessions, TOTP (`service/auth.go`, `repository/user.go`, `repository/invite.go`) | users, sessions, invites, TOTP secrets | Register, Login, Logout, SwitchWorkspace, SetupTotp, ConfirmTotp, SetUserBlocked | an invite makes one account and every account has a workspace; a blocked user has no session; the secret that is enabled is the one that was verified |
| Disk (`service/disk.go`, `service/disk_extract.go`, `service/upload_session.go`) | workspace_folders, workspace_files, S3 objects, upload tokens | upload, copy, move, trash, restore, purge, extract an archive | folders are a forest; every file row has its object; nothing is removed that was not asked for |
| Workspaces and membership (`service/workspace.go`) | workspaces, members, department links | LinkDepartment, ApplyMemberships | members from Bitrix match the department tree; local members are never touched |
| Bitrix synchronization (`service/bitrix.go`) | mirrored departments and users, runs | Sync | a snapshot is whole, and a failed sync keeps the former one |
| Model registry (`service/model.go`) | ml_models | approve, reject, deploy, disable | one deployed model per exclusive purpose; only approved models are deployed |
| Training requests (`service/training.go`) | training_requests | submit, cancel, approve, reject | a decision is final |
| Chat (`service/chat.go`) | chat_threads, their collections, chat_messages | Send, Patch, Delete | a patch is not undone by a message in flight; the model sees the question |
| Rate limiter (`httpapi/ratelimit.go`) | hits per key, under a mutex | allow | never more than max hits in a window |
| Passwords and e-mail domains (`lib/password-policy.ts`, `password/argon2.go`) | one settings row | the checks of the page and of the back end | what the page lets through, the back end accepts |
| The page of the disk (`FileManager.tsx`, its dialogs and panels, `lib/file-view.ts`) | the lists, the selection, the dialogs and the uploads of one tab | navigate, select, upload, move, copy, erase, restore, extract | late answers do not mix up what is on the page; nothing is sent twice; no failure leaves the page busy |
| The pages that let people in (`app/auth`, the guards, the administrator's users, invites and domains) | a form or a list per tab, one cookie per browser | register, log in, type codes, log out, block, issue and delete invites | a code is sent once; a form always ends; a blocked user gets past no guard |
| The pages of administration (`components/admin`, the page for training requests) | a list and a busy flag per tab | the commands of the components above | no failure leaves a page busy |
| Archives, file types, encryption, HTTP clients, configuration | none, or one settings row | pure functions and single calls | out of scope: bytes, formats and cryptography |
| AI runtime, model gateway, deployment | none in common with the above | stateless services and scripts | out of scope; their outcomes are inputs of the models |

Components meet in six places:

* **Requests and workers** meet only in the database. Handlers insert a row in
  `ingest_jobs` or `vectorize_jobs`; every API process runs one `IngestWorker.Run` and one
  `VectorizeWorker.Run` (`src/backend/cmd/api/main.go`), which poll every two seconds and
  claim a row with `FOR UPDATE SKIP LOCKED` and a lease.
* **Disk and documents** share objects: a version keeps the S3 key of the file it came from.
* **Disk and knowledge bases** share file ids: purging a file cascades to
  `knowledge_base_files` but only clears `knowledge_chunks.file_id`.
* **Bitrix and workspaces**: Sync replaces the mirror that ApplyMemberships reads.
* **Models and their users**: chat and knowledge bases look up what is deployed.
* **Pages and handlers**: a page sends requests, and works with the answers in whatever order they
  come; tabs of one browser share a session, and with it the active workspace.

What is hard here is the same everywhere: almost nothing runs in a transaction. A handler is
a sequence of statements, each of its own, and any other handler, worker, crash or
cancelled request may come between two of them. Leases are not renewed, downloads have
no deadline, jobs are finished by id alone, and checks come before the writes they are to
protect. The pages add stale closures, answers that come out of order, and flags that a failure must
reset. `PROJECT.json` lists 40 such places as hazards, each at its line.

## 2. Document ingestion

### Modules

* `DocumentLifecycle`: the abstract specification. One variable, `status`: the statuses of a
  document version and the moves between them. Only a review leads to published, nothing leaves
  published, and only failed or rejected versions are queued again.
* `IngestPipeline`: the code, one SQL statement per step.
* `MCIngestPipeline`: definitions for TLC (the contents of files, symmetry).
* `IngestPipelineProofs`: the theorems.

### How `IngestPipeline` corresponds to the code

| Variable | Code |
|---|---|
| `doc`, `status`, `source` | the `documents` row (absent, without or with a current version), `document_versions.status`, `.disk_file_id` |
| `job` | the rows of `ingest_jobs`: version, status, attempts, and the lease (none, live, expired) |
| `worker[w]` | where `ProcessNext` of process w stands, its job, and the attempts value ClaimJob returned |
| `request[r]` | where a handler stands (FromFile, Retry, Review) and the ids in its locals |
| `crashes`, `faults` | how much of the bounds is spent |
| `lost`, `dropped` | history, read by properties only: which attempts of a job died; which versions lost the statement that would have saved them (see below) |

A document is always created with its version 1 and nothing adds a version 2, so one id stands
for both. `created_at` order is the order of ids.

Handlers: `FromFile` (look-up by disk file; reuse, retry or go on), `HashFile` (hash and
look-up by content), `CreateDocument`, `CreateVersion`, `SetCurrentVersion`, `Enqueue`; `RetryRead`,
`ResetVersionForRetry`, `Enqueue`; `ReviewRead`, `ReviewWrite` (a compare-and-set);
`EnqueueFails` with `Compensate`; `RequestCutOff` for an error, a closed connection or the death of
the process at any step. Worker: `ClaimJob`, `GetVersion`, `MarkRunning`, `Extract`, `StoreText` or
`StoreFailure`, `Finish`; `WorkerSqlError` and `FinishSqlError` do at each statement what the code does
with its error; `WorkerCrash` is the death of the process or SIGTERM, after which every
statement fails. `LeaseExpires` may come at any time after a claim: this is the worker that is
slower than its five minutes.

Left out: audit rows, error codes and the extracted text (data no property reads), and
upload through documents. Purging the file of a version belongs to the composition with the disk, which
is left for later (section 8).

### Runs

| Run | Instance | Shows |
|---|---|---|
| `IngestSafety.cfg` | 1 file, 2 workers, 2 handlers, 2 attempts, 1 version, 2 jobs, 1 crash, 1 SQL error | `TypeOK`, `AttemptsFence`, `NoStrandedVersion`, `FinishedStaysFinished`, `ImplementsLifecycle` hold |
| `IngestLiveness.cfg` | 2 workers, 1 handler, 2 jobs, 2 crashes, 1 SQL error, fairness | `EventuallyDecided` holds |
| `IngestExhausted.cfg` | the same with 1 job and no SQL error | `AbandonedJobsEnd` is violated (finding 1) |
| `IngestRedelivery.cfg` | 1 worker, 1 job, 1 crash, no fairness | `StoredTextHasItsJob` is violated (finding 2): with one worker only its death leads there |

`NoStrandedVersion` is a list of where a queued or running version can be, and everything in it but the
last two is a way to a verdict: with its handler, which is about to enqueue its job or to write it
off; queued; running with attempts left, which a lease that ends makes claimable; in the hands of a worker
before its verdict. The two others are how the code does strand a version, and the property says that there
are no more of them:

* its last job lost all `max_attempts` workers (finding 1); one death fewer strands nothing;
* it is in `dropped`: its handler was cut off after the version was queued and before its job was in (the
  process died or the client closed the connection; `Retry` has no write-off when `EnqueueJob` fails,
  `service/document.go:322`), or in `FromFile`'s write-off itself; or its worker met an SQL error in `GetVersion`
  or in `fail()`, both of which end the job and leave the version (`service/ingest_worker.go:91`).

What it does check of errors is that the others are made good: `EnqueueJob` failing in `FromFile`
(the write-off must take effect on a version that is still queued), `SetVersionStatus` failing, the text not being
stored, `FinishJob` failing.

Bounds. Two workers are enough for every overlap of leases, because only the latest claim and
one late worker can disagree; two handlers give every race between two requests; two jobs
for a version are a first extraction and a retry; two attempts are a first delivery and a
redelivery which is also the last. One file and one version suffice for the properties, which
are about one version at a time. The bounds `MaxVersions`, `MaxJobs`, `MaxCrashes` and
`MaxFaults` are in the guards of the actions that spend them, and the theorems hold for any values.
`CHECK_DEADLOCK FALSE` is set because a system whose bounds are spent rests, as the real one
does when nobody asks anything of it.

Fairness. `FairSpec` gives weak fairness to the error-free pass of each worker (`Run` polls for
ever), to the clock (`LeaseExpires`) and to the last steps of a handler that has queued a version, its
write-off included.
Nothing is assumed about new requests, reviews, errors or crashes. Extraction is limited to 90
seconds by the code; that a download ends is assumed, since the code sets it no deadline.

### Findings

1. A job whose last permitted attempt died stays `running` for ever: `ClaimJob` asks for
   `attempts < max_attempts` (`repository/document.go:255`) and no other statement ends a
   job. `src/.cursor/rules/09-jobs-events.mdc` lines 17 and 21 ask for recovery and a dead letter.
2. A worker that dies, or outlives its lease, between storing the text and finishing the job leaves a job
   that, when it is claimed again, takes its own earlier result for an error and ends
   `failed` while the text awaits review (`service/ingest_worker.go:126`). The same rule file, line
   11, says consumers are idempotent.

## 3. Vectorization of a knowledge base

### Modules

* `Vectorize`: one knowledge base, its files, chunks and jobs; one SQL statement per step.
* `MCVectorize`: definitions for TLC (how many chunks a file gives by each size, symmetry).
* `VectorizeProofs`: the theorems.

### How `Vectorize` corresponds to the code

| Variable | Code |
|---|---|
| `onDisk` | which rows of `workspace_files` exist |
| `file[f]` | the `knowledge_base_files` row of f: status (none when there is no row), chunk_count, and the history `blank` (below) |
| `chunks` | `knowledge_chunks` rows: file, index, the size they were cut by, the claim that wrote them. `ChunksOf(f)` are those whose file_id still names f |
| `size` | `knowledge_bases.chunk_size` |
| `job` | `vectorize_jobs` rows: status, attempts, lease |
| `worker[w]` | the locals of `ProcessNext` and `indexFile`: the job, the listed rows (`seen`), the files left (`todo`), the file in hand, its size, the next chunk and the chunks without a vector (`blank`) |
| `request[r]` | a handler between its two statements: Vectorize, ClearVectors, DetachFiles |
| `crashes`, `faults` | how much of the bounds is spent |
| `disturbed`, `outdated` | history, read by properties only; see below |

Handlers: `AttachFile`; `DetachChunks` and `DetachRow`; `ClearChunks` and `ClearRows`; `Resize`
(UpdateSettings); `FindNoRunningJob` and `EnqueueJob`; `RequestCutOff`; and `FileDeleted`, the
disk's purge with what the foreign keys do to the row (CASCADE) and to the chunks (SET NULL).
Worker: `ClaimJob`, `ListFiles`, `LoadFile` (which skips, fails, finds the text unchanged or goes
on), `DeleteChunks`, `Embed`, `InsertChunk` once per chunk with a vector, `SetFileStatus`, `FinishJob`; one action for
each way an SQL error is handled; `WorkerCrash`; `LeaseExpires` at any time after a claim,
since `TouchJob` does not renew the lease.

Abstractions. Disk files are never overwritten, so a file gives the same text at each extraction,
and `Pieces[f][s]` is the number of chunks `chunkText` makes of it by size s. Vectors, the
ranking of search and the text of chunks are left out: what search can find of f is `ChunksOf(f)`.

`Embed` (`service/gateway_client.go:51`) compares the number of vectors with the number of texts and
nothing else, so any of them may be empty. `indexFile` passes over such a chunk without a word
(`service/vectorize_worker.go:160`) and still writes the number of all chunks into the row, and the next
vectorization finds the file unchanged. The model does the same: `Embed` picks any set of blank
chunks, `InsertChunk` passes over them, and the row remembers them as history (`blank`, which no step
reads). `IndexedIsComplete` then says what an indexed row is worth: the chunks it counts are all there but
for those. That a file called indexed may lack them for good goes against line 22 of
`src/.cursor/rules/10-document-ingestion.mdc` (never searchable until all index writes are committed); it
is one choice in one step, so it is listed among the hazards and no run is spent on it.

`disturbed` becomes true when the code offers no protection and its result is
arbitrary: a job is claimed while another worker is busy (two jobs can be queued by two requests, or a
lease runs out under a slow worker), a clear or a detach has a statement while a worker is busy, or is
cut off between its two statements. Each of these is a hazard in `PROJECT.json`. The two invariants
about chunks say what holds as long as none has happened, through crashes, redeliveries, SQL errors,
deletions, attachments and changes of the size. `outdated` are the jobs enqueued before the last change
of the size; they need not apply it.

### Runs

| Run | Instance | Shows |
|---|---|---|
| `VectorizeSafety.cfg` | 2 workers, 1 handler, 1 file, 2 sizes, 2 attempts, 1 job, 1 crash, 1 error | `TypeOK`, `IndexedIsComplete`, `NothingLeftBehind`, `CompletedCoversItsFiles` hold |
| `VectorizeLiveness.cfg` | 1 worker, 1 handler, 2 jobs, 2 sizes, 2 attempts, 1 crash, fairness | `IndexedIsComplete` and `VectorizationEnds` hold |
| `VectorizeDeleted.cfg` | 1 worker, 1 job, no faults | `DeletedFilesNotFound` is violated (finding 3) |
| `VectorizeResize.cfg` | 1 worker, 2 jobs, 2 sizes, no faults | `NewSizeTakesEffect` is violated (finding 4) |

Bounds. Two chunks by one size and one by the other distinguish a part of a pass from the whole
and one pass from another. A second job is a re-vectorization, a second attempt a redelivery
which is also the last. Larger instances were checked once without an error and are too slow to
keep: 2 workers with 2 jobs, 1 crash and 1 error; 2 files with 2 workers and 1 crash; 1 worker with
2 files and 2 jobs; 1 worker with 2 jobs, 2 sizes, 1 crash and 1 error.

Fairness. `FairSpec` gives weak fairness to the error-free pass of each worker and to the clock, for
the reasons given above; none to requests, errors, crashes or deletions.

### Findings

3. Purging a file from the disk leaves its chunks in the knowledge base, without a file
   (`src/backend/migrations`, 009, line 75), and `SearchVector` joins them from the left
   (`repository/knowledge.go:248`), so the text of a deleted file is still found and cited.
   `src/.cursor/rules/10-document-ingestion.mdc` line 23 says deleting invalidates chunks.
4. After a change of the chunk size the front end tells the user to vectorize anew
   (`KnowledgeListPage.tsx:339`), but the worker skips every indexed file whose text is unchanged
   (`service/vectorize_worker.go:130`): a job asked for after the change completes with the old chunks.

## 4. The disk and its page

### Modules

* `WorkspaceDisk`: folders, files, the trash and the objects in storage, and the handlers of
  `service/disk.go`, `disk_extract.go` and `upload_session.go` as functions from a disk and a request to
  what the disk and the reply may be.
* `FileView`: filters, orders and ranges of `lib/file-view.ts`.
* `FileManager`: the page `FileManager.tsx` with its dialogs and panels, over `WorkspaceDisk`.
* `MCFileManager`: the instance. `DiskProofs`: lemmas about the handlers and the orders.
  `FileManagerProofs`: the theorems.

### How they correspond to the code

| Variable | Code |
|---|---|
| `disk` | `workspace_files`, `workspace_folders`, the S3 objects, and how many ids were given out |
| `active` | `active_workspace_id` of the session, which every handler reads first |
| `page` | the React state of the page and of its dialogs: section, folder, lists, selection (`selected` and `selectedKinds`), filters, trail, dialog, upload jobs, and the flags `loading`, `dialogBusy`, `extractingId`, `uploadLock` |
| `flows`, `uploads` | asynchronous functions under way, with the section and folder of their closure and the requests they have still to make; `uploads` are the calls of `runUploads` |
| `clicks`, `troubles`, `habit` | how much of the bounds is spent, and which commands the user goes for |
| `consent` | history, for `ErasedWasConfirmed`: what confirmed dialogs named |

A flow sends a request (`Serve`), which may be lost before or after it is served (`Lose`), and goes on
when the answer is delivered: `DialogDone`, `DialogFailed`, `MoveDone`, `ThenRefresh`, `ExtractDone`,
`CrumbsAnswered`, `TreeAnswered`, `SwitchAnswered`, `Listed` and `Unlisted` are what the functions of the
page do then. Answers come in any order. An upload is `InitAnswered` (with `InitLimited` and
`InitRetried` for the answer 429), `ObjectPut` or `PutAborted`, `CompleteServed`, `CompleteAnswered`, then
`NextFile`. An event handler, with the effects that React runs after it (`Effects`: reload on a change of
section, folder or workspace; drop the selection; the clean-up that marks the request of the trail as
stale), is one step.

Abstractions. A handler of the disk is one step here, whose outcomes include every point at which it may
fail: a purge stops after any of its objects (`CutShort`) or before the folders, a restoration after the
folders of a batch or between two items, and an upload whose object is not what the token says loses the
object or keeps it. A request for several folders goes on after such a failure, so what it may leave is a
set of disks (`FolderPurged`, `FolderBack`, `FileBack`). The two requests of a `Promise.all` are served together. Names and
dates are ranks, and a refusal for any reason is the outcome `Refused`. Retries after 429 are bounded by
`MaxTries`.

### Runs

| Run | Instance | Shows |
|---|---|---|
| `FilesPage.cfg` | 4 files, 2 folders, 2 workspaces, 3 clicks, 1 trouble, 8 habits; 253,000 states | the types, the four about the page's state (`SelectionKindsAgree`, `SelectionIsListed`, `TrailIsOfTheOpenFolder`, `OneDialogCommandAtATime`), `OneTransferAtATime`, three about the disk (`FoldersFormATree`, `RowsStayWithTheirFolder`, `OnlyTheActiveWorkspaceChanges`), `ErasedWasConfirmed`, and that `UploadsEnd` and `CommandsEnd` |
| `FilesCancelled.cfg` | two files dropped | `WaitingFilesAreSent` is violated (finding 5) |

Bounds. The disk starts with a file, a folder with an archive in it, a file in the trash, and
room for one more of each kind. Three clicks are enough to select, ask and confirm, or to start a flow, go
elsewhere and start another. Confirming, cancelling and picking a target in a dialog cost no click. One
trouble is a lost request, a lost answer or a switch of the workspace in another tab. A habit is the
families of commands that one behaviour uses: the run takes eight of them, so that commands that touch the
same part of the page meet and the rest is not multiplied in. A rule for larger instances is in section 8.

Fairness. `WF_vars(Working)`: a request under way ends, since browser and server both give up in time, and
the page handles an answer it has. Nothing is assumed of the user, and because clicks are bounded, weak
fairness of the whole is enough: after the last click only finitely many steps of `Working` are left to take.
`CHECK_DEADLOCK FALSE` is set because the user may stop.

### Finding

5. Cancelling aborts the file that is being sent; `runUploads` leaves its loop
   (`FileManager.tsx:385`) and the files after it stay `pending`, which `UploadProgressPanel` shows as an
   upload that goes on. `src/.cursor/rules/08-api-contracts.mdc` line 18 says never to fake progress.

## 5. Getting in: accounts, invites and the second factor

### Modules

* `Admission`: the abstract specification. A workspace is for who has spent an invite, which was
  open, once.
* `Accounts`: the tables and the handlers of `service/auth.go` behind the middleware of
  `httpapi/router.go`, statement by statement: `Outcomes(d, c)` is what the next step of call c may make of
  the tables and of the call.
* `OtpCells` and `PasswordPolicy`: the fields for codes and passwords, as functions.
* `Portal`: the pages of `app/auth`, the guards of the layouts and of `middleware.ts`, the cookie, and the
  administrator's pages for users, invites and domains.
* `MCPortal`: the instance. `PortalInvariant` and `PortalProofs`: the theorems.

### How they correspond to the code

| Variable | Code |
|---|---|
| `db` | users, invites, sessions, the secrets given out, and the allowed domains |
| `jar[b]` | the session cookie of browser b, shared by its tabs |
| `tab[t]` | the page that tab t shows and the state of its form or list |
| `calls` | asynchronous functions of the pages, each with its request: where the handler stands, the cookie it was sent with, the answer; `live` is cleared when the page is left |
| `clicks`, `troubles`, `may` | the bounds, and what each tab is used for |

`Serve` takes one step of a handler. What a function of a page does with its answer is an action of
its own (`InviteVerified`, `Registered`, `LoggedIn`, `CodeRefused`, `CodeAccepted`, `CodeConfirmed`,
`SecretShown`, `LoggedOut`, `Listed`, `ToggleDone`, `IssueDone`, `RevokeDone`, `DeleteDone`,
`DomainsShown`, `CommandFailed`), as are the timers (`TimerFires`, 450 ms after success; `Debounced`, the
search) and a navigation (`PageArrives`). An answer sets the cookie when it arrives, also when its page
is gone. `OtpEffect` is the effect that sends a full code.

Deleted invites and their users are kept as history (`by`), so that the refinement can tell who
spent what. Hashes, e-mail texts, the audit log and the error of `Revoke` at logout, which the code
ignores, are left out; the switch of workspaces is in `FileManager`.

### Run

`Access.cfg` (three users, two browsers with three tabs, two invites, 219,734 states) starts in eight
situations: two people with one invite, with and without the administrator revoking it; a login while the
administrator blocks; two tabs that set up the second factor; an account that comes and goes; the
administrator alone. It shows the types, `ImplementsAdmission`, `BlockedUsersAreOut`,
`OneVerificationAtATime`, `CodesAreSentOnce`, `OfferedPasswordsAreAccepted`, `FormsEnd` and
`SuccessLeadsOn`. Codes have two digits here, which is enough for a full, a partial and a wrong code. Each
start says how many clicks each tab has (up to three); one request or answer may be lost.
Fairness is that of the page of the disk, for the same reasons.

What the run does not promise, and the model shows:

* `Admission` allows a person with a spent invite and no workspace: `Register` can fail after
  `Consume`, and the loser of a race for an invite keeps an account without a workspace.
* The premises of `SuccessLeadsOn` are needed. A second tab that opens the setup after the first has
  confirmed replaces the secret, the navigation leads back to the setup, and its form stays
  at success; and a late answer to a logout clears the cookie of a new login.
* `OfferedPasswordsAreAccepted` holds as far as both sides count alike: a password of eight UTF-16 units
  and seven runes is accepted by the page and refused by the back end.
* In the list of invites, ticks survive a new list (`AdminInvitesPage.tsx:69`), so that a bulk
  deletion can name rows that are not on the screen.

## 6. Administration: departments, models and training requests

### Modules

* `Handlers`: the form of a handler that runs in steps.
* `OrgSync`: the structure read from Bitrix24, links, workspaces and memberships (`service/bitrix.go`,
  `service/workspace.go`).
* `ModelLifecycle`: the abstract specification of the registry. Nothing is served that was not
  approved; a refused or disabled model never is again.
* `ModelRegistry` (`service/model.go`) and `TrainingRequests` (`service/training.go`).
* `AdminPages`: the pages for Bitrix24, workspaces, models and training requests, and the users' page for
  such requests, over these handlers.
* `MCAdminPages`: the instance. `HandlerProofs`: lemmas about single handlers and about the walk up the
  departments. `AdminPagesProofs`: the theorems.

### How they correspond to the code

| Variable | Code |
|---|---|
| `db.org` | the mirrored departments and users with the departments each is in, the webhook, the mutex of Sync and how the last run ended, workspaces, department links, members with role and source |
| `db.registry`, `db.training` | `ml_models` (status and alias), `training_requests` (status, author, reviewer) |
| `tab[t]` | the page of tab t: its list, its `busy`, the search and its timer |
| `calls` | a command of a page (`cmd`) with the request it waits for (`fn`), where its handler stands and what it has read; `calm` is history, see below |
| `clicks`, `troubles` | the bounds: clicks of each tab; handlers that stop or answers that are lost (`stop`), and handlers that nobody waits for any longer (`away`) |

`Serve` takes one step of a handler; `Lose` loses a request or an answer, or stops a handler at any statement.
A handler may also outlive the page's interest in it, and then its call goes on as a `"lost"` one, whose
answer nobody hears: `CutOff` tells the page of an error while the handler goes on (`apiFetch` throws when the
connection breaks), and `Reopen` leaves a page and opens it again. `busy` is state of a component and a
`fetch` is not aborted on leaving (`AdminModelsPage.tsx:28`, `69`), so the page is free again at once, and one
administrator may have two commands under way. What the functions of a page that is left would still read, and
the page in between, are left out. `GoesOn`, `Ends` and `Fails` are what a page does with an answer.
`OrgOutcomes` has the reads of Sync, the fall-back to the departments that users name, `ReplaceSnapshot`, and
`ApplyMemberships` one row at a time, in any order, from the lists that were read before. `ModelOutcomes`
reads, checks, takes the other models of the purpose out of service and puts the new one in, each in a step of
its own. A link is checked and put in two steps (`LinkDepartment`, `CreateFromDepartment`), and the list of
workspaces is read in two (`ListAdmin`). `TrainingOutcomes` reads, checks and writes, and the write compares
nothing. The walk of `DepartmentCoverage` is a recursive function (`Walk`), as it is a loop in the code;
`BelongsTo` is what it should find, by the n-th ancestors (`Up`).

Abstractions. Notices, error texts, audit rows, counters, names and slugs are left out; the two reads of the
snapshot are served together, and so are the two writes of a disconnection. Accounts are constant, so that the
read of their addresses is one with that of the people. One process is assumed for the mutex of Sync, as
deployed.

### Run

`Administration.cfg` (441,145 states) has eleven starts, of one to three tabs with up to three clicks and one
handler that stops, four with up to three clicks and one page that is left or cut off, and beside them 5,120
structures of up to three departments with links, circles and unlisted parents included, on which nothing
happens. It shows the types and

* `CoverageIsNearest`: the walk up the departments agrees with the definition by the nearest ancestor that
  passes its workspace on, in each of these structures;
* `AppliedIsDesired`: after an application that ended well and was `calm` (nobody changed what it
  had read), the members are those the structure and the links ask for;
* `LocalMembersAreKept`: whatever fails, a member that Bitrix24 did not bring stays unchanged;
* `ImplementsModelLifecycle`;
* `OnlyOverlapsShareAnAlias`: two models come under one alias only by the last statement of a deployment that
  has been overtaken, one after whose `UndeployPurpose` another model of the purpose came into service
  (no longer `calm`). Models with the name of a purpose are set aside: `slugRe` allows a chat
  model called "ocr", which would be served under the alias of that purpose;
* `DecisionsStand`: only a command that had read a request before its decision overturns it;
* `CommandsEnd`: no failure leaves a page busy.

What it does not promise, and the model shows: two deployments that overlap can leave two models
under one alias (`service/model.go:148`), for which one administrator is enough who is told of an error
while the first goes on; and one that fails half way leaves none; an approval and a
cancellation that overlap overturn each other (`service/training.go:180`); "without the departments
below" sends the workspace of the row that is shown, which may be an old one
(`AdminBitrixPage.tsx:156`); two administrators who make workspaces from one department both pass the check
for a link, and the second takes the link over.

Fairness is again `WF_vars(Working)`.


## 7. What is proved

### Ingestion

`IngestPipelineProofs` proves, for every set of files, workers and handlers and every bound:

| Theorem | Statement |
|---|---|
| `TypeCorrect` | `Spec => []TypeOK` |
| `AttemptsFenceClaims` | `Spec => []AttemptsFence` |
| `NothingStranded` | `Spec => []NoStrandedVersion` |
| `FinishedJobsStay` | `Spec => FinishedStaysFinished` |
| `Refinement` | `Spec => ImplementsLifecycle` |

Assumptions: `MaxAttempts` is positive, the bounds are natural numbers, `NoFile` is not a file and
every file has a content. The modules of the runs extend the module, so TLC evaluates them.

The argument. None of the safety properties is inductive alone, so `IndInv` joins them with:

* `WorkerLocals`: a busy worker's job is not queued, and its attempt number is between 1 and the
  job's attempts and not written off. Without it a claim could hand out a number in use.
* `JobRows`: a job that is still queued has no attempts, and only attempts made can be lost.
* `RequestLocals`: a handler past a certain point has a version, before it a file.
* `FreshVersions`: the id a handler is about to insert is its own.
* `JobOrder`: job rows are handed out in order, so that the job just enqueued is the version's last.
* `AllAccounted`, the strengthening of `NoStrandedVersion`: the attempts of a running job are each lost or in
  the hands of a worker that has not passed its verdict. "There are attempts left" is not inductive: it
  does not say who has the job when the last one is spent.

`AttemptsFence` follows because a claim takes attempts + 1, which `WorkerLocals` says nobody holds.
For `AllAccounted`: a claim adds an attempt that is in hand; a crash turns one in
hand into a lost one; a worker that passes its verdict takes the version out of queued and running, or
finds it out already, which is why a late `FinishJob` cannot strand it; a retry starts
from a version that has a verdict and brings its own job. Then either attempts are left, or one is in hand, or all
are lost, which is `NoStrandedVersion`. The refinement then needs only the guards
of the statements and `FreshVersions` (a version is inserted once).

### Vectorization

`VectorizeProofs` proves, for every set of files, sizes, workers and handlers and every bound:

| Theorem | Statement |
|---|---|
| `TypeCorrect` | `Spec => []TypeOK` |
| `IndexedFilesAreComplete` | `Spec => []IndexedIsComplete`, the empty vectors of the gateway being any |
| `NothingIsLeftBehind` | `Spec => []NothingLeftBehind` |
| `CompletedJobsCover` | `Spec => CompletedCoversItsFiles` |

Assumptions: those of ingestion; `DefaultSize` is a size; `Pieces` counts no more than `MaxPieces`; and
a file that gives no chunks by one size gives none by any other (`chunkText` returns nothing only for a
text without a word). The last one is needed: a row may say indexed with no chunks, and the worker
looks at such a file again.

The argument. `IndInv` is `Always`, which holds in every state, and `Quiet`, which holds until
`disturbed`:

* `Always`: types; an idle worker's locals are empty and a busy one holds a claim (`WorkerLocals`); no
  attempts at a queued job (`JobRows`); a file that is gone has no row, and the count of an indexed row
  is that of some size (`FileRows`).
* `Alone`: one worker at most is busy, and none while a clear or a detach is half done.
* `Listed`: the row of a file still to do is the row that was listed, unless the file is gone. This makes
  the stale copy that `indexFile` decides by harmless.
* `PassSoFar`: between the delete and the last insert the file has exactly the chunks inserted so far, which
  are those passed so far but for the blank ones.
  With `Listed` it shows that a file being rewritten is not on record as indexed with chunks.
* `IndexedComplete`, `Unattached`: the two properties file by file, which hold although handlers of other
  files are half way. `Covered`: a listed file that is no longer to do has its verdict.

There is a lemma for each kind of step: what it does to the locals, to the chunks of each file,
and so to `Quiet`.

### Getting in

`PortalProofs`, with the invariant and the steps of the pages in `PortalInvariant`, proves,
for every set of users, invites, domains, tabs and browsers, every length of a code and every bound:

| Theorem | Statement |
|---|---|
| `InvHolds` | `Spec => []IndInv` |
| `TypesAreKept` | `Spec => []TypeOK` |
| `VerificationsAreSingle` | `Spec => []OneVerificationAtATime` |
| `PasswordsAreAccepted` | `Spec => []OfferedPasswordsAreAccepted` |
| `CodesGoOffOnce` | `Spec => CodesAreSentOnce` |
| `BlockedStayOut` | `Spec => BlockedUsersAreOut` |
| `RegistrationAdmits` | `Spec => ImplementsAdmission` |

Assumptions: `PeopleAreNamed`, `TabsHaveBrowsers`, `CodesHaveDigits` and `FieldsAreFilled` say what the
constants are; `StartsAreStates`, that what is stored at first could have come about: an invite made one
account, and that account has a workspace.

The argument. `IndInv` has three parts.

* `TypesInv`: types; what the fields of a page say of each other (`PageOK`: a full code was
  tried, and only a full one); where each call can stand (`CallOK`); and that a call which is still live
  belongs to the page that its tab shows (`Fits`). The last part is what makes late answers harmless.
* `OtpInv`: at most one live call of a tab is about a code, and a form at "verifying" has its call.
  A code is sent again only when it was typed anew because the form remembers the code it tried.
* `AdmissionInv`: an invite makes one account; a `Register` between its inserts has an account without
  an invite, and after `Consume` one with it; and one call at most is creating a user. The refinement needs the
  last part: only then is it this account that the compare-and-set on the invite admits.

The list of calls is dealt with once, in `Follows`: a step removes some, marks some as left and adds some.
There is a lemma for each action of the pages, one for each handler, and `Result` says what any step of a
handler may make of the tables and of its call.

The proof found a fault of the model. `CodeConfirmed` began the request for the user's data as a live one even when
the page of its form had been left; it now has the `live` of the call it follows, as the effect in the code does.

### Administration

`AdminPagesProofs` proves, for every set of tabs, departments, Bitrix24 users, accounts, workspaces, models
and requests, every structure that Bitrix24 may answer, and every number of clicks and troubles:

| Theorem | Statement |
|---|---|
| `KindsAreKept` | `Spec => []TypeOK` |
| `CoverageIsTheNearest` | `Spec => []CoverageIsNearest` |
| `ApplicationsAreRight` | `Spec => []AppliedIsDesired` |
| `OnlyOverlapsShare` | `Spec => OnlyOverlapsShareAnAlias` |
| `LocalMembersStay` | `Spec => LocalMembersAreKept` |
| `DecisionsAreFinal` | `Spec => DecisionsStand` |
| `RegistryRefines` | `Spec => ImplementsModelLifecycle` |

Assumptions: `AccountIsOne`, `DeptsAreFinite`, `PurposesKnown`, `WorkersAreUsers` and `TabsAreFinite` say what
the constants are; `StructuresAreSuch`, what Bitrix24 may answer (any parents, circles and unknown ones too);
`StartsAreStates`, that what is stored at first is well-formed and a page shows what it was sent.

The argument. `IndInv` has four parts, and TLC has found it true on the instance of the run.

* `IsStored(db)`: the tables are well-formed, and every link and every local member is of a workspace that
  exists. This is what makes the insert of a new workspace's owner harmless: there is no row it
  could overwrite.
* `Pages(tab)`: each page lists what it is for, so a command from it never names something else.
* `CallsOf(tab, db.org, calls)`: each handler stands where it can stand, called by a page that has such a
  command (`Asks`), and has read what it writes by: a status its verb allows (`ModelCall`), draft or submitted
  (`TrainingCall`), lists of members and departments (`Typed`), and for a synchronization `Applies`.
* `Bounds`: clicks and troubles are counted.

There is a lemma for each handler that says what a step of it does to its table, and one for each kind of
step that the calls keep their form; the sequence of calls is treated as the set of its elements.

* The walk. Induction over data is not within the prover's reach, but induction over what is left of a finite
  set is: of the departments that a walk has not seen there are fewer with each step, and a set of
  numbers that is not empty has a least one (`Least`, `Induct`). By it `Walk` is shown to be defined
  (`WalkIsDefined`), to follow the ancestors (`WalkFollowsUp`), and to stop at the first that is marked or find
  none (`WalkStops`, `WalkRunsOut`), with circles and unlisted parents.
* `AppliedIsDesired`. While a calm application writes (`Applies`, `RowsLeft`), each row is still to do or
  settled; those still to be written are desired ones and those still to be removed are not. As
  what it read is still what is stored, nothing is left to do at its end but what is desired.
* `OnlyOverlapsShareAnAlias` needs `NamesInv` beside `IndInv`: a served model has the alias that
  `SetDeployed` gives it (`IsNamed`), and a deployment past `UndeployPurpose` that is still calm finds no other
  served model of its purpose (`Cleared`). Only `SetDeployed` brings a model into service (`CommandServes`).
* `LocalMembersAreKept` rests on the conditions on `source` in the two statements that write, the upsert and the
  delete (`repository/workspace.go:157` and `164`). That the handler looks at `GetMember` before it
  writes would not be enough: the read may fail, or be of a row that has changed since.

### The disk and its page

`FileManagerProofs`, over the lemmas of `DiskProofs` about each handler of the disk, proves, for every set of
files, folders and workspaces, every disk at first and every bound:

| Theorem | Statement |
|---|---|
| `Invariance` | `Spec => []IndInv` |
| `TypesAreKept` | `Spec => []TypeOK` |
| `KindsAgree` | `Spec => []SelectionKindsAgree` |
| `SelectedIsListed` | `Spec => []SelectionIsListed` |
| `TransfersAreSingle` | `Spec => []OneTransferAtATime` |
| `TrailFollows` | `Spec => []TrailIsOfTheOpenFolder` |
| `DialogCommandsAreSingle` | `Spec => []OneDialogCommandAtATime` |
| `FoldersStayATree` | `Spec => []FoldersFormATree` |
| `RowsStay` | `Spec => []RowsStayWithTheirFolder` |
| `OthersAreLeftAlone` | `Spec => OnlyTheActiveWorkspaceChanges` |
| `ErasingIsConfirmed` | `Spec => ErasedWasConfirmed` |

Assumptions: `IdsAreNumbers` (files and folders are numbered as they were created, finitely many),
`NamesAreRanked`, `PageAssumption` and `BoundsAssumption` say what the constants are; `StoredAssumption`, that
the disk at first is one that the handlers can have left (`IsStored`): its folders are a forest, its rows are
in folders of their own workspace, and nothing is under a number that was not given out. It may hold rows
without objects, and rows in the trash.

The argument. `IndInv` joins the properties with what makes them inductive, and TLC has found it true on the
instance of the run:

* `IsStored(disk)`. Ids that were not given out have no row, so that a new row overwrites none and nothing
  is under a new folder.
* `PageFits`: a dialog is about an id of its kind, and what a dialog for the selection is to erase was selected
  when it was opened.
* `FlowsFit`: each flow still has requests that the user agreed to (`Asked`), the live request for a trail is
  for the folder that is open, and `dialogBusy` has its one flow.
* `UploadsFit`: the upload under way is of the jobs the page shows, and what its token names is its own
  (`Claimed`): the key was given out, and the row under it and the folder are of the token's workspace as
  long as they exist.

Three lemmas carry the rest. `EffectsFit` deals once with what React does after a render: every action of the
page is shown to leave a page that is fit before its effects (`Before`), whatever they then start, drop or
mark as stale. `OutcomesAreServed` says of every request what `Keeps` says of a handler: the disk stays
stored, rows of other workspaces stay as they are, and an object goes only if it was `Confirmed`. And a
handler that repeats another (`BulkMoveFiles` and its like, `RestoreTrash`) keeps what a single one keeps,
by induction over what is left of a finite set (`FoldStays`), as for the walk up the departments; where
one may stop half way, the fold carries the set of all it may have left.

* The forest. `CollectSubtreeIDs` is the least set that holds a folder and all that is under its members, so
  facts about it are had by showing a set closed (`SubtreeIsLeast`). A move hangs p under a folder that is not
  below p, and nothing above the target then is; a restoration moves a folder to the top if its parent is
  not active, or leaves it where it was.
* `ErasedWasConfirmed` needs the history in each request: flows keep only ids in `consent.ids`, which only
  grows, while a subtree is collected when the request is served, from the disk as it is by then. The one
  object that goes unasked is the one a token names when its upload is refused: `UploadCompleteIsFine` shows
  that it has no row, as a key that has one ends the request before.

What the proof does not touch: two moves in statements that each pass the check (section 8), as a handler is
one step here.

### Only model-checked

Liveness under fairness, which is beyond the prover: `EventuallyDecided`, `VectorizationEnds`, `UploadsEnd`,
`CommandsEnd`, `FormsEnd` and `SuccessLeadsOn`. And the five violations.

## 8. Not modelled, and what is left

Not modelled: the chat (`service/chat.go` and `ChatPage.tsx`), the chunker, the rate limiter, the pages for
documents, knowledge bases, storage and the proxy; and, because they are formats, bytes,
cryptography or calls to other services, archives, file types, encryption, the clients, the AI
runtime, the model gateway and the deployment. Hazards of parts that are not modelled are listed in
`PROJECT.json` with a note.

In this order:

1. The chat: `Send` and `Patch` on one thread (`service/chat.go:280`), the window of 200 messages
   (`repository/chat.go:211`), and the page, whose `onSend` and `patchActive` work with the thread that was
   open when they began.
2. The handlers of the disk in statements, as those of `Accounts` are: two moves that make a circle, a
   purge against an upload or a move, one token completed twice. Then the disk with `IngestPipeline` (a
   version keeps the key of a purged file) and `Vectorize`.
3. `chunkText` as a recursive function over classes of characters, against a reference definition of
   coverage and overlap; and the rate limiter.
4. Proofs: the disk in statements, when it is modelled so (2); what `UploadsEnd` rests on, that
   each step of `Working` brings a run nearer to its end, as an action property.

Larger instances of the page of the disk: add a click or a trouble and split `Habits` over several
runs, one habit each.
