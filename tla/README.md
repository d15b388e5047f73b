# BlogHub: TLA+ models of its jobs, sessions, drafts, remotes, logins and workspace

BlogHub is a web application (FastAPI and SQLite) in which a user writes
articles with the help of AI agents and publishes them to Dev.to, Hashnode and
Medium. The hard part of the program is what goes on behind the requests: a
durable job queue in SQLite, worker processes that take jobs from it, side effects at
remote platforms that must not happen twice, long-lived agent sessions whose turns run
as jobs while the user goes on editing in a page that saves by itself, a three-way
synchronization with platforms where the user edits as well, logins in processes and
browsers that only a table remembers, and a workspace of database and files that is
backed up, restored and re-encrypted while it is used. This directory holds TLA+ models
of that, configurations that check them with TLC, and proofs that TLAPS checks.

All paths below are relative to the repository's root. `store/`, `workers/`,
`routers/` and `services/` stand for `backend/store/` and so on.

## 1. The system

### Processes

| Process | Code | How many |
|---|---|---|
| API | `backend/main.py`, `routers/*` | one, its handlers run in threads |
| Worker | `scripts/bloghub_worker.py`, `workers/worker.py` | any number; each has a main thread and, per job, a monitor thread |
| CLI runner | `cli-runner/main.py` | one; starts the CLIs of the providers and headless browsers |
| Browser | `screens/*` | any number of tabs, each polls |

They share one SQLite file. A store method that writes runs in its own
transaction. Some take the *workspace lock* (`store/locking.py`, an RLock inside
a process and a file lock between processes) around a read and the write that
depends on it; many do not, and between their `SELECT` and their `UPDATE` any
other process may commit. **Which method takes the lock decides what may
interleave, and the models split a method into steps exactly where the code
leaves a gap.**

### Components

For each: the state it keeps, its operations, whom it interacts with, what is
hard about it, and what makes it correct.

**Durable job queue** (`store/job_queue.py`; tables `jobs`, `job_attempts`,
`job_effects`). Operations: `create_job`, `claim_job` (which first recovers
orphans in the same transaction), `heartbeat_job`, `checkpoint_job`,
`complete_job`, `fail_job`, `defer_job`, `request_job_cancellation`,
`retry_job`, `begin_job_effect`, `complete_job_effect`, `abort_job_effect`.
Called by the API (create, cancel, retry) and by the workers (the rest). Hard:
leases that lapse while their worker lives; methods that read, decide and write
without a lock; several counters compared in several places. Correct when: a
job has one owner, the ledger of attempts tells the truth, attempts are bounded,
a job comes to an end, and an operator's cancel or retry does what it says.

**Worker** (`workers/worker.py`, `workers/handlers.py`). State: the claim it
believes to hold, its control point, the flags its monitor sets. Operations:
`run_once` (claim, handler, complete, fail or defer), `run_effect`,
`_monitor_job` (heartbeats, cancellation, timeout), `_mark_session_terminal`,
and the seven handlers (push, inspect, regenerate, generate, sync, browser publish,
chat turn). Hard: crashes between any two store calls, a lease lost while
the handler runs, a timeout or a cancellation that arrives together with the
result. Correct when: a publication happens at most once, its result is
recorded and resumed from.

**Job API** (`routers/jobs.py`): cancel and retry by an operator, listing,
metrics.

**Synchronization schedules** (`job_queue.py:530-615`, table `sync_schedules`):
upsert, delete, `enqueue_due_sync_jobs`, which every worker calls at the start
of `run_once`. Hard: two workers and one due schedule; a crash between the
insertion of the job and the advance of `next_run_at`; a deletion, which takes no
lock, in between; an outage of several intervals. Correct when: an occurrence is
enqueued once, and an outage is caught up by one job.

**Article revisions and patches** (`store/article_revisions.py`,
`services/article_patches.py`, `routers/patches.py`, `routers/articles.py`). State:
the article row, its head revision, the revisions, the text in a blob file
beside the database, patches with the revision they were written for. Operations:
`save_article_revision` (with an expected revision, or forced),
`restore_article_revision`, checkpoint, `add_patch`, `apply_patch`, `accept`,
`reject`, `apply_pending_session_patch`. Writers: the editor, agents, restores,
synchronizations. Correct when: no writer overwrites work it has not seen; an
accepted patch is in the article; blob and revision agree.

**Editor** (`screens/editor/v2.html`). State, per tab: the text, the revision it is
believed to be based on, the autosave timer, an open conflict, what the indicator
shows; per browser: a recovery copy of the draft in `localStorage`. Operations:
`loadArticle` with `recoverLocalDraft`, `onInput`, `saveDraft`, the three answers to a
conflict, checkpoint, restore, `acceptPatch` with `reloadArticleHead`, the `online`
event. Hard: every handler awaits a response while the user types, closes the tab or
loses the network; the recovery copy is written and removed by half of the handlers.
Correct when: no edit is lost before its author drops it, and what is shown as saved is
saved.

**Agent sessions and chat turns** (`store/agent_sessions.py`,
`routers/agent_sessions.py`, `services/agent_chat.py`). State: the session's
status, its event log (the last `turn_started` without a `turn_completed` is a
turn under way), messages, tool calls, approvals, outputs, the runner's process
of the session. Operations: turn, close, resume, cancel, archive, tool calls,
approvals, recovery at API startup, expiry; `run_turn` in a worker. Hard: a turn is
a dozen transactions long and every request may fall between two of them; the
status has several writers and no owner. Correct when: turns do not overlap, a
busy session has a job that ends it, an edit lands once, between turns, on the
revision it was made for.

**Article generation and regeneration** (`routers/agent.py`, `services/agent_service.py`,
`handle_generate`, `handle_regenerate`). Generation creates an article, a session and a job
under an idempotency key; regeneration asks the provider for patches of an article's
comments, deletes the old ones and adds the new ones one by one. Hard: two requests with one
key; attempts cut off between the deletion and the last patch; comments deleted
meanwhile. Correct when: a key is one job and its answer names the article the job
writes; the patches of an article are those of one answer.

**Remote synchronization and reconciliation** (`services/hashnode_sync.py`,
`services/medium_sync.py`, `services/reconciliation.py`, `services/push.py`,
`store/reconciliation.py`, `store/remote_articles.py`, `routers/articles.py`). State: per
remote article an identity with the fingerprint of the last common content (the
baseline), observations of it, open conflicts, the draft an article's destination names.
Operations: synchronization of all articles, refresh of one, resolution of a conflict,
push, import. The platform's own editor changes the other side. Hard: an identity without
a baseline; listings that fail in part; steps of two calls between fetch and save;
baselines that four writers set. Correct when: a difference on both sides is a conflict and
never a silent overwrite, what is absent from a listing is not taken for deleted, and
what was edited remotely arrives.

**Browser publishing** (`services/browser_publish.py`, `store/browser_publish.py`,
`routers/articles.py`): runs that wait for approval, execute as a job and end completed,
failed or, after a crash, not at all. Hard: approval and job are created in two
transactions; the upload may have happened or not. Correct when: an approved run ends.

**Provider connections and login** (`services/connection_auth.py`,
`store/connection_auth.py`, `store/browser_connections.py`, `routers/connections.py`,
`routers/agent_sessions.py`, `cli-runner/main.py`). Two kinds. A CLI agent is logged in by a
*flow*: a row that waits for an authorization, and a process in the runner that holds the
other end; a page polls it every two seconds. A publishing platform is logged in by a
*browser session* in Skyvern in which the user signs in, kept as a profile. Hard: polls,
callbacks, cancellations, disconnections and expiry each write flow and connection without
a guard; the runner remembers one process per provider; sessions and profiles have no name
but the one in the row. Correct when: what waits has something that ends the waiting, what is
offered as connected works, and no process, open browser or signed-in profile is forgotten.

**Workspace** (`store/backends/sqlite.py`, `store/article_revisions.py`,
`store/backups.py`, `store/crypto.py`, `scripts/bloghub_db.py`,
`scripts/bloghub_credentials.py`). State: the SQLite file, the directory of blobs (bodies
and assets) beside it, the bundles, the keyring. Operations: create, save, delete
articles, store an asset, reset; backup and the scheduled backup with its pruning,
restore; save, erase, rotate and retire credentials; opening the store, which
re-encrypts, seeds and repairs. Hard: no transaction covers a row and its file; a crash
or a full disk between any two of them; a restore that replaces two paths one after the
other; re-encryption that reads and writes back without a lock. Correct when: rows and files
agree, a bundle is the workspace of one moment, a restore is all or nothing, and a secret
is the last one given and can be read.

**The rest**: users and their cookies, image download, renderers, scraping, and the other
screens are either stateless, single-row operations, or pure input and output. They appear
in the models as calls that succeed or fail and as clients that send requests.

## 2. Modules

| Module | Models | Kind |
|---|---|---|
| `DurableJobs` | queue, worker, job API | state machine |
| `OnceOnlyEffects` | what `run_effect` promises | abstract specification |
| `DurableJobsEffects` | `DurableJobs` implements `OnceOnlyEffects` | refinement |
| `DurableJobsProofs` | | proofs about the queue and its effects |
| `AgentTurns` | session, its turns, jobs, workers, requests, patches | state machine |
| `TurnProofs` | | proofs about the session |
| `DraftProofs` | | proofs about the revisions and the editor |
| `ArticleRevisions` | revisions, body file, workspace lock, the saves | state machine, extended by the next |
| `ArticleHistory` | what the store of the revisions promises | abstract specification |
| `ArticleRevisionsHistory` | `ArticleRevisions` implements `ArticleHistory` | refinement |
| `DraftEditor` | the editor's tabs on top of the revisions, other writers | state machine |
| `RemoteSync` | one platform: synchronization, refresh, resolution, push, browser publishing, import | state machine |
| `RemoteProofs`, `BaselineProofs` | | proofs about remotes |
| `AgentLogin` | flows, connection and login processes of one CLI agent | state machine |
| `BrowserLogin` | the row, browser sessions and profiles of one publishing platform | state machine |
| `LoginProofs` | | proofs about the logins |
| `Workspace` | database, files, bundles, restore, keyring | state machine |
| `JobProducers` | schedules, generate requests, regenerations | state machine |
| `ProducerProofs` | | proofs about the producers, and about both side by side |
| `WorkspaceProofs` | | proofs about the workspace |
| `MC_DurableJobs`, `MC_AgentTurns`, `MC_DraftEditor`, `MC_RemoteSync` | | instances for TLC |
| `MC_Logins`, `MC_Workspace` | two machines side by side, one of them at work in a behaviour | instances for TLC |

`RemoteSync`, the logins, `Workspace` and `JobProducers` share a form. Their state has a
*scope*, chosen in the initial state and never changed: the operations, and the kinds of trouble,
that occur in a behaviour. An operation's guard asks the scope. A run checks the sum of its
scopes: operations that meet in the code are in one scope, those that never meet are in
two, and the state space is a sum instead of a product. A *risk* is a member of a scope that
stands for an event the code does not protect itself against; without it the event does not
happen at the bad moment. Section 3 lists the risks and what each breaks.

### DurableJobs

`jobs[j]` is the row of a job, `attempts[j]` its rows in `job_attempts`,
`effects[j][e]` its row in `job_effects`. `worker[w].pc` is where a worker stands
in `run_once`, `run_effect` or the handler, and `request[c]` is an API request that
has read a row and not yet written.

*One transaction, one action.* `ClaimJob` includes the recovery of all orphans
that `claim_job` performs first; `PollEmpty` is the same when nothing is
claimable. `CompleteJob`, `HeartbeatJob` and `CheckpointJob` test the claim inside
their `UPDATE`. `BeginEffect` is `check_stopped` and `begin_job_effect` together:
the second repeats the first's test of the claim and runs under the lock.

*A read and a write, two actions.* `fail_job`, `defer_job`,
`request_job_cancellation` and `retry_job` read in one statement and write in
another, by job id only; `complete_job_effect` and `abort_job_effect` read the
claim and then write the effect. They are `CheckFail`/`FailJob`,
`CheckDefer`/`DeferJob`, `CheckCancel`/`RequestJobCancellation`,
`CheckRetry`/`RetryJob`, `CheckResult`/`CompleteJobEffect` and
`CheckAbort`/`AbortJobEffect`; what was read travels in `worker[w].seen` or
`request[c].seen`.

*The handler* is the shape of `handle_push`: `Plan[j]` is a sequence of effects,
each run under `run_effect` unless the checkpoint lists it, each followed by a
checkpoint; between any two steps it may raise any of the exceptions `run_once`
distinguishes. A plan with a `Releasable` effect is `handle_generate`, whose call of
the provider is released by any exception it raises (`release_on_error`); the effects of a
push stay in doubt.

*Time* is nondeterministic: `LeaseLapses`, `BackoffElapses`, `LifetimeEnds`,
`AttemptTimesOut`. With `Punctual` a lease lapses only when nobody executes the
job (heartbeats come in time); without it a worker may stall for as long as it
likes, which is when two workers believe they hold one job.

*Crashes.* `Crash` takes a worker anywhere, `JobLeaseLost` raised from an except
clause (`worker.py:194-216`) ends it the same way, `Restart` brings it back.

Not kept here: the status of the job's session (that is `AgentTurns`), the
enqueueing of due schedules at the start of `run_once` (`JobProducers`), named queues and
idempotency keys, "database is locked" errors, the sharing of one SQLite
connection by the API's threads, and the restarted worker's fresh id (a worker
restarts under its old name, which gives it no right it had lost, because a
lapsed claim is cleared before the name could match).

### OnceOnlyEffects and the refinement

The abstract table has a key per job and effect. `Call` takes a free key,
`Return` lets the operation come back, once; `Record` needs that it came back, and
`Release` that it did not and that the key is of a repeatable kind. There is no
other step: no operation is called twice unless its key was released, and none that
returned is called again. `DurableJobsEffects` maps the queue to it
by `EffectPhase` (a row that is running or uncertain keeps its key taken) and
`KeepsPromise` is the abstract specification under this mapping.

### AgentTurns

One session, its article, its `chat_turn` jobs (one per turn), the workers that run
them and the API requests in flight. The article is the list of the authors of
its revisions: the properties ask whose work was there, never what it said.

*Requests* are processes. `ReadSession` is where `run_chat_turn` and
`close_session` test for a turn in progress and the expected revision;
`ReadPatch`, `SavePatch`, `AcceptPatch` are `apply_pending_session_patch` and
`apply_patch`; then `ResumeSession`, `StartTurn`, `CreateJob`, or `CloseSession`.
`ReadUnlinkedPatch` is the accept endpoint, `CheckResume`, `CancelChat`,
`CheckCancel`, `CancelSession`, `CheckArchive`, `ArchiveSession` the others.

*A turn* is `run_turn`: `StreamChat`, then, for Codex, the tool call that
announces its article read, then the stream, which may fail, ask for an approval,
or end with an edited article, a reply, or nothing; `AddPatch`, `AddOutput`,
`AddReply`, `TurnCompleted`, and the test and the write of the final status
(`CheckRunning`, `WaitForInput`). An exception leads to `CheckFailure` and
`FailSession`. `TurnReturns`, `SettleJob` and `MarkSessionTerminal` are what
`handle_chat_turn`, `complete_job`/`fail_job` and `run_once` do with the outcome.

*The queue* is reduced to punctual heartbeats: what late heartbeats do to a job
is `DurableJobs`' subject. *Operations* names the requests and faults an instance
allows. `Spaced` says that requests do not meet half-way: none starts while another has read the
session and not yet written to it, nor while a turn that has completed may still write
the status it leaves (`Lingering`). Once a turn is queued, requests come at
any moment, and `TurnInProgress`, the check of `run_chat_turn`, alone refuses them. The page does not
promise the spacing: `sendChat` waits for `saveDraft` and `ensureAgentSession` before it
empties or disables its input (`screens/editor/v2.html:933-947`), so a double Enter sends
two turns.

Abstracted or left out: several sessions of one article, deletion and export, the
contents of messages and events, the approval and tool-call endpoints for
external tools, reads that follow one another (one step). The editor resumes a
session before it posts a turn (`v2.html:968-975`), the same step as the resume
inside `run_chat_turn`. A retried turn of a failed session never succeeds,
because `handle_chat_turn` looks at the session's status (`handlers.py:305`); this
is in `TurnVerdict`.

### ArticleRevisions and DraftEditor

A text is the set of the edits in it: typing adds an edit, and a text without an edit
that another had has lost it. A manual merge, which puts both texts between conflict
markers, is the union. Edit 0 belongs to a patch that was made for the first revision.

*The store.* `calls[c]` is a request or a worker's job on its way through the API and
`save_article_revision`. `RefuseSave`, `SkipSave` and `WriteBody` each are the comparison under
the workspace lock with its outcome; `CommitRevision` is the transaction that follows the
write of the body file, and `Dying` may fall between the two. `ReadBody` and `ReadHead`
are the two reads of the article endpoint; a checkpoint reads the body before it saves
it; `ReadPatch` and `MarkAccepted` surround the save of a patch.

*The editor.* `tab[t]` holds the globals of the page and `fetch[r]` the request it
awaits. Each handler up to its `await` is an action (`Type`, `TimerFires`, `KeepLocal`,
`CreateCheckpoint`...), what follows the response another (`ArticleLoaded`,
`SaveSucceeds`, `SaveFails`, `Refused`, `TextReplaced`...). `CloseTab` may come at any
moment; its requests go on and `Abandoned` is the fate of their responses, or of requests that
never arrive. `tab[t].waived` and `discarded` are history: what a user saw and chose to
replace or to drop.

*Other writers.* `WriterReads` is a job that saves what it made of the head and names it
(a synchronization, `hashnode_sync.py:264-272`); `PersistGeneration` names no base
(`agent_service.py:103-110`) and replaces what is there.

*Risks* names what may happen at a bad moment: a save between the two reads of a load or
a network that returns to a loading page (`racing_load`), a death between body and
commit (`torn_save`), a save that takes longer than the autosave delay of two seconds
(`slow_save`), a user who acts before all is saved (`hasty`), a user who keeps a draft
the editor does not show (`trusting`). The passing run has none of them, and every one of
them breaks one of its properties: section 3 says how.

Left out: titles, saves of the title alone, partial reads of a body file that is being
replaced, the resolution of remote conflicts (in `RemoteSync`), deletion (in `Workspace`),
the two tabs of one browser that share a recovery copy (an instance may have them:
`OneBrowser`).

### ArticleHistory and the refinement

The abstract specification is what a caller of the store may rely on, without files, rows, locks or
processes: the sequence of the texts, whether the patch is accepted, and what each caller asked and was
told. A request takes effect at one moment between its arrival and its answer: `Load` sees the newest
text and its number, `Commit` adds a text to the one the request names, `Skip` leaves a text that would
not change, `Refuse` names the newest revision, and a patch is accepted (`Accept`) after it was saved.
`Fail` is the death of a process: what it had been asked fails, applied or not.

`ArticleRevisionsHistory` maps the store to it. The moment of a save is its comparison if it is refused
or changes nothing, and its transaction otherwise: `WriteBody`, which comes first, is a stutter, and
the workspace lock is why the comparison still holds. The moment of a load is the second of its reads
(`ReadHead`); `ReadBody` and the reads before a checkpoint or a patch are stutters. What a call has
read by then is nobody's business until it is answered, and `CallOf` hides it. `KeepsHistory` is the
abstract specification under this mapping.

### RemoteSync

One platform (`scope.platform`) and one user's articles. `article[a]` is the row with its
text, revision number and destination; `remote[r]` what the provider holds; `identity[r]` the
row of `remote_article_identities` with its baseline, `Unknown` when its fingerprint is NULL;
`latest[a]` the newest observation. A text is the set of the edits in it, with its leading
heading as one more element, because a push takes the heading off (`Rendered`) and needs
it for the title (`Titled`). A fingerprint is the text.

*A synchronization* is a process `sync[s]`. `ListAll` asks one source, drafts first and
published articles after; `ListPart` is a source that fails half-way, `ListLimited`
Medium's limit, `Detail` Medium's articles one by one, `Unreachable` no answer. Per article
`Locate` (`get_or_create_remote_article`: `LocateKnown` or `LocateNew`), `Compare` (the three-way
comparison), `Save` with its expected revision, `Metadata`, `Mark` (the baseline), `Observe` or
`Report`; `GiveUp` is an article whose step raises. Each is one transaction of
`_sync_article`. A refresh (`about` is the article) is a synchronization that concludes from
an absence at the end (`EndSync`).

*Resolution* is `StartResolve`, then `UseRemote`, `MarkResolved`, `ObserveResolved`. *A push*
is the gate (`RequestPush`), `ReadForPush`, the operation, `ApplyPush`, `MarkPush`,
`ObservePush`; what `run_effect` does when it is cut off is `DurableJobs`' subject, so
`CrashPush` resumes with the stored result. *Browser publishing* is `RequestRun`, `ApproveRun`,
`CreateRunJob`, `ReadForRun` and the login check, `OperateRun`, `IdentifyRun`, `ApplyRun`,
`CompleteRun`. `Import` is `POST /import`. `Edit` is the user, `Author`, `Post` and `Remove` are what
happens at the provider.

History: `mine` and `waived` are the edits a user made and gave up, `had` and `shown` the
texts each side ever had, `open` the conflicts reported and not settled, `source` the remote
an article was made for.

Abstracted: what a page or an API answers; titles, tags and dates; the planning tail that a
renderer strips, in `Rendered`; cover images are a step that may fail.

### AgentLogin and BrowserLogin

`AgentLogin`: `flows` are the rows of `connection_auth_flows`, `conn` the row of
`connections`, `procs` the login processes of the runner with whether a code or an authorization
has reached them, `session` the one the runner has registered, `cli` whether the CLI holds a
credential. A request `reqs[c]` is at the call or the transaction it does next. `Spawn` is
`auth_login` up to the process, `Register` its registration when the process has printed an
address, up to 23 seconds later, `CreateFlow` the transaction after the answer. `ReadFlow` is the
endpoint of a flow (poll, callback, cancel), whose every read first expires what is overdue
(`Expire`). `CheckAge`, `Whoami` and `LookAtProcess` are what `auth_status` reads one after the
other, the registered process and its age, the CLI, and whether that process still runs;
`Answer` is its last look at the table. `SaveConnection` and `UpdateFlow` are the two transactions of a poll
that heard "connected". `Disconnect`, `ClearConnection`, `Logout` are the three steps of a disconnection. `Authorize`, `LogIn`, `GiveUp`,
`Age`, `Lapse` are the user's browser, the CLI and time; `RunnerRestarts` and `ApiRestarts` take
what is in memory. What a provider rejects, limits or fails is one outcome, `failed`.

`BrowserLogin`: `link` is the row of `browser_connections`, `sessions` and `profiles` what Skyvern
keeps. A start closes the unfinished session if it can (`CloseOld`), opens one (`OpenSession`) and
stores it; a completion marks the row, closes the session and makes or reuses the profile
(`FinishNew`, `FinishReused`, `FinishForeign`, `FinishFails`) and records the verdict; a profile of
another organization is deleted again, or left behind when that fails (`DeleteForeign`). A
disconnection closes, deletes and erases. A closing or a deletion may take effect though its
answer comes too late and the request fails (`lost`).

### Workspace and JobProducers

`Workspace`: `db` is the committed database, `pending[p]` what a process's connection has written
and not committed, `files` the directory of blobs. A row stands for an article and its latest
revision. `op[p]` is what a process does and where it stands: `Write` writes the file,
`CommitWrite` the rows; `BeginDelete`, `RemoveFiles`, `CommitDelete` are `delete_articles` in its
order; `CommitLeftover` is a transaction that a failed operation left open and a later write
commits. `Start` to `EnsureRevisions` is `SQLiteStore.__init__`; `BeginBackup`, `CopyFiles`, `Publish`
is `create_backup`; `MoveDatabaseOut` to `DropOldFiles` are the file operations of `restore_backup`,
`RestoreFails` its except branch. `SaveSecret`, `EraseSecret`, `RotateKey`, `RetireKeys` are the
credential commands. `Fails`, `Crash` and `Damage` are the troubles: what a half-done write or removal
may leave is `CutFiles`. `torn`, `latest` and `swap.old` are history. A secret has a row or not:
`delete_connection` empties the row of a connection, a reset deletes it, and a re-encryption that read the
secret before writes to no row (`Reencrypted`). The URLs of browsers are saved under the workspace lock,
tokens without it (`MayWriteSecret`).

`JobProducers`: `ReadDue` and `EnqueueDue` are the two statements of `enqueue_due_sync_jobs`,
`FindJob`, `CreateDraft`, `CreateSession`, `CreateGenerateJob` the steps of `generate_article`,
`AskProvider`, `DeletePatches`, `AddPatch`, `FinishRegenerate` those of `handle_regenerate`, whose provider
call is an effect: an attempt that finds it completed uses the recorded answer, one that
finds it running fails the job.

## 3. What the runs check

Every run finishes within five minutes with two workers of TLC. The runs that pass:

| Run | Instance | Properties |
|---|---|---|
| `jobs_faults` | 1 job with a releasable and a publishing effect, 2 workers, late heartbeats, 1 operator, 2 attempts, 1 retry | `TypeOK`, `AtMostOncePublication`, `AttemptBudget`, `KeepsPromise` |
| `jobs_crashes` | 2 jobs (one with a lifetime), 2 workers, punctual, no operator, fair | `OneOpenAttempt`, `LeaseIsRespected`, `EveryJobSettles` |
| `turns_orderly` | 2 requests at a time, spaced, that post and close, resume and archive, accept and reject, an editor, 2 workers, 3 turns, a provider that answers | `OneTurnAtATime`, `NoOrphanTurn`, `RefusalIsEditors` |
| `turns_faults` | Codex, 2 workers, every fault and request but approvals, an editor, 1 edit, API restarts | `TypeOK`, `LandsOnceOnItsBase`, `AcceptedHasLanded` |
| `turns_end` | 2 turns, timeouts, provider errors, 1 approval, 1 crash, fair | `BusyEnds` |
| `drafts_saves` | 1 tab opened twice, 2 requests, 1 job, 1 generation, 2 edits beside the patch's, 3 revisions, 1 outage or crash, no risks | `TypeOK`, `NoBlindOverwrite`, `EditsSurvive`, `KeepsHistory` |
| `remote_protected` | 2 synchronizations, 3 articles, 2 remote articles, 2 edits, 1 call, 1 fault, 16 scopes, fair | `TypeOK`, `NoSilentOverwrite`, `BaselineWasShared`, `DeletedIsGone`, `SyncImportsOnce`, `RemoteEditsArrive`, `ApprovedRunEnds` |
| `logins` | an agent (2 requests, 2 logins, 1 fault, 15 scopes) or a platform (2 requests, 3 sessions, 2 faults, 6 scopes), fair | `TypesOK`, `WaitingIsBacked`, `ConnectedWorks`, `NothingOrphaned`, `LoginsEnd` |
| `workspace` | a workspace (2 processes, 2 articles, 2 keys, 1 trouble, 10 scopes) or the producers (2 workers, 2 requests, 2 regenerations, 2 cuts, 3 scopes), fair | `TypesOK`, `RowsMatchFiles`, `BundlesAreWhole`, `RestoreIsAtomic`, `SecretsSurvive`, `OneCatchUp`, `AnswerNamesTheArticle`, `PatchesAreOneAnswer`, `OpensAgain`, `ProducersEnd` |

What they say, in words:

- *Publishing.* However often workers crash, stall, lose leases and time out, and
  however often an operator cancels and retries, the operation of an effect that
  cannot be released starts at most once per job, and an operation that returned is never
  run again.
- *Attempts.* A job is attempted at most `max_attempts` times plus once per
  explicit retry. With punctual heartbeats, exactly the newest attempt is open and
  only while the job runs; a live lease is ended by its own worker only; every job
  finishes, fails, expires or is parked.
- *Turns.* As long as requests do not meet half-way, turns do not overlap whenever they are
  asked for, a session that refuses turns has a job that ends it, and an edit is refused only if the editor has saved since.
- *Edits.* With any racing requests, a queued edit is saved once and onto its base,
  and a patch marked accepted has been saved.
- *Drafts.* A revision that
  names its base keeps every edit of it, or its author saw the edit and chose to replace
  or to drop it; an edit is in the history or in a recovery copy until its author drops it, wherever
  the tab is closed.
- *History.* Loads, saves, checkpoints, restores and accepted patches that overlap, and are cut off by
  the death of their process, look to every caller as if each had happened at one moment or failed; so a save that names its base
  replaces that very revision.
- *Remotes.* No synchronization takes out of an article what the user wrote there, unless he
  chose the remote version; every baseline is a text both sides had; absence from a
  listing is taken for deletion only when it is one, whichever source fails and whatever is
  published in between; synchronizations that overlap, crash and start again import a remote
  article once; a remote edit arrives or is a reported conflict; an approved run ends.
- *Logins.* A connection that waits has a login that waits; what is offered as connected
  has a CLI that is logged in, or a profile that is signed in and not deleted; no login
  process, open browser or signed-in profile is forgotten; every login and every
  verification ends, as connected when it was authorized and nothing fails. All of this outside
  the risks named below.
- *Workspace.* Whatever is killed or fails, every row has its file with the text of the
  latest revision, but for an article whose last save was cut off; a published bundle is the
  workspace of one moment; a restore that fails between its moves puts everything back;
  every stored secret is the last one given and can be decrypted; and whoever was stopped
  opens the workspace again.
- *Producers.* An outage of a schedule is caught up by one job; one key is one generate job;
  the suggestions of an article are those of one answer, each comment is marked exactly
  when it has one, and an agent's queued edit stays; due schedules are served and
  regenerations end.

### Bounds

`MaxAttempts` is 2 where the code's default is 3: two attempts make a first, a
retried and a last one, and every comparison of the counter is exercised on both
sides. `MaxRetries` 1 makes the budget grow once, `MaxTurns` bounds the jobs a
session creates, `MaxEdits`, `MaxApprovals` and `MaxCrashes` the events of these
kinds in an instance of `AgentTurns`; crashes of `DurableJobs` are unbounded.
`DraftEditor` bounds the edits, the revisions (a save at the bound waits), the opens of a
tab (the second is the reload), the generations, and outages and deaths together; with
one more revision there are over twenty million states, too many for a run, and TLC met no
violation in the first of them. Two
workers are enough for a worker that lost its lease and its successor; two jobs let one wait behind another. Two effects in one plan
let one be completed while the other is in doubt. The proofs (section 4) have no
bounds.

`RemoteSync` has three articles because a deleted or a second article must not be taken for
the first, two edits so that each side has one, and one call and one fault: every property is
about one push, run or resolution among synchronizations, which are not bounded. A second remote
article is in a scope of its own. Two logins are the one under way and its successor; three
sessions of a platform are a login, its renewal and what is left behind, and two faults one that
loses something and one that hides it. The workspace has two processes because the lock
excludes one from the other, a second article that nobody touches, and two keys, an old and a
new one. `Retain` 1 makes every second bundle prune the first. Two cuts and two
attempts end a regeneration; five hours and two intervals let a schedule miss an
occurrence, and be changed.

### Fairness

`DurableJobs`: a worker that can take its next step does (it is a loop in a
process that runs), a dead worker is restarted (`docker-compose.yml:34-53`,
`restart: unless-stopped`; the launcher `start.py:254-258` does *not* restart it, and
under it nothing of this kind holds), a backoff elapses and the lease of a job
nobody executes runs out (they are times in the future), and a request that has
read its row writes it. Nothing is assumed of operators: they may never come, and
they may come at the worst moment. Weak fairness suffices: each of these stays
enabled until it happens.

`AgentTurns`: the workers poll and run, an accepted request is carried through, the
lease of a dead worker runs out. No fairness on arrivals, editors, faults or
restarts.

`RemoteSync`: a schedule starts synchronizations again and again (`enqueue_due_sync_jobs`), and
no call stops between two of its steps: requests and jobs go on, and a listing has a timeout.
Weak fairness suffices: faults are bounded, and nothing else takes a step away from a call. Nothing is assumed of users,
authors, approvals or refreshes.

`LoginFairness`: requests go on, because every call of the runner has a timeout; a page that
shows a login polls it every two seconds and is answered again and again, for which strong
fairness is needed because other requests come in between; the CLI takes up an authorization;
time passes. `BrowserFairness`: requests go on.

`WorkFairness`: an operation that began goes on, a process that is down is started again and
gets the lock if it is free again and again, and a connection that holds a leftover
transaction writes some day. `ProducerFairness`: workers poll, and the queue delivers a job until it
settles, which `EveryJobSettles` is about.

Deadlock is not checked: a system whose jobs are all finished and whose bounds are
used up does stop.

### Seeded faults

Beside an action or an operator stands, marked *Seeded fault*, a variant with a bug one could
plausibly write: an attempt that is not counted, a release on every failure, a lost base
check, a synchronization that lists published articles first, a process that is not
terminated, a rotation that drops the old keys. With the variant in place of the original, the
run finds the property violated; there is one for each property of each passing run
(`PROJECT.json`, "mutants").

### Risks

What the code does not protect against, as members of the scopes of an instance. Adding
one to a scope breaks the property named. The passing runs of `RemoteSync` and `Workspace`
have none of these. The one of the logins has all but `torn`, to check everything else beside
them, and there the part of a property that a risk breaks names the risk and excuses it.

| Module | Risk | What happens | Broken |
|---|---|---|---|
| `RemoteSync` | `unmarked` | the user edits an article whose identity has no baseline, after a crash during an import or a browser publish of an article that had none | `NoSilentOverwrite` |
| | `sync_during_push` | a synchronization that fetched before a push saves after it | `NoSilentOverwrite` |
| | `edit_during_push` | the user saves while his article is pushed: `handlers.py` records the newer revision as the baseline | `BaselineWasShared`, `NoSilentOverwrite` |
| | `tokenless` | a push without a token is simulated and still records a baseline | `BaselineWasShared`, `NoSilentOverwrite` |
| | `limit` | Medium has more articles than a listing gives | `DeletedIsGone` |
| | `second` | an article without a draft is pushed although a remote article is mapped to it, or by two calls that each create one | `RemoteEditsArrive` |
| | `import` with `push` or `publish` | an import gives the draft of one article to another of the same title | `NoSilentOverwrite` |
| `AgentLogin` | `two_tabs` | two starts at a time | `NothingOrphaned` |
| | `overlap` | a disconnection overlaps another request | `ConnectedWorks` |
| | `torn` | the API dies between the deletion of the flows and of the connection | `WaitingIsBacked` |
| | `late`, `reject` | the user authorizes too late, or the callback is refused | `LoginsEnd` (`AuthorizedConnects`) |
| | `race` | the CLI stores its credential and ends after a poll has asked it and before the poll looks at its process | `LoginsEnd` (`AuthorizedConnects`) |
| `BrowserLogin` | `complete_too`, `lost`, `outage`, `crash`, `two_requests` | overlapping completions, lost answers, failing closes, deaths | `NothingOrphaned` (`ProfileIsKnown`, `SessionIsKnown`); after a death `VerifyingEnds` |
| | `disconnect` with `lost` or `complete_too` | a deletion that is done but answered too late, or one under a completion | `ConnectedWorks` |
| | `foreign` with `outage` | the profile of another organization cannot be deleted again | `NothingOrphaned` (`ProfileIsKnown`) |
| `Workspace` | `crash_delete` | a death between the removal of the files and the commit of a deletion | `RowsMatchFiles` |
| | `crash_restore` | a death inside a restore | `RestoreIsAtomic` |
| | `replace_early` | a restore fails before anything was moved, or at its end | `RestoreIsAtomic` (run `restore_failed`) |
| | `online`, `early`, `old` | a rotation beside writers, a retirement before the next start, a bundle older than a retired key | `SecretsSurvive` |

`DraftEditor`'s risks are among the divergences below.

### Divergences from the documentation

Three runs state what a document or an error message says and find that the code
does otherwise.

| Run | What is said | What happens |
|---|---|---|
| `jobs_lost_cancel` | "Cancellation is immediate for unclaimed work and cooperative for running work." (`docs/background-workers.md:90`) | a cancellation between the read and the write of `fail_job` or `defer_job` leaves a waiting job that is never claimed and never canceled |
| `drafts_dialog` | "use the latest saved version, overwrite it with the recovered local draft, or create conflict markers for manual merging" (`docs/ARTICLE_REVISIONS.md:14-16`) | after a reload the editor holds the server's text, and "Keep my draft" and the merge use what the editor holds: the recovered draft is overwritten, in its only copy, by the server's text |
| `restore_failed` | "If the replacement fails, it puts the previous database and blob directory back." (`docs/database-recovery.md:100-101`) | the except branch of `restore_backup` deletes the database and the blobs that are in place before it looks whether they were moved aside (`backups.py:299`): a failure before the first move deletes both; a failure to remove the old blobs at the end comes after the old database is gone, and deletes the new one |

The models show more of this kind. These have no run of their own; each is a
behaviour one gets by adding an operation or a risk to an instance.

Of jobs, sessions and drafts:

- *Requeued while it runs.* "A running job cannot be retried" (`job_queue.py:427-428`), but
  `retry_job` tests a stale row; a job claimed in between goes back to the queue while it runs.
- *Canceled, yet sent.* "Canceling a turn terminates the provider process and marks the durable
  session as canceled." (`docs/editor-agent-chat.md:34-35`) The queued job of a canceled session
  is run all the same, and its conversation sent to the provider.
- *Resumed, yet busy.* "The editor creates or resumes a session"
  (`docs/editor-agent-chat.md:11`), but a failed turn writes no `turn_completed`
  (`agent_chat.py:121`); after the editor's resume (`v2.html:968-975`) the session is busy with no
  job behind it, and refuses every turn and close.
- *Accepted, never applied.* The chat command `patch apply` (`routers/articles.py:1027`) marks a
  patch accepted and saves nothing.
- *Answered twice.* `chat_turn` runs outside `run_effect`: a retried turn stores its answer, and
  its edit, again.
- *Lost update.* With `racing_load`, a page gets the new revision with the old text; its next
  save passes the comparison and overwrites what was saved in between, where
  `docs/ARTICLE_REVISIONS.md:12-13` has a stale editor refused. It breaks `KeepsHistory` as well.
- *Torn save.* With `torn_save`, the body file holds a text that is no revision. A reload finds
  it equal to the recovery copy and removes the copy (`v2.html:1315-1318`), although only
  "successful saves remove that recovery copy" (`docs/ARTICLE_REVISIONS.md:19-20`); the next
  save from the head discards the text. `KeepsHistory` fails too: a load returns a text that was never saved.
- *Saved, it says.* With `slow_save`, two saves of a tab overlap: the second is refused for the
  first, and the first one's late success shows "saved" for a text that is not.
- *Replaced under the fingers.* With `hasty`, the response of a restore or of an accepted patch
  replaces what was typed meanwhile and removes its recovery copy
  (`v2.html:778-782`, `1302-1308`).
- *Dropped, then saved.* `showConflict` (`v2.html:456-463`) leaves the autosave timer of the edits
  typed before it running, and nothing else stops it while the dialog asks. It sends a save under the
  dialog; that save is refused after the user took the latest text and typed on, and opens a second
  dialog; the timer of what he typed saves it onto the latest revision while he drops it. The article
  then holds the dropped text, and the editor shows the latest one, calls it saved, and takes that
  save's revision for its base. The proof of `NoBlindOverwrite` found this one; the author saw that
  text, so the property counts it as dropped.
- *Kept, then replaced.* Two tabs of one browser (`OneBrowser`, an outage, no risks). One restores an
  older version; before the response, the network goes and returns, and the `online` event sets that tab's
  timer (`v2.html:1336-1338`), because the other tab has left a recovery copy of the article they share.
  The autosave is refused for the restore; the user keeps his draft, and its save goes out; the late
  response of the restore puts the old version into the editor, and the answer of the save makes the
  draft its base. What he types next is saved over the draft he kept, without a question, where
  `docs/ARTICLE_REVISIONS.md:12-13` has a stale editor refused: `NoBlindOverwrite` fails after 31 steps.
  The proof of that property under outages asked for a browser of its own for each tab; TLC showed why.
- *Empty draft.* With `racing_load`, the `online` event of a page that is still loading saves
  its empty text over the recovery copy (`v2.html:1336-1338`).
- *Codex, second turn.* The runner announces the article read of every Codex turn under one
  tool id (`cli-runner/main.py:1047`); a tool call is idempotent by session and id, so the second
  turn finds it completed and fails (`store/agent_sessions.py:280-281`).
- *Late cancel.* `request_job_cancellation` returns a finished job as it is
  (`job_queue.py:311-312`), but from a stale read it turns a completed job into a
  canceled one.
- *Stranded.* With late heartbeats, a `fail_job` that stalls between read and write
  puts a job whose last attempt is under way to `waiting`; no attempt is left to
  claim it (`docs/background-workers.md:44` describes `waiting` as delayed or parked).
- *Parked again.* A parked job "must be reconciled and retried explicitly"
  (`docs/background-workers.md:54-56`), but nothing settles an uncertain effect: each
  retry parks it again.
- *Canceled, yet failed.* `cancel_session` ends the process first
  (`routers/agent_sessions.py:304`); the dying turn writes `failed`, and
  `cancel_agent_session` then returns the terminal session as it is.
- *Interrupted, yet replayed.* Sessions interrupted by a restart are "never
  automatically replayed" (`docs/agent-session-persistence.md:13-14`), but the
  recovered `chat_turn` job sends the conversation again.
- *Canceled, yet waiting.* `run_turn` tests the status and writes
  `waiting_for_input` in two transactions (`agent_chat.py:116-120`): a cancellation in
  between is overwritten. For the same reason a status written late by a finished
  turn, or by `_mark_session_terminal`, may hit the next one: a turn that was posted between
  `turn_completed` and that write runs in a session that says it waits, and a third may start beside it.
- *Two turns.* An approval moves the status away from `running` while the stream goes
  on; after it is resolved, a second turn starts beside the first. Two requests that
  both pass the test before either opens its turn overlap as well: a double Enter is enough, because
  `sendChat` waits twice before it empties its input (`v2.html:933-947`).
- *Conflict with oneself.* A turn that times out after it queued its edit queues it
  again; applying the newer copy makes the older stale, and the next boundary is
  refused with a revision conflict although the only newer work is the agent's
  (`docs/editor-agent-chat.md:19-20` speaks of newer editor work).
- *Edit in the middle of a turn.* Between `add_patch` and `add_agent_output`
  (`agent_chat.py:96-99`) the patch is an ordinary one that the accept endpoint applies,
  where `docs/editor-agent-chat.md:18-19` says only at a boundary.
- *Stuck.* Recovery that ends a `chat_turn` after its last attempt does not mark the
  session (`job_queue.py:184`, compare `worker.py:198-216`): it stays busy for ever. This
  is why `turns_end` allows fewer crashes than attempts.

Of remotes:

- *Conflict hidden.* A push is refused while a conflict is unresolved (`routers/articles.py:517`),
  but only the newest observation is asked (`store/reconciliation.py:111`), and a refresh that finds
  the article inaccessible (`services/reconciliation.py:40-63`), or a second remote article,
  records a newer one. The gate opens.
- *Conflict again.* Keeping the local version leaves the baseline, so the next synchronization
  reports the conflict anew; a push whose text was edited before the synchronization gives
  a conflict with what was pushed.
- *Older for good.* Of two synchronizations that overlap, the one that fetched first may save
  last; the older text then counts as a local change, and the newer never comes.
- *Second draft.* A synchronization of a published article clears the draft its destination
  names (`sync_remote_article_metadata`), and the next push makes another remote draft; the two
  then take turns in the article. `POST /import` makes an article without an identity, and the
  next synchronization makes another.
- *One draft, two articles.* `import_article` looks for an article with the same title and writes
  the imported draft into its destination (`routers/articles.py:690-705`), without looking whether the draft is
  mapped to another article. A push of the second article then overwrites the remote of the
  first, and the next synchronization takes the user's edits out of the first article
  without a conflict. The proof of `EditsAreKept` found this; TLC confirms it with an instance that has both calls.
- *Pushed once.* A push renders the text without its heading, the synchronization brings that
  back, and the next push finds no title. A failed push leaves the destination `pending`.
- *Over the author.* A push writes the draft without looking whether it changed, and a browser
  publish has no gate at all.
- *Running for ever.* The approval of a browser publish is committed before its job
  (`routers/articles.py:584`), and `recover_browser_publish_runs`, which would end what a crash
  left, is never called.

Of logins:

- *Process lost.* Two starts overlap: the first one's process leaves the table and runs on. A
  poll that was answered before a new start ends whatever is registered by then. A flow that
  the backend times out leaves its process to the next login or logout.
- *Connected after logout.* A poll that overlaps a disconnection saves `connected` after it. With an
  unreachable runner a disconnection leaves the CLI logged in.
- *Connected, then canceled.* A cancellation "cancels an unfinished attempt without logging out an
  already connected agent" (`docs/agent-web-login.md:24-26`). The CLI stays logged in, but start
  and cancellation write their status over the connection's, and turns of the agent are refused
  (`store/connection_auth.py:169`, `routers/agent_sessions.py:125`).
- *Logged in, yet failed.* A poll asks the CLI, which takes up to ten seconds, and then whether its
  process still runs (`cli-runner/main.py:770-791`, `806-847`). A CLI that stores its credential and
  ends in between has neither: the flow and the connection say failed, and the CLI is logged in.
- *Waiting for nobody.* The API dies between the two transactions of a disconnection: the
  connection waits, and no flow is there to end it.
- *Deleted, then connected.* A completion that overlaps a disconnection and the next login brings
  the deleted profile back as connected; a disconnection that dies between Skyvern and the row
  leaves a row that can be neither disconnected nor started again. So does one that is given up on: the
  backend waits 70 seconds for the runner (`services/cli_runner.py:433-439`), the runner 120 for Skyvern
  (`skyvern_browser.py:56`), and a deletion that is done in between is reported as a failure
  (`routers/connections.py:635-639`) while the row stays connected.
- *Signed in, unknown.* A completion finds that the new profile belongs to another organization and
  deletes it; when that fails it goes on (`routers/connections.py:602-614`), and the signed-in profile
  is named by no row.

Of the workspace and the producers:

- *Row without a file.* A death between the removal of the files and the commit of a deletion
  (`sqlite.py:769`) leaves an article whose file is gone, and every later backup fails on it. A failing
  removal leaves the transaction open: the next write of the process commits it, and saves of
  other processes fail with "database is locked" after they wrote their file.
- *No database.* A restore that dies between its moves leaves none; the next start seeds an
  empty one, and the old copy stays in a hidden directory. A restore takes no lock, and needs a
  database that opens.
- *Erased, then back.* `reencrypt_connection_credentials` reads and writes back without the lock: a
  token saved or erased in between is overwritten by the old one. `rotate` re-encrypts tokens
  only; browser URLs wait for the next start, and `retire` before it makes them unreadable.
- *Bundles.* A corrupt newest bundle stops the scheduled backups; `verify` has no checksum of
  the blobs.
- *One key, two articles.* Of two generate requests with one key the second answers with an
  article of its own that no job writes; a death before the job leaves a draft and a session.
- *Patches of two answers.* Two regenerations of an article mix their patches. A patch for a
  comment that is gone fails every attempt, after the earlier patches were deleted.
- *After the deletion.* A schedule that is deleted between the two statements of
  `enqueue_due_sync_jobs` is enqueued once more.

The instances of the passing runs leave these operations out where they would be hit, and
say so in their names or their scopes: `Orderly` has no cancellation, provider error, timeout,
crash or restart, and its requests are spaced; `Protected` takes no risk.

## 4. What is proved

The proofs are about all the state machines: `DurableJobs`, `AgentTurns`, `DraftEditor`,
`RemoteSync`, `AgentLogin` and `BrowserLogin` side by side as in `MC_Logins`, `JobProducers` and
`Workspace`, each alone and side by side as in `MC_Workspace`. They hold for every set of jobs, workers, requests, effects, plans, articles,
processes and scopes, all bounds, and both values of the
switches unless a theorem says otherwise; their only assumptions are the named
assumptions on the constants (`DurableJobsAssumption`, `AgentTurnsAssumption`, `RevisionsAssumption`,
`EditorAssumption`, `RemoteAssumption`, `LoginAssumption`, `BrowserAssumption`,
`ProducerAssumption`, `WorkAssumption`).

**Types and frames** (`DurableJobsProofs`). `TypeCorrect`. An action changes one row;
`TypesAndFrames` strengthens the type invariant by `FrameOK`: a worker between the
start and the end of `run_effect` stands at a step of the plan of a job that exists.
Without it `Effect(w)` could be the application of a sequence outside its domain.

**Effects** (`DurableJobsProofs`). `AtMostOncePublication` and its companions are not
inductive: they do not say who may start an operation. The invariant `EffectInv` does.
A worker *holds* an effect from `begin_job_effect` to the record or the release
(`Holds`); an effect has at most one holder, and the holder's control point tells
whether the operation has returned (`HolderOK`); a row that is gone means that the
operation never returned, and for an effect that cannot be released that it never
started (`LedgerOK`). Each step
of the queue is of one of five kinds with respect to the effects: `Quiet`, `Taken`,
`Returned`, `Recorded`, `Released` (lemma `Kinds`, action by action), and each kind
preserves the invariant (`HolderStep`, `LedgerStep`). From it follow
`PublishedAtMostOnce`, `OneOperatorAtATime`, `ReturnedAtMostOnce`,
`SettledEffectsAreFinal`, and `QueueKeepsPromise`: each kind is a step, or a stutter, of
`OnceOnlyEffects`.

**Attempts** (`DurableJobsProofs`). `AttemptsAreBudgeted`. The counter is compared with the
limit at the claim, and the limit moves in `retry_job`; `AttemptInvariant` bounds the limit by the
explicit retries and equates the length of the ledger with the counter.

**Open attempts and leases** (`DurableJobsProofs`). `AttemptsAreClosed` and
`LeasesAreRespected`, under the hypotheses `Punctual` and `Clients = {}`, those of the run
`jobs_crashes`: a worker that stalls past its lease, or a cancel or retry that writes from a stale
row, really does leave two attempts open or end somebody's lease, as section 3 describes. For
every set of jobs, workers and plans and every number of crashes and attempts, the newest attempt
of a job is open exactly while the job runs, and whoever ends a claim whose lease is alive is the
worker that holds it. `OneOpenAttempt` compares a row with its ledger, which the worker writes
together, but in `fail_job` and `defer_job` from a row it read before. `Attending` closes the gap:
a worker past its claim, wherever it stands, is the owner its job's row names, and the job is
running, or the worker is about to find that it has lost the lease. Recovery touches a job only when nobody attends it (`RecoveryLeaves`,
`RecoverAttends`), so that what a worker read is still there when it writes.

**Edits** (`TurnProofs`). `TurnTypeCorrect`, `PatchesLandOnce`, `AcceptedPatchesLanded`.
The argument needs two strengthenings. `ClientFrame`: a request about to save holds a
patch and expects its base; one about to mark a patch accepted has saved it.
`LandingInv`: a landing names an existing patch and met a revision below the current
head. Then a second landing of the same patch is impossible: the first moved the head
past its base, and `save_article_revision` compares again. This is the argument of the
code's optimistic check, with every racing request, restart and editor in it.

**Calls** (`TurnProofs`). `OneWorkerPerTurn` and `CallsAreBudgeted`. `SingleHolder` is
inductive with the types; the budget needs that a worker about to call has an attempt
not yet used for a call (`BudgetInv`).

**Turns** (`TurnProofs`). `TurnsDoNotOverlap`, `TurnsAreBacked` and `RefusalsAreEditors`, for any number
of requests, workers, turns, edits and attempts, under `OrderlyUse`: requests are `Spaced`; no failure, timeout,
crash, restart, cancellation or approval; a provider other than Codex, whose second turn fails (*Codex, second
turn*). A turn may be asked for, and a session closed, at any moment between the `turn_started` of a turn and its
`turn_completed`: what keeps turns apart is the check of `run_chat_turn`, and without it, the seeded fault of
`turns_orderly`, they overlap. The hypothesis is as weak as the code allows but for retries and expiry: with TLC,
dropping either half of `Spaced`, or adding any other operation to `turns_orderly`, violates `OneTurnAtATime` and
`RefusalIsEditors`, most also `NoOrphanTurn`; Codex, and a job canceled by an operator, violate only
`NoOrphanTurn`. Each of these is one of the divergences of section 3.

- `OrderInv`: a turn under way, from its queued job to the step that lets the session rest, is alone
  and keeps the session running. Its opening event stands without a closing one exactly while a request is about to
  queue it, its job is queued, or a worker is inside it, so the check of `run_chat_turn` refuses whoever
  comes meanwhile; `Spaced` is needed for the rest of its life. Since
  nobody dies, a running job has a worker, and recovery has nothing to do.
- `FreshInv`: the base of a turn, of its edit and of a request is the head, or the editor has saved
  since (`Fresh`); at most one edit is pending, and none when the next turn is made. So a base
  that is not the head is the editor's doing, and landing an edit makes no other one stale.

**Drafts** (`DraftProofs`). `DraftTypeCorrect` and `SavesReplaceTheirBase`, for every
set of risks. A revision is appended one step after its base was compared with the head,
so `SaveReplacesItsBase` is not inductive; `Serial` adds that whoever stands between the
two holds the workspace lock and still names the head, or named none. The dialog reads
the text of the revision that a refusal names, and a restore the text of an older one:
for their types the invariant `DraftInv` adds that no call, tab or dialog names a
revision that does not exist (`KnownCall`, `KnownTab`). There is one lemma per action of
the store and per kind of step of the editor. A caller that dies inside a save releases
the lock and leaves the body file ahead of the history, which `SaveReplacesItsBase`
survives; what the file may then show is a matter of `ShownInv` below.

`NothingOverwritten`, `NothingOverwrittenOffline` and `NoEditIsLost` state `NoBlindOverwrite` (twice)
and `EditsSurvive` for any number of tabs, browsers, requests, jobs, edits and revisions. They rest on
four invariants more, each inductive together with those it is built on.

- `ShownInv`: what a tab was shown was once saved. A load reads body and head at one moment, an answer carries the text
  of the revision it names, and a request a tab awaits is the call that tab sent. Its hypothesis
  `Attentive` excludes `racing_load`, `torn_save`, `slow_save` and `hasty`, each of which breaks it
  (*Lost update* to *Replaced under the fingers*); `trusting`, the user who keeps a draft the editor
  does not show, is allowed.
- `KeepInv`: whatever may yet replace the latest revision, be it a save on its way, a tab, or a recovery
  copy that a reload will pick up, contains that revision's text or was made by somebody who chose to drop it. A tab awaits
  one request at most. `NothingOverwritten` assumes `[]online`: while an action is awaited that will
  replace the text, no autosave is due, and the `online` event is what breaks this, since it sets the
  timer whatever the tab awaits (`v2.html:1336-1338`), if only the browser has a recovery copy.
- `RestInv`: a tab in a browser of its own that is at rest (saved, nothing due, nothing asked) has no
  copy, unless it awaits the save that will drop it; and a tab that awaits what replaces its text is at
  rest, so the event leaves it alone. It is not inductive without the saves in flight: a save either
  carries what the copy holds, or is `Hopeless` (it will be refused, or was not accepted); one that was
  sent under the dialog cannot succeed unless the editor already shows what the dialog asks about
  (`TimerFits`); and a refusal names a revision beyond the tab's base, or one the editor has.
  `NothingOverwrittenOffline` states the property with outages and `OwnBrowsers` for `[]online`. Without
  either the property fails: see *Kept, then replaced*.
- `LossInv`: the editor or its dialog shows what the recovery copy holds; a tab that says "saved", or awaits what
  replaces its text, holds nothing unsaved; a save in flight carries all that was typed before it.
  `NoEditIsLost` needs `Risks = {}`, since `trusting` loses the recovered draft (the run `drafts_dialog`),
  and a browser for each tab (`OwnBrowsers`): two tabs that share the recovery copy overwrite each
  other's. The network may come and go.

`StoreKeepsHistory` states `KeepsHistory`, for any number of requests, jobs, tabs and revisions. Its
hypothesis `Quiet` is weaker than `Attentive`: it excludes `racing_load` and `torn_save` only, so saves
may overlap and users act early; with either of the two TLC finds the property violated. Each action of the store, and each step of a tab or a
job that sends a request or takes an answer, has a lemma that names its abstract step. They need
`FitInv`, beside `DraftInv` and `ReadInv` (the part of `ShownInv` that is about what the store read:
body and head agree): what each kind of call has in hand when it compares and when it writes. A call
that is about to write is forced or carries a text that differs from the head's; a checkpoint whose base
is the head carries the head's text, unless somebody holds the lock and will move the head; a patch
names the first revision and carries that revision's text with the patch in it; and a tab that shows the
article knows a revision, so that no request names one that does not exist.

**Remotes** (`RemoteProofs`, `BaselineProofs`). For every number of articles, remote articles,
synchronizations, edits, calls and faults. `RemoteTypeCorrect`, `ImportedOnce` and `DeletedIsTrue`
hold in every scope (the last but for `limit`, without which Medium lists everything);
`BaselinesShared` and `EditsAreKept` in every scope that is `Careful`: no risk of the kind that
breaks them, and no `import` besides `push` or `publish` (below, *One draft, two articles*).

- Types need `Frames`: what a call holds between two of its steps names articles, remotes and
  revisions that exist.
- `ImportedOnce`: a remote article is looked up and created in one transaction, the identity is
  never taken back, and what a synchronization counts as imported is what it created itself.
- `DeletedIsTrue`: a listing asks drafts first and published articles after. The invariant says
  of each source of a listing which remote articles it may still be missing, and that a listing with a source that failed
  concludes nothing.
- `BaselinesShared`: a baseline is set in a transaction apart from the one that compared or sent
  the text. `SharedInv` says for each call that stands in between what it holds: a text the remote
  had (`Reached`) and that the article had (`Old`), through deletions, other synchronizations and
  resumed pushes.
- `EditsAreKept`: a save replaces the text of the revision that was compared, and is made when
  the article equals the baseline. `EditInv` adds that a baseline that both sides had contains
  every edit of the user up to it (`OldTexts`), which `PushCarries` and `RunCarries` say of the
  text on its way; so an article without local changes has no edit the remote does not have. An
  edit made after the comparison moves the revision, and the save is refused.

**Logins** (`LoginProofs`). For every number of requests, logins, sessions and faults, and for every
scope, so also for combinations of operations that no scope of the run has. What neither the
code nor the page keeps apart is exempt in the properties themselves: `overlap`, `two_tabs`, `torn`,
`complete_too`, `lost`, `foreign` with `outage` and the others in their first disjuncts.

- Types (`LoginsTyped`) need that what a row or a request names exists (`Fits`, `CallFits`), that every
  process and flow was paid for by a start (`StartsPay`), and that a completion has room for the
  profile it may make (`RoomInv`).
- `ConnectedAlwaysWorks`, for an agent: `Credible` says that a request which was told of a credential is right until it
  has saved it, since a disconnection is alone, and that the connection does not say "connected"
  any more when the CLI is logged out. For a platform: a verdict "connected" is given two
  transactions before it is recorded, on a profile that stays signed in (`VerdictInv`). Two requests
  delete profiles: a disconnection, which never runs beside a completion (`CompletesAlone`) and, where no answer
  is lost, goes on to erase the row; and a completion that finds the profile of another organization, which no row
  and no other request names (`UnmadeInv`).
- `NothingIsOrphaned`: `Owned` says of the process of an agent that it is the registered one, or that of the one start
  under way. Of a platform, `ProfileInv` says more than the property: one profile at most is not deleted, the
  row has its name or a completion is about to give it one or to delete it again, and every start and
  disconnection under way has that name. So nobody erases or replaces the name of another. `SessionInv` says where a request
  stands while a browser is open: the login waits with it and a request is about to close it or to mark the row, or
  a request is about to hand it over.
- `WaitingBacked`: whoever ends the last login that waits moves the connection on in the same
  transaction, but for a disconnection, which takes two (`clear`). Its hypothesis `Untorn` is
  that the API does not die between them (*Waiting for nobody*).

**Producers** (`ProducerProofs`). For every number of workers, requests, regenerations, comments,
cuts and attempts. `CaughtUpByOneJob`: `ScheduleInv` relates what a pass has read to what is due, with
the pass's lock and a deletion that takes none. `OneKeyOneArticle`: `RequestInv` says that the
article and session a request has in hand are its own, and that of requests which never overlapped
one job is found by all the later ones. `OneAnswerStands`: `PatchInv` follows a regeneration from the deletion of the old
patches to its last new one, cut off and tried again with the answer it recorded. The three
producers share no state (lemma `Groups`).

**Workspace** (`WorkspaceProofs`). For every number of processes, articles, bundles, keys and
troubles. `LockInv`: one process holds the lock, one connection has a transaction, and whoever
works has a database. `SwapInv`: a restore stands alone, and where it stands tells which of old and
new is in place. `WorkTypes` is proved with them. Each of the other theorems has as its hypothesis
that the scope takes none of the risks that break its property, those of the table of risks:

- `AllOrNothing`, under `Whole` (no `crash_restore`, no `replace_early`). `Settled` adds that a
  restore that failed has put database and files back, and that files are gone only while a
  restore moves them.
- `NoSecretIsLost`, under `Guarded` (`Whole`, and none of `online`, `early`, `old`). A process that
  re-encrypts writes back what it read some steps before. `Reencrypting` says that what it read is what was
  saved last, or needs no writing, or that its row has been deleted since; `SecretInv` says when every
  secret is under the newest key, which is what lets a retirement drop the others, and that
  the bundle a restore puts in place can be read.
- `FilesFollowRows` and `BundlesOfOneMoment`, under `Uncrashed` (`Whole`, and no `crash_delete`). A
  save writes the file before the row, a deletion removes the file before the row, and a disk
  that fails or a death leaves it there. `FitInv` compares the files with two databases: the rows the next write
  continues from (`Truth`: the open transaction, or the committed database), each of which has its file, and the
  committed rows, whose files, unless a deletion has removed them already, hold the text of the
  latest revision but for the articles in `Loose`, whose save was cut off or is between its file and its row. `Working` says what the
  operation under way has done so far, and of a backup that what it has copied of the
  database fits the files it is about to copy, since it holds the lock.

**Workspace and producers together** (`ProducerProofs`, which `EXTENDS` `MC_Workspace` and
`WorkspaceProofs`). `SideBySide`: a step of `MC_Workspace` is a step of one machine that leaves the
other's variables alone, so every behaviour of the composition is one of each. `WorkspaceTyped`
is its type invariant. `ProtectedWorkspace`: where no scope takes a risk, as in `Protected`, all
that the theorems above state under their hypotheses holds in the composition without any.

**Proved, and no longer run**: `OneOperator`, `ReturnsAtMostOnce`, `EffectInv`,
`SettledEffectsStay`, `CallBudget`, `SingleHolder`, and `SaveReplacesItsBase`, which is also a part of
what `KeepsHistory` says and holds whatever the risks. The theorems state them for every value of
the constants; a run on a small instance would add nothing.

**Model-checked only**: the liveness properties (`EveryJobSettles`, `BusyEnds`,
`RemoteEditsArrive`, `ApprovedRunEnds`, `LoginsEnd`, `OpensAgain`, `ProducersEnd`), which are about
fairness and enabledness, out of this prover's reach. Every safety property of a passing run is the
subject of a theorem.

## 5. Plan

What is left to model, and what is not worth it:

- The chat's patch commands, the tool-call and approval endpoints for external tools,
  deletion and export of a session (`AgentTurns`); the synchronous generation endpoint.
- Two platforms of one article: `RemoteSync` has one, and what two would add is a destination
  each; the latest observation mixes them, as described under *Conflict hidden*.
- Two tabs in one browser, with `OneBrowser`, at bounds that a run can hold: *Kept, then replaced*
  takes TLC 25 million states.

**Not modelled.** Users and cookies, image download, the listing screens: one row or none,
and no behaviour over time. The scraping of pages, the answers of the CLIs and of the
platforms' APIs, Markdown conversion: their outcomes are chosen freely where a model asks for
them. Ciphers and file hashes: a key and a value, and a bundle that is sound or not. The vendored
experiments under `experiments/` and `blogs/*/experiment` are not part of the running
system.

Open for proof: `EditsSurvive` when tabs share a browser, under hypotheses that TLC has yet to show
sufficient. No module has a RECURSIVE operator.

## 6. Running

    tlc -workers 2 -config DurableJobs_faults.cfg MC_DurableJobs
    tlc -workers 2 -config RemoteSync_protected.cfg MC_RemoteSync
    tlc -workers 2 -config Logins.cfg MC_Logins
    tlc -workers 2 -config Workspace.cfg MC_Workspace
    tlapm DurableJobsProofs.tla
    tlapm BaselineProofs.tla
    tlapm LoginProofs.tla
    tlapm WorkspaceProofs.tla

`PROJECT.json` lists the runs with their configurations, the source lines each
definition models, the hazards each property is aimed at and the theorems.
