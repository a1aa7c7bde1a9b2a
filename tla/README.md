# Lexora: TLA+ models

Lexora is a self-hosted workspace for documents and AI chat: a NestJS API with
PostgreSQL, an agent service around LangGraph, Redis between the two, a Vue web
client and a desktop companion, the buddy, with a local runtime in Rust. Most of its
code reads or writes a few rows and is done. This project models the parts that are
not like that: the life of a chat run, the session around it, what the client sees of
it and what it leaves behind, the editing and the tree of documents, and the buddy's
runtime.

Paths are relative to the repository root.

## 1. Inventory

| Component | State it keeps | Operations | Hard behaviour |
| --- | --- | --- | --- |
| Chat run dispatcher (`apps/api/src/modules/chat/chat-run-dispatcher.service.ts`) | none of its own: status, `commandPublishedAt` and `dispatchLeaseExpiresAt` of `ChatMessageGeneration` and `ChatSessionRun` | `dispatchRun` (request and timer), `dispatchPendingRuns` | leases, several dispatchers, ambiguous publication, crash between claim, publish and mark |
| Chat run projector (`chat-run-projector.service.ts`, `modules/agent/agent-events.service.ts`) | `projectingRunIds` and part states in memory, the stream cursor | `projectRun`, `recoverRunningRuns`, four terminal or waiting transactions | checks before writes, recovery cursor, held back text, two processes, deadline |
| Chat run requests (`chat-sessions.service.ts`, `chat.service.ts`) | sessions, messages, runs | send, edit, retry, cancel, resume, switch branch, delete, get | stale reads, one active run per session, `historyVersion`, repair on read |
| Session event log (`chat-session-events.service.ts`) | `ChatSessionEvent`, sequence per session | append, list after a cursor, recovery cursor | duplicates, order |
| Agent queue and worker (`apps/agent/src/integrations/redis-streams.ts`, `runtime/command.ts`) | consumer group, in-flight set, idempotency keys | deliver, redeliver, dead-letter, acknowledge, control | at-least-once delivery, restarts, slots |
| Agent runner and lock (`core/runner.ts`, `integrations/redis-lock.ts`) | `activeRuns`, thread lock with a time to live | submit, cancel | lost replies, lock expiry, cancel of a finished run |
| Checkpoint retention (`apps/agent/src/runtime/checkpoint-retention.ts`), clean-up tasks (`apps/api/src/modules/agent/agent-runtime-cleanup-tasks.service.ts`) | checkpoints, task rows, control and result streams | enqueue, claim, publish, delete, apply a result, sweep | retries, results after the fact, running threads |
| Agent memory operations (`agent-memory-operations.service.ts`) | memories, operations per generation | propose, execute, finalise, roll back | partial failure, two sessions of one user |
| Document content (`modules/documents/content/content.service.ts`, `apps/web/src/views/docs/composables`) | projections, snapshots; the page's attempt, base and timers | save, restore, snapshot; edit, autosave, retry, leave | concurrent pages, lost replies, idempotency |
| Document tree, trash, operations (`modules/documents/{tree,trash,operations}`) | parent, workspace, visibility, trash marks, jobs | create, patch, trash, restore, remove, move, duplicate | plans from stale reads, users who see different parts, queue restarts |
| Web chat client (`apps/web/src/composables/chat`) | snapshot, event cursor, overlay of streamed parts | load, send, cancel, apply event, reconnect | gaps, torn snapshots |
| Buddy runtime supervisor (`apps/buddy/electron/main/runtime/RuntimeSupervisor.ts`) | process handle, timers, intent and generation numbers | start, stop, restart, process events | late events, processes that do not die |
| Buddy runtime (`apps/buddy/runtime/src`) | JSONL logs, SQLite rows, run registry, worker threads | start turn, cancel, answer approval, delete, shutdown, recover | two stores, cancellation races, crash recovery |
| Document publication and assets | publications, navigation, uploads | publish, inherit, render | mostly I/O |
| Workspaces, authentication, users, rbac, bots, notifications, AI models, administration | rows | single-request operations | little behaviour over time |
| Contracts, shared packages, infrastructure, docs | none | | the stripper of internal tool protocol |

How they interact: a request creates the rows of a run as PENDING and calls
`dispatchRun`; a timer calls it for every run left over. `dispatchRun` claims the
run by a conditional update, appends a generation command to the command stream
and starts a projection. The agent takes the command once per idempotency key,
runs the graph under the lock of the session's thread and appends events; while it
runs it sends memory operations to the API. The projection turns events into rows and
log entries, which the web client follows through an event stream. When the agent
needs the user (a client action), the run becomes REQUIRES_ACTION, and the answer
makes it RUNNING again with a second command under a key of its own. A cancel writes
CANCELLED and sends a control to the agent. Deleting a session enqueues a clean-up
task, which ends in the agent's checkpoint store. Documents and the buddy are apart
from all this; the buddy's supervisor and runtime meet at a process boundary.

What makes each part correct:

* dispatcher: no run is lost or dispatched under a wrong key; a claim is exclusive
  while its lease lasts;
* projector: every event is recorded once and in order, no outcome is skipped, an
  ended run stays ended, the message is what the agent wrote;
* requests: the tree of messages stays a tree with a valid selection, and a reply
  answers the history it was asked in;
* log and client: following the log shows the reply as it is stored;
* worker and runner: a command that succeeded is not executed again, every message is
  handled, a run in progress can be cancelled, one writer per checkpoint thread;
* memory: what a failed reply did to memories is undone, and the undo never fails;
* clean-up: a completed task has left no checkpoint, and in the end nothing is left;
* content: no save overwrites what it has not seen, no edit is dropped in silence;
* tree: a forest in which everybody finds what is theirs; a job's status is true;
* buddy: one run per conversation, cancellations, outcomes and deletions that hold,
  at most one runtime process.

`PROJECT.json` lists the hazards at their lines, with the properties aimed at them.

## 2. Modules

| Module | What it is |
| --- | --- |
| `AgentService` | Abstract specification of the agent as the API sees it: command keys, held keys, executions, events. |
| `ChatRun` | The API's half of a run: dispatcher, projector, cancel and resume, over the rows and the log. Extends `AgentService` and composes with it. |
| `ChatRunHistory` | `ChatRun` with a history of the agent's executions, for the order of the log. |
| `AgentWorker` | The agent's half in detail: queue, worker, lock and runner. Implements `AgentService`. |
| `ChatSession` | The session around its runs: message tree, branches, history version. |
| `ToolProtocolStripper` | The stripper of internal tool protocol, as an algorithm, with what it should compute. |
| `Projection` | Text, reasoning and tool parts of a reply, out of the agent's stream. Uses the stripper. |
| `ChatFeed` | The event stream of a session and the web client that follows it. |
| `Memory` | Memory operations of concurrent replies, finalised or rolled back. |
| `Cleanup` | Deletion of a session, the clean-up task, the agent's control handler and sweep. |
| `DocumentContent` | One document, the pages that edit it, and its history. |
| `DocumentTree` | The forest of documents, its requests and its jobs. |
| `RuntimeSupervisor` | The desktop application's supervisor of the runtime process. |
| `BuddyRun` | An agent turn in the runtime: requests, registry, worker, logs, rows, recovery. |
| `MC*` | Constants, symmetries and scenarios for TLC. |
| `ChatRunProofs`, `AgentWorkerProofs`, `ProjectionProofs`, `ChatFeedProofs`, `DocumentProofs` | Theorems about `ChatRun`, `AgentWorker`, `Projection` (with the stripper), `ChatFeed` and `DocumentContent`, with proofs that TLAPS checks (section 4). |
| `BuddyProofs` | The same for `BuddyRun` and `RuntimeSupervisor`. |
| `RetentionProofs` | The same for `Memory` and `Cleanup`. |
| `TreeProofs` | The same for `DocumentTree` and `ChatSession`. |

`ChatRun` uses the abstract agent only, and `AgentWorker` is shown to implement it:
what holds of `ChatRun` by safety holds with the detailed agent in its place. The
other modules cut the system along its own interfaces: `ChatSession`, `Projection`,
`ChatFeed` and `Memory` take from a run only that it starts, waits, completes or
stops, which is what `ChatRun` says of it.

### ChatRun

State. `run`, `gen` and `msg` are the three rows (`published` stands for
`commandPublishedAt`, `lease` for `dispatchLeaseExpiresAt`, `pending` and `resume`
for the two fields of `commandContext` that matter); `log` holds the run's entries
of the session event log with the position of the agent event they come from
(`src`, 0 for none). `disp`, `proj`, `recovering`, `cancelling` and `resuming` are the
calls in progress, with what they have read; `recovering` holds the processes whose
timer has selected the run and not yet started its projection. `phase` and `overran`
are auxiliary: the key of the command the run waits for, and whether a dispatcher
acted after its lease, or the user has answered while a projection (running, or
selected and about to start) goes on past the question.

Granularity. PostgreSQL runs these transactions at READ COMMITTED. A conditional
UPDATE re-checks its WHERE clause on the locked row, so it belongs to the write
step; a plain SELECT, even inside the transaction, is a step of its own, and that
is where stale reads come from (`CancelRead`/`CancelCommit`, `Prepare`/
`ProjectCommit`, `RecoverSelect`/`RecoverRun`). The writes of a transaction commit together.

| Code | Actions |
| --- | --- |
| send, edit, retry (`createPendingRun`, `createPendingGeneration`) | `CreateRun` |
| `dispatchRun` | `DispatchRead`, `DispatchClaim` or `DispatchLoseClaim`, `DispatchPublish` or `DispatchPublishError`, `DispatchMark` or `DispatchFail`, `DispatchProject` |
| `projectRun`, `consumeGenerationEvents` | `ProjectEvent`, `ProjectRequire`, `ProjectTimeout`, `ProjectCatch`, `ProjectCommit`, `ProjectHistoryConflict` |
| `recoverRunningRuns`, `recoverRun` | `RecoverSelect`, `RecoverRun` |
| `cancelRun`, `prepareResumeRun` | `CancelRead`, `CancelCommit`, `CancelEnded`; `ResumeRead`, `ResumeCommit` |
| environment | `ApiCrash`, `Tick`, `AgentAction` |

Abstractions: text, tool parts and payloads are one `delta` or `tool` entry; the
MESSAGE_* event that goes with each RUN_* event is not recorded separately; model
target, profile and access checks are left out; the history conflict of
`completeRun` may happen at any completion.

`ChatRunHistory` adds `doubled`: a command of the run had two outcomes or was executed
again, or two commands of it ran together (which one agent process refuses, `runner.ts:103`,
but `AgentService` does not exclude). It changes no step; `MCChatRunHistory` puts it on
the instance of `MCChatRun`.

### AgentWorker

Every message of the command stream has a task with a program counter, one step per
await of `handleMessage`, the worker's handler, `submit` and `tryRunExclusive`.
`held` is the case where SET NX was executed and its reply lost. `Redeliverable`
keeps the code's bound on a read of pending messages (the oldest ones, as many as
there are free slots, those in flight included). The key's time to live (24 hours)
is not modelled, the lock's (10 minutes) is. There is one agent process, as in
`infrastructure/compose.prod.yml`. The graph returns an answer, an interrupt or an
error; bootstrap succeeds or fails.

The refinement maps the commands to the keys in the queue, and the execution of a
command to its task between `markStarted` and the release of the key or the
acknowledgement, with the stage given by what the task has put on the event stream.

### ChatSession

`messages` is the tree (`parent`, `selected`, `order`), `session` the stored root, leaf
and history version, `expected` the version a run was created with. A request is a
plan: what it computed from its first read. `Plan*` is that read, `Check` is
`assertNoActiveRun`, `WriteUserMessage`, `WriteRetry` and `WriteSwitch` are the
transactions, with the unique indexes that may refuse them, and `ReadDetail` and
`Repair` are the two halves of `repairActivePathSelection` in the answer. `runs` has the
status of each run beside that of its message. Who ends a run or lets it wait reads its
status and writes later without looking again: `ProjectOutcome` is the projector's read
of RUNNING, and leaves the outcome in `late`; `RequireAction` and `Complete` write it
whatever has happened since. `Stop` is any of `failRun`, `markRunFailed` and the two
`cancelRun`: since every run was active once, one of them may have read it then and
write now. `Bootstrap` is the agent asking for its context, of a run that was active;
`told` are the runs whose agent has got one.

### Projection and ToolProtocolStripper

The agent's whole stream is given at the start. `proj` is what a projection has in
memory: its position, the texts, the strippers, the tool entries by call and their
orders. Nothing is assumed of the stream but that it ends with its outcome (`WellFormed`).
In particular a call's id may come again after the call has ended, since ids are the
model's or made up from the tool's name. `Start` and `Load` are its beginning with the cursor and the parts it reads
back; `ReadText`, `ReadTool` and `ReadCompleted` take the next event; `WritePart`,
`RequireClientAction` and `CompleteRun` are the transactions, which the unique index
on source events may turn into nothing. Characters are five symbols: text, white space,
the `<` that opens a tag, and the two tails that make it an opening or a closing one. `Strip` says of a whole text what the stripper should make of it in pieces.

### ChatFeed

One client, one session, one reply; the text is the sequence of its deltas. `log` is
the session's event log, whose index is the sequence. `client` has the accepted
snapshot and the overlay that applies events; `stream` the two ends of the event
stream; `request` one mutation and one `getSession`, whose queries (`ReadRow`,
`ReadMessages`, `ReadRun`) are steps of their own. `Deliver` is what the overlay does
with an event, duplicates and SNAPSHOT_REQUIRED included; `Break`, `EndOfStream` and
`Reconnect` are the connection's.

### Memory

`memories` are the rows by id with the row each supersedes; `generation` has the
requests of each reply. `Propose` is a request with several operations, which are
executed one transaction each (`ExecuteSame`, `ExecuteWrite`, `ExecuteForget`,
`ExecuteNothing`), also after the connection is lost. `CompleteRead` and `Complete` are
the two halves of completeRun, which finalises. `FailRead` is the read of RUNNING and the
SELECT of the rollback (the projector's failRun and cancelRun), which keeps the
memories it has selected in `seen`; `Fail` writes the rollback of those, or `FailRefused`
is the unique index against it. `UserCancel` does neither.

### Cleanup

`task` is the row, `controls` and `results` the two streams, `dispatcher`, `agent`,
`consumer` and `sweep` the steps of the four loops. Dates are whether they have
passed. A call may fail without having been made or after it was made. A run may hold
the thread, and enter it after the deletion when its cancel was lost.

### DocumentContent

Content is the set of edits it holds. `projections` has every revision, `snapshots`
the history, `wire` the requests the server has not served. A page has the fields of
`useDocumentAutosave`: the content, the base revision, the attempt with its key, the
state shown to the user, what kind of failure there was, the timer, and what waits for
the flush. A page that gives up leaves its request behind: `Serve` may still happen.
`Edit`, `Undo`, `Restore`, `Navigate`, `Leave`, `Discard` and `Retry` are the user's.

### DocumentTree

A request is two steps: `Begin` reads, checks and plans (`PlanCreates`, `PlanTrashes`,
`PlanRestores`, `PlanRemoves`, `PlanPatches`), `Commit` writes the plan, or fails where
a foreign key or a row that is gone makes it. A job is `RequestJob`, `Claim`, `Write`
and `Finish`. An error of `queue.add` is foreseen with the job (`queue`), and comes to
light in `EnqueueFails`, before or after a worker has claimed the job; `Caught` is the
catch of the worker, for an error of the transaction or of the update to SUCCEEDED; either
update to FAILED may fail as well. `Restart` is a worker's process starting anew, which
fails the RUNNING jobs it finds. The `faults` of a job say what has made its status
untrue. `Visible`, `CanEdit`, `CanMove` and `CanManageTrashed` are the access
rules of `packages/shared`. `history` is auxiliary: whether requests overlapped, or a
patch was used.

### RuntimeSupervisor

A step is what the event loop runs until its next await. `sup` has the fields,
`ops` the lifecycle queue. Generation numbers are compared for equality only, so
`current` names the process of the current generation. A process may fail to spawn
(with or without an error event), announce itself, break its protocol, exit, or
survive its signals. `Resolved` and `OperationTimeout` are the two ends of a wait.

### BuddyRun

A call creates at most one run, which has its name. The logs (`convLog`, `tombs`,
`runLog`) come before the rows (`convs`, `msgs`, `replies`, `db`, `answers`); a fault
may leave a terminal event in the log only. `StartTurn` is `agent_turn.rs` step by
step, `WorkerStep` the worker thread, `Claim` the decision between the end of the turn
and a cancellation, `DeleteBegin`/`DeleteLog`/`DeleteRow` a deletion, and `Shutdown`,
`Exit`, `Crash`, `Restart`, `RecoverRun` and `Recovered` the process.

## 3. Runs

| Run | Configuration | Properties |
| --- | --- | --- |
| `chat_run` | two dispatch calls in one process with 3 attempts, 1 event and 2 ticks, or one call at a time with two processes and streams of 3 events, or with one process and two questions; lost replies | `RowInv`, `LogInv`, `CommandInv`, `OrderUnlessDoubled`, `TerminalFinal` |
| `chat_run_settles` | fairness, one process and dispatch call, a crash, lost replies, 3 ticks | `RecoveryInv`, `SourceOrder`, `RunsSettle` |
| `agent_worker` | fairness, 2 messages: copies of one command, start and resume of a run, or two runs on one thread; 1 failing call, 1 crash | `WorkerInv`, `AtMostOnce`, `ImplementsService`, `Handled`, `Answered` |
| `session` | 2 concurrent requests, 4 messages, 1 switch, one outcome between read and write | `MessageTree`, `ContextIsOwnHistory`, `CompletesWhereSelected` |
| `projection` | streams with tags cut by tools and actions, 2 crashes; plain streams and streams of text that is held back in two processes; calls that come again after their end; every text of up to 4 symbols cut anywhere | `PartsMatchLog`, `NothingElseLost`, `PartsKeepIdentity` |
| `feed` | 3 deltas, 2 reloads, 2 failures, fairness | `ShowsServer`, `CatchesUp` |
| `memory` | 2 replies, 1 slot and slotless memories, 2 values, 2 operations each and 3 together | `RollbackCommits`, `FailureRestores` |
| `cleanup` | 2 attempts, 1 failing call, 1 crash, fairness | `CompletedMeansGone`, `KeepsWhatCounts`, `Settles`, `Forgotten` |
| `document` | 2 pages with 2 edits and a restore; one page with 2 restores and a snapshot; 3 edits; fairness | `RecordsTrue`, `NoEditLost`, `Settles` |
| `tree` | 2 users, 2 workspaces, 4 documents; 2 requests and a job in sequence (3 documents), two of them at once or with patches, or a job with its faults and a restart | `Forest`, `JobTruthful`, `RemovedWhole` |
| `supervisor` | 3 process handles, 2 restart attempts, 4 calls, fairness | `StatusTrue`, `Settles` |
| `buddy` | fairness, pairs of calls (two in a conversation, one with its retry, one with its sequel), 2 faults, 1 crash or shutdown | `OneTurn`, `PromisesKept`, `NothingLeftWaiting`, `OutcomeFinal`, `CancelTakesEffect` |

Some properties are conjunctions of named parts, each defined with a comment of its own:

| Property | Parts |
| --- | --- |
| `ChatRun!RowInv` | `TypeOK`, `RowsAgree`, `NoOrphan` |
| `ChatRun!LogInv` | `LogReplay`, `RecoveryKeepsOutcomes` |
| `ChatRun!CommandInv` | `PendingActionKept`, `PublishedMeansSent` |
| `ChatRun!RecoveryInv` | `NoOrphan`, `RecoveryKeepsOutcomes` |
| `AgentWorker!WorkerInv` | `WorkerTypeOK`, `Cancellable`, `LockHeld` |
| `ChatSession!MessageTree` | `SessionTypeOK`, `UnfinishedIsLeaf`, `SelectionsValid` |
| `ChatFeed!ShowsServer` | `FeedTypeOK`, `NeverRepeats`, `NoStaleRest`, `CompletionHeals` |
| `DocumentContent!RecordsTrue` | `ContentTypeOK`, `SavedMeansSaved`, `RetryIsSafe`, `HistoryFaithful` |
| `DocumentTree!Forest` | `TreeTypeOK`, `NoCycle`, `TrashedTogether`, `OneWorkspace`, `Findable` |
| `RuntimeSupervisor!StatusTrue` | `SupervisorTypeOK`, `RuntimeOwned`, `ReadyIsReal`, `StoppedIsQuiet` |
| `BuddyRun!OneTurn` | `BuddyTypeOK`, `OneRunPerConversation`, `OneTurnPerRequest` |
| `BuddyRun!PromisesKept` | `CancelHonoured`, `CompletedHasReply`, `NoResurrection` |
| `BuddyRun!NothingLeftWaiting` | `NoOrphan`, `PendingMeansWaiting`, `QuietExit` |

The type invariants of `Projection`, `Memory` and `Cleanup` are the first conjunct of
`PartsMatchLog`, `RollbackCommits` and `CompletedMeansGone`. `PROJECT.json` lists, for
every part that is not a type, a change of the code that breaks it. All runs set
`CHECK_DEADLOCK FALSE`: when the bounds are used up and everything has ended, the
system rests. With two workers every run takes less than four minutes.

### Bounds and scenarios

Where several cases are too large together, a run's `Scenarios` is a constraint whose
disjuncts are the cases. In the runs with liveness properties (`agent_worker`,
`document`, `buddy`) it limits what users, failures and the environment do and how
much of it, and never a step the system takes by itself, so that no liveness property
holds because a behaviour was cut off; `SelectsIdle` of `chat_run_settles` is the one
exception, explained below (`CancelsOrAnswers`, its other constraint, limits the user). The runs `chat_run`, `projection` and `tree`, which
constrain more, check safety only.

* `ChatRun`. Runs do not interact (each row, lease and projection belongs to one run),
  so one run is enough for TLC, and the theorems cover any number. Two dispatchers and
  two processes are the smallest number that can race. Three attempts allow a first
  dispatch, a reclaim or a resume, and one more after it; two ticks let a lease
  expire twice with `LeaseTicks` 0 (the clock starts at 1, so `MaxClock` 3 are two; the
  second not together with a cancel). The two calls are interchangeable, as both belong to
  one process and no scenario names one (`SYMMETRY`). The second process takes part in
  streams that begin with a delta, up to three events; with three, nothing is cancelled or
  recovered. In `chat_run_settles` the user cancels or answers, but not both
  (`CancelsOrAnswers`); both together are in `chat_run`. Nothing is excluded of what the
  agent reports: a failure after an outcome, a command executed again and two commands at
  once all occur in `chat_run`. One process keeps the order of the log all the same
  (`SourceOrder`, `chat_run_settles`); two do not, and `OrderUnlessDoubled` (`chat_run`)
  makes the exception in the property (section 6, 3).
  Selection by the recovery timer looks at the row alone, so a process may select a run
  that it projects itself; `projectingRunIds` then makes it a no-op unless the projection
  ends in between. Only the case with two questions allows that here, which is where
  such a selection can outlive the question; elsewhere it multiplies the states without
  another behaviour of the rows. In `chat_run_settles` (`SelectsIdle`) the selection is
  only put off: the projection that runs ends by its deadline, and the timer selects
  again. The theorems of section 4 are without this bound.
* `agent_worker` needs five events, because a message that failed may be redelivered
  and executed again once for the failing call and, both messages, for the crash; with
  fewer the model would stop for lack of room rather than for a reason in the code.
* `session`: with four messages a reply can have a sibling and a message below it,
  which is what stale plans need. One transaction of the projector at a time is between
  its read and its write (`OneOutcome` of `MCChatSession`); requests, stops and resumes
  interleave with it. The view `Alike` compares states up to history versions that nobody
  will compare any more, and up to what the agents of ended runs were told. `projection`: a tag is a `<`, white space and
  a tail here and `Lookbehind` 2, so that it can be cut at every place and a longer one
  does not fit (`TagsFit`).
* `feed`: three deltas are one before, one within and one after a torn read or a gap.
  `memory`: two operations write a slot and supersede it, in either reply, and a third
  comes from the other one, also between the two halves of a rollback (`Few`). `cleanup`:
  the second attempt races the late result of the first.
* `document`: two pages make a conflict, two edits an edit during a save; a restore has
  to find a snapshot that is not current. `tree`: a root, a child, a grandchild and a
  copy or a sibling; `InitDocs` may be any forest of up to two documents. A job that is
  requested third finds two ids unused, for the copy of a tree. The view `Alike` forgets
  what a job that is over was asked to do.
* `supervisor`: handles are used again once nobody knows them; three are one held, one
  dying and one to spawn. `buddy`: two calls meet in every step of the start, the turn
  and the end.

### Fairness

* `ChatRun`: the two timers fire for ever and started calls go on (`WF(Dispatch)`,
  `WF(Recover)`, `WF(Project)`), and time passes (`WF(Tick)`). Nothing is assumed of the agent or of
  the user: a silent agent is ended by the projection's deadline.
* `AgentWorker`: the read loop and the started tasks go on, and a call to the model
  returns. Redis failures and crashes are bounded by constants.
* `ChatFeed`: the run ends, requests and the stream go on. Nothing of the user.
* `Cleanup`: the timer, the loops and the sweep go on, a run ends, time passes. No
  crash has to happen; the consumer's loop, once dead, needs none to satisfy `Forgotten`.
* `DocumentContent`: the debounce timer fires, and a request whose page still waits is
  served or given up (`DOCUMENT_CONTENT_SAVE_TIMEOUT_MS`).
* `RuntimeSupervisor`: microtasks, timers and the error event of a failed spawn come. A
  process need not exit, announce itself or obey.
* `BuddyRun`: worker threads go on, and Codex notices that it is cancelled. A turn that
  nobody cancels may hang.

## 4. Theorems

The eight proof modules prove, by induction over the steps, that the properties below
hold for every value of the constants: any number of runs, processes, calls, pages or
process handles and any bounds, where a run of TLC has two of each. A theorem has the
property's own definition in its statement. `PROJECT.json` lists the twenty-nine theorems
about properties of section 3; the modules also hold the lemmas they rest on.

| Module | Theorem | Property |
| --- | --- | --- |
| `ChatRunProofs` | `RowsAlwaysTrue` | `RowInv` |
| | `LogAlwaysTrue` | `LogInv` |
| | `RecoveryAlwaysKeeps` | `RecoveryInv` |
| | `CommandsAlwaysKept` | `CommandInv` |
| | `EndedStaysEnded` | `TerminalFinal` (action property) |
| `AgentWorkerProofs` | `WorkerSafe` | `WorkerInv` |
| | `ExecutedOnce` | `AtMostOnce` (action property) |
| | `WorkerImplementsService` | `ImplementsService` (refinement of `AgentService`) |
| `ProjectionProofs` | `AlwaysPartsMatchLog` | `PartsMatchLog` |
| | `AlwaysPartsKeepIdentity` | `PartsKeepIdentity` (action property) |
| | `AlwaysNothingElseLost` | `NothingElseLost` |
| `ChatFeedProofs` | `AlwaysShowsServer` | `ShowsServer` |
| `RetentionProofs` | `RollbackAlwaysCommits` | `RollbackCommits` |
| | `FailureAlwaysRestores` | `FailureRestores` (action property) |
| | `CompletedOnlyWhenGone` | `CompletedMeansGone` |
| | `NothingUndone` | `KeepsWhatCounts` (action property) |
| `DocumentProofs` | `RecordsAlwaysTrue` | `RecordsTrue` |
| | `NoEditEverLost` | `NoEditLost` (action property) |
| `TreeProofs` | `AlwaysForest` | `Forest` |
| | `JobsAlwaysTruthful` | `JobTruthful` |
| | `AlwaysRemovedWhole` | `RemovedWhole` (action property) |
| | `AlwaysMessageTree` | `MessageTree` |
| | `AlwaysOwnHistory` | `ContextIsOwnHistory` |
| | `AlwaysCompletesWhereSelected` | `CompletesWhereSelected` (action property) |
| `BuddyProofs` | `StatusAlwaysTrue` | `StatusTrue` |
| | `OneTurnAlways` | `OneTurn` |
| | `PromisesAlwaysKept` | `PromisesKept` |
| | `NothingEverLeft` | `NothingLeftWaiting` |
| | `OutcomesAreFinal` | `OutcomeFinal` (action property) |

Every module has the same argument. `Invariant` (in `ChatFeedProofs` and
`DocumentProofs` the first step of the theorems, for `ChatSession` `SessionInvariant`,
about `SessionInv`, for `RuntimeSupervisor` `SupervisorInvariant`, for `Projection`
`IInvAlways`) shows `Spec => []IInv`: the initial states satisfy `IInv`,
and every action keeps it (one lemma per action or per kind of write). That `IInv` implies
the property is a lemma or a step of its own. An action property follows from `IInv` before
the step and the action. Each `IInv` was first checked by TLC as an invariant of
the module's run. No property of section 3 is inductive as it stands, and what each
module adds is what the code relies on without saying so.

**ChatRun.** `IInv` is `TypeOK`, `RowsAgree`, `NoOrphan` and `TasksOfClaimedRuns`: a run
nobody has claimed is not published, has no lease, and has neither a dispatcher past its
claim nor a projection. It is needed because late writes have no condition of their own:
a `DispatchMark` or `ProjectCommit` of a pending run would break the rows.
`History` adds, for the log, that every recorded source and every cursor (of a
projection, a selected recovery or a dispatch call about to project) is a position of
the stream and that the outcomes before it have been applied (`Positions`, `Placed`);
the stream and the log only grow, so such a fact is not lost while a call holds it. A
cursor that jumped over an outcome is what would make recovery skip it.
`Claims` adds, for the commands, what the dispatch calls have read: a call that will win
its claim has read the key the run waits for (`Chosen`), a call that marks has sent its
key (`Delivered`), and a call within its lease is the only one of its run and finds the
row as it left it, or ended (`Held`); while a command is unpublished nothing older goes
on (`Fresh`). `Claims` and `CommandInv` need each other and are inductive together only.
TLC found this part to hold on the three scenarios and with longer leases, more events
and a crash, on several million states.

**AgentWorker.** `IInv` is `WorkerInv` with: only published messages have tasks
(`TasksAreMessages`), `activeRuns` is indexed truly (`ActiveOfRun`), the key of a command
that executes is held by one of its copies and stays held after success (`KeyHeld`,
`Alone`, `Spent`: together they are `AtMostOnce`), what a task has returned and said at
each point of the code (`Ordered`), and that an abort was asked for (`AbortsAsked`). The
last two are what the refinement needs: `StagesFollow` says how an execution's stage, as
`AgentService` sees it, may change, `HandleRefines` maps each step of a message's
handling, and `StepRefines` every step of `AgentWorker`, to a step of `AgentService` or
to a stutter. TLC found `IInv` to hold on more than 12 million states.

**Projection.** The invariant has three parts. `ProjectionInv` holds always: the rows and
the memory of every projection are typed, text and reasoning have their fixed orders and
tool parts lie behind them, a transaction is for the event it was made of, sources are
events of the stream, the actions recorded are those answered and the one waited for, and
an action has its tool part before it is waited for. `AloneInv` holds as long as one
process projects at a time: the snapshots are what the log adds up to, or, for a repeated
result, what that ends with (`SnapshotsTrue`),
what a projection has in memory is what the rows hold and what it is about to write or
flush (`MemoryTrue`, `GoesOn`), a result comes from an event on record
(`ResultsRecorded`), and the action waited for is the one recorded last
(`WaitsForAction`). From `ResultsRecorded` follows that a result that has a part already
when it is read is a repeated one (`ResultIsNew`), the only case in which a snapshot takes
the place of an earlier one; with the last it is why the
order that the user's answer takes is free. `ContentTrue` belongs to it: a message
completed by one process has the text on record.
`IntactInv` holds as long as no projection goes on behind text that was held back, however
many processes there are. Nothing is recorded behind an event that has to be recorded and
is not (`InOrder`), and a projection has done everything up to its cursor (`DoneTo`); its
stripper is where every projection's stripper is at that place (`StripperTrue`); the text
on record is what has come out of the stripper up to some event, and after completion
with what was flushed (`TextRecorded`); a run waits for an action that is on record with
its tool part and not answered (`WaitsUnanswered`, `ActionToolRecorded`). These need each
other: an event recorded out of order would move the cursor of the next process past text.
What this says of the text follows from lemmas about `ToolProtocolStripper`: however the
text is cut, what a stripper has put out, with what it would put out of all that is still
to come, is `Strip` of the whole (`WriteKeeps`, `StrippedSplits`), so that at the end the
text is whole (`StrippedWhole`) and on the way a beginning of it (`StrippedBegins`). The
property, and these lemmas, are about texts whose tags fit (`TagsFit`).
The texts and the stripper are put together by recursive functions: the module shows by
least counterexamples that they exist and what a further delta adds to them.
TLC found the whole of it to hold on some 90,000 states, of the streams that repeat calls
and of those whose text is held back.

**ChatFeed.** `IInv` relates the reply, the log, the client, the stream and the two
requests in progress: the log is the history of the reply (`LogTrue`), what a request
has read so far is the reply at the sequence it will report, unless torn (`ReadTrue`),
the client shows the reply at its cursor, unless torn (`ClientTrue`), the stream is
never ahead of the client (`StreamTrue`), a page loads or sends only when it has begun
nothing else (`Turns`), and a client that waits for nothing and was told nothing shows
the reply (`AtRest`). 86,858 states.

**Memory.** At most one memory of a slot is active; a generation that has not started has
written nothing (`NothingBefore`); a memory only a running generation could have changed
is active or is what an active memory of that generation superseded (`Restorable`), and a
generation that superseded its own memory is known to have written its slot twice
(`TwiceKnown`). What a rollback has selected was written by its generation, and misses of
its active memories only those changed since (`Selected`). The rollback reactivates exactly
the memories `Restorable` speaks of. That a rollback which selects now commits follows
from the rows alone; that one which selected before is refused only when overtaken is
`Selected` with that. 2,570,113 states.

**Cleanup.** The traces of a request come in order (`RequestFirst`, `TaskFirst`), the
loops say what they hold (`LoopsBusy`, `LockHeld`), a cancellation that was not lost is
on its way or has come (`CancelComes`), and every completion in the agent, in a result
or in the task's row is true or falls under the two named exceptions (`NewsTrue`). 9.3
million states.

**DocumentContent.** For each page: what it has typed is in its document, its attempt and
its base (`Keeps`), what it shows follows from what it has (`Shows`), the request it
waits for is under way or was answered (`Waits`), and its idempotency key stands for one
base and content wherever it is (`OwnKey`); pages use different keys, requests refer to
what exists (`RequestOK`), and history refers to projections in order (`History`). 729,216
states.

**DocumentTree.** `IInv` has four parts, each under the exception its property makes.
Always: the rows, jobs and plans are typed and the foreign keys hold (`Typed`); a job is
in the hands of one worker at most, whatever the queue delivers and whichever update
failed, and its row fits what that worker does (`Tracked`, `Truthful`): a pending
job has not been written, and a written one is called failed only with a fault on
record. Unless requests overlapped: a
child is in its parent's workspace (`SameSpace`), and what waits to be written is what
would be planned now (`Fresh`). As long as, besides, only jobs moved documents
(`Whole`): a tree is shared with everyone or private to one user (`Shared`), nothing live
lies below a trashed document (`LiveAbove`), and in every set of documents one hangs below
none of them (`Grounded`, the form of "no cycle" that a write can be checked against).
`Descendants` and the rounds of `Shown` are recursive functions: the module shows that
they exist and compute the least set closed under children (`RoundsExist`, `RoundsLeast`,
`DescendantsLeast`), by an induction made as the search for a least counterexample. From
there, a removal leaves no child behind, a move below a document outside `Descendants`
keeps `Grounded`, and whoever may see a live document finds it in as many rounds as there
are documents (`Findable`). 1,258,511 states, more than the run's: without its view and
with a job third in every sequence.

**ChatSession.** `SessionInv` is the two invariants with: parents are older than their
children, a question is stored with its first reply, and branch orders do not outrun the
messages (`MessagesOK`, from which an unbounded order cannot come); what a request has
read stays true while others write, because messages are not deleted and a reply that was
over once is never written again, although its run may become active again (`PlanOK`); a
run is created for a version the session has reached, and only an agent that was given a
context brings an outcome (`RunsOK`); and a run whose version is still the session's ends
its branch, which is the one shown if its agent has been told its history
(`ToldWhereSelected`). The last speaks of the version and not of the run's status, which
nobody checks when an outcome is written, and is why the
completion's check of `historyVersion` is enough: every write that could bend the path
changes the version, and `getSession`'s repair, which does not, finds nothing to repair
in the selections (`NothingToRepair`). `PathTo` and `ActivePath` are recursive
functions: the module shows that they are the only paths along `parent` and along the
selected children (`Ascends`, `Descends`; `PathToIs`, `ActivePathDescends`), so that two
of them are compared without unfolding either, and that a history depends on what is on
its path only (`HistoryKept`). Some 683,000 states.

**RuntimeSupervisor.** The queue's head alone has begun (`QueueOK`), the current
generation is the process held (`CurrentHeld`), an operation waits for the process held
(`WaitsForHeld`), a restart is scheduled only when nothing else is (`TimerAlone`), and
the status is neither ready nor stopped while an operation is due (`BusyShown`). 231,442
states.

**BuddyRun.** For each call: what it has stored by its stage (`Placed`, `Stored`), what its
log and row say of each other (`LogTrue`, `Decided`), and who will end it (`Ended`,
`Answered`, `InHand`); a conversation is reserved by one call or deletion, or has one
thread (`ReservedAt`); deletions, the registry (`Registered`) and the mutex of request
preparation (`Mutex`). 424,774 states.

The assumptions are those the modules state for their constants, which TLC evaluates on
every run: bounds are naturals, at least one where the code has at least one
(`MaxConcurrentRuns`, `MaxAttempts` of the clean-up, `MaxMessages` of a session), the clients and workers of
`DocumentTree` are two finite and disjoint sets, `Home` is a function from dispatchers
to processes, process handles are positive numbers, requests and targets are functions
of the calls, and values that stand for "none" are not members of the set they extend.

Only model-checked, and why:

* Liveness (`RunsSettle`, `Handled`, `Answered`, `CatchesUp`, `Settles`, `Forgotten`,
  `CancelTakesEffect`): fairness and `ENABLED` are outside what the prover handles.
* `ChatRun!SourceOrder` and `ChatRunHistory!OrderUnlessDoubled`: the first is not true of
  every instance (section 6, 3), the second would need an invariant that relates the
  stages of every execution to the positions of the stream.

## 5. What the checks do not say

* `RunsSettle` is checked against the abstract agent without any fairness of its
  own, so it does not depend on `AgentWorker`. `Handled` and `Answered` are about
  the worker alone.
* The model call, the graph and the checkpointer are one step. Two writers on one
  thread after the lock has expired are possible, and what LangGraph does with them
  is not modelled.
* Graceful shutdown of the services, stream trimming and the expiry of idempotency
  keys are not modelled.
* A property with an exception says nothing of the excepted behaviour; section 6 says
  what happens there.

## 6. Observations

Found while modelling. Where a property of section 3 makes an exception, this is the
behaviour excepted.

### Chat runs

1. **A cancel can be overwritten.** `requireClientActionRun`
   (`chat-run-projector.service.ts:847-861`) reads RUNNING and then updates without a
   condition. A cancel that commits in between is lost: the run waits for the client
   again while its message stays cancelled, although
   `apps/docs/src/en/guide/ai-chat.md:13` says "You can stop generation". The same
   read-then-write lets `completeRun` complete a run just cancelled, and `cancelRun`
   cancel a run just completed; those end the run either way, and `TerminalFinal`
   says that nothing else happens after them. What it does to the session is 8.
2. **A dispatcher that outlives its lease.** `markCommandPublished` looks at
   `commandPublishedAt` only. If a call takes longer than `DISPATCH_LEASE_MS`, another
   one has dispatched the run and the agent has asked for a client action, the late
   call marks the waiting run as published and drops its pending action, which then
   cannot be answered. The recovery timer can do the same: it selects a run
   (`chat-run-projector.service.ts:117`), the question of that run is recorded and
   answered, and only then does the projection of the old selection start. It projects
   a run whose resume command has not been sent, and if it records the next question
   before `dispatchRun` marks the run, the mark drops that question. `PendingActionKept`
   and `PublishedMeansSent` hold only while neither happens (`~overran`). The attempt to
   prove them found the second case: the model had selected and started in one step.
3. **A lost reply to XADD** makes the runner publish a failure after an outcome. With
   two API processes the failure may be recorded before the client action, and a failure
   left over from the first command fails the resumed run. A resume whose publication
   failed although it had arrived, and which `dispatchRun` handed back to the client, may
   be followed by a second resume. `runner.ts:103-105` refuses a command whose run is
   active in the same process; with a second agent process, or in the abstract
   `AgentService`, which does not promise that, two commands of one run execute together
   and the log may be out of order in the same way. In the states of `chat_run`,
   `SourceOrder` is violated in 21 steps. A projection that outlives the question (2) has
   the same effect with an agent that does nothing twice: while the run waits it passes the
   next events unrecorded, and after the answer another projection records them late.
   `OrderUnlessDoubled` holds only while none of these happens (`doubled`, `overran`).
4. **A crash of the agent after `markStarted`** drops the command: the redelivered
   message finds the key held. The projection's deadline ends the run.
5. **`generation.started` is published before the try block** (`runner.ts:107-113`): if
   that fails, `activeRuns` keeps the run and later commands are refused until the
   agent restarts.
6. **A resume that arrives before the finally block** of the execution that asked for
   the action is refused as already running, and no event says so.
7. **Runs of a deleted session never end.** Deletion is soft
   (`apps/api/src/database/prisma.extension.ts`), so that the rows of the run stay but
   its terminal transactions no longer find the session. `recoverRunningRuns` tries
   again every two seconds, and five such runs fill `PROJECT_RUNNING_BATCH_SIZE`
   (`chat-run-projector.service.ts:117`). Read from the code, not modelled.

### Sessions

8. **A reply is continued and its run goes on.** The projector reads RUNNING, the user
   cancels, a send passes `assertNoActiveRun` and finds the parent CANCELLED, and then the
   projector writes REQUIRES_ACTION over the cancelled run (1): the send puts its messages
   below a reply whose run is active again, and can be resumed. When that run asks for its
   context, the path it gets goes on behind its own message (`resolveAgentRuntimeContext`
   asks that the message be on the path, not that it end it). So `MessageTree` says of a
   continued reply that it was over once, and `ContextIsOwnHistory` speaks of replies that
   are not over. The completion is refused, since every write that continues a reply
   changes the history version. In the same way `cancelRun`
   (`chat-sessions.service.ts:739`) may stop a reply that was completed since it looked.
9. **Two active runs.** Two sends that have both passed `assertNoActiveRun` leave two
   active runs when the first run waits for the client before the second send commits:
   the unique index covers PENDING and RUNNING only. The resume of the waiting run then
   violates the index while the other one runs. What `ChatSession` checks holds of both.
10. **A stale repair.** `repairActivePathSelection` writes a root computed from an earlier
    read and leaves the version alone: a reply may then complete on a path that the
    stored root no longer shows. `CompletesWhereSelected` starts at the root of the
    reply's own branch for that reason.

### Projection

11. **Text held back is lost with a crash, and at a client action.** The next projection
    starts behind it. (`ai-chat.md:13`: "Run state, message content, and events are
    stored on the server so the session can be resumed after refresh.") And a process
    whose stripper holds text back, of which another process has recorded the rest,
    passes that event over without showing it to the stripper, which goes on holding the
    text and lets it out a second time, or takes it for the beginning of a tag.
    `dropped` excepts both.
12. **Two processes overwrite each other's snapshots**: each writes the text it has put
    together itself. The log is right all the same (`NothingElseLost`). Two processes may
    also choose the same order for two tool parts.
13. **A call id that comes again overwrites its result.** Ids of calls come from the model's
    output (`apps/agent/src/core/tools/structured-json.ts:252`) or, where it gives none, from
    the tool's name (`getToolCallId`, `core/tools/utils.ts:6`). When a call of that id ends a second time, the
    projection appends the new result to what is streamed and replaces the stored one
    (`chat-run-projector.service.ts:569-576`): until it reloads, a client shows both
    results in one part. `PartsMatchLog` says of such parts (`Repeated`) only that what is
    streamed ends with what is stored; without the exception TLC finds it violated.

### Web chat client

14. **A torn read.** `getSession` (`chat-sessions.service.ts:2025`) reads messages, run and
    latest sequence in separate queries. A delta committed in between is in the text and
    after the cursor, and is shown twice until the completion replaces the text.
15. **A stream that ends in good order is not opened again**
    (`createChatSessionEvents.ts:51`), also when the server ends it because its poll
    failed: the client shows the old text until something else reloads it.

### Memory and clean-up

16. **Late writes stay.** The admission of an operation is checked when its request
    arrives (`agent-memory-operations.service.ts:87`); an operation executed after the
    rollback of its generation stays. A later rollback may bring back a memory of a
    generation that has itself failed.
17. **A slot written twice** gets the generation's own first value back when the
    generation fails. The user's cancel and the dispatcher's `markRunFailed` do not
    roll back at all.
18. **A rollback that is overtaken is dropped.** `rollbackGenerationOperations`
    (`agent-memory-operations.service.ts:120-163`) selects the generation's active memories
    and then restores what they superseded. When another reply takes over one of their
    slots in between, the unique index refuses the restoration, the whole transaction of
    failRun goes with it, and the error is swallowed (`chat-run-projector.service.ts:911`):
    the run stays RUNNING until `recoverRunningRuns` fails it again. `RollbackCommits` says
    that this is the only way to be refused, and that a new attempt is not refused unless
    it is overtaken itself.
19. **A task at its last attempt** whose control or result is lost stays DISPATCHED (its
    attempts are used up, and no status says so); and
    the consumer of results leaves its loop at an error and only a restart of the API
    starts it again. The agent's sweep deletes the checkpoint in the end (`Forgotten`).
    The sweep takes no lock: a checkpoint written after the listing is deleted with it.

### Documents

20. **Edits typed while the next view's code loads are dropped.** Navigation has saved and
    the page can still be edited (`gap`).
21. Content that no snapshot was made of is gone with a restore. A restore has no
    idempotency key: if its reply is lost, the page's next save is a conflict with its
    own restore. "Not saved" may be untrue after a timeout, and a
    request of a discarded page may still be stored.
22. **A patch closes a cycle** (`tree.service.ts:293` checks only that a document is not its
    own parent) and leaves the visibility of descendants alone (`:332`), so that another
    user's trash or removal takes only what that user sees. The web application never
    sends such a patch; `history.patched` excepts it.
23. **Plans from a stale read.** A create that overlaps the trashing of its parent leaves a
    live child below a trashed document (`trash.service.ts:96`); one that overlaps a move
    job keeps the old workspace (`operations.service.ts:449`). `history.overlapped`
    excepts them.
24. **A job that was done may be called failed**, in three ways. A restart between its
    transaction and its status (`operations.service.ts:298`), or of a second API process at
    any time while it runs, fails it; in the latter case its worker calls it succeeded
    later. The update to SUCCEEDED is made in the try of the execution (`:298-325`): when
    that update fails, the catch marks the job. And when `queue.add` reports an error although the job is in the
    queue, `enqueueOrFail` (`:894-912`) sets FAILED without looking at the status, before the
    worker claims the job, while it runs or after it is done. `JobTruthful` excepts jobs
    with such a fault from "failed means not written", and from nothing else. A job whose
    process dies before it is put in the queue stays PENDING.

### Buddy

25. `stop()` and `start()` in one tick with no process would leave the supervisor in
    `starting`; the application never does it, and in the model a queued operation
    begins before the next call. A restart from the tray during quit spawns a new runtime.
26. **A retry after a crash duplicates the turn** when the crash comes after the turn's
    writes and before its stored response (`agent_turn.rs:111`); `OneTurnPerRequest`
    assumes no crash in between.
27. **A late reservation.** The run of a new conversation is stored before its conversation
    is reserved (`agent_turn.rs:141`); if the reservation is refused, the run has no
    worker until the next start. `NoOrphan` and `QuietExit` except exactly it
    (`Refused`).
28. Errors of file operations between the stored message and the stored response
    (`agent_turn.rs:396-403`, `:424-438`) end a turn as the modelled storage faults do,
    after the same writes; they are not steps of their own. Errors before the worker's loop, and terminal events that fail to be written, also
    leave a run open until the next start. A deletion whose rows fail after its
    tombstones takes effect at the next start only. An approval answered as it times out
    may be shown as approved while Codex is told otherwise.

## 7. Plan

Done: the modules of section 2, each with its run, and the theorems of section 4.

Theorems to add:

1. `OrderUnlessDoubled` of `ChatRunHistory`, for every number of runs and processes.

Models to add: publication of documents (single publications that are enabled,
disabled or inherited, of a page or of its descendants, and site navigation that is
replaced outside a transaction), composed with trash and moves, which clear them;
invites against changes of membership.

## 8. Not modelled

* **Document publication** (`modules/documents/publication`). It has state over time,
  but its interesting half is inheritance along the tree, and `DocumentTree` is near
  what TLC can do as it is; the rest is rendering and configuration.
* **Assets, e-mail, notifications, AI models, providers, profiles and settings, system
  administration, users, rbac, authentication**: rows written and read by single
  requests, and calls to storage or to mail servers. A model would restate guards.
* **Bots**: a polling loop against an external messaging service.
* **Agent graph, skills, tools, prompts, provider adapters**: transformation of data
  around a language model. The graph is one nondeterministic step.
* **User interface, i18n, animation and window code, documentation, infrastructure**:
  nothing that has a state to get wrong in the sense of these modules. They are most of
  the repository's lines.
* Within modelled parts: attachments, titles, search and usage figures of sessions;
  sibling order, layout, search and copied assets of documents; the management screens
  and the search index of memories; voice, pet, remote channel, attachments, event
  publication and the queue limit of the buddy; requests that wait in the supervisor for
  a ready client. `PROJECT.json` says so at each component.
