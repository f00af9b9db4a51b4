# noCodeAI: a verification development

noCodeAI is a Go server that lets users generate and edit web applications with language models. A request to
generate an application is a *run*: a row in MySQL, executed by a goroutine of some server process, that ends
by publishing a version of the application's source. This directory holds TLA+ models of the parts of the
program where several actors meet, TLC configurations that check them on small instances, and TLAPS proofs of
the most important facts for instances of every size. Paths below are relative to the repository (`src/`).

## 1. Inventory

| Component | State it keeps | Operations | Meets | Module |
|---|---|---|---|---|
| **Detached task runtime**: `internal/core/task/{manager,types,checkpoint}.go`, `internal/dal/taskstore/{gorm_store,checkpoint_store}.go` | tables `agent_run`, `run_event`, `run_checkpoint`, `task_outbox`; in each process `Manager.executions`, the semaphore, the outbox batch; the MySQL named lock | CreateRun, Control (pause, cancel, reject, approve, resume), ClaimOutbox, dispatch, MarkRunning, execute, AppendEvent, SaveCheckpoint, Suspend, Complete, Fail, AcquireRuntime, CheckRuntime, InterruptStale, Shutdown | HTTP handlers, the graph handler, the event streams | `TaskRuntime`, `RunLifecycle` |
| **Execution leases and publication**: `internal/core/execution/coordinator.go`, `publication.go`, `taskstore/execution_store.go`, `core/store/distributed_lock.go`, `logic/app_execution_logic.go`, `app_version_logic.go` | the Redis key `codegen:lock:<app>` (45 s, renewed every 10 s), the row `application_execution` (owner, epoch, lease_until, current version), `source_version` | Acquire, Claim, Renew, Release, Publish, PublishRestoration, begin/finish of an execution | every writer of an application: runs, old chat endpoints, agent chats, restoration, summaries | `ExecutionLease` |
| **Event streams**: `core/task/hub.go`, `manager.go` (Subscribe, Next), `logic/app_task_logic.go`, `frontend/src/api/run-stream.ts` | subscribers and their one-place channels; the client's last sequence and retries | Subscribe, notify, Next, Unsubscribe; connect, read, reconnect | the runtime's rows; only one process knows a notification | `RunStream` |
| **Graph workflow**: `ai/graph/workflow/simple_workflow.go`, `ai/graph/node`, `ai/graph/state`, `logic/app_task_logic.go`, `app_task_control_logic.go` | the workflow context and its checkpoint | nodes, safe points, approval gate, quality loop, resumption, compatibility check | runtime (checkpoint, suspension), lease, budget | `GraphRun` |
| **Budget**: `core/execution/budget.go`, `ai/agent/budget_model.go`, `base_agent.go` | counters and reservations of a run | reserve and settle tokens, count calls, tools and retries, persist | checkpoints | `GraphRun` |
| **Tool journal and workspace**: `ai/aitools/file_scope.go`, `core/execution/workspace.go`, `execution_store.go` | `tool_execution` rows; a private copy of the source | BeginTool, FinishTool, Freeze | lease, checkpoint | `GraphRun` |
| **Context compaction**: `core/contextmgr/manager.go`, `ai/graph/state/context_binding.go` | the entries of one prompt | assemble, compact, commit, give up | safe points | `GraphRun` |
| **Conversation memory**: `logic/chat_history_logic.go`, `chat_memory_logic.go`, `core/store/memory_store.go`, `summary_owner.go`, `logic/app_recorder.go` | chat rows, summaries with their coverage, the metadata hash in Redis | add, load the prompt, count usage, summarise | the lease (talking and summarising both hold it) | `ChatMemory` |
| **Applications and their pages**: `logic/app_logic.go`, `handler/{app,chat_history}_handler.go` | rows of applications and messages, the cached page of the newest messages | create, change, delete, read, list, walk through a conversation | users, the chat page | `Apps` |
| **Users and sessions**: `logic/user_logic.go`, `handler/user_handler.go`, `middleware/middleware.go` | rows of users, sessions in Redis, cookies | register, log in and out, administrate, authenticate | every route | `Accounts` |
| **Rate limiter**: `middleware/rate_limit.go` | per route and user a sorted set of request times and a counter | one Lua script | two routes | `RateLimit` |
| **Chat page**: `frontend/src/pages/ChatPage.tsx`, `frontend/src/api/chat.api.ts` | the pending request in sessionStorage, the run that is followed | send, repeat, follow, pause, resume, restore, reload | `POST /app/graph/runs` | `ChatPage` |
| **Routes and wiring**: `router/router.go`, `wire/wire.go` | – | which middleware and handler a request passes; the order of start and stop | all of the above | `Site`, `TaskRuntime` |
| **Generation facade, parser, saver**: `core/ai_codegen_facade.go`, `ai_generator.go`, `core/parser`, `core/saver` | a stream being parsed | forward, parse, save | graph nodes | partly in `GraphRun` |
| **Project builder**: `core/builder` | a process group | build, kill | the operating system | – |
| Agents, prompts, model clients, image tools; legacy workflow; generated data access; object storage, monitoring, configuration; other pages | – | input and output, single-row queries | – | – |

### How the parts interact

1. The chat page posts a message. `CreateRun` writes the run, its first events and a `task_ready` outbox row in one transaction. `active_key`
   (a unique column holding the application while the run is unfinished) admits one unfinished run per application; `request_id` makes a repeated post find the run of the first one.
2. The process that holds the MySQL named lock drains the outbox: it takes a worker slot, marks the run
   running and starts a goroutine, which registers a handle so that a cancel request can reach it.
3. The graph handler loads the checkpoint (if the run is resumed), takes the *execution lease* of the application
   (a Redis key **and** a database row with an epoch), copies the current version, or the files of the checkpoint, to a private workspace, works,
   saves a checkpoint after each node, and returns a frozen result.
4. `Complete` publishes that result inside the transaction that ends the run, if the claim is still the owner, still of
   the current epoch, unexpired, and made over the version that is still current. Otherwise the run fails.
5. The older chat endpoints, agent chats, restoration of an old version and conversation summaries take the same lease
   without a run.
6. Users pause, cancel, approve and resume through any process; a restart marks what it finds unfinished
   recoverable (with a checkpoint), interrupted, or canceled.

### What is hard

Goroutines and HTTP requests race on one row (a result is committed while a cancellation is). A transaction commits
and its answer is lost. A process dies between any two steps, or loses the connection that held the runtime lock
and lives on. A writer stalls past its lease. The outbox delivers at least once. The older endpoints check for an
active run long before they take the lease. A run is executed by several attempts that must share one budget and one approval. A conversation is read in two statements
while others write it. A page is reloaded while its request is under way. All of these are listed at their lines in `PROJECT.json` under `hazards`, with the
properties that would catch them going wrong.

### What makes each part correct

* Runtime: an application is reserved by exactly one unfinished run; ends and cancellations are final; a stream has one `done`,
  its last event; a run is executed by one attempt at a time; handles and slots agree with the
  goroutines; no accepted task, and no cancellation, is forgotten.
* Leases: no update of the source is lost; only the holder of the current claim publishes or saves a checkpoint, however long it
  slept; nobody's release takes another's lease; whoever ends holds nothing; a hung holder does not hold for ever.
* Streams: a subscriber sees every event once, in order, and stops only after the last.
* Graph: no code under an unapproved plan, no question twice, one budget for all attempts also across crashes, and what is published is what was checked.
* Memory: every message is covered by the summary or sent with the prompt; the usage shown is the usage counted, but for a count per failure.
* Site: deleted rows stay hidden and unchanged (a login and the owners named in lists excepted, section 4), a walk through a conversation misses nothing, the limiter's window is kept, a message leads to one run.

## 2. Modules

### `RunLifecycle`: what the runtime promises

The abstract specification: a status and a reservation per run; a run is admitted when its application is free, starts, may be
asked to pause or cancel, is parked, resumed, completed, aborted. Cancelling goes only to canceled. The crash of a server is one
`Interrupt` step for all runs. `TaskRuntime` implements it; `ChatPage` uses it for the runs that pages create and follow.

### `TaskRuntime`: how it keeps the promise

One variable per column or field (`status`, `activeKey`, `ckpt`, `seq`, `done`, `ready` for the database; `owner` for
the named lock; `mode`, `disp`, `batch`, `g`, `exec`, `cancelReq`, `snap` for the processes). One action per transaction or step between two
points where others can act:

| Code | Actions |
|---|---|
| `CreateRun`, `Control` | `CreateRun`, `Pause`, `Cancel`, `CancelHandle`, `Approve`, `Resume` |
| `outboxLoop`, `drainOutbox`, `dispatch` | `Tick`, `LoopExit`, `Claim`, `ClaimFails`, `ClaimRefused`, `Dispatch`, `MarkRunning`, `Ack`, `Retry` |
| `execute` and the handler | `Register`, `CheckCancelled`, `Emit`, `SaveCheckpoint`, `HandlerEnds`, `Suspend`, `Complete`, `Fail`, `Exit` |
| `StartWorkers`, `AcquireRuntime`, `InterruptStale`, `Shutdown` | `AcquireRuntime`, `ReadStale`, `InterruptStale`, `StartFails`, `Shutdown`, `Drained`, `ProcessExit` |
| the environment | `Crash`, `LockFreed`, and lost answers or failed statements inside the actions, counted by `faults` |

`Cancel` is the transaction and `CancelHandle` the later cancellation of the registered context: a goroutine can
register, or another attempt begin, in between. `InterruptStale` is split at its read because the code reads the rows without
locking them. When `Tick` finds the lock lost, or fails to ask for it, the process is `halted`: it goes on serving requests, keeps the lock if it still has it, and starts no run any more, because
`outboxLoop` only cancels `Manager.ctx` (`manager.go:176-179`) and nothing but a signal leads to `Shutdown` (`wire.go:132-140`). `ClaimFails` leaves any of the due rows claimed and dispatches none (the statement failed, or its answer was lost); `ClaimRefused` is a claim under a cancelled context. A `MarkRunning` whose read fails after its commit has an outcome of its own. The handler is *any* program:
it emits, saves checkpoints, returns, suspends or fails when it likes; `GraphRun` is the one there is.

### `ExecutionLease`: who may change an application's source

One application; each *attempt* is one execution of one writer: a run (several attempts may be of one run), the
older chat endpoint `GraphToGenCode` with the check for active runs (`legacy`), a restoration, a summary (an agent chat holds the lease as a summary does). State: the row `application_execution`,
the Redis key, the versions and what each was made from, the runs (status, checkpoint, the base of the checkpoint), and for each attempt
its program counter, its claim, what it saw of the checkpoint and the version, and whether its context is cancelled. An attempt
goes through the check for active runs or the loading of the checkpoint, `Lock` (Redis), `TakeClaim` (row), `Prepare`, `Import` (old files become version 1),
`SavePoint`, `PassPoint`, `FinishWork`, and `Publish | Complete | PublishRestoration | Abort`, then `ReleaseRow`, `Unlock` and `Settle` (what the row of its run is told: `SuspendRow` or `Report`). The lock, the claim, the import, the publication and the releases may be carried out and
not answered, and the statements of `Settle` may fail; a writer that is refused is `TurnedAway`. `Present` says which of the writers of an instance take part together.
`ExpireRedis` and `ExpireRow` may happen to any lease, and count as a fault when its holder had not stalled before; `LoseLease` is the renewal goroutine noticing;
`CancelContext` is the deadline. `Crash`, `Interrupt`, `PauseRun`, `CancelRun` and `ResumeRun` are the runtime seen from here: they
have the guards and effects of the same transactions in `TaskRuntime` on the part of the row the lease is about.

### `RunStream`: how a page follows a run

The rows (`log`, `status`), the processes that still owe their hub a notification (`news`), per connection the subscription at its server end (`sub`), the frames in flight (`wire`) and
what became of it (`link`), per page the generator of `run-stream.ts` (`page`) and what it passed on (`shown`).

| Code | Actions |
|---|---|
| transactions that append events | `Work`, `Suspend`, `Resume`, `Finish` (all `Commit`) |
| `hub.go`, `dispatch` of `event_available` | `Notify` |
| `Subscription.Next`, loop of `SubscribeGraphRun` | `List`, `Check`, `Wake`, `Heartbeat`, `WriteFails`, `ReadFails` |
| `frames()` | `Connect`, `ConnectFails`, `Read`, `StreamEnds`, `AskState`, `Retry`, `Abort` |
| the network | `Cut`, `Crash` |

A notification is sent for every committed event by the process that drains the outbox, and perhaps by others. A subscription in
another process may get none, and relies on looking again after each heartbeat. A refused subscription is a stream of two frames that echo
the client's `Last-Event-ID`; the client skips them as repetitions and asks again. When it has shown nothing yet there is no id to echo, and the refusal
ends the stream: `DoneIsTheRuns` is about pages that have shown something.

### `GraphRun`: what the handler of a run does

One run through all its attempts. The row and the checkpoint (`status`, `cp`, `published`), the attempt at work (`pc`, `node`, `aim`, the workflow context `wc`, its `files`, the approved
`hash` it carries, the tool `journal`, the budget `used`), and three histories the properties speak of: what the provider was asked for (`spent`: calls, tokens billed, what the last bill exceeded its reservation by, and what was billed and never seen), the
plans approved, the files the quality check accepted.

| Code | Actions |
|---|---|
| `executeGraphRun`, `beginCodeExecution` | `Start`, `BeginFresh`, `BeginAgain` (compatibility, gate, restored budget and files) |
| `ai/graph/node` | `EnterNode`, `Answered`, `Erred` |
| `contextmgr.Assemble`, the binding's commit | `Assemble`, `Answered` (a summary), `SafePoint` with `aim = "commit"` or `"blocked"` |
| `beginModel`, `budgetModel`, the agent's retries | `AskModel`, `FinishModel`, `RetryModel` |
| `journalMutation`, `BeginTool`, `FinishTool` | `UseTool`, `ClaimTool`, `ChangeFiles` |
| `safePointHandler`, `SafePoint`, `SaveCheckpoint` | `PostHandler`, `SafePoint`, `AfterSave` |
| the end of `executeGraphRun`, `Complete`, `Suspend`, `Fail` | `Conclude`, `Publish`, `Leave` |
| `Control`, `InterruptStale`, the attempt's context | `Pause`, `Resume`, `Approve`, `Crash`, `Cut` |

Assumed: one attempt at a time (`OneAttemptAtATime`, `FencedPublish` and `CheckpointsMoveForward` of the two modules above show that a second one does not get through). A bill may exceed its reservation, which `budget.go` counts without a limit, here by up to `MaxOver`. Cancellation, the deadline and the loss of the lease all end the attempt's context and are one action, `Cut`. A model's answer is any answer: a type, code, a tool call, a verdict,
or nothing of use. Files are numbers, a plan is known by the type of application it was made for. A crash may change the build, after which a checkpoint is refused.

### `ChatMemory`: what a model is told of a conversation

One application's conversation: the messages as the sequence of their turns, the summaries with the turn each reaches and the messages it covers, the usage in the row and in the Redis hash, the summariser's running flag and
owner. Two kinds of actors: *talkers* (`chatWithAgent`, `graphToGenCode`; `chatToGenCode` has no route, `router.go:72`) and *summarisers* (`generateSummary`), each a sequence of statements:
`Begin` (or `Resume`: a run that goes on from its checkpoint takes the lease, reads nothing and goes to the model), `Say`, `RestoreUsage`, `ReadApp`, `WriteUsage`, `ReadSummary`, `LoadPrompt`, `CallModel`, `CountUsage`, `Answer`, `MaybeSummarise`; and `AcquireLease`, `ReadMeta`, `Mark`, `ReadSummary`,
`Summarise`, `InsertSummary`, `AddUsage`, `AddUsageDb`, `WriteMeta`, `ReadHash`, `WriteHash`, `Unmark`, `ClearSummaryOwner`. They exclude each other by the lease, but one may lose it and go on (`LoseLease`), and then everything
interleaves. A count may fail without anybody noticing (`Tried`). `Expire` is Redis forgetting the hash a day after the last write, when everybody rests; it is no fault. `Crash` and `DeleteApp` are what they say. The history `adrift` says that, since Redis last
forgot the hash, a lease was lost or a run was resumed with no usage in Redis: the usage that is shown is wrong then.

### `Accounts`, `RateLimit`, `Apps`, `ChatPage`, composed by `Site`

`Site` is the server as `router.go` puts it together. A request of a client (`req[c]`) passes the steps of its route: `Authenticate` (session, then the row of the user), `Limit`, and its handler, which reads and
writes in one action per statement; `Ask` notes which rows were deleted before it was sent, and `answer` of which kind (user or application) it served or changed one of those all the same; the answer of a login has the row of its user, and a list the rows of the owners (`WithOwners`). `Accounts` has the users, sessions and cookies, with a logout that does not delete the
session of an escaped cookie; `Apps` the rows of applications, the lists, and the walk through a conversation by its cursor (a second and an id) with the cached first page, and whether that was ever `Behind`; `RateLimit` the script
and the expiry of its two keys; `ChatPage` the pages, the posts that are under way independently of them, and `CreateRun` in its three statements (look for the request, look for an active run, insert under two unique keys).
`Site` composes them, with `ChatPage` on top of `RunLifecycle` for what becomes of the runs.

Any number of clients doing anything is too much to check, so a behaviour belongs to one of the *cases* of `MCSite`: which requests each client sends, how many, and what may fail meanwhile. A case restricts the clients, not the server.

### Proof modules

`TaskRuntimeProofs` (types), `TaskRowsProofs` (rows and refinement) and `TaskAttemptProofs` (goroutines) build on each other; `ExecutionLeaseProofs`, `RunStreamProofs`, `GraphRunProofs`, `ChatMemoryProofs` and `SiteProofs` each extend the module they are about.

### Naming

`TaskRuntime.Complete` and `ExecutionLease.Complete` both translate `GormStore.Complete`: the first keeps the run's row, outbox and events,
the second the publication; `GraphRun.Publish` is the handler's side of it. A definition whose comment says *instead of* another one is a mistake the code does
not make; no action uses it. Each property is known to fail when one such definition replaces its original.

## 3. Runs

| Run | Instance | Shows |
|---|---|---|
| `task_crash` | 1 process, 1 slot, 2 runs of 1 application, 1 crash or shutdown | reservation, cancellations reach the handler, refinement of `RunLifecycle` |
| `task_fault` | 1 process, 2 slots, 1 run, 1 lost answer or failure, 2 stops, fair | one attempt at a time under redelivery and retries; handles, slots; a pending run is served unless its server is halted; a stream is closed once |
| `task_live` | 2 processes, 1 run, 1 stop, fair | the named lock keeps the second process from interrupting the first; cancellations take effect; executions end |
| `task_lost_lock` | 2 processes, the lock connection drops | *violation*: a running run is interrupted by another process |
| `task_stuck` | 1 process, 1 failed statement, fair | *violation*: a cancellation that never takes effect |
| `lease_fence` | 2 attempts of 1 run and a legacy request, 1 fault (a stall past both leases is one) | no lost update; completed exactly when published; a stalled attempt harms nobody; who ends holds nothing |
| `lease_live` | a run with a restoration or with a summary, 0 or 2 earlier versions, files to import, 2 faults, fair | a restoration never comes under a run's checkpoint; no writer, hung, dead or unanswered, holds the application for ever |
| `stream` | 1 page, 2 servers, 1 connection at a time, 1 fault, fair | order, where and why a stream ends; the page catches up; stale subscriptions leave |
| `graph_run` | 1 run, 2 types, 4 model calls, 2 tool calls, 4 tokens, 1 repair or retry, 2 crashes, 1 fault, bills up to 1 over | the gate, one question per plan, one budget for all attempts, published is checked |
| `chat_memory` | 2 requests and 1 summary, 3 messages, 1 fault | no message is missing from summary or prompt; usage agrees but for one count per failure |
| `chat_full` | 1 request and 1 summary, repeated, 5 messages, limit 3, fair | *violation*: failed summaries block the conversation for good |
| `site` | 10 cases: walks (1 or 2 walkers) with 2 or 3 messages, owner against administrator, visitors, a deleted user who logs in, 5 requests in 5 ticks, a page with a fault, a page and an administrator | deleted rows, walks, the limiter, one run per message |

**Bounds.** `MaxReady` (outbox rows of a run: its creation and one resumption are enough for two attempts to overlap), `MaxSeq` (handlers
stop emitting at this sequence; every transaction may still add its own events), `MaxFaults`, `MaxStops`. In the lease model each
attempt happens once, so the instance bounds itself; `MaxFaults` bounds crashes, stalls, lost answers (lock, claim, publication, release) and run rows that are not told together: a writer whose first lease ran out has stalled (`Lapsed`), and its second may run out at no further cost, so one fault is enough to overtake a live writer. `Earlier` gives an application versions at the start, so that there is something to restore. Two attempts of one run plus one outsider is the
smallest instance in which a stalled writer, its successor and a bystander coexist. Two processes are what a
deployment mistake or a rolling restart gives. In the streams, five events are enough for a run to park, resume and park again, and `MaxRetries` is 1 instead
of 10 so that a handful of failures exhausts it. Pages do not interact, so one is enough; subscriptions of different connections do not either, so `Conn` bounds how many exist at once, to one.
In the graph run, four model calls let a run route, generate, check and be interrupted in between, four tokens let a reservation be cut to what is left, `MaxOver` is how far a bill may exceed its reservation, and one retry is shared by repairs and repeated calls, so that either exhausts it; two crashes let an attempt that resumed be interrupted itself.
In the conversation the thresholds of `chat_memory_logic.go` (4, 16, 12, 2, 1000) shrink to (2, 3, 2, 1, 3): their order is that of the code, and three messages are enough for a turn to be summarised while its answer is outstanding. `MaxMessages` is what may be said, and bounds the resumed runs. One summary runs beside the requests; what several do to one another is proved (section 5), not run;
in the site, `Window` is the 100 of the code, `Rate` requests are let through per `Interval` ticks, and `Slack` is the second the keys live longer. The bounds of the chat page are messages, loads, posts at a time and rows. Symmetry
is used in `lease_fence` (the attempts of the run) and `chat_memory` (the requests), which check no liveness. Deadlock is not checked: a system whose runs have ended and whose users are satisfied stops.

**Fairness.** `TaskRuntime!FairSpec` assumes weak fairness of each process's steps (goroutines and the outbox ticker run), of a handler's ending
(its context lives at most 25 minutes, `manager.go:246`), of MySQL freeing the lock of a process that is down, and of starting a process that is down. `Drained` and `ProcessExit` are only reached after a shutdown; a halted server stays halted, for nothing in the code ends or restarts it. The claim of due outbox rows is
strongly fair: a row is due within a minute, so a loop that polls for ever finds it due, however often it polls too early. Nothing is assumed of users, of faults, or of handlers
before their deadline. `ExecutionLease!FairSpec` assumes only that the deadline of a budget cancels the context (`coordinator.go:31`) and that an unrenewed lease expires: nothing
about the progress of writers, so `LeaseEnds` also covers writers that hang, that die, and that never hear of the lock or claim they were granted. `RunStream!FairSpec` assumes that server goroutines, the 15-second timer and the browser
run, and that of repeated writes to a cut connection one fails (strong fairness, since the subscription works between them). It assumes nothing of notifications.
`ChatMemory!FairSpec`, which only the violation uses, assumes that requests and summaries go on, and that a summary whose model is asked again and again is answered at some time (strong fairness of `Summarise`): the block does not come from a model that never answers.
`GraphRun` and `Site` state no liveness: whether a run ends is up to models and users, and `ExecutionEnds` and `LeaseEnds` have the deadline.

## 4. Findings

* `task_lost_lock`: `gorm_store.go:65` promises that a second process fails startup rather than interrupt the first. The promise
  rests on one MySQL connection; when it drops, the first process goes on executing and the second interrupts its runs. The database stays
  consistent (`lease_fence`, and `ImplementsLifecycle` in section 5): the work is lost, not mixed.
* `task_stuck`: `MarkRunning` commits and then reads; when the read fails the run is `running` with nobody to execute it, and a
  cancellation of it stays `cancelling` until the server restarts.
* `chat_full`: `AGENT_MEMORY_SYSTEM_PLAN.md:52` says that summary failures must not block chat or code generation. A conversation with more than 1000
  messages since its last summary is refused by the function that the summary itself reads it through; each refused request adds another message.

Further facts the checks brought up, which contradict no statement of the repository. A request served by
a process that is shutting down can create or resume a run between the read and the writes of `InterruptStale` in its successor, which
fails the outbox row of a run it does not see as unfinished; `PendingIsServed` is checked with one process. `RunBaseIsCurrent` (the base of a resumable checkpoint is the current version) needs the older endpoints out of the way: they check for active runs before taking the lease,
and a run that started and parked in between can then not be resumed. Nothing is overwritten in either case. The cached page of the newest messages can be behind the rows by two messages (a slow reader caches it late, or the
clearing of the cache fails), and then a walk that begins with it skips the first of the two when it goes on by its cursor. `stale` remembers whether the cached page was ever `Behind` in this sense, and
`WalkMissesNothing` excuses such behaviours and no other: a page that is behind by one message alone does no harm. A logout deletes the session under the escaped name of its cookie, which is not the name it is stored under.

More of them, which the properties except in so many words:

* A failed `CheckRuntime`, even one lost answer with the lock still held, halts a server for good: it serves requests, keeps the lock if it has it, and starts no run until somebody restarts it (`PendingIsServed` excuses a halted server).
* A goroutine whose `Suspend` was committed and not answered reports a failure, and `store.Fail` compares no attempt number (`gorm_store.go:378`, `checkpoint_store.go:106`): a run that was resumed meanwhile ends as failed under the attempt that works on it. `OneAttemptAtATime` counts the goroutines that can still emit, save, return or suspend; the late one can do none of these.
* A run resumed after Redis forgot the hash counts from zero (`app_task_logic.go:227` reads no conversation, so `restoreTotalTokenUsage` is not called), and the page shows what was used since instead of the total (`app.gen.go:22`) until the hash expires once more. A summariser that lost its lease may write an old copy over the counts of others, with the same effect. `UsageAgrees` says nothing while `adrift`.
* A deleted user can log in and is answered with his own row (`UserLogin`, `user_logic.go:102-124`), and the lists of applications name owners who are deleted (`GetAppVoList`, `app_logic.go:531-564`). `DeletedIsHidden` excepts these two answers; everything else refuses such a user, also with a session opened after the deletion.

## 5. Proofs

All theorems hold for constants of any value that the modules' assumptions allow, and for any number of actors, crashes and faults. The assumptions (`TaskConstants`, `LeaseConstants`,
`StreamConstants`, `ChatConstants`, `GraphAssumption`, `LimitConstants`, `AccountConstants`, `AppConstants`, `PageConstants`, `SiteConstants`) say what kind of value a constant is: bounds are numbers, the
value for "nothing" is nobody and no number, each slot has its process, and the cases of `Site` begin with rows that fit the bounds, in the order of their seconds. A theorem that needs more says so in its statement.

Every invariant of a passing run, and every action property, is stated by one of the theorems below.

### The runtime

`TaskRuntimeProofs` proves `Spec => []TypeOK` (`TypeCorrect`), for any sets of runs, applications, processes and slots, from the assumption
`TaskConstants` alone. `TaskRowsProofs` proves the properties of the rows:

| Theorem | Says |
|---|---|
| `KeyHeld`, `OneRunPerApp` | `active_key` is held exactly while a run is unfinished; one unfinished run per application |
| `DoneIsLast` | a finished run has one `done` event, its last; an unfinished one none |
| `RecoverableRuns` | a recoverable run has a checkpoint |
| `EndsAreFinal`, `CancelsAreFinal` | action properties: nothing changes a finished run or its stream; a cancelling run only becomes canceled |
| `ImplementsLifecycle` | `Spec => LifecycleSpec`: every step of the runtime is a step of `RunLifecycle` or a stutter |

The argument: the invariant is `Inv == TypeInv /\ SnapInv /\ RowInv`. `RowInv` says, per run, what the columns owe one another (key held
iff unfinished and equal to the application, keys of distinct runs distinct, `done` empty or the last sequence according to the status, recoverable implies a checkpoint).
It is inductive but for the sweep of a starting process, whose read is older than its writes: `SnapInv` says that the `last_sequence` a
sweep remembers never exceeds the current one and, when they agree, the row still has a status the sweep may take it from, because every change of a
row is an event (`EveryChangeIsAnEvent`). So a sweep whose read went stale collides with an existing sequence number and is rolled back. No invariant about goroutines is needed: each transaction reads the row it changes under a lock, and the proofs show that this
suffices *whatever* the goroutines do. That is why the theorems hold for two processes that both believe they own the runtime.

### The attempts of a run

The goroutines do matter for `TaskAttemptProofs`. `AttemptInv == TypeInv /\ Accounts /\ Attempting`: `Accounts` says that nothing runs in a process that has not started or has drained and that a
process reserves one slot, for the message in hand; `Attempting` (`OneAtWork`, `WorkIsDue`, `HandlesAreOwn`) that no two goroutines that can still emit, save, return or suspend work on the same run, that a run at work is executing or finished, and that handles belong to goroutines of their run.

| Theorem | Holds | Because |
|---|---|---|
| `SlotsAccounted` | always | the slot and the message are taken and given back in the same steps of `dispatch` |
| `LockServesOne` | `Spec /\ [][LockKept]_vars => []OneRuntime` | one process has the runtime if MySQL takes the named lock from no process that is alive |
| `HandlesStayOwn`, `NobodyIsInterrupted` | `Spec /\ []OneRuntime => ...` | the sweep of a starting process meets no goroutine, so an attempt begins only after the one before it is over |
| `AttemptsComeInTurn` | `Spec /\ []OneRuntime => []OneAttemptAtATime`, whatever answers are lost, statements fail and servers crash | a goroutine leaves a run in the step that makes it resumable, or has only a failure to report: a lost answer leaves nothing else |
| `CancellationsArrive` | for one server without faults | the request can be served before the handle is registered, before the check of the row or after, and each of the three leads to a cancelled context |

The hypotheses are needed: with two servers the one that has drained still takes the cancel request and has no handle for it, and `task_lost_lock` shows what happens without `LockKept`. `task_fault` checks attempts, handles and slots with a lost answer anywhere, `task_crash` that cancellations arrive, and `task_live` that nobody is interrupted.

### The leases

`ExecutionLeaseProofs` proves every safety property of its runs, for any writers of any kinds, any faults and any earlier versions: `TypeCorrect`, `HistoryIsLinear`, `CompletedIsPublished`, `NothingIsLeftHeld`, `PublicationIsFenced`, `CheckpointsAreFenced`,
`LeaseStaysItsHolders`; and `ResumptionIsCurrent`, which assumes that no request of the older endpoints runs, as the finding above requires. The invariant is `Protocol`:

* `ClaimsAreNumbered`: no claim has an epoch later than the row's, and no two writers that have claimed have the same.
* `RowIsAccountedFor`, `KeyIsAccountedFor`: who is written in the row, or in Redis, has the latest claim or will not give it back (it crashed, or an answer was lost). With `lost` empty and the writer over, it holds nothing.
* `LatestBaseIsCurrent`: while a writer's epoch is the row's, nobody else moves the pointer, so the version it claimed is still current. This is what makes `publishTx` safe: it compares owner and epoch, and the version published is made from the last one.
* `StartsAtItsBase`, `ImportedFirst`, `OneActiveRun`, `CheckpointsAreOld`: a writer continues the version it claimed, the imported files come first, and no checkpoint is ahead of the row.

No part mentions expiry. The two leases only decide who may *try*: a writer that lost both of them and goes on is stopped by its number.

### The streams

`RunStreamProofs` proves `EventsAreShownInOrder`, `PagesReturnAtAStop` and `DoneIsBelievedOnce` for any number of pages, servers and connections, from the invariant `Delivery`. Its core is `InFlight`: the frames on the way to a page are the events right after
its cursor, without a gap, or they only repeat the cursor (a refusal, which the page skips). `OpenIsServed` adds that the subscription of an open connection stands where these frames end, `OneReader` that no two pages read one connection, and `StopIsSaid` that a run at rest has said so with its last event.
That notifications may be missing plays no part in safety.

### The graph run

`GraphRunProofs` proves every property its run checks: `TypeCorrect`, `GateCorrect`, `AskCorrect`, `SpendCorrect`, `PublishCorrect`, from `GraphAssumption` and `NoneAssumption` (the value for "no checkpoint" is not a checkpoint). The invariant has seven parts, each inductive with the help of those before it:
the types; `PlaceInv` (where the attempt is agrees with the row; an attempt that has not begun carries nothing); `OrderInv` (only agents are called, and a node that is done names its successor); and one part per property.

* `SpendInv`: what the provider was asked for, short of bills nobody saw and of what the last bill went beyond its reservation, is covered by the budget in memory while there is an attempt, and by the *reservation* in the checkpoint at all times; this is what survives a crash between a call and its settlement. A write of the budget that fails, or is made and not answered, leaves either figure, and both cover it.
* `PlanInv`: past the router there is a type, past the enhancer a plan, in the attempt and in the checkpoint. `GateInv`: at most one plan was ever approved, the checkpoint's, which no later step changes, and every attempt and every checkpoint carries its approval; so the gate is asked before code is generated and not asked again.
* `FileInv`: while the verdict is "valid" the files are those it was given for and nothing but the way out is left, also when the way out begins in another attempt.

### The conversation

`ChatMemoryProofs` proves `TypeCorrect`, `UsageCorrect`, `CoverageCorrect` (every summary covers everything up to its turn) and the action property `PromptCorrect` (the prompt and the summary together hold every message).
The invariant is `Types`, `Heard` (who is past his reading statement has read a summary that is among the rows or blank) and that every summary known to anyone, in the rows, in a local variable or in a draft, is `Sound`: it covers all messages up to its turn, and its turn is *closed*, that is, no message that is yet to be written can have it. The heart is that a cutoff taken between two turns is closed although others
go on speaking, since a new user message begins a turn and an answer joins the last one. The lease plays no part in it: it does not matter who lost it.

`UsageCorrect` needs the lease: `UsageInv == Rested /\ (Steady => Alone /\ Owed)`, where a state is `Steady` unless it is `adrift` or the application is deleted, whatever else failed. One actor at a time is past its acquisition and holds the lease; every copy of the hash that a summariser will write back
has the usage of the hash; and the hash and the row differ (`Near`) by the call that is being counted and by at most one count for each fault. When Redis forgets, everybody rests, and the next reader starts again from the row.

### The site

`SiteProofs` proves the invariants of `Site` one component at a time, each with an invariant of its own:

* `LimiterKeepsItsWindow` (`WindowInv`): of the requests let through since any moment within the last interval the sorted set has a member each (`MembersCount`), because its key outlives their interval; so the count that the script compares with the rate is never too small, although the set is trimmed and both keys may expire.
* `MessageHasOneRun` (`PageInv`): a message has one request id, which is in the tab's pending request, in its posts and in at most one row; repetitions, reloads and lost answers copy the id and never make one.
* `DeletedStaysHidden` (`HiddenInv`): what a request has read so far was there when it was sent, step by step of its route, and the note of what was deleted before only refers to rows that stay deleted. The exceptions are those of the property: the user a login answers with, and the owners in a list.
* `WalksMissNothing` (`WalkInv`): while no cached page was ever `Behind`, the cached page and the page in hand are intervals of the messages that end at most one before the last, and a walk continues right below its cursor. Order by second and id agrees with order by id because rows are inserted under the lock of the application (`SecondsFit`).
* `TypeCorrect` (`CountsInv` and the shapes above): the types, and that no case asks for more than its bounds.

The proof of `WalksMissNothing` changed the model. An earlier form of `stale` marked a page only when it was cached late; the step from an insertion with a failed clearing could not be proved, and TLC confirmed that it leads to the same gap.

### What is not proved

Liveness: `PendingIsServed`, `CancelSettles`, `ExecutionEnds`, `LeaseEnds`, `CatchesUp` and `SubscriberLeaves` stay with TLC, since the prover has no rules for fairness. So do the three violations (`task_lost_lock`, `task_stuck`, `chat_full`), and the properties named above in behaviours outside the hypotheses of their theorems.

## 6. Not modelled, and why

* Several statements of one MySQL transaction under `FOR UPDATE` are one action; deadlocks between transactions and serialisation failures are failed statements.
* Contents of versions and workspaces (a version is a number and the version it was made from), the integrity hashes and `RegisterSnapshot`, path checks, prompts, parsing, build output: input and output without a protocol.
* The first message of a run's conversation reaches the model through the agent's own memory, which is `ChatMemory`'s; `GraphRun` does not repeat it.
* Time is not measured, except by the rate limiter: an expiry, a deadline, a retry delay may happen at any moment its guard allows. Renewal is the absence of expiry.
* The four model slots of a process (a semaphore around one call) and calls of one budget at the same time, which its mutex serialises.
* The older workflow with its concurrent image collectors (`code_gen_workflow.go`), which no handler starts; functions nobody calls (`ListAppChatHistoryByPage`, `DeleteByAppId`) and the Redis list of recent messages, which is written and never read.
* The facade's stream while it is parsed (a pipe with one reader and one writer); the project builder (one npm process and its deadline); language models, image services, object storage, metrics, generated data access, pages other than the chat page.

## 7. Plan

1. `TaskRuntime`, `RunLifecycle` and their proofs; `ExecutionLease`; `RunStream`; `GraphRun`, `ChatMemory` and their proofs; `Site` and its parts: done.
2. Proofs of `ExecutionLease`, `RunStream`, the attempts of `TaskRuntime`, the usage of `ChatMemory`, `Site` and its parts: done.
3. The composition of runtime and lease (a run dispatched before its predecessor's lease is released fails as busy).
4. A proof that `ChatPage` on top of `RunLifecycle` keeps the promises of the latter, so that what a page follows is a run of the runtime.
