# A TLA+ model of claude-code-rust

This directory holds TLA+ modules that model the core of the program under `src/`,
the TLC configurations that check them on small instances, and theorems about
them that the TLA+ proof system checks for every value of the constants.
Paths below are relative to `src/`; `PROJECT.json` maps each definition to its lines.

## 1. The system and its parts

The program is an agent for a terminal: it sends a conversation to a language
model, runs the tools the model calls, and sends the results back until the model
answers without a call. The parts that have state and concurrency of their own:

| part | state it keeps | operations | hard behaviour |
|---|---|---|---|
| query loop, `crates/cc-engine/src/query` | `QueryLoopState` (messages, turn count, recoveries), budget tracker, one model attempt with its streaming tool executor | one iteration: drain, compact, call the model, recover or fall back, run hooks, run tools, go round | tool tasks beside the stream, retries, aborts, steers, ten ways round the loop |
| engine lifecycle, `crates/cc-engine/src/lifecycle` | transcript, abort flag, steer queue, queue of finished agents | `submit_message`, `abort`, `reset_abort`, `submit_steer_message` | called from the user's task while the loop runs; outlives a submit |
| compaction, `crates/cc-compact` | none (the history is the loop's) | snip, collapse, auto and emergency compaction, summary | where a history may be cut; what is kept |
| background agents, `crates/cc-engine/src/agent` | jobs with cancel tokens and handles; the parent's agent records | spawn, cancel, shut down, finish | cancel, shutdown and the agent's own end race; each writes the task store |
| task store, `crates/cc-tasks` | one file per task, a list lock, a high-water mark, runtime handles | create, update, claim, stop, delete, recover | several processes; a restart; writes with no terminal guard |
| gateway, `crates/gateway` | run metadata, event log, idempotency index, all in files | create, update status, submit, stop, approve, answer, deliver, recover | handlers, worker and recovery write the same files without a lock; a crash between any two writes |
| daemon and its worker, `crates/cc-daemon` | command files (pending, acked, handled, failed), heartbeat, restart count | claim, execute, acknowledge; start, poll, restart, terminate | abort waits behind submit; a crash after the claim; a worker that outlives its daemon |
| agent teams, `crates/cc-teams` | an inbox file and a lock file per member, the registry of in-process teammates, their runners | send, poll, handle, mark as read, stop, kill | the file is read without the lock and written in two steps; old locks are removed by waiters; a kill drops the runner at an await |
| MCP client, `crates/cc-mcp` | a client per server: next identifier, pending requests, pipes, reader task; all clients behind the manager's mutex | connect with retries, handshake, call, disconnect | late and repeated answers, identifiers that begin again, a server that dies or stops reading, calls dropped at an await |
| services, IPC, sessions, language servers | schedules, connections, pending callbacks | see the note of each in `PROJECT.json` | correlation of requests and answers, reconnects |
| the rest | settings, rules, screens, credentials | sequential or pure I/O | none that a model checker reaches |

How they interact. A frontend (terminal, web, daemon) holds one engine and calls
`submit_message`, which returns a stream. The stream is pulled: the loop runs only
when the frontend asks for the next item, and the engine records each item before
the loop resumes. Tool executions are tasks of their own. The user's steer and
abort reach the engine from another task, at any time. A background agent is
another engine in another task; when it ends it leaves a result in a shared queue,
which the parent's next iteration drains, and writes its status to the task
store. A tool of an MCP server is a call to another process over a pipe, made under
a mutex that all such calls share. The gateway accepts runs over HTTP and hands them to a daemon worker by
way of command files; the worker drives an engine and writes the run's status
back through the same store.

What makes each part correct:

- query loop: every tool call of a response is executed once and answered before
  the next request; serial tools do not overlap; nothing is left running when a
  response is thrown away; every way round the loop is used finitely often;
- engine: what the user steers with and what agents report is recorded once and in
  order; the loop's copy of the conversation and the engine's agree; an abort ends
  one submit; limits hold on every way round;
- compaction: no result without its call;
- agents and tasks: a task that has ended stays ended; a cancelled agent is
  cancelled; no task stays in progress with nobody working on it; an identifier is
  never used twice;
- gateway and daemon: a terminal run stays terminal; one run per idempotency key;
  every command is executed once or reported failed; after recovery no run is
  active without a worker;
- teams: a message that its sender was told of stays in the inbox; messages are
  handled in order, once, and reach the engine; a teammate that is gone keeps no
  task;
- MCP client: a request gets its own answer and misses none, if the server does not give
  its number to a request of its own; a call ends, whatever the server answers.

## 2. The modules

| module | models | extends |
|---|---|---|
| `QueryLoop` | the query loop with the engine that consumes it, the steer queue, the tool tasks, and compaction as the loop sees it | |
| `MCQueryLoop` | its instances for TLC | `QueryLoop` |
| `QueryLoopProofs` | theorems about its types and its tools | `QueryLoop`, `TLAPS`, `SequenceTheorems` |
| `ConversationProofs` | theorems about the conversation: history, transcript, queues, calls and results | `QueryLoopProofs`, `FiniteSetTheorems` |
| `TaskStore` | the task list that the processes of a team share: its files, its lock, its recovery | |
| `MCTaskStore` | its instances for TLC | `TaskStore` |
| `TaskStoreProofs` | theorems about it | `TaskStore`, `TLAPS`, `WellFoundedInduction` |
| `GatewayStore` | the gateway's files: a write is a definition | |
| `DaemonCommands` | the command files between the daemon and its worker | |
| `GatewayRuns` | both at work: handlers, workers, supervisor and recovery, with their crashes | `GatewayStore`, `DaemonCommands` |
| `RunRegistry` | abstract: what a client of the gateway may rely on | |
| `MCGatewayRuns` | the instances of `GatewayRuns` for TLC | `GatewayRuns` |
| `GatewayRunsProofs` | theorems, among them that `GatewayRuns` implements `RunRegistry` | `GatewayRuns`, `TLAPS`, `SequenceTheorems`, `FiniteSetTheorems` |
| `BackgroundAgents` | launch, run, abort, stop and shutdown of background agents | |
| `MCBackgroundAgents` | its instance for TLC | `BackgroundAgents` |
| `BackgroundAgentsProofs` | theorems about it | `BackgroundAgents`, `TLAPS` |
| `Filters` | the filter of a sequence, in a form that proofs can unfold | |
| `FilterProofs` | lemmas about it | `Filters`, `TLAPS`, `SequenceTheorems`, `WellFoundedInduction` |
| `Mailbox` | an inbox and its lock file, write by write | `Filters` |
| `Teammates` | the runner of a teammate, those who write to it, and `/team kill` | `Mailbox` |
| `MCTeammates` | the instances of `Teammates` for TLC | `Teammates` |
| `TeammatesProofs` | theorems about both | `Teammates`, `FilterProofs` |
| `McpClient` | requests to an MCP server over a pipe, its reader, and the manager that connects it | |
| `MCMcpClient` | its instance for TLC | `McpClient` |
| `McpClientProofs` | theorems about it | `McpClient`, `TLAPS` |

### QueryLoop: correspondence to the code

`pc` names the awaits and checks of `query_loop` (`loop_impl.rs`): *setup* is the
top of the loop, *request* the model call, *stream* the response, *answer* a
response without calls, *tools* and *results* one with calls, *ending* a loop that
has broken while its stream is not yet drained, *idle* the time between submits.

| variables | in the code |
|---|---|
| `history`, `turn`, `recovery`, `budget` | `QueryLoopState` and `BudgetTracker` |
| `attempt` | `AttemptAccumulator`, `StreamingToolExecutor`, and the locals of one response |
| `task`, `runs` | the tool futures; `runs` only counts, for `ToolRunsOnce` |
| `transcript`, `aborted`, `steering`, `pending`, `background` | the engine's messages, abort flag, `ActiveSteerState`, pending agent results |
| `firstTool`, `used` | which calls are this submit's; what the environment has used of its bounds |

The actions follow the loop: `Setup` and `SetupAborted` (steps 1 and 2),
`Request...`, `Prompt...` and `Stream...` (step 3, `handle_prompt_too_long`,
`classify_model_call_failure`, `add_tool_use`), `Response...` (step 4),
`AnswerSteered`, `Escalate`, `ContinueTruncated`, `StayTruncated`, `StopHook...`,
`ContinueBudget`, `AnswerAccepted` (step 5), `StartTool`, `Tools...`, `PushResult`,
`NextTurn` (step 6). `Submit` and `FinishSubmit` are the engine's; `Steer`,
`Abort` and `AgentFinishes` come from other tasks; `FinishTool` and `CancelTool`
are the tool tasks. A step ends where another task can make a difference: before
an abort check, a drain or an await.

Abstractions. A message is its kind and the tool calls, steer or agent it carries.
Every decision of the model, of a hook and of a tool is a choice. Thresholds and
token estimates are left out: any cut the code could make at the start of a turn
may happen wherever the code compacts (`Cuts`, `Summary`); session-memory
compaction, which keeps a suffix chosen by size, is not among them. Tokens are
counted in units of the budget. `ResponseArrives` also covers a stream that breaks
with a read error after text, which the code accepts. Left out: `max_budget_usd`,
submits that do not query (slash commands), the summary message of a tool turn, a
caller who drops the stream half-way, and the words of every message. A cancelled
task is *condemned* until it reaches an await: the executor's `abort` does not
wait for it, and neither does the model.

### TaskStore: correspondence to the code

| variables | in the code |
|---|---|
| `file`, `watermark`, `lock` | `<id>.json`, `.highwatermark` and `.lock` in the list's directory |
| `at`, `tasks`, `first`, `last` | where a process is in an operation, its local map of tasks, and the entries it has yet to persist; `last` are persisted after `first` (the task itself after those it blocks; the dependent tasks after the deleted one) |
| `unread` | the files `load_with_startup_recovery` has yet to load |
| `remote` | which tasks `is_remote_recoverable_task` holds of; chosen once, as the code never changes a task's kind |
| `working`, `born`, `unchecked` | history: who was told by `claim_task` that a task is his; how often an identifier was given away; whether a task was taken other than by a claim with the busy check |
| `used` | what the environment has used of its bounds |

Each method of `TaskStore` that changes the list is an action, `Create` to
`Unassign`: `LockedStep` takes the lock, reads the directory and decides; `Write`
persists one entry; `Finish` drops the guard. `SetStatus` is `try_update_status` and
`try_stop`; `SetFields` is `try_update_fields` and, when nothing changes,
`append_output`. `Expire` is the check of review timeouts that `get` and `list` do,
`Start`, `Load` and `Started` are the construction of the store, both without the
lock. `WriteFails` is an error of the file system: the strict methods give up, the
claim grants the task all the same. `Crash` may come between any two writes and
leaves the lock file, which nothing removes.

Abstractions. Reading the directory is one step under the lock. The files are of the
current schema: whoever loads one of an older schema converts it, without the lock too
(`repository.rs:171`), and is left out. A status the code
does not tell apart from another one is left out (`stopped` is read as `cancelled`).
Texts, output, times and metadata are left out, and so are runtime handles, which
are local to a process. `try_update_fields` is asked for one field at a time. Any
task may be a review (its metadata says so), so `Expire` takes any.

### GatewayRuns, GatewayStore, DaemonCommands: correspondence to the code

| variables | in the code |
|---|---|
| `index`, `dir`, `meta`, `told` | `idempotency/`, a run's directory, `meta.json` and `events.ndjson` (of the events, the first and the terminal statuses: what the code looks for) |
| `commands` | the worker's command files, oldest first |
| `pc`, `to`, `of`, `slot`, `plan`, `answer` | the locals of the HTTP handlers and of `recover_on_startup`; `to` is the status that `update_status` is giving a run |
| `cur` | the command a worker has claimed |
| `todo` | the runs that the recovery listed, with the status they had |
| `daemon`, `managed`, `restarts`, `orphans` | the daemon process, `WorkerRegistry.workers`, `restart_count`, and the workers that a daemon which crashed left behind |

Four sorts of process share nothing but files. A handler follows `submit_run`:
`Submit` (`authorize`, the busy snapshot, `find_idempotent_run`), `ReserveSlot`,
`AwaitRun`, `CreateDir`, `CreateMeta`, `Decide` (`append_event`, `evaluate_busy`),
`SendAbort`, `FindCommand`, `SendSubmit`; or `stop_run`: `StopRun`, `SendAbort`.
Whoever calls `update_status` goes through `Load`, `Write` and `Tell`, which are its
read and check, its rename and its event. The worker is `ClaimRead` to `MarkDone`;
the daemon is `StartWorker`, `Poll`, `DaemonCrashes`, `DaemonStops`, `DaemonStarts`;
the recovery is `Recover` and `Recovered`.

Abstractions. A run has the name of the request that created it. Commands are in
the order they are written (their names hold a time), the recovery looks at runs in
any order, and the rename in `write_meta` is one step: two writers who meet in the
temporary file `meta.json.tmp` are left out. So is an append to the event log, which the
code makes in several unbuffered writes (`store.rs:119`): lines of two processes may mix
there, and do not here. A worker may start while the recovery
runs, since `start_all` and the routes are set up by different tasks. A daemon that
stops, once it supervises a worker, asks it to exit and kills it if it does not; of
the orphans only an idle one may see that request before it is withdrawn. A kill is
assumed to work. A webhook takes its busy snapshot as 0 or 1. Left out:
authentication, approvals and answers (no code gives a run the status they wait
for), delivery, the session lock (nothing acquires it), `/submit` commands without a
gateway run, texts and times.

### BackgroundAgents: correspondence to the code

| variables | in the code |
|---|---|
| `launch` | how far `spawn_background_agent` has come |
| `run`, `outcome`, `left` | how far `AgentRuntime::run` has come, `was_cancelled` and `had_error`, and a command of a tool that the run has left behind |
| `worktree` | `WorktreeRuntime`: none, clean, changed, removed, or removed with changes (*lost*) |
| `task`, `handles` | the status in the task store and its `runtime_handles` |
| `tree` | the agent's node in the agent tree |
| `active`, `attached` | `SupervisorState.active`, and which jobs have their join handle |
| `cancelled` | the cancellation tokens |
| `at`, `whom` | the aborts (`AbortAgent` of the IPC) and the `TaskStop` calls |
| `shut`, `jobs`, `job`, `aborting` | `shutdown_all`; `taken` is history |

A step is what is done under one lock, or between two awaits. The launch registers
the agent in four places one after the other (`RegisterHandle`, `Show`, `Register`,
`AttachHandle`) around the start of the run (`SpawnRun`); the run leaves them one
after the other (`UpdateTask`, `Unhandle`, `Complete`, `ShowEnd`, `Tell`). A stop is
`StopCancel` and `StopWrite`, the two halves of `try_stop`, and `MarkAborted`. The
shutdown takes the jobs, cancels and stops each, waits (`ShutJoins`) or gives up
(`ShutGivesUp`), and then looks at the worktree itself.

Abstractions. The task store's operations are atomic here: `TaskStore` is what
justifies that. Left out: what an agent does but for its effect on its worktree, the
effects of hooks, the write of a task that fails, panics, agents launched by agents.
A count of changes that fails stands for changes, as in the code; a removal may fail.

### Mailbox, Teammates: correspondence to the code

| variables | in the code |
|---|---|
| `inbox`, `garbled` | the member's inbox file, and whether it parses |
| `lock`, `old` | `<inbox>.lock` and whether `is_stale_lock` holds of it; `lock` names its creator, whom the code does not look at |
| `at`, `copy` | where each process is in `with_lock` and `fs::write`, and the text it is about to write |
| `run`, `from` | where the runner is, and the loop (`drive_engine_turn` or the idle one of `run_teammate`) whose tick made it look at the inbox |
| `batch`, `plain`, `leaves` | the unread messages of `process_mailbox`, and its `MailboxActions` |
| `pending`, `status`, `attached` | `pending_user_messages`, the task's status and its abort handle, in the registry of `in_process.rs` |
| `cancelled`, `aborted`, `killer`, `grabbed` | the cancellation token, the abort of the runner's task, and how far `/team kill` has come |
| `tool`, `owns` | a tool of the engine, and whether a task of the list that is not over is the teammate's |
| `kind`, `approves` | what a message is; whether requests to shut down are approved |
| `stirred`, `prompts`, `handled`, `late`, `kept`, `aged` | history: what a reader may have seen half of, what the engine was given, what was handled; what a property excepts |

`WithLock` is `with_lock` with its closure: `TakeLock`, `SeeOld` and `BreakLock`,
`GiveUp`, `ReadAgain`, `Truncate` and `Fill` (the two halves of `fs::write`),
`Unlock`. A sender goes through it once (`Send`, `Sending`), the runner each time it
marks (`Mark`, `Marking`). A poll is `BeginRead`, `EndRead`, an `Act` for each
message, the marking, and `Acted`; `Drain` is `take_pending_user_messages` after a
turn. The runner ends by `Fail`, `Cancelled` and `Stop`, with `Release` once or twice,
or it is `Dropped`. `/team kill` is `KillStops` to `KillReleases`.

Abstractions. There is one teammate, since teammates share nothing but the task list;
each message is written by a task of its own; the list holds one task of the
teammate's. `unassign_teammate_tasks` is one step here: `TaskStore` has its writes.
An error of the file system while the lock or the inbox is written is left out, but
for an answer to the leader. Left out too: what changes no message, task or end (the
idle flag, permission mode, the plan flag, the team file, the first prompt, the
leader's inbox, which is only counted), teammates in panes, and `terminate`,
`clear_mailbox` and `mark_as_read_by_index`, which only tests call.

### McpClient: correspondence to the code

| variables | in the code |
|---|---|
| `lock`, `known` | the mutex around `McpManager` (`mcp_tool_adapter.rs:80`), and whether `clients` has the server |
| `man`, `wish`, `tries`, `ops` | how far `run_mcp_runtime_operation` has come in `connect_server` or `disconnect_server`; `ops` is the environment's bound |
| `next`, `pending` | `next_id` and `pending` of the client of this connection |
| `at`, `id`, `mail` | where a request is in `send_request_with_timeout`, its identifier, and its `oneshot` channel |
| `line`, `served` | whose texts are in the pipe since the last end of a line, and which requests the server has read |
| `alive`, `reading` | the server's process and the task of `reader_loop` |
| `answered` | history: requests whose answer the reader has read |

A call is `Call`, `TakeLock`, `Register`, then the write (`BeginLine`, `EndLine`,
`Flush`, or `WriteFails`), then `Receive`, `TimeOut` and `GiveUp`; it may be dropped
(`Drop`) wherever it awaits, since the executor of the query loop aborts the tasks of
tools. The handshake's two requests go the same way, under the manager's steps
`Connect`, `Initialized`, `Notify`, `Connected` and `ConnectFails`. The reader is
`Dispatch`, `DispatchRequest` and `ReaderExits`; what it does in the first two is under
the mutex of `pending` (`Deliver`), and so is each change by a request. The server answers
what it has read in any order, twice or never, with an error or not, and dies at any
moment. It also makes requests of its own (`ping`, or the `roots/list` that `initialize`
invites), with numbers from the constant `ServerIds`, at any moment and any number of
times: the reader takes each for an answer without a result (`Null`).

Abstractions. One server over stdio; the SSE and the streamable HTTP transport, which
send requests by HTTP, authentication and resources are left out. So are a server's
requests whose identifier is no number, which the reader ignores, and a server that
answers what it was not asked. The next identifier
is taken and entered in one step: with the manager's mutex held nobody else takes one in
between, and if the call is dropped there, a number is skipped. `disconnect` is one
step, since the mutex keeps everybody out but the reader, which it aborts. A
notification is one line written at once, as long as the server lives. Reconnecting
is connecting: `reconnect_server` drops the client once more, which changes nothing.

### What the runs check

| run | configuration | shows |
|---|---|---|
| `loop` | four calls, two turns, fallback, one steer, one abort, every outcome; or two submits, two steers, one agent, one compaction, prompts that are too long, a Stop hook | `TypeOK`; no call runs twice (`ToolRunsOnce`); serial calls do not overlap (`SerialToolsInOrder`); nothing is left running by a discarded response (`NoToolOutlivesItsResponse`); no request holds an unanswered call of its submit (`CurrentCallsAnswered`); `StopHooksCannotLoop`, `SteersInOrder`, `AgentsReportedOnce`, `LoopAndEngineAgree`, `SteersDroppedOnlyAtEnd` |
| `live` | every failure, hook answer and stop reason, a token budget, no turn limit | every submit ends (`SubmitEnds`); no request holds a result without its call (`ResultsFollowTheirCalls`) |
| `abort` | a frontend without `reset_abort` | violated: `SubmitStartsUnaborted` |
| `orphan` | a tool that adds messages, two calls, one compaction | violated: `ResultsFollowTheirCalls` |
| `claims` | two processes and agents; two tasks, four operations, a crash, a failed write; or one task beside two starts and an expired review | `TypeOK`; no identifier comes twice (`IdsNeverReused`); no task is promised to two agents (`ClaimsExclusive`); no agent has two tasks (`OneTaskPerOwner`); no task is promised before what it waits for is completed (`ClaimsWaitForDependencies`) |
| `recovery` | two tasks, three operations, a start | violated: `InterruptedWithoutWorker` |
| `gateway` | two submissions with one key from one source or two, or one and a stop; two workers, a fault | `TypeOK`; one run per key, published and sent at most once, and every answer is it (`ImplementsRegistry`); nothing is sent twice (`SentOnce`); an end is recorded before its command is marked (`MarkedAfterTheEnd`); one worker beside the orphans (`OneExecutor`); no status without its cause (`StatusesHaveCauses`); a command does not wait for ever (`CommandsTaken`) |
| `quiet` | a submission, a stop, no fault | violated: `StoppedRunsAreQuiet` |
| `agents` | an agent, an abort, a `TaskStop`, a shutdown | `TypeOK`; an agent that is over is over everywhere (`OverMeansOver`); it has a supervisor till then (`SupervisedWhileRunning`); changes are not removed with the worktree (`WorkKept`); the shutdown leaves no task unfinished (`ShutdownEndsTasks`); aborts end runs (`AbortsEndRuns`); ends are told (`EndsAreTold`) |
| `team` | two messages of every kind, with a lock that grows old; or one beside a tool and a kill | `TypeOK`; no message is lost before a lock is old (`MessagesKept`); each is handled once, in order (`HandledInOrder`), and the engine has what was handled (`IdleMeansDelivered`); a teammate that is gone keeps no task (`TasksReleased`); a message is read in the end (`MessagesAreRead`); a kill ends the runner (`KillEnds`) |
| `swallowed` | two messages, no old lock | violated: `ReadMeansHandled` |
| `mcp` | two calls, two operations of the user, two attempts to connect, a server with requests of its own | nobody gets another's answer, and only who shares a number with the server gets what is none; none is missed (`AnswersAreOwn`); a call that waits for the mutex ends (`CallsEnd`) |

Bounds. Every bound is a constant named at the end of `CONSTANTS`, and bounds the
environment only: submits, calls, steers, aborts, agents, compactions. Four calls are
what it takes to have a batch before and after a serial call and a second response;
two steers are what it takes to see an order; two submits are what it takes to see
the transcript outlive a query. `MaxConcurrentTools = 2` makes the cap bite with
three calls. The constraint of `loop` takes the two sides of its configuration one at
a time: `Tools` has one submit, no compaction, no agent and no Stop hook, and five
calls, steers and aborts together; `Talk` has one tool call, no abort and no fallback,
and four calls, steers, agents and compactions together, three with a second submit. In the task list, four operations are what it takes for two tasks to be created and
claimed, or for one to be claimed, released and claimed again; two processes and two
agents are what it takes to disagree. Beside starts and reviews, one task is enough,
since `ClaimsExclusive` is about each task by itself: the constraint `Mixed` cuts
`claims` to one task, six steps of the environment and no failed write once a
process has started or a review has expired. In the gateway, two submissions are what
it takes for one to come second, and one is enough beside a stop, which is about a
run by itself; two workers are what it takes to have an orphan beside a new worker;
one fault is a crash of any process between any two of its steps. A second submission
comes beside no stop, and beside a fault only with the first one's key, since what
they share is the key. With two submissions the queue is never full. There is no
symmetry reduction, since liveness is checked: the constraint `Ordered` cuts what
differs by names only.
One agent is enough in `agents`: agents meet only in the list of jobs that a
shutdown works through, which the theorems cover for any number. In `team`, two
messages are what it takes to see an order and two writers at one file, with the
teammate as the third, and a message that changes nothing comes beside a plain one
only; beside a tool or a kill, which are about the runner's end, one
is sent. One old lock, of two plain messages, is what it takes for two waiters to
remove two locks; one late claim shows why `TasksReleased` excepts it. In `mcp`, two calls are
what it takes for one to find what a dropped one has left, in the pipe or among the
pending requests; two operations are what it takes to disconnect and to connect again,
or to meet a second connection's identifiers; a server whose requests have the numbers 1
and 3 meets the first request of a connection and the first call, and leaves others alone, and
one operation comes beside a call that it has met (`Beside`); two attempts let one fail before one
succeeds, and two servers would share nothing but the mutex. The theorems lift these bounds. The runs stop when the bounds
are used up and nothing is asked for: `CHECK_DEADLOCK FALSE`.

Fairness. `live` assumes weak fairness of the loop as a whole, since the runtime
polls it while it can take a step; the model's stream has an idle timeout, so
waiting for it is a step of the loop too. It assumes weak fairness of each tool
task: that tools return is a premise, since the code does not time them out in the
loop. Nothing is asked of the user, hooks may always prevent, every model call may
fail, and only the number of tool calls (`MaxToolUses`) is finite: a model that
calls a tool in every response for ever keeps the loop going, which is intended
where no turn limit is given. `gateway` assumes weak fairness of each handler and each
worker that lives, of the recovery and of the supervisor's polls: they are processes
and tasks that the system schedules, and a model's stream comes to an end as above.
Nothing is asked of faults, nor of who starts the daemon again, so `CommandsTaken`
excepts a daemon that is down and a worker that was given up. `agents` assumes weak
fairness of each launch, of each run, of each stop and of the shutdown, which tokio
polls. It assumes none of the agent's turn, which may wait for a model or a user for
ever: that an abort ends it all the same is what `AbortsEndRuns` says. `team` assumes
weak fairness of each sender that waits for the lock, of the runner's polls
(`Inboxing`), of what it does at its end (`Leaving`) and of the kill, which tokio
polls. It assumes strong fairness of `Ending`: at its await the runner chooses by
`select!` among the tick and the cancellation, at random, so a cancellation that is
there each time is taken in the end, though the tick's branch disables it in between.
It assumes none of the turn, of its tools, nor of locks that grow old. `mcp` assumes
weak fairness of what each request awaits but the write (`Awaited`, with its timeout) and of
the manager's steps (`Connecting`), and strong fairness of those who wait for the
mutex, which tokio gives in the order in which it is asked for. Of the server it assumes
nothing, neither that it answers nor that it reads: that no write stays blocked for
ever is the premise of `CallsEnd`, because the code gives a write to a pipe no timeout.

### What is proved

`QueryLoopProofs`, for every value of the constants allowed by
`QueryLoopAssumption`:

- `TypeCorrect`: `Spec => []TypeOK`.
- `ToolsRunOnce`, `SerialToolsWait`, `NoToolIsLeftBehind`: three of the properties
  of run `loop`, from `ToolsCorrect`.

None of the three properties is inductive: whether starting a call runs it twice
depends on what the sets of the attempt say of it. `ToolInv` adds what they need.
*FreshCallsWait*: a call not yet made, or made and neither started by the stream nor
begun by a batch, has no task and no run. *StartedAreSafe*: the stream starts only
safe calls, each before the first serial one. *BegunAreLeft*: batches begin only what
the stream has not started, in order, only once the stream's calls have returned,
and across a serial call only when what lies before has returned. *AbortsCounted*:
the abort flag is up only if an abort is counted, so that without one a response
is never dropped. A lemma per action shows it keep each conjunct; the theorems
then follow by `PTL`.

`ConversationProofs`, about the same specification and from the same assumption, with
any number of turns, calls, steers, agents, cuts and submits. Most steps say nothing:
`StepKinds` sorts the steps into twelve kinds by what they append, queue, drain or cut,
and each invariant is proved kind by kind.

- `SteersKeepTheirOrder`, `AgentsAreReportedOnce`, from `QueuesCorrect`: the transcript
  and the queue behind it, taken together, hold the texts of the user, or the ends of
  agents, with rising numbers. A drain moves the border between the two and leaves the
  whole as it is, which is why the queue has to be in the invariant.
  `SteersAreNotLost` is the action property beside it.
- `LoopSendsTheRecord`, from `ConversationsAgree`: until something is compacted, the
  transcript is the history without the messages that only the loop has. The property
  asks that where a request is made; the invariant has it at every step, because the loop
  pushes and the engine records in different ways round.
- `StopHooksDoNotLoop`, from `HooksCorrect`: where the flag `stop_hook_active` is
  down, a result stands behind the last message of a hook. *AnswersBelongToResults* says
  that each way round the loop begins with a response that has no answers yet.
- `RequestsAreAnswered`, from `CallsCorrect`: until the query ends, the only
  calls of this submit without a result are those whose tools run or whose results are being
  pushed. That a response's calls have been counted, so that those of the
  next submit lie above all that is recorded, is taken from `ToolsCorrect`.
- `ResultsHaveCalls`, from `ResultsCorrect`, with the hypothesis that `"messages"` is not
  among `ToolOutcomes`: no tool adds messages. Then every result of the transcript and
  of the history has its call before it and no start of a turn in between, so a cut, which is made
  at such a start, parts none. Run `live` has the hypothesis; run `orphan` shows that
  without it the property fails.

`TaskStoreProofs`, for every value of the constants allowed by
`TaskStoreAssumption`, with any number of processes, agents, tasks and crashes:

- `TypeCorrect`: `Spec => []TypeOK`, from `WritersInv`: who holds the lock is
  exactly who writes under it (*Writers*), what a claiming process has yet to write
  is a claim (*Claims*), and what is written beside the lock ends a local task
  (*Endings*), which is why those writes do less harm than they might.
- `IdsUnique`: an identifier given away lies below the high-water mark (*IdsInv*),
  and the next one above it. That a greatest identifier exists is proved from the
  well-foundedness of the naturals (`MaxOfBounded`).
- `ClaimsAreExclusive`: a promise names the owner in the task's file, and so does a
  claim that is not yet written (*Promised*). The second half is what makes it
  inductive: a task is promised before its file shows it.
- `OneTaskEach`: an agent has at most one task, counting those the lock's holder is
  about to write (*OneEach*); a step that is no operation gives nobody a task
  (`HasKept`), and an operation either gives nobody one or is a claim
  (`OperationSorts`).

- `ClaimsWait`: while all writes are locked, a claiming process has one task to
  write, whose dependencies are those of its file and completed (*Ready*); nobody
  else writes meanwhile (`ClaimerWritesAlone`). An action property, `[][A]_vars`,
  from that invariant.

`GatewayRunsProofs`, for every value of the constants allowed by
`GatewayAssumption`, with any number of requests, workers and faults:

- `GatewayTypeCorrect`, `SubmittedOnce`, `EndsBeforeMarks`,
  `SupervisorHasOneWorker`: the invariants of run `gateway`, from `Invariant`.
- `NoStatusWithoutCause`, from `CausesCorrect`: the invariant `StatusesHaveCauses` of run
  `gateway`. A status is written long after its cause, by a process that read or decided
  it earlier, so `CauseInv` says of every process what the status that it is giving a run
  rests on (*UpdateCaused*), and that who works on a command has claimed it (*HasClaimed*);
  that commands and claims stay is what keeps it true.
- `GatewayImplementsRegistry`: `Spec => RunRegistry!Spec`. `ReserveSlot` is *Bind*,
  `CreateMeta` is *Publish*, `SendSubmit` is *Send*; whatever replies is *Answer* or
  *Refuse*; the rest, faults included, stutters.

None of these is inductive: that a request's run is sent once depends on where
its handler stands. `Inv` adds, per process, what its place says of the files
(*RequestsOK*: who is past `ReserveSlot` owns its slot, who is past `CreateMeta` has
its metadata), what a command says of its run (*SentsOK*, *SubmitsDiffer*), what
stops, the recovery and workers work on (*AboutsOK*, *WorkersOK*), and what an update
under way may still write (*UpdatesOK*). Two facts about every step carry the proof:
files only grow (*Grows*), and a step of one process leaves the others where they
are (*Still*).

`BackgroundAgentsProofs`, for every value of the constants allowed by
`AgentsAssumption`, with any number of agents, aborts and stops: `AgentTypesCorrect`,
`OverEverywhere`, `AlwaysSupervised`, `UncancelledWorkKept`, `ShutdownLeavesNoTask`,
from one invariant. *PlacesOK* says for each place of launch and run in which of the
tree, the handles, the jobs and the tasks the agent is; *WorkOK* that a worktree
about to be removed is clean unless its agent was cancelled, by a run or by the
shutdown; *ShutOK* which jobs the shutdown has dealt with, and that their tasks
have ended and stay so.

`TeammatesProofs`, for every value of the constants allowed by `MailAssumption` and
`TeamAssumption`, with any number of messages and of old locks:

- `MailCorrect`: `Spec => []MailInv`, the types of the mailbox and the invariant below.
- `TeamTypeCorrect`: `Spec => []TypeOK`.
- `MessagesAreKept`: `Spec => []MessagesKept`. That the file holds a message depends on
  what those under way are about to make of it, so `MailInv` adds, while no lock has
  been old: who is past the lock's creation is its creator, hence alone (*LockKept*);
  what he is about to write has every message that the file has, and his own
  (*CopyKept*); what was reported as written is in the file, or in the copy of whoever
  has truncated it (*WrittenKept*). It is proved of the steps of `Mailbox` alone, and
  each action of `Teammates` is one of these or leaves the mailbox as it is.
- `MessagesAreHandledInOrder`: `Spec => []HandledInOrder`, from `ReadingCorrect`. The runner
  reads without the lock, from a file that may be cut short or half-written, so the
  invariant says, while no lock has been old: a writer writes what he would make of the file as
  it is, each message is in the file once, and those marked as read come before the others
  (*FileInv*); what was handled, followed by what is left of the batch, is in the order of
  the file, and wherever the runner may begin to read again, what was handled is
  marked (*HandleInv*).
- `NothingWaitsWhileIdle`: `Spec => []IdleMeansDelivered`, from `DeliveryCorrect`: what the
  engine was given, followed by what waits in the registry and in the poll under way, is
  what was handled for it, the plain messages in the same order (*AllGiven*); and *NoneWaits*
  names the places where none of it waits, the idle loop among them.
- `TasksAreReleased`: `Spec => []TasksReleased`, from *ReleaseInv*: a runner that
  releases its tasks has no running tool, so only a late one can claim another; a
  runner is dropped only when the kill's own release is yet to come or done; and
  after either release nothing is left but what a failed write or a late claim explains.

`McpClientProofs`, for every value of the constants allowed by `McpAssumption`, with any
number of calls, attempts and operations of the user: `McpTypeCorrect` and
`AnswersAreTheirOwn`, from `Invariant`. That a request gets its own answer is not
inductive: it depends on what an identifier may still stand for in the pipe and at the
server. The theorem is stated for every set of numbers that the server gives its own
requests: nobody gets another's answer, and who gets a request of the server's for one has
one of these numbers. *EntriesOK* says that what was sent or entered since the connection began lies
below the next identifier and that no identifier stands for two requests, and that none
of it is left when the next connection begins; *LocksOK* that who is at work has
the manager's mutex, so that nobody is when that happens; *MailOK* that who is at work
without mail is entered, so that the answer finds it, and that who has not begun has none. A lemma says which steps let a
request begin (`WhoBegins`), which send (`WhatIsSent`) and which deliver (`WhoMails`);
the others leave each conjunct as it is.

`FilterProofs` has the lemmas on filtering that the theorems about teammates need: what
a filter makes of an appended element, of a concatenation, that it keeps the order, and
that all of a sequence is left of it when all of it passes. The library's induction theorems
take a predicate as a parameter, which the provers cannot instantiate. Here a set
takes the predicate's place: a set with zero and successors has every natural number
(`NumbersIn`, from the well-foundedness of the naturals), and one with the empty sequence and every
extension has every sequence (`SequencesIn`). `Filters` therefore filters by a recursive
function of the length and not by `SelectSeq`, whose test is an operator.

Only model-checked: liveness, that is `SubmitEnds`, `CommandsTaken`, `AbortsEndRuns`,
`EndsAreTold`, `MessagesAreRead`, `KillEnds` and `CallsEnd`, which the prover does not
reach. Every invariant and every action property of a passing run is proved; the five
properties that the code violates are shown by their runs.

### Where the code departs from what the repository says

Five have a run: the abort flag that nobody resets behind the daemon and the web
(`abort`), the cut between a call and its result when a tool adds messages
(`orphan`), the recovery that interrupts tasks which run elsewhere (`recovery`),
the stop of a gateway run, which the worker reads only when the run is over
(`quiet`), and the teammate that marks as read what it has not read (`swallowed`,
`runner.rs:425`). Others were met while modelling and are in the model as they are in
the code: the turn limit is looked at after a tool turn only, so that the continuations
of a Stop hook, a steer, a truncation or the token budget go beyond it
(`loop_impl.rs:785`); a steer that waits when the tools have run takes precedence over a hook
that asked to stop (`loop_impl.rs:715`); an abort after the tools have run leaves
calls without results in the transcript (`loop_impl.rs:696`); a steer accepted
after the last drain is dropped although the interface shows it as sent
(`ui/tui.rs:826`); `MAX_CONCURRENT_TOOLS` bounds the batches and not the tools the
stream starts. In the task list, a lock whose holder has died is
never broken (`lists.rs:14`); a claim that cannot be written is granted
(`store.rs:296`), which is why `ClaimsExclusive` has its premise; a start or an expired
review may reopen a dependency of a task that is being claimed, which is why
`ClaimsWaitForDependencies` has its own.

In the gateway, `update_status` checks a copy: a terminal status can be overwritten
by a check made before it, against "Terminal runs remain terminal"
(`REMOTE_CONTROL_GATEWAY.md:293`). When the end of a stopped run is refused, so is
its failure, and the worker exits (`gateway_bridge.rs:153`). Two sources that choose
the same key get two runs and one command: the second run is marked running and never
sent (`protocol.rs:131`). A run that is queued is never started, since nothing calls
`start_next_queued`. One directory without metadata keeps the recovery from all runs
(`recovery.rs:61`). A worker that outlives its daemon works on beside the new one.

Of the background agents, a `TaskStop` that comes between the creation of the task
and its start is overwritten (`supervisor.rs:158`) though it reports success; a stop
that comes late shows an agent that has completed as cancelled; a cancelled agent's
command may write after the worktree was found clean and before it is removed
(`supervisor.rs:823`), which is why `WorkKept` excepts cancelled agents; a launch that
fails leaves its worktree behind, and the shutdown misses a launch that has not
registered its job yet.

Of the teammates, a lock that is old is removed by its name, so of two waiters the
second may remove the new lock of the first, and a holder who was slow removes
another's (`mailbox.rs:233`): messages are lost then, which is why `MessagesKept` has
its premise. A read beside a write may return a mixture of two texts, and ends the
teammate. A request to shut down that is rejected marks the task stopped all the same,
while the runner goes on (`runner.rs:462`). The approvals of a poll overtake its
plain messages. When marking fails, the messages of the poll are dropped though they
stay unread. A tool that is left running may claim a task after its teammate's tasks
were released, and an error of that release goes unnoticed (`cc-tasks/src/store.rs:373`).

Of the MCP client, the adapter says that "the client handles multiplexing via request
IDs" (`mcp_tool_adapter.rs:59`) and calls its tools safe to run together, but each call
holds the manager's mutex until it has its answer (`mcp_tool_adapter.rs:80`): calls to
all servers, and `/mcp`, wait for each other, up to 300 seconds each. A server that
stops reading blocks them without end once the pipe is full, since the write has no
timeout (`client/mod.rs:685`). A call that is dropped while it writes leaves part of
a line, which spoils the next request too, and one that is dropped later leaves its
entry among the pending ones. When the reader has ended, the client still counts
as connected, and a call made then waits for its timeout (`transport.rs:95`). A request
that the server makes, though the client invites `roots/list` (`client/mod.rs:314`), is
never answered: every line with an `id` parses as a response, since its result and its
error are optional (`lib.rs:256`). If the client waits under the same number, that request
gets `Null` for its answer and fails, and the true answer is dropped as one to an unknown
request (`transport.rs:373`): both sides usually count from a small number, so this is why
`AnswersAreOwn` speaks of `ServerIds`.

## 3. The plan

Most important first; what is done is marked.

1. *Done.* `QueryLoop`: the loop, its tools, its engine. Runs `loop`, `live` and
   two violations; theorems about its tools and about its conversation.
2. *Done.* `TaskStore`: the shared task list. Run `claims` and one violation; five
   theorems.
3. *Done.* `BackgroundAgents`: the life of a background agent. Run `agents`; five
   theorems.
4. *Done.* `GatewayRuns` on `GatewayStore` and `DaemonCommands`: the gateway, the
   daemon's supervisor and its worker together, rather than in two modules composed
   later: their hazards lie between them. Run `gateway` and one violation; the
   abstract `RunRegistry`, implemented; every invariant proved.
5. *Done.* `ConversationProofs`, the agreement of the loop and the engine, the queues, the
   answers to current calls; `StatusesHaveCauses` of `GatewayRuns`; `FilterProofs`, and
   with it the order and the delivery of messages in `Teammates`.
6. An abstract `TaskClaims` (a task is free, somebody's, or over) that `TaskStore`
   implements where no write is made beside the lock; and the dependencies of
   tasks: no deletion that completes leaves one on the deleted task.
7. *Done.* `Teammates` on `Mailbox`: the inbox, its lock, the runner and its kill. Run
   `team` and one violation; every invariant proved.
8. *Done.* `McpClient`: one connection over stdio and its manager. Run `mcp`; three
   theorems. To come: the two HTTP transports, whose answers may come by the request's
   own connection.

The project holds twelve runs, which is as many as are worth their time together: the
runs of a component share one configuration whose constraint takes its sides one at
a time, and a component of 6 takes the place of a run that a theorem makes redundant.

## 4. What is not modelled, and why

- Data rather than control: permission rules, shell parsing, settings, credentials,
  message formats. The code's table tests reach them; a model checker adds little.
- Pure input and output: rendering, voice, browser, desktop, git worktrees, the tools'
  effects on files. They appear as outcomes of a tool.
- The language model and hooks: their answers are choices of the environment.
- Time: backoffs, thresholds of tokens, cache lifetimes. A timeout is a step that may
  come at any moment.
- `crates/cc-query`, an earlier copy of the query loop that the frontends do not run.
- The scheduler, IPC callbacks, session files and language servers have some
  state, but less of the program's own core in it, and are not in the plan above.
- Of the modelled parts: foreground agents, agents of agents; the gateway's approvals
  and answers, its delivery and rate limits; commands that a worker only marks;
  teammates in panes and the team file; the MCP client's HTTP transports.
