# A verification project for dcode-rs

TLA+ models of the concurrent core of dcode-rs (`src/dcode-rs/`, a coding
agent written in Rust on tokio), TLC configurations that check them on small
instances, and TLAPS proofs of what matters most for any number of actors.
Paths below are relative to `src/dcode-rs/` unless they say otherwise; the
modules are in this directory.

## 1. The system

A **session** (`core/src/dcode.rs`, about 7,500 lines) is one conversation. It
reads operations from a queue in its *submission loop*, runs at most one
**turn** at a time as a tokio task, and sends events. A turn calls the model,
runs the **tools** the model asks for, waits for the user's **approvals**, and
goes round until nothing is left to do. Agents can spawn sub-agents, each a
session (a *thread*) of its own. Front ends (a TUI, a command line, the app
server) submit operations and read events; some of their calls (steering,
network connections, tool results) go past the submission loop, straight to
state it shares.

All of it runs on a multi-threaded tokio runtime. The hard part is always the
same: state under a mutex, an `await` after it, and somebody who changes or
drops the future in between.

### Inventory

| Component | Source | State | Operations | What makes it correct | Module |
|---|---|---|---|---|---|
| Turn machinery | `core/src/tasks/mod.rs`, `core/src/state/turn.rs`, `core/src/dcode.rs` | the active turn and its `TurnState` (pending input, pending approvals), queued input, one task per turn with its token and abort handle | user input, steering, agent mail, undo, compact, interrupt, shutdown, approvals; `spawn_task`, `abort_all_tasks`, `start_task`, `run_turn`, `on_task_finished` | one turn at a time, input recorded once and in order, aborts end, approvals not dropped under a live task | `TurnLifecycle`, `TurnSlot` |
| Readiness flag | `utils/readiness/src/lib.rs` | flag, token set, watch channel | `subscribe`, `mark_ready`, `is_ready`, `wait_ready` | tools that write wait for the ghost snapshot; nobody waits for ever | `Readiness` |
| Agent registry | `core/src/agent/registry.rs`, `core/src/agent/control.rs`, `core/src/thread_manager.rs` | agent tree, used nicknames, count of slots, map of threads | spawn, resume, close; reservations that commit or drop | the limit holds, slots and paths come back, the pool gives no name twice | `AgentRegistry` |
| Network approvals | `core/src/tools/network_approval.rs`, `core/src/tools/orchestrator.rs` | registered calls and their outcomes, pending approvals per host, two session caches | a connection that misses the allowlist; a tool attempt that begins and ends | one prompt per host, caches that agree, the right call hears of a denial, every connection is decided | `NetworkApproval` |
| Tool execution | `core/src/tools/parallel.rs`, `registry.rs`, `router.rs`, `core/src/dcode.rs`, `stream_events_utils.rs` | the tools in flight of an attempt, a read-write lock per sampling request, the gate of the turn | record and start a call, drain, retry, cancel, drop | exclusive tools alone, outputs in the order of the calls, no tool left behind, every call answered | `ToolCalls` |
| Unified exec | `core/src/unified_exec/` | up to 64 live processes with their numbers and buffers | exec, write stdin, poll, prune, terminate all, exit watcher | numbers unique, the limit, an end reported once, no process without owner | `UnifiedExec` |
| Memory jobs | `state/src/runtime/memories.rs`, `core/src/memories/` | rows of leased jobs in SQLite, shared by processes | scan, claim, heartbeat, succeed, fail, enqueue, clear | the limit of running jobs, no output missed by the consolidation, the watermarks never go back | `MemoryJobs` |
| Agent jobs, backfill | `core/src/tools/handlers/agent_jobs.rs`, `state/src/runtime/agent_jobs.rs`, `backfill.rs` | rows of a job and its items in SQLite, the workers a runner looks after; a one-worker claim | spawn, assign, report, reap, finalise, cancel, export | a settled item stays so, a running one settles, the job ends and leaves nothing at work | `AgentJobs`; backfill not modelled |
| Rollout recorder | `core/src/rollout/` | a writer task and its file | record, persist, flush, shutdown | order kept, a flush covers what came before | planned |
| Context history | `core/src/context_manager/` | the items sent to the model | normalise, roll back; record, truncate, compact | each call with an id has its output, after it, and no output is an orphan | `ContextHistory`, used by `ToolCalls` |
| App server | `app-server/src/` | callbacks of requests to clients, subscriptions, thread status, commands, bounded queues | requests, answers, disconnects, resumes, unload | whoever resumes hears of what is pending, prompts are closed, waiters go on | `ClientRequests`; commands and queues planned |
| Guardian | `core/src/guardian/` | a review session that is reused | review, time out, cancel | a review that fails denies | not planned; in `NetworkApproval` it is one of those who answer |
| Others | MCP connections, code mode, JS REPL, realtime, exec server, proxy, model client, login, patches, policy, hooks, sandboxes, configuration, search, interfaces | | | | `PROJECT.json` gives the reason for each |

### How they interact

* The submission loop and the task of a turn share `Session.active_turn`. Tools
  that wait for an approval have a sender in its `TurnState`; clients steer
  input into it; agents put mail into it or into `idle_pending_input`.
* A turn owns a `ReadinessFlag`: the ghost snapshot task subscribes at its
  start, tools that write wait on it, and cancelling a tool drops the waiter.
* Tools spawn, resume and close agents in the registry that all agents of a
  session tree share. The thread map is changed apart from it.
* A tool attempt registers with the network approval service; the proxy calls
  the service for each connection and has no idea which attempt made it.
* The sampling loop of a turn starts a tool for each call of the stream; their
  outputs go into the history that the next prompt is made of. A tool may open a
  process in the store of unified exec, which outlives the call and the turn.
* The approvals a turn waits for become requests of the app server to its
  clients, which the listener of the thread sends and resolves.
* Sessions of several processes share the rows of the memory jobs.
* The runner of an agent job works inside a tool call; its workers are agents, and
  report from their own sessions into the rows they share with it.
* What is persisted goes through the rollout recorder, whose acknowledgements
  suspend tasks: that is where an aborted task really stops.

### What is hard

Every hazard is listed at its line in `PROJECT.json`, with the properties that
watch it. Their pattern: a task that is spawned before it is registered; state
read under one lock and used under another; a future that is dropped between
taking something and giving it back; a notification between a test and a
registration; an abort that passes a completion.

## 2. Modules

| Module | About |
|---|---|
| `Readiness` | the readiness flag, one step per atomic access, critical section or channel call |
| `ReadinessProofs` | its safety for any number of subscribers and waiters |
| `TurnSlot` | the abstract promise: turns take a slot one after the other |
| `TurnLifecycle` | submission loop, tasks, steering, approvals; implements `TurnSlot` |
| `TurnLifecycleProofs` | its safety, that refinement and the order of input, for any number of turns and inputs |
| `AgentRegistry` | registry, reservations and thread map under concurrent calls |
| `AgentRegistryProofs` | its safety for any number of calls, agents, paths and names |
| `NetworkApproval` | connections and calls around the approval service |
| `NetworkApprovalProofs` | its safety for any number of connections, hosts and calls |
| `MemoryJobs` | the memory pipeline: leased jobs of several sessions in one database, with crashes |
| `AgentJobs` | a job over the rows of a CSV: its runner, its workers, their reports |
| `MemoryJobsProofs` | the safety of both kinds of jobs for any number of sessions, threads and items, any lease and concurrency |
| `UnifiedExec` | the process store, the calls that open and poll processes, the tasks that report their end |
| `UnifiedExecProofs` | its safety for any number of calls, numbers and any limit |
| `ClientRequests` | requests to the clients of a thread, its listener, waiters, subscriptions and unload |
| `ClientRequestsProofs` | its safety for any number of connections and requests |
| `ContextHistory` | operators: what is made of the history for a prompt and at a rollback |
| `ToolCalls` | the sampling loop, its tool tasks, their lock and the gate; uses `ContextHistory` |
| `ToolCallsProofs` | its safety for any calls and any number of turns, requests and attempts |
| `MCWaiting` | waiting in four modules: `Readiness`, `NetworkApproval`, `UnifiedExec`, `ClientRequests` |
| `MCServices` | `AgentRegistry` and `NetworkApproval` in one instance |
| `MCSession` | `TurnLifecycle` and `UnifiedExec` in one instance |
| `MCToolCalls` | `ToolCalls` and `AgentJobs` in one instance |
| `MC*` | values of the constants and symmetry sets for TLC |

Operators whose comment begins with "Mutant" are variants of the definition
that follows them, with a mistake in it. No specification uses them: put in
place of that definition they break the property that `PROJECT.json` lists with
them, which shows that the property depends on the code.

### Readiness

A step is one atomic access, one section under the `tokens` mutex, or one call
on the watch channel. `lock` shows who is inside, because `is_ready` takes the
mutex with `try_lock` and behaves differently when somebody is. A token is named
by its subscriber. `LockTimeout` is the one-second limit of `with_tokens`;
`WaitDropped` is the cancellation of a tool call. Weak fairness of each task
stands for the runtime's polling; a subscriber marks on every path, as the ghost
snapshot task does.

### TurnLifecycle

Every access to `active_turn` and to the turn state is made under its mutex, so
one critical section is one step. `loopPC` is where the submission loop is
inside `abort_all_tasks` and `start_task`; `taskPC[t]` is where turn `t`'s task
is inside `run_turn` and `on_task_finished`. `cancelled` is the token,
`handleAborted` the abort of the join handle, whether by `abort_all_tasks`, by
`register_new_active_task` that overwrites a turn, or by a task that drops its
own handle in `remove_task`.

`JoinHandle::abort` lets a task go on to its next suspension. `Suspended` names
the points where a task always waits for somebody else; there an aborted task
can only be dropped. At the other points it may go on, or be dropped
(`DropTask`), since a contended lock suspends it too. The sampling loop with its
streaming and tools is one state, `sampling`; what it can do to the shared state
(ask for an approval, see input come in, follow up, fail) are the actions that
leave it. Hooks may block any user message; agent mail is never blocked. A hook is
waited for, so an aborted task never hears that it blocked: `HookBlocks` leads to
`blocked`, from where `InspectBlock` sends the rest back, and leftover input that a
finishing task records (`FinishRecord`) can only be recorded or be dropped with the
task (`DropTask`). Sessions have a rollout recorder, so recording a user message
ends in a wait for it.

Not in the module: turns that run a user shell command beside the active one,
the other request kinds of a turn state (patch approval, user input, MCP
elicitation), which use the same map and the same calls; delegated child
sessions; prewarm; compaction inside a turn.

### AgentRegistry

`call[c]` is a spawn, resume or close with what it holds. One section under
the `active_agents` mutex, one access to `total_count` and one to the thread map
is a step each, so every order of two calls between them is covered. `FailCall`
is both an error and a cancellation, and drops the reservation (`DropReservation`,
then `ReleaseCount`). `release_spawned_thread` removes one entry of a thread,
whichever its hash map shows first: a nondeterministic choice. Close is allowed
for any thread that existed, as its callers hold ids read earlier. `rollouts` are
the threads on disk, each of which can be resumed: `Init` has any that earlier runs or
other sessions left, some with a stored nickname (`borrowed`). `reserve_agent_nickname`
takes a stored nickname without a look at those in use, so such a thread may share
its nickname with a live agent, and the pool may later draw it too: the code does not
prevent it, and `NicknamesAreDistinct` says only that the pool gives no name to two
agents. `PoolLasts` and `MaxResets` bound the name pool.

### NetworkApproval

A request is one run of `handle_inline_policy_request`, from the look at the
denied hosts to its decision and the observer's record of a denial; each lock is
a step, and an owner that refuses keeps the lock on the pending approvals until
its denial is recorded (`PendingLocked`). A pending approval is named by the
request that made it. `listening` and `notified` are tokio's `Notified`: it hears
of a `notify_waiters` from its creation on. `HangUp` drops the request at an
await: the proxy stops working for a client that disconnects. A call is one
`run_attempt`; `DropAttempt` is its cancellation. The user and the guardian answer
as they like. Not in the module: a decider whose session is gone, the copy of
approved hosts into a guardian session, the persistence of amendments.

### MemoryJobs

A transaction is a step; the pipeline of a session is `pc`, with what it scanned,
claimed and selected. Between two steps a process may be slow, asleep past its
lease, or dead (`Crash`), and start again. The clock counts up to `MaxNow`; leases
and retries are times on it. The ownership token of a claim is its session:
tokens are random and fresh for each claim, but a session claims a job only when it holds
no other claim of it. SQL's NULL is 0. Threads change (`Touch`), are polluted
and cleared at any time. Not in the module: retention and pruning of outputs,
usage counts, deletion of threads, the age and top-N filters of the selection,
the files that the consolidation writes.

### UnifiedExec

A process is named by the call that opened it. `stage` is where `exec_command` is
between two awaits, `process` the state of the process, `exitToken`, `drained`,
`streaming` and `watcher` the tasks that stream its output and report its end.
The output ends after the process, with its channel or at the end of the grace period
(`EndStream`), or while it runs, when a process behind pipes closes or redirects its
output (`CloseOutput`): the watcher's notification then comes before the exit.
The last reference that is dropped kills the process (`Referenced`, `Terminate`).
A call is dropped at any await when its turn is interrupted (`DropCall`); the
history variables `abandoned` and `reissuable` remember the two cases in which
the code then leaves something undone, and the properties name them. Not in the
module: the buffers, writing to stdin, the approval and sandbox attempts before
the process is there.

### ClientRequests

A step is one access to a table, a subscription set or a channel. `at` is where
the listener of the thread is, `stage` where the waiter of each request is, and
`unload` where the processor is in the teardown. `shown` is what a client shows:
what it was sent and not told to be resolved, anew with each resume. Commands to the
listener are taken in any order, which allows more than their queue does. One
load of a thread is modelled, until its state is removed. Not in the module:
dynamic tool calls and API v1 approvals, which are never resolved through the
listener; pending interrupts and rollbacks; the shutdown of the thread itself.

### ContextHistory and ToolCalls

`ContextHistory` has what `for_prompt` and `drop_last_n_user_turns` do to the items,
as operators; an item is a message of the user, a call or an output. Not every call gets
an output and not every output needs a call: `IsCall` leaves out the calls without a call id
(`NoCall`), of a local shell or a tool search, for which none is made up
(`normalize.rs:41`, `:89`), and `StandsAlone` is true of the outputs of searches that the server
did, or that have no id, which are kept alone (`normalize.rs:181`, `:192`). So `PromptIsPaired`
speaks of calls with an id and of outputs that do not stand alone. The loops are
recursive functions of the number of items gone through: `InsertOutputs` has the walk
as a parameter, from back to front in the code, from front to back in a mutant. `ToolCalls`
is the turn: `at` is where `run_turn` and `try_run_sampling_request` are, `tool[c]`
how far the task of a tool is, `origin[c]` the attempt that started it,
`inFlight` the `FuturesOrdered`. Dropping that (an error of the stream, an abort
after the grace) drops the `AbortOnDropHandle`s, and the runtime drops the tasks
later (`dropped`, `Reap`). The lock belongs to a `ToolCallRuntime`, made once per
sampling request and shared by its attempts. The gate is the readiness flag of
the turn, here with the two steps that matter to a tool, `Listen` and `PassGate`;
`Readiness` has the others. A call of a local shell may have no call id: its tool runs under the
id of its item, or, without any, it is answered directly. A search that the server executes,
or that has no call id, is recorded and starts no tool (`RecordSearch`); what the server puts out
for it comes in the same response with the same call id, which is assumed of the
server, or never (`RecordServerOutput`). The behaviours begin with a new thread, or with one
resumed after it went down with a call unanswered and with the output of a search by the server. `error_or_panic` is taken as
in a release build, where it logs. Not in the modules: nested calls of
code mode and the JS REPL (they have a runtime and no lock of their own) and what
`notify` adds there; compaction; images and the retry after an invalid one;
the fallback of the transport, which only adds retries; input steered in
between, which `TurnLifecycle` has. A turn without snapshots is one whose gate opens at once.

### AgentJobs

`runner` is where `run_agent_job_loop` is, `item` the rows, `worker[i]` the agent of
item `i`: a row is assigned once, so its worker has its name, and that the
assignment finds the row pending is the invariant `ListedIsPending`. A worker exists
one step before its row says so; what it reports then is refused, which changes
nothing and is no step. `stopping` are the accepted reports that have yet to mark
the job cancelled. A batch of the runner (the overdue, the finished) is one step: each
update in it is guarded by the row, so a report that falls inside the batch is one
before it or after it. `RunnerBreaks` is an error of the database anywhere,
`RunnerDropped` the interrupted turn. `SpawnOutcomes` says what `spawn_agent` may
answer. Not in the module: reading and writing CSV, progress events,
`recover_running_items` (a job is run once, by the call that creates it, and has no
running item then), the second export if the file is missing.

## 3. Runs

Passing runs finish in four minutes at most with two workers.

| Run | Instance | Shows |
|---|---|---|
| `waiting` | one of: a flag with 2 subscribers and 2 waiters; 3 connections to 1 host; 1 `exec_command`, 1 `write_stdin` and 1 `terminate_all_processes`; 2 connections and 1 request of a thread. Fair, 117,748 states | no gate passed without a mark, a waiter that registered in time is released; every connection is decided; the end of a process is reported; whoever resumed hears of what is pending, prompts close, the status is honest, waiters go on |
| `session` | one of: 2 turns, 2 user messages, 1 mail, 1 interrupt, compact; 2 `exec_command`, numbers 1 and 2, room for 1, with 1 `write_stdin`, or with interrupts and 1 `terminate_all_processes`. 1,839,280 states | one turn at a time, queues, single recording across turns, approvals; refinement of `TurnSlot`; unique numbers, one end each, nothing left behind |
| `turn_live` | 1 turn, 3 messages, 1 mail, 1 follow-up, 1 interrupt, undo, hooks that block; fair, 752,159 states | order of what is steered; aborts end with their event, pending input is consumed |
| `services` | one of: 2 spawn, resume or close calls, 2 agents, of which an earlier run may have left 1 with a nickname, 1 path, 2 names, 1 reset; 2 connections that may hang up, 2 hosts, 2 tool attempts. 2,380,601 states | slots, paths, names; prompts, caches, decisions, outcomes of calls |
| `memory_jobs` | 2 sessions, 2 threads, lease and delay of 1, 1 try, 1 running job, clock to 2; 1,645,338 states | limit, nothing missed, nothing goes back |
| `tool_calls` | one of: 1 exclusive local shell that mutates, 1 parallel search, either without an id or the search done by the server, 2 turns, 2 requests, 1 retry each, interrupts, aborts and rollbacks; a job of 3 items with 2 workers at a time. Fair, 409,760 states | prompts paired but for what has no id or is the server's, and never rewritten, outputs in order, exclusive tools alone, nothing left behind, calls answered; settled items stay, running ones settle, a job leaves nothing at work |

Each module has a type invariant, proved for every value of the constants
(`TypeCorrect` in its proofs module, `JobTypeCorrect` for `AgentJobs`), and so in no
run; so are `OneAuthorisation` and `StoreWithinLimit`.

A run whose instance is "one of" picks the component in its first state and has
the others stand still: what is asked of them is one question, and their modules
stay apart. In `services` the same model values stand for the actors of either
component, so that one symmetry group serves both.

Why the bounds are enough to be interesting: two turns and one interrupt give an
abort that races with a completion and a replacement after it; three messages
and a follow-up give a batch whose middle is blocked while input still arrives;
two calls meet in every pair of spawn, resume and close, and two names with one
reset take the pool past its end; the agent of an earlier run brings the name that
the pool draws from too, and beside it no call asks for a path (`PathsApart`);
three connections give an owner, a waiter and a newcomer, two hosts an owner each, two calls one to blame too many; a lease of
one tick runs out under a worker while another session claims, and again after the
next; a store with room for one is pruned by the second call, and two numbers
can be given out again (two calls meet a writer in one half of the instance,
interrupts and the emptied store in the other; all of them around one call in
`waiting`, around any number in the proofs); two connections give one that stays and one that resumes,
answers or leaves; two tools, two requests and a retry give a tool of a broken
attempt beside one of the next, and two turns a rollback and a prompt after an abort
(`FewUnusual` keeps what has no id or is the server's to one call, of the first attempt, without
a second turn; the local shell is exclusive as it is where the turn has another
shell tool, `spec.rs:2753`, and a freeform tool would differ in nothing but its kind);
three items and two workers give a full, a half-full and a waiting job.
The proofs take the safety properties beyond these bounds. Symmetry is used in safety
runs only.
Stuttering at the end of a run is an action of its own (`Quiescent`, `Done`), or
something can always be done, so that TLC's deadlock check stays on: a session,
flag, store or service that stops anywhere else is an error.

### Fairness

Weak fairness of a whole component's step (the loop, one task, one subscriber,
one request) says that the runtime polls what is ready. Beyond that:
a model answer, a hook and a rollout acknowledgement arrive or fail
(`TurnLifecycle`), a prompt is answered, if only by the dropped sender (`NetworkApproval`). An answer to a
command approval is *not* assumed: `PendingInputConsumed` allows for it. Clients
are under no fairness. Nothing makes a process exit or close its output (`CloseOutput`):
`EndReported` begins where a process is over, and only then is its output sure to end,
after the grace period at the latest. The listener of a thread has weak fairness for its
own steps and strong fairness for taking a command and for stopping, since
tokio's `select!` picks at random among what is ready; the core whose events
it takes may stop. In `ToolCalls` tools and the snapshot come to an end,
and a silent stream is ended by its idle timeout; `CallsAreAnswered`
excepts a tool that missed the mark of the gate, which is the finding
`readiness_lost_wakeup` seen from here. The runner of an agent job has weak fairness,
and time passes: its workers owe nothing.

### Where the code and what is said of it part

Each of these is a run that TLC ends with a counterexample, and a finding in
`PROJECT.json` with both lines.

| Run | Property | What happens |
|---|---|---|
| `readiness_lost_wakeup` | `ReadyReleasesWaiters` | a broadcast between `is_ready` and `tx.subscribe()` is lost and the waiter stays |
| `turn_stale` | `ActiveTurnIsRunning` | a task that ends before it is registered leaves a dead turn in the slot |
| `turn_no_end` | `EachTurnEnds` | a finishing task drops its own abort handle and never says `TurnComplete` |
| `agent_slot_leak` | `SlotsAreReturned` | a close between creation and commit leaves a slot taken |
| `network_hang_up` | `WaiterCompletes` | a dropped owner leaves its entry, and all who join it wait |
| `job_never_ends` | `JobEnds` | a spawn that fails leaves its item pending, and the loop spins on it |

The models also reach states that are odd, though no property here calls them
wrong, because nothing in the repository clearly promises otherwise:

* an abort that takes a turn after its task has looked at the token yields both
  `TurnAborted` and `TurnComplete` for it;
* the next task may start while the one before records leftover input, after it
  has left `active_turn`;
* a close that falls around a resume of the same thread frees the slot of a
  thread that lives on, so that more than `agent_max_threads` can live;
* a cancelled tool call stays registered with the network approvals, so that
  later denials find two calls and are told to neither;
* a connection that looked at the session caches before an approval was stored
  there prompts once more;
* a process asleep past its lease, or a clearing of the table, lets a second
  consolidation start in the same directory while the first still writes, although
  `core/src/memories/README.md:73` speaks of one at a time;
* a thread polluted while the consolidation that reads it runs is not enqueued to be
  forgotten, since it is not picked yet (`memories.rs:476`);
* an error that makes `intercept_apply_patch` or `get_command` return keeps the
  reserved number; `terminate_all_processes` frees the numbers of calls in flight,
  and one given out twice displaces an entry and leaves its process running;
* an `exec_command` dropped between its insertion and the start of its watcher has
  no end event, one dropped while it prunes leaves the pruned process running, and a
  process that ends by itself stays in the store until it is written to, pruned or
  terminated;
* the guard of an aborted request, released after the next turn has asked, lowers
  the count of the new request (`thread_status.rs:254`), so that a thread that waits does
  not say so;
* an unload cancels the requests of a thread before it stops the listener: one
  registered in between stays in the table with its waiter and is replayed to
  whoever loads the thread again;
* a resume that is handled after `remove_thread_state` makes the entry anew, with a
  connection and without a listener;
* an error of the stream or an abort after the grace drops the tools in
  flight, and a call of a freeform tool or a local shell without an output then meets
  `error_or_panic` (`normalize.rs:75`, `:99`) when the next prompt is made: a debug
  build panics;
* a `tool_search` whose arguments do not parse is answered with an output that has no
  call id, which the next prompt drops as an orphan: the model never sees it;
* so is the output of a local shell call whose item has an id and no call id: the command runs,
  and the model sees the call alone;
* a retry may start a tool while an exclusive one of an earlier request, dropped
  and not gone yet, still works: the lock is one per request;
* a snapshot that is cancelled marks the gate while its blocking git job goes on;
* a worker that reports before its row is assigned is refused, and its item fails as
  one that was never reported;
* a worker's request to stop that falls between the last look at the job and
  `mark_agent_job_completed` is overwritten, since that update has no guard;
* the workers of a job whose turn is interrupted, or whose runner meets an error, go
  on, and an item they do not report stays running: nothing resumes a job.

## 4. Proofs

Checked by TLAPS for every value of the constants, from the named assumptions of
the modules only (that sentinels are not values, that sets counted are finite).

**Readiness** (`TypeCorrect`, `AtMostOneAuthorisation`, `GateIsSafe`). Neither
property is inductive: they say nothing of tokens. The invariant adds that a flag
that is up leaves no token in the set, that an authorisation put it up, and that
until somebody is authorised every holder's token is still in the set. A step
that touches neither flag, tokens nor authorisations keeps it (`QuietStep`); the
rest is one case per critical section.

**TurnLifecycle** (`TypeCorrect`, `AtMostOneUncancelledTask`, `QueuedInputIsTaken`,
`ApprovalsOutliveTasks`, `SessionImplementsSlot`, `InputsAreRecordedOnce`,
`SteeredInputsStayInOrder`). The invariant follows the
submission loop: from taking the active turn until registering the next one
nobody else fills the slot (`SlotEmptyWhileLoopWorks`); the turn in the loop's
hands is what it should be (`VictimIsHeld`); a turn in the slot was spawned and
not cancelled (`ActiveTurnIsLive`); a running task is active, or in the loop's
hands, or was told to stop (`UncancelledTaskIsKnown`, `CancelledTaskIsInGrace`);
a turn state holds its own task's approvals only (`ApprovalsAreOwn`). With it a
step of the session is an `Enter`, a `Leave` or a stutter of `TurnSlot`: the slot
is empty at `RegisterNewActiveTask` although the code never tests it.

That input is recorded once and that steered input keeps its order need a second
invariant, on where input is. `get_pending_input` takes from whichever turn is active:
the task of an aborted turn may take what clients steered into the next one, or put
the rest of its batch in front of it. `SourceInv` says that a client sends a message
once, that a turn accepts it once, and whose input a task starts with; `PlaceInv`
that accepted input is in one place, pending, in a batch, between its hook and its
record, or recorded. `OrderInv` adds that what waits was accepted in the order in which it
waits, behind what is recorded (`NotAhead`), and that input in the hands of a task
that may still return it goes to the turn it came from or stands together, in front
of whatever that turn takes later (`StraysAreTogether`, `MayReturn`). Order is stated as
a relation of two inputs (`Before`), not by recursion over the queues, so each step is a
case of appending, taking all or prepending. It was checked by TLC, on two turns with two
messages of users and two of agents (1,347,102 states), before it was proved.

**AgentRegistry** (`TypeCorrect`, `EverySlotIsCounted`, `OneHolderPerReservedPath`,
`PoolGivesNoNicknameTwice`, `RegisteredPathIsKept`). `CountCoversSlots` is kept by every step
on its own: a commit moves a slot from a call to at most one more key, a release
moves it back, and a count that is taken away belonged to a call that held it, so
the count was above zero. The rest needs to know what a call stands for. A
placeholder has its call (`PlaceholderIsHeld`), so no commit meets another agent at
its path. A nickname that the pool gave shows in it or, after a reset, in its lower
number (`GivenNamesAreUsed`), so that a new one is new; and one that is held twice is
held for one thread, by calls that resume it (`NicknameIsForOneThread`). Both leave out
the threads whose nickname another session stored, and the calls that resume them
(`PoolThreads`, `PoolCalls`).

**NetworkApproval** (`TypeCorrect`, `OneOwnerPerHost`, `CachesAgree`,
`OnlyAllowedPass`, `UserDenialReachesCall`). The entry of a host in
`pending_host_approvals` is a lock (`OwnerHoldsHost`, `PendingIsOfItsHost`): two
owners of one host would both have made it. Between the two cache locks an owner
therefore knows that its host is out of the other cache (`OtherCacheLeft`). An
answer is given once (`AnswerIsFinal`), and decisions and the approved hosts go
back to answers (`DecisionIsAnswer`, `ApprovedByAnswer`), so whatever goes through
was allowed. `TypeOK` is proved inside this invariant, since the decision a
waiter reads has a type only if the approval it joined exists.

**MemoryJobs** (`TypeCorrect`, `LimitHolds`, `NothingIsMissed`, `MemoriesAdvance`). Every
change of an output moves the input watermark of the global job, so a
consolidation that ends with the watermark it started from has missed nothing.
The invariant says this of whoever owns the job (`OwnerMissesNothing`), together with
the order of input and success in a row (`RowsAgree`), that outputs are no newer
than the input (`InputCoversOutputs`) and that a running job is due
(`RunningIsDirty`). Sessions that lost the job are not in it: their reports
change nothing.

**AgentJobs** (`JobTypeCorrect`, `JobEndsClean`, `FinalItemsAreKept`, in
`MemoryJobsProofs`). The loop ends when no row is running and `active_items` is empty. That
no worker is then at work needs that a running item and a worker with a row are looked
after (`RunningIsActive`, `WorkerIsKnown`), and that a pending item has a worker only
between its spawn and its row (`SpawnedIsAtHand`). A settled item is kept because
what is listed is still pending when it is assigned (`ListedIsPending`).

**UnifiedExec** (`TypeCorrect`, `StoreIsBounded`, `NumbersAreUnique`,
`EndIsReportedOnce`, `EndIsNeverLost`, `NothingIsLeftBehind`). `Ids` ties an entry
of the store to the stage and the number of its call, and both to a reservation
or to `reissuable`; `Takes` says what an entry taken out by a call or a write may
still be; `Ends` tells for each stage who has reported the end of a process or
will, and that the end of its output has been latched or is to come, whether it falls
before the exit or after it.

**ClientRequests** (`TypeCorrect`, `PendingRequestsAreHeard`, `PromptsWillClose`,
`StatusIsHonest`). `Hands` ties the stage of a request to what the listener has in
its hands; `Views`, `Prompts` and `Heard` say who can show a request, that a
replay brings back only what is not resolved, and that the targets of a request about to
be sent include everybody up to date: that is why the replay and the attachment
need no common lock.

**ToolCalls** (`TypeCorrect`, `OutputsComeInCallOrder`, `ExclusiveToolsRunAlone`,
`NoToolIsForgotten`, `PromptsArePaired`, `PromptsAreExtended`). The order of the outputs is not inductive. The invariant adds
that the tools waited for are those of the request at hand (`Current`), in the
order of their calls (`WaitsInOrder`), which follow every call that has the output of its tool
(`AnsweredBefore`, `AnsweredIsDone`); what the server puts out is of no call whose tool was
started; a rollback keeps a prefix. Two tools that are waited
for are of one request and thus share a lock, so that exclusiveness within a request
carries over to all that are not dropped. Of `DropLastNUserTurns` the proof needs
only that it yields a prefix.

The prompts rest on lemmas about `ContextHistory` for histories of any length
(`ForPromptIsPaired`, `ForPromptGrows`). Its recursions are functions, and what they
compute is shown by induction on the number of steps taken. The induction
theorems of the library take an operator, which the provers cannot instantiate; so
`SetInduction` says the same of a set of numbers, from the well-foundedness of `<`,
and `RecursionExists` gives the function that `CHOOSE` picks. The walk from back to
front puts right one call after the other (`EnsurePutsRight`): what is behind the
place it has come to is shifted and stays answered. When each call has an output
behind it, dropping the orphans leaves pairs and what stands alone (`SievePairs`).
A beginning of the history stays one through the insertions
(`EnsureKeepsBeginning`) and the removal (`RemoveKeepsBeginning`), when its calls
without an output get none later. The second invariant, `PromptInv`, says that
this is so: outputs follow their calls in the history (`OutputsFollow`), the prompt is
that of a beginning of the history, and the calls that had no output in it are no
longer awaited (`GivenUp`), since no tool is in flight between requests and a search by the
server belongs to one attempt, which is past (`OriginsArePast`).

Model-checked only: liveness, since neither fairness nor ENABLED is within the
prover's reach. These are `EarlyReceiverReleased`, `RequestDecided`, `EndReported`,
`RequestSettles`, `TakenTurnIsAborted`, `PendingInputConsumed`, `CallsAreAnswered`
and `ItemsSettle`. Every invariant and every action property of a passing run is
a theorem.

## 5. Plan

Done: the turn machinery and what it calls (readiness, agents, network
approvals), memory jobs, unified exec, requests to clients, tool calls with the
history they write, agent jobs. Then, in this order:

1. The rest of `ContextHistory`: removal of the oldest items with their
   counterparts (`remove_corresponding_for`) and compaction, checked against the same
   pairing; and a run that shows the `error_or_panic` of a dropped freeform call.
2. `RolloutRecorder`: the writer task, deferred creation, flush and shutdown; then
   the resume of a thread from what was written, composed with `ToolCalls`.
3. The claim of the backfill, on the pattern of `MemoryJobs`, and agent jobs composed
   with the slots of `AgentRegistry` instead of `SpawnOutcomes`.
4. The bounded queues of the app server's transport, and the second load of
   a thread in `ClientRequests`.
5. Proofs: that removal and compaction keep the pairing, on the lemmas about
   `ForPrompt`.

Hazards that no property covers yet: an abort that passes the look at the token
(`tasks/mod.rs:228`), a cancelled attempt that stays registered
(`orchestrator.rs:74`), accepted input dropped with its task (`dcode.rs:5747`),
and a request registered during an unload (`dcode_message_processor.rs:5006`). The models reach
each of them; nothing in the repository says what should happen, so there is no
property to state.

## 6. Not modelled

`PROJECT.json` lists every component with the reason. In short: what speaks to
services outside the repository (model client, MCP, login, realtime), what runs in
another engine or in the operating system (code mode, JS REPL, sandboxes), what
computes on text or data in one sequence (patches, policy, configuration,
search), the interfaces, the protocol types and the generated code. These make up
most of the lines of the repository and have little state that several actors
share, so the modules cover the concurrent core and a small share of the lines.
