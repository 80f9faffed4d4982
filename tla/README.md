# TLA+ models of Codex

Codex (`codex-rs/`) is a coding agent: a *session* holds a conversation with a
model, runs one *turn* at a time, lets the model call tools (shell commands,
patches, sub-agents), and talks to its clients (terminal interface, app server)
over queues. This directory models the parts of it whose correctness depends on
the order of concurrent steps, checks them with TLC on small instances, and
proves the most important facts with TLAPS for all instances.

Paths below are relative to `codex-rs/`.

## 1. The system's parts

| Component | Keeps | Operations | Talks to |
|---|---|---|---|
| **Agent registry** `core/src/agent/registry.rs` | atomic `total_count`; behind a mutex `agent_tree`, `used_agent_nicknames`, `nickname_reset_count` | reserve a slot, a path, a nickname; `commit`; drop of a reservation; `release_spawned_thread` | shared by all agents of one session tree |
| **Agent control** `core/src/agent/control*.rs` | nothing of its own | spawn, fork, resume, send, close | registry, thread manager |
| **Thread manager** `core/src/thread_manager.rs` | map of threads under a lock | create, resume, remove, shut down | sessions, app server |
| **Turn lifecycle** `core/src/tasks/`, `core/src/state/turn.rs` | `active_turn`: at most one `ActiveTurn` with at most one `RunningTask` and a `TurnState` | start, replace, abort, finish a task | input queue, submission loop, extensions, guardian |
| **Input queue and injection** `core/src/session/input_queue.rs`, `inject.rs` | pending input of each `TurnState`, mailbox, delivery phase | enqueue, drain, inject, `try_start_turn_if_idle` | turn lifecycle |
| **Submission loop** `core/src/session/handlers.rs` | position in the queue of operations | user input, interrupt, compact, review, shell command, mail, shutdown | turn lifecycle |
| **Model turn loop** `core/src/session/turn.rs`, `stream_events_utils.rs` | locals of one task | drain, record, sample, follow up | input queue, history |
| **Goal extension** `ext/goal/src/runtime.rs` | a permit, the goal | `continue_if_idle` | `try_start_turn_if_idle` |
| **Realtime conversation** `core/src/realtime_conversation.rs` | the fan-out task of the running conversation | hand spoken text to the session; stop | turn lifecycle, beside the submission loop |
| **Guardian** `core/src/guardian/` | denial counts, a review sub-session | review a tool call, abort the turn | turn lifecycle |
| **Request serialization, RPC gate, processor task** `app-server/src/` | a queue for each key, a gate and the request contexts of each connection, callbacks, command sessions | dispatch, drain, ask a client, close a connection, restart | all app-server requests |
| **Rollout recorder** `rollout/src/recorder.rs` | command channel, pending items, deferred file, file handle | record, persist, flush, shut down, resume | file system |
| **Exec server** `exec-server/src/server/`, `local_process.rs` | sessions, attachments, expiry timers, processes with numbered output | attach, resume, detach, expire; start, read | remote clients |
| **Exec server client** `exec-server/src/client.rs`, `remote_process.rs` | routes, pending notifications, failure, wake channel | receive, publish, read, fail on disconnect | exec server, unified exec |
| **State runtime: backfill** `state/src/runtime/backfill.rs`, `rollout/src/metadata.rs`, `state_db.rs` | one row with status, watermark and time stamp | wait at the gate, claim, checkpoint, complete | every process that shares the database |
| **Network approval** `core/src/tools/network_approval.rs` | pending questions by host, two caches, active calls, outcomes | ask, wait, resolve, register, finish | network proxy, tools |
| **Unified exec** `core/src/unified_exec/` | bounded store of processes, reserved ids | open, write, poll, prune, terminate all | tools, network approval |
| **Readiness flag** `utils/readiness` | tokens, ready bit, watch channel | subscribe, mark, wait | nobody at this commit |
| **Memories, agent jobs** `state/src/runtime/` | SQL tables, leases | claim, renew, finish | background workers |

`PROJECT.json` lists these and the parts that are not modelled, with reasons
(parsers, platform glue, rendering, wrappers of third-party protocols).

**What is hard.** Almost nothing in the core runs under one lock. The registry
updates its counter outside the mutex that guards its map, and the thread
manager is a third piece of state. Every routine that starts, aborts or finishes
a turn reads `active_turn`, releases the mutex over several `await`s and then
acts on what it read; six kinds of actors do that at the same time. Any `await` is also a
point where an interrupted turn drops the future, and destructors do the rest.
Around the core the same pattern returns: a request is queued, gated, asked
about and answered by different tasks; a file, a database row and a transport
fail or end between any two steps. The 40 hazards of `PROJECT.json` say where
this bites.

**What makes each modelled part correct.**

- Registry: the limit on sub-agents holds although count and map are updated
  apart (`LimitHeld`); a slot leaks only where an entry is overwritten
  (`LeaksOnlyByOverwrite`); the counter does not wrap (`TypeOK`); a path belongs
  to one reservation and then to one agent (`PathOwned`, `PathNotStolen`);
  nicknames stay unique over resets of the pool (`NicknamesDistinct`).
- Turns, in a session that only its client drives: one task at a time, which an
  interrupt can always reach (`StartFindsNoTask`, `LiveTaskTracked`); a reservation
  of the slot is always somebody's to remove (`SlotOwned`); one terminal event for
  each turn, and eventually one unless the turn fails before sampling for ever
  (`OneTerminalEvent`, `TurnEnds`); input is not lost (`NoInputLost`). In every
  session: input is not delivered twice (`InputOnce`). Mail that asks for a turn
  should get one (`TriggerMailDelivered`, which is violated). Section 5 says what
  goals, the guardian and a realtime conversation break.
- Requests: the requests of a key behave as if a single lock served them in their
  order of arrival (`SerialOrder`, a refinement); a queue always has one drain task
  (`QueueServed`); a closed connection leaves nothing behind (`ClosedIsClean`,
  `GracefulExit`), and closing it ends although the closing task is the one that
  delivers answers, and its commands end but for those in the Windows sandbox
  (`CloseCompletes`); every dispatched request settles
  (`RequestSettles`).
- Rollout: the file is an append-only log of the recorded items, each once and in
  order behind one header, and holds whatever a barrier reported (`WritesLog`, a
  refinement); as long as no line was cut inside a character, only what is glued to
  half a line cannot be read back (`LostOnlyBehindFragment`); every barrier returns (`BarrierReturns`).
- Exec sessions: a connection keeps the session it serves (`HolderKeepsSession`);
  notifications go to nobody else (`SenderIsCurrent`); a session nobody resumes is
  shut down (`DetachedIsReaped`).
- Exec events: the client publishes the command's history in order (`FollowsHistory`,
  a refinement); the reader gets every chunk that lay in the server's buffer when it
  asked (`ReaderComplete`); the close is published, and the reader stops unless its
  read slipped in behind a broken RPC reader (`CloseIsPublished`, `ReaderStops`).
- Backfill: the watermark is never ahead of the work (`WatermarkIsSafe`), nobody
  passes the gate too early (`ReadyIsIndexed`), every start returns
  (`StartReturns`).
- Network approval: one question for a host at a time (`OneQuestion`); a denial is
  pinned on a call only if it was the only candidate (`GuessOnlyWhenLate`), and
  reported to whoever finishes that call (`DenialIsReported`); who waits for an
  answered question gets the answer (`WaitersServed`).
- Processes: an end is reported once (`EndOnce`, `EndsReported`), a running command
  can be reached unless an aborted call left it behind (`LiveIsReachable`), and ids
  do not collide unless something frees them during the call that uses them
  (`IdsDistinct`).

## 2. Modules

| Module | What it is |
|---|---|
| `AgentRegistry` | registry, agent control and the thread manager's map, as one state machine |
| `AgentRegistryProofs` | the limit, the balance of slots, ownership of paths and distinct nicknames, proved |
| `SessionTurns` | `active_turn`, its tasks and its input; submission loop, app-server requests, finishing tasks, goal extension, guardian and realtime conversation |
| `SessionTurnsProofs` | input delivered once in any session; one task at a time, owners of the slot and kept input in client sessions, proved |
| `RequestDispatch` | the app server's processor task, queues, gates and callbacks |
| `SerialRequests` | abstract: requests of a key start in order, exclusive ones alone |
| `RequestDispatchProofs` | queues, closing and the refinement of `SerialRequests`, proved |
| `RolloutWriter` | the recorder's calls, its writer task and the file |
| `DurableLog` | abstract: a log with a header, appended to in order, and what was promised of it |
| `RolloutWriterProofs` | the refinement of `DurableLog` and what can be read back, proved |
| `ExecSessions` | sessions of the exec server, their connections and timers |
| `ExecEvents` | the events of a command from its three tasks to the client's reader |
| `EventStream` | abstract: a history that grows and closes, and a follower of it |
| `ExecServerProofs` | holders, senders, the refinement of `EventStream` and the complete reader, proved; and that `ExecSessions` gives what `ExecEvents` assumes |
| `BackfillGate` | gate, claim, worker and row of the backfill |
| `BackfillGateProofs` | safety of watermark and gate, proved |
| `NetworkApproval` | requests of the proxy, questions, caches and calls |
| `NetworkApprovalProofs` | one question, late guesses and reported denials, proved |
| `ProcessStore` | the bounded store, `exec_command`, `write_stdin` and the watchers |
| `ProcessStoreProofs` | the bound of the store, single ends, reachability and ids, proved |
| `MC...` | instances for TLC (symmetry, and the mix of requests) |

The modules are joined where the code is: `ExecEvents` is what happens inside a
session of `ExecSessions` while the connection that opened it lasts, which
`ExecServerProofs` justifies (`SessionServesOpener`), and includes the reading task
of unified exec; `ProcessStore` sees of `NetworkApproval` the task that waits
for a denial, which holds the process and fails it. `RequestDispatch`, `RolloutWriter` and `ExecEvents` each `INSTANCE` their
abstract specification and have it as a property. Every module has a type invariant;
it is the base of the proofs, and a run's property only for `AgentRegistry`, where
it says that an unsigned counter never wraps.

### AgentRegistry

A **call** is one `AgentControl` operation in flight. Its `pc` says how far it
is; its locals are `current` of the compare-and-exchange loop (`cur`), the thread
it is about (`tgt`) and the `AgentMetadata` built so far (`path`, `nick`). One
action is one atomic access or one critical section:

- `SpawnBegin`, `ResumeBegin`, `TryIncrementSpawned`: `reserve_spawn_slot`.
- `RegisterRootThread`, `ReserveAgentPath`, `ReserveAgentNickname`:
  `prepare_thread_spawn`, three acquisitions of the mutex.
- `CreateThread`; or `ResumeCheck` and `ResumeFinalize`, the two checks of the
  thread manager for a resumed id, with the session built between them.
- `SpawnFails` is an error there or the future dropped at an `await`; `DropPath`
  and `DropCount` are the two halves of `Drop for SpawnReservation`.
- `Commit` is `register_spawned_thread`.
- `SendBegin`, `SendOp`, `ShutdownLiveAgent`, `RemoveThread`, `ReleaseEntry`,
  `ReleaseCount`: sending to an agent that died, and closing one;
  `release_spawned_thread` decrements the counter after it gave up the mutex.
- `ThreadEnds`, `Unload`: a session ends by itself; the app server drops it from
  the manager without telling the registry.

`thread[i]` joins the manager's map and the state of the thread: `unused` (id not
generated yet), `absent` (has a rollout and can be resumed), `running`, `dead`
(its loop ended, its entry is still in the map). A nickname is a pair of a name
and the reset count, which is what `format_agent_nickname` spells injectively.

Simplifications: `max_threads = None` is left out (no limit to keep). A spurious
failure of `compare_exchange_weak` reloads the same value and is a stutter. Which
free nickname is chosen is random in the code and nondeterministic here. The
agents' depth matters only for `register_root_thread` and is chosen there. A call
that has removed an entry and not decremented the counter is not dropped: there
is no `await` between.

### SessionTurns

`active` is `Session.active_turn`: the task of the turn (0 for `None`), its
`TurnState` and the mailbox delivery phase. A `TurnState` is identified by the
turn that created it and whether it did so when it reserved the slot or when it
filled it, since the code compares them with `Arc::ptr_eq`. `pend` is the pending
input of each. `task[t]` is the spawned future of turn `t`; `actor[a]` the
routine an actor is in. Actors are the submission loop, one app-server request,
the guardian's abort task, the fan-out task of a realtime conversation, and each
finished task while it reports idleness.

- **Submission loop** (`UserInput`, `SpawnAux`, `Interrupt`, `Mail`, `Shutdown`)
  runs one operation to its end. `ExternalSteer`, `Inject`, `AppServerIdle` are
  app-server requests that bypass it.
- **Realtime conversation**: `RouteText` is `route_realtime_text_input`, which runs
  the same `user_input_or_turn_inner` as the loop (`UserInputOrTurn(a, m)`, where
  `a` is who runs it) from the fan-out task, so the session has a second starter of
  turns. `RealtimeStop` aborts that task at any `await`; what it held is discarded
  and what it had reserved stays. The feature is under development and off by
  default (`features/src/lib.rs:1177`); `Routed`, the texts it hands over, is empty
  in a session without it.
- **Abort** (`AbortTake`, `AbortCancel`, `AbortKill`, `AbortClear`):
  `abort_all_tasks` and `handle_task_abort`; `GuardianTrip`, `GuardianTake` for
  `abort_turn_if_active`.
- **Start** (`PendingWorkCheck`, `PendingWorkReserve`, `StartDrain`,
  `StartReserve`, `StartExtend`, `StartInstall`): one action for each time
  `start_task` holds the slot or a `TurnState`.
- **Automatic turns** (`Idle`, `TryStart...`).
- **Task** (`TaskStart` to `ObserveCancel`): control of `RegularTask::run` and
  `run_turn`; the model's answer is nondeterministic. An attempt may fail before
  sampling any number of times (`PreSamplingFails`), and is made again while input
  is pending.
- **Finish** (`FinishCheck`, `FinishTake`, `FinishRecord`, `FinishClear`):
  `on_task_finished`.

`sent`, `history`, `discarded`, `started`, `terminal` record what was handed in,
what was written to the conversation, what went down with an aborted, refused or
blocked turn, and the events sent.

Simplifications: `get_pending_input` and `has_pending_input` take the slot's lock
and then the mailbox's; they are one step. `compact` stands for reviews too: both
refuse steering and read no pending input. The retry after an invalid image is
part of sampling. Mail an aborted turn had drained counts as discarded with it.
Approval waiters in `TurnState`, token accounting and hooks' own effects are left
out.

### RequestDispatch

`phase[r]` is the life of a request: `queued` or `ready` (spawned), in flight
behind the gate (`running`, `asking` a client, `answered`), `ended`, `dropped` by
the gate, `rejected`. `queues` holds a sequence for each key that has an entry, and
`drain` the tasks that enqueueing spawned.

- Processor task: `ConnectionOpened`, `Initialize`, `Dispatch`, `Reject`,
  `ConnectionClosed` with `ConnectionReleased` (the close waits in between, and
  while it does the loop does nothing else: `Serving`), `FirstSignal`,
  `SecondSignal`, `TurnsChange`, `LeaveLoop`, `Finish`, `TransportEnds`, `Drained`.
- Queues: `DrainPop` takes a batch of shared reads or one request, `DrainReturn`
  ends a drain task and removes its queue under the same lock, `DrainJoined`
  waits for the whole batch.
- Gate and handler: `GateRun`, `AskClient`, `ClientAnswers`, `AskTimesOut`,
  `HandlerReturns`, `CommandStarts`, `CommandExits`.

What a handler computes is left out; it may ask a client for tokens, leave a
command behind, or just return. A command in the Windows sandbox (`sandboxed`) has
a session that takes no control messages: closing its connection removes the
session and tells the command nothing (`ToldToTerminate`).

### RolloutWriter

`job` is the writer task's position in one command: opening the file, the header,
the items one by one, the answer. `IoError` may strike at each of these and may
leave part of a line, cut between two characters (`Fragment`) or inside one
(`Torn`); `Unwritten` is what `write_pending_items` keeps of its queue,
and a first failure starts the attempt once more. `Crash` ends the process at any
point, `Resume` opens the file again in append mode with what `load_rollout_items`
can parse: a line that is not JSON is skipped, a line that is not UTF-8 fails the
whole load (`Readable`, `Loaded`), and the file can then not be resumed. `Gone` answers the calls a finished writer left in its channel.
The abstract `DurableLog` keeps which item, or the header, lies at which place of
the store, and what was promised; a place may stay empty. The refinement maps each
place of `file` to itself and leaves out the fragments, so a torn line is an empty
place. (A sequence of the items without the places would say the same, but needs a
filter, which the provers cannot reason about.)

Queries over rollouts, compression and the limit of the channel are left out.

### ExecSessions

One action is one critical section of the registry or of an attachment, or one
`await` of a connection's loop. `InitializeNew`, `Resume`, `ResumeExpired` with
`ReapExpired` are `SessionRegistry::attach`; `LeaveLoop`, `Detach`, `StopSending`,
`Finish` the end of a connection; `TimerFires`, `TimerReaps` the expiry task.
`TransportEnds` may come while a request is under way, which `LeaveLoop` then drops.
The process map is one entry: `StartProcess`, `ExecEnd`, `Forget`. Names differ from
those of `ExecEvents` (`SessionsSpec`, `SessionsNext`), so that a proof can extend both.

### ExecEvents

`log[p]` is the history of a command by sequence number. `Output`, `StreamEnds`,
`Exit` take a number under the lock of the process map; `Tell` sends the notification
after it; `FinishStream` and `MaybeEmitClosed` decide who is the last. `Receive` is
the client's ordered publishing (`Ready` is the run of events that leaves `pending`,
`Published` what that does to the session), `NoticeDisconnect` its failure, `Read`, `ReadFails`,
`Wake` the reader. Notifications arrive in any order. The connection ends in two ways.
`Disconnect` is the end of the transport, which later calls see. With `ReaderBreaks` the RPC
reader gives up on a message it cannot parse or does not expect, and nothing marks the
connection as disconnected: a read that had passed the check and is entered after the
pending calls were drained is answered by nobody (`Hung`).

Write, terminate and the server-side wait of a read are left out: a read that
waits is one that is made later. `Failed`, which carries no number, is the flag
`failed` and not part of the published sequence.

### BackfillGate

A process is at one point of `wait_for_backfill_gate` (`GateReads`, `GateChecks`)
or of `backfill_sessions` (`WorkerLooks`, `Claim`, `ReadClaimed`, `MarkRunning`,
`IndexFile`, `Checkpoint`, `WorkDone`, `Complete`). `LeaseExpires` lets the time
stamp in the row grow old at any moment, also while its worker is alive, `Crash`
ends a process anywhere, and the `...Fails` actions are database errors, of which
some end the start and some only the worker. Files are numbers in the order of
their watermarks. The listing of directories does not fail (in the code a failed
listing counts as an empty directory), and no file joins them.

### NetworkApproval

A request goes through the two caches (`CheckDenied`, `CheckApproved`), joins or
owns the pending entry of its host (`Join`), and as an owner takes one step for
each lock: `Resolve`, `ResolveOwnerCall`, `Decide`, `RecordDenial`,
`ForgetOpposite`, `CacheAnswer`, `SetDecision`, `NotifyWaiters`, `RemovePending`.
`FindCall` and `RecordBlocked` are the proxy's second report of a denial; `Drop`
is the request's future dropped at any `await`. `Register`, `FinishCall`,
`UnregisterCall` are the calls. Storing an outcome and cancelling the call's token
are one step. `sync_session_approved_hosts_to` and writing amendments to the
policy are left out.

### ProcessStore

`Allocate`, `Refuse`, `RefuseEarly`, `Open`, `Start`, `Store`, `TerminateVictim`,
`Collect`, `EmitEnd`, `ReleaseId`, `Answer` are `exec_command`; `Poll...` are
`write_stdin`; `TerminateAll`, `TerminateEntry` the shutdown of all processes;
`Watch` the exit watcher; `Exit`, `NoticeExit`, `Fail` the process and its reader.
`Abort` interrupts a call at any `await`, and `DropProcess` is the destructor of a
process nobody holds. Calls of `exec_command` run side by side, in one
`ToolCallRuntime` or in several; a `write_stdin` has its runtime to itself
(`Engaged`). A process with a managed network (`Managed`) has a task that waits for
a denial (`denial`): it holds the process, fails it, also shortly after an exit, and
leaves when the process has ended (`DenialTaskEnds`). `Leaves` is what an aborted
call leaves running; `loose` records that an id may have been freed during the call
that uses it. Output, deadlines and the sandbox are nondeterministic; a denial fails
the process in one step; the watcher's wait for the last output is part of `Watch`.

## 3. Runs

| Run | Instance | Distinct states | Shows |
|---|---|---|---|
| `registry` | 2 calls, 2 sub-agent ids, 1 path, limit 2, 1 name | 2.8 M | `TypeOK`, `LimitHeld`, `NicknamesDistinct`, `PathOwned`, `PathNotStolen`, `LeaksOnlyByOverwrite` with spawns, resumes, closes, sends and unloads |
| `turns_client` | 2 messages, 1 trigger mail, 1 compaction, 2 turns, 1 follow-up | 235 k | `StartFindsNoTask`, `LiveTaskTracked`, `SlotOwned`, `OneTerminalEvent`, `NoInputLost`, `TurnEnds` |
| `turns_automatic` | 1 item that is sent, steered, injected or spoken, 1 goal item, guardian, realtime conversation, 2 turns | 2.0 M | `InputOnce` |
| `turns_idle_race` | 1 message, 1 goal item, 2 turns | violation | `StartFindsNoTask` |
| `turns_mail` | 1 message, 1 trigger mail, 3 turns | violation | `TriggerMailDelivered` |
| `requests` | 2 connections, 3 requests, 1 key, both transport modes, commands in and out of the Windows sandbox | 423 k | `QueueServed`, `ClosedIsClean`, `GracefulExit`, `SerialOrder`, `RequestSettles`, `CloseCompletes` |
| `rollout` | 2 barriers, 3 items, 3 faults, 1 restart | 678 k | `LostOnlyBehindFragment`, `WritesLog`, `BarrierReturns` |
| `exec_sessions` | 3 connections, 1 session | 50 k | `HolderKeepsSession`, `SenderIsCurrent`, `DetachedIsReaped` |
| `exec_events` | 1 process, 2 chunks, a buffer of 1 | 408 k | `ReaderComplete`, `FollowsHistory`, `CloseIsPublished`, `ReaderStops` |
| `backfill` | 2 processes, 4 files, batches of 2, 2 errors | 111 k | `WatermarkIsSafe`, `ReadyIsIndexed`, `StartReturns` |
| `network` | 2 requests, 1 host, 2 calls | 577 k | `OneQuestion`, `GuessOnlyWhenLate`, `DenialIsReported`, `WaitersServed` |
| `processes` | 2 commands, one with a managed network, 1 poll, 2 ids, a store of 1, 2 runtimes | 418 k | `EndOnce`, `LiveIsReachable`, `IdsDistinct`, `EndsReported` |

**Bounds.** Two calls are enough for every pairwise race between a spawn, a
resume, a close and a send, and the limit of two is reached and contended. One
name in the pool means the second agent already resets it; `MaxResets` bounds how
often calls begin after that (a call under way may still reset the pool). In
`SessionTurns` each item is sent once. Two turns let a turn be replaced, aborted or
followed while the previous one is still finishing. `MaxFollowUps` bounds tool
calls and stop hooks within one task; without it a model could call tools for ever.
Failures before sampling are not bounded, and `TurnEnds` names the turn that has
nothing else. Three requests of one key make a batch of two reads with
a write before, between or behind them, and the two connections let one close while
the other's request is running. Three faults fail an attempt, its retry and the
next attempt; three items leave one written, one torn and one pending. With three
connections a session is held, lost, resumed and lost again while the first timer
still sleeps. A buffer of one chunk drops output between two reads as soon as there
are two. Four files in batches of two give two checkpoints, so a worker that lost
its lease can write the first one behind the other's second. Two requests to one
host are an owner and a waiter, two calls a guess. A store of one is full with the
first command and prunes with the second. That an id pruned during its call is given
out again takes a third call, which the run does not have; that nothing else shares
an id is the theorem `IdsStayDistinct`, for any number of calls.

**No deadlock check.** Every run but `registry` says `CHECK_DEADLOCK FALSE`: each
client, request, call or process of an instance acts a bounded number of times, and
the system then rests, as it does whenever nobody asks anything. What must not be
left waiting is the subject of the liveness properties.

**Fairness.** Weak fairness of the steps of tasks: they are futures on a
multi-threaded runtime that polls each one that is ready, and locks are held only
within a step. Besides:

- `SessionTurns`: model requests end by an answer, an error or the stream's idle
  timeout; an abort needs no fairness of the task it stops, since `AbortKill` stands
  for the grace period as well. Shutting the session down stops the realtime
  conversation (`closing /\ RealtimeStop`); otherwise nobody owes that.
- `RequestDispatch`: a handler that is not waiting for a client returns, the
  timeout of a token refresh fires, a killed command exits. Clients owe no answer.
- `RolloutWriter`: the writer task goes on; a crash needs no fairness.
- `ExecSessions`: time passes and an ended transport is noticed. Commands owe
  nothing.
- `ExecEvents`: tasks run and a working transport delivers; children owe neither
  output nor an exit.
- `BackfillGate`: a process that started goes on (or crashes), and time passes.
- `NetworkApproval`: futures are polled; neither user nor guardian owes an answer.
- `ProcessStore`: calls and watchers are polled; no process owes an exit.

**Mutants.** For each property `PROJECT.json` names a plausible bug, defined just
before the operator it replaces (comments begin with "Fault:"), under which TLC
finds the property violated.

## 4. What is proved

Eight proof modules, each extending the module it is about; `ExecServerProofs`
extends both modules of the exec server. A theorem holds for
every value of the constants that the named assumption of its module allows; the
assumptions say that sets that are counted are finite, that bounds are natural
numbers, and that the markers for "nothing" are not members of the sets they mark.
Every module proves its type invariant (`TypeCorrect`, for sessions
`SessionTypeCorrect`) and, where it has one,
`Invariance`: the inductive invariant `Inv` that the rest follows from.

| Module | Assumption | Theorems (property) |
|---|---|---|
| `AgentRegistryProofs` | `RegistryAssumption` | `LimitIsHeld` (`LimitHeld`), `NoOtherLeak` (`LeaksOnlyByOverwrite`), `PathIsOwned` (`PathOwned`), `PathIsNotStolen` (`PathNotStolen`), `NicknamesStayDistinct` (`NicknamesDistinct`) |
| `SessionTurnsProofs` | `SessionAssumption`, `GoalAssumption` | for every session `InputIsOnce` (`InputOnce`); under `ClientOnly` `StartIsFree` (`StartFindsNoTask`), `TaskIsTracked` (`LiveTaskTracked`), `SlotHasOwner` (`SlotOwned`), `EndsOnce` (`OneTerminalEvent`), `InputIsKept` (`NoInputLost`) |
| `RequestDispatchProofs` | `DispatchAssumption` | `QueuesAreServed` (`QueueServed`), `ClosedLeavesNothing` (`ClosedIsClean`), `ExitIsGraceful` (`GracefulExit`), `Refinement` (`SerialOrder`) |
| `RolloutWriterProofs` | `WriterAssumption` | `PromisedIsLoaded` (`LostOnlyBehindFragment`), `Refinement` (`WritesLog`) |
| `ExecServerProofs` | `EventsAssumption`, `SessionsAssumption` | `ReaderIsComplete` (`ReaderComplete`), `Refinement` (`FollowsHistory`); `HolderIsSafe` (`HolderKeepsSession`), `SenderIsSafe` (`SenderIsCurrent`), `SessionServesOpener` |
| `BackfillGateProofs` | `BackfillAssumption` | `WatermarkSafe` (`WatermarkIsSafe`), `GateSafe` (`ReadyIsIndexed`) |
| `NetworkApprovalProofs` | `ApprovalAssumption` | `OneQuestionPerHost` (`OneQuestion`), `GuessIsLate` (`GuessOnlyWhenLate`), `DenialReported` (`DenialIsReported`) |
| `ProcessStoreProofs` | `StoreAssumption` | `EndReportedOnce` (`EndOnce`), `LiveStaysReachable` (`LiveIsReachable`), `IdsStayDistinct` (`IdsDistinct`) |

**Registry.** `LimitHeld` is not inductive: a step of the compare-and-exchange loop
compares with the *counter*, and a release takes an entry out of the map before it
decrements the counter. `Inv` says that registered agents, live reservations **and**
releases in progress are together at most `total_count`, and that at most the limit
(`SlotsCovered`). It is an inequality because of the leak in section 5. The same fact
keeps the counter natural: whoever decrements it is one of those counted. So the
counter's type is proved together with the limit, and `TypeRest` is the rest of the
type. The count is handled by giving each program counter a weight of 0 or 1
(`Weight`, `BusyMove`): each action moves one call, so it changes the sum by the
difference of two weights. `NoOtherLeak` is the same argument made exact: every step
is `Balanced` (counter and slots in use move together) or an `Overwrite`.
`PathOwned` needs that a call has no path before `reserve_agent_path` (`NoPathYet`);
the step that matters is that a vacant path cannot be some other call's, because that
call's placeholder is there. `NicknamesDistinct` needs `NickInv`: a nickname in use
is `Spent` (of an earlier reset, or marked used in this one), so the pool does not
give it out again; and two calls, or a call and a thread, have the same one only
where the call resumes that thread (`GivenOnce`).

**Turns of a client session.** `ClientOnly` is
`GoalItems = {} /\ Guardian = FALSE /\ Routed = {}`: no goal extension, no guardian, no
realtime conversation; with any of them some of the five properties are false
(section 5). `Inv` is about the submission loop and the finishing tasks: in such a
session the loop alone starts and aborts turns (`LoopAlone`);
where it is in a turn, the slot is free or reserved for that turn, whose task is not
there yet, and the task it aborts is alive or has just returned (`LoopInv`); a live
task is in the slot or being aborted (`TaskInv`); a reservation without a task is
the loop's or that of a task that finishes (`SlotInv`); input travels on few stages
only (`CarryInv`). `InputIsKept` adds `PendInv` (input is pending only where the slot,
an abort or a finishing task will look) and `KeptInv`, and needs `Injected = {}`
because of the injected items of section 5.

**Input of any session.** `InputIsOnce` has no restriction: goals, the guardian and the
realtime conversation are included, and so are the races that break the properties above. An item lies at a
*place* (`Lies`): the pending input of a `TurnState`, what an actor drained, the input
of the task it starts, a task, the history, what was discarded, the mailbox. `OnceOf`
says that there is at most one place, counting an actor's two sets apart, which
`InputOnce` does not; otherwise an item could be in both, and handing one of them on
would duplicate it. `UnsentOf` says that an item not handed in yet lies nowhere,
except the continuation item with the one actor that decides on it: this is what the
goal permit is for. Every step leaves an item where it is or moves it
(`StaysOnce`, `MovesOnce`, `ArrivesOnce`). That `StartInstall` does not overwrite the
input of a task that was already spawned for the same turn needs the part about
control, `Ctl`: the turn an actor is starting has no task and is no other actor's,
and a task goes on as an actor only once it is over. `GoalAssumption`: a continuation
item, which the extension makes up itself, is nobody's message.

**Requests.** `Inv` ties together where a request is: its parameters and its place
in the order of arrival (`RequestInv`), the gate of its connection (`GateInv`), its
queue and the drain task of that queue (`DrainInv`), its position in the queue
(`QueueInv`: exactly the queued requests of the key, sorted by arrival) and the batch
it was popped with (`BatchInv`: of one request or of reads, ahead of everything still
queued). `QueueServed` alone is not inductive, since the task that finds its queue empty
and an enqueue race for the map's entry. In the refinement `Status` maps a request's
phase to that of `SerialRequests`; a pop is a stutter, and passing the gate is the
abstract start, which `BatchInv` shows to be allowed: whatever arrived earlier and
conflicts is settled.

**Rollout.** `Inv` follows the items: pending ones and the ones in queued commands
are in the order recorded, behind all in the file (`PendingInOrder`, `AddsInOrder`);
none is missing while a writer lives (`NoneMissing`); what a barrier covers is written,
pending or ahead of it in the queue (`CallsCovered`, `JobCovered`); the header is first
(`HeaderFirst`); what was promised is in the file (`Kept`). A write error leaves the
unwritten rest in `pending` with its order, which is why a retry neither repeats nor
skips an item. The refinement maps the file place by place. `PromisedIsLoaded` is about a
file that can be read: with a character cut in two nothing is loaded (section 5).

**Exec sessions.** The owner of a session holds it and has not begun to leave
(`OwnerHolds`), a holder owns it until it detaches (`HolderOwns`), and time runs only
for a session without a connection (`ExpiryInv`). Each needs the others: who removes a
session finds it expired, only a detached session expires, and its owner is gone.
`SessionServesOpener` states what `ExecEvents` takes for granted: commands are not
shut down under a connection that serves their session, and the opener of a session
is its sender as long as no other connection has had it (`OpenerHeard`). Without that
condition the step `StopSending` breaks it: it is the late `detach` of section 5.

**Exec events.** `Inv` has a part for each side. On the server (`TasksOf`)
`open_streams` counts the streams of a running command that are not finished, there
is no exit in the history before `watch_exit` has told it, and once `Closed` is there,
both streams are past their last output; so whoever finds the condition of
`maybe_emit_closed` true is the only one to do so, and nothing follows. Numbers in
tasks and notifications were given out (`SeqInv`). The client has published the numbers
up to `last_published_seq`, and what is pending lies beyond the next number
(`ClientInv`); `LastIs` and `Extended` show that a notification extends the published
run to the next gap and leaves the same situation. In the refinement an event is
`Happen`, a notification that fills the gap is `Show`, the client's disconnect `End`,
and the rest is not seen. The reader has every chunk that lay in the buffer at one of its reads, and
its `after_seq` is not beyond the history (`ReaderInv`): a read that returns chunks goes on behind the greatest of
them, one that returns none behind the whole history. That a run of numbers has an
end and a set of chunks a greatest member would be inductions over data; they follow
instead from the well-foundedness of the natural numbers (`Least`, `Greatest`,
`RunEnds`).

**Backfill.** The watermark alone is not inductive: it is written from a worker's local
variable, by any worker, long after that worker lost its lease. `Inv` adds that
each worker is `Sound`: everything before its own next file has been worked through
by somebody, and the name it would write lies before that file; that a worker about
to complete has passed the last file; and that a complete row, and a process that saw
one, imply that all files are indexed. Since `indexed` only grows, a late checkpoint
can move the watermark back but never ahead of the work, whatever the leases say.
That is the reason the code may be careless about them.

**Network approval.** A request has its host until it is answered and a waiter has a
question (`LocalsInv`); only a started command sends requests (`OriginStarted`); a call's
stored outcome is the `Verdict` over all reasons it was ended for, until it is taken,
and then never changes (`CallInv`). The last one is why all who finish a call are told
the same reason, although the proxy reports a denial a second time.

**Processes.** `CallInv` says for each stage of a call who will report its process's end:
nobody yet, then the watcher, or the call itself if the process was never stored.
`WatchInv` says that a running process that a watcher holds, or the task waiting for a
denial once the call is past storing it, is in the store, on its way out, or one of the
exceptions. `SharedInv` and `PollInv` follow ids that two users have; `SoleInv` and
`ReservedInv` hold until something is `loose`: a call that has not stored its process has
no entry, no poll is under way beside a call, and what is in use is reserved. The bound of the store is part of `TypeCorrect`: storing a process prunes
first, and there is always an entry to prune, because fewer entries are protected than the
store holds.

**Only model-checked.**

- The liveness properties (`TurnEnds`, `TriggerMailDelivered`, `RequestSettles`,
  `CloseCompletes`, `BarrierReturns`, `DetachedIsReaped`, `CloseIsPublished`,
  `ReaderStops`, `StartReturns`, `WaitersServed`, `EndsReported`): they rest on
  fairness, which the prover does not handle.
- The two violations of section 5.

## 5. Findings

- **Two starters of a turn can meet** (`turns_idle_race`). `start_task` asserts
  `turn.task.is_none()`; an automatic turn that has passed `still_reserved` and a
  user turn that has passed `abort_all_tasks` both get there.
- **Trigger mail can be left lying** (`turns_mail`) when it arrives after a turn's
  last look at its input; nothing looks at the mailbox when the turn has ended.

`StartFindsNoTask`, `OneTerminalEvent`, `SlotOwned`, `LiveTaskTracked` and `NoInputLost`
are stated for client operations (`ClientOnly`, `turns_client`) only:

- with automatic turns the first finding breaks them;
- with the guardian a finishing task may meet the next turn's task in the slot
  (hazard at `tasks/mod.rs:557`);
- with a realtime conversation its fan-out task starts turns beside the loop
  (`realtime_conversation.rs:856`, `session/mod.rs:1112`, `handlers.rs:276`): the two
  starters reach the assertions at `tasks/mod.rs:348` and 361, the task that is
  overwritten runs on untracked and its input goes down with it, and a fan-out task
  that is stopped while it replaces a turn leaves its reservation in the slot, or the
  replaced turn without a terminal event.

Seen while modelling, and either named as an exception by a property or outside
what the properties say:

- *Registry.* A registered agent that is resumed (two concurrent resumes of a
  thread, or an unload by the app server followed by a resume) takes a second slot,
  and closing it returns one (`core/src/agent/registry.rs:213`). `LeaksOnlyByOverwrite`
  shows that this is the only leak.
- *Turns.* An item injected after `on_task_finished` took the pending input and
  before it cleared the slot is dropped (`core/src/session/inject.rs:143`);
  `NoInputLost` is checked without injections. A turn whose attempts fail before
  sampling has not taken its pending input, so `RegularTask::run` tries again, as often
  as that happens (`tasks/regular.rs:69`, `session/turn.rs:149`; the exception of
  `TurnEnds`).
- *Requests.* Closing a connection does not end a command that runs in the Windows
  sandbox (`app-server/src/command_exec.rs:392`; the exception of `CloseCompletes`).
- *Rollout.* A torn line is not ended before the next append, so the line glued to
  it is lost to readers although a barrier reported it (`rollout/src/recorder.rs:1688`;
  `LostOnlyBehindFragment`). A line torn inside a character of several bytes fails the
  whole load, since `next_line` wants UTF-8 (`recorder.rs:851`; the premise `Readable`):
  everything promised before is then out of readers' reach as well. `flush` and `shutdown` create the deferred file too,
  where the comment at `recorder.rs:664` names `persist` only. Items sent between
  `Shutdown` and the end of the receiver are accepted and lost.
- *Exec server.* A resumed connection can be left without a sender, because `detach`
  clears it outside the registry's lock (`session_registry.rs:244`); it still sees
  its output by reading. A resume that meets an expired session and is dropped before
  it shut the commands down leaves them running (`session_registry.rs:107`, the
  history variable `abandoned`). A dropped exec request leaves its id `Starting`
  (`local_process.rs:162`). The checks for an evicted connection never fire
  (`HolderKeepsSession`). `Session::read` publishes `Failed` ahead of notifications
  that are still queued (`client.rs:755`). When the RPC reader breaks off at a message
  it cannot use (`rpc.rs:262`), a call that passed the check before can enter `pending`
  after the drain (`rpc.rs:331`) and wait for ever, where the comment at `rpc.rs:328`
  says that none can; `ReaderStops` names it.
- *Backfill.* A completed backfill is set back to running by a late checkpoint or
  `mark_backfill_running`, and a process that starts then claims it again
  (`state/src/runtime/backfill.rs:64`, where line 21 says a complete one is not
  claimed). No file is missed, in the sense that every file was worked through: one
  whose upsert fails counts as done (`rollout/src/metadata.rs:270`).
- *Network approval.* An owner dropped while it asks leaves its entry, and later
  requests to the host wait for ever (`network_approval.rs:420`; `WaitersServed`
  names the exception). A request that read the caches before another's answer was
  stored asks again, and may be given the opposite answer (`network_approval.rs:419`).
- *Processes.* `terminate_all_processes` clears the reservations of calls in flight,
  so an id can be given out twice (`process_manager.rs:1254`); with parallel calls, of
  one runtime too, pruning frees the id of a command whose call is still waiting for
  output; and with several runtimes a poll may free an id beside a call (all three are
  `loose`). A call aborted before it stored a process with a managed network leaves
  that process running, held by the task that waits for a denial, where otherwise its
  destructor ends it (`process_manager.rs:388`; `left`). A call
  aborted while it unregisters the process it pruned leaves that process running
  and out of reach, and its own without a watcher (`process_manager.rs:840`; `left`).
  `exec_command` keeps its id reserved when it fails before it opens a process
  (`exec_command.rs:149`). A call aborted between the begin event and the store
  reports no end; `EndsReported` is about calls that returned.

## 6. Plan and what is not modelled

All safety properties of the passing runs are theorems, the three refinements
included; what remains with TLC is liveness. Next, in this order: resumed sessions
in `ExecEvents` (a second connection that reads what the first was told), process
ids that are used again, and the leases of memories and agent jobs.

**Not modelled.** Most of the repository is code in which the order of concurrent
steps plays no part: the terminal interface (rendering and key handling), protocol
types, configuration, command-line tools, parsers (patches, execution policy, shell
commands), platform sandboxes. Those have little state that a model would tell
apart, and their correctness lies in strings and system calls, which tests reach
better. Of the parts with concurrent state these are left out: the leases of
memories and agent jobs, which follow the pattern of the backfill's claim in SQL
statements of their own; the readiness flag, which nothing uses at this commit;
the compression of old rollouts, whose race depends on modification times; thread
listeners and replay of the app server; the reconnection of MCP and remote-control
transports, which happens mostly inside third-party libraries.

## 7. Running

    tlc -config Registry.cfg MCAgentRegistry
    tlc -config Backfill.cfg MCBackfillGate

and likewise for the other configurations of section 3, each with the `MC` module
of the same component; the proofs with

    for m in AgentRegistry SessionTurns RequestDispatch RolloutWriter \
             ExecServer BackfillGate NetworkApproval ProcessStore
    do tlapm ${m}Proofs.tla; done

Each run takes between a few seconds and about three minutes with two workers.
