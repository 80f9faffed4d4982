---------------------------- MODULE SessionTurns ----------------------------
(***************************************************************************)
(* The life of a turn in one Codex session: who may start a task, how a    *)
(* task is finished, replaced or interrupted, and where the input that     *)
(* arrives meanwhile goes.                                                 *)
(*                                                                         *)
(* The session keeps one slot, active_turn, behind a mutex                 *)
(* (codex-rs/core/src/state/turn.rs).  The submission loop                 *)
(* (session/handlers.rs) works through client operations one by one, but   *)
(* the task of a turn runs beside it and finishes by itself                *)
(* (tasks/mod.rs, on_task_finished); extensions start automatic turns when *)
(* the thread is idle (session/inject.rs, tasks/lifecycle.rs); the         *)
(* guardian aborts a turn from a task of its own (guardian/review.rs); the *)
(* fan-out task of a realtime conversation (realtime_conversation.rs)      *)
(* starts turns beside the loop; and the app server steers and injects     *)
(* into a turn directly.  All of these give up the mutex between reading   *)
(* the slot and acting on what they read.  One action is one critical      *)
(* section, or the code between two.                                       *)
(***************************************************************************)
EXTENDS Integers, FiniteSets

CONSTANTS
    UserMsgs,      \* user messages, each sent once
    Injected,      \* items injected into a running turn, each once
    Mails,         \* inter-agent mail, each sent once
    TriggerMails,  \* the mail marked trigger_turn
    GoalItems,     \* continuation items of the goal extension
    Routed,        \* texts a realtime conversation hands over, each once
    AuxKinds,      \* kinds of the tasks client operations may start
    MaxAux,        \* bound: client operations that start such a task
    MaxTurns,      \* bound: turns ever begun
    MaxFollowUps,  \* bound: follow-up requests of one task
    Guardian       \* whether the guardian may abort turns

ASSUME SessionAssumption ==
    /\ TriggerMails \subseteq Mails
    /\ MaxTurns \in Nat /\ MaxAux \in Nat /\ MaxFollowUps \in Nat
    /\ AuxKinds \subseteq {"shell", "compact"}
    /\ Guardian \in BOOLEAN

\* A continuation item is nobody's message.
ASSUME GoalAssumption ==
    GoalItems \cap (UserMsgs \cup Injected \cup Mails \cup Routed) = {}

Items == UserMsgs \cup Injected \cup Mails \cup GoalItems \cup Routed

\* What a user-prompt hook is shown, and may stop.
Prompts == UserMsgs \cup Routed

Turns == 1..MaxTurns

\* A turn may create a TurnState when it reserves the slot or when it fills
\* it, so it has at most two.
TurnStates == Turns \X {1, 2}

\* The concurrent actors: the submission loop, an app-server request, the
\* guardian's abort task, the fan-out task of the realtime conversation, and
\* the finishing task of each turn.
Loop       == 0
AppServer  == -1
GuardianId == -2
Realtime   == -3
Actors     == {Loop, AppServer, GuardianId, Realtime} \cup Turns

NoTS   == <<0, 0>>
NoTurn == [task |-> 0, ts |-> NoTS, next |-> FALSE]

VARIABLES
    active,     \* Session.active_turn: NoTurn, or its task (0 for None), its
                \* TurnState and whether mailbox_delivery_phase is NextTurn
    pend,       \* pending_input of each TurnState
    mailbox,    \* InputQueue.mailbox_pending_mails
    task,       \* the spawned future of each turn, see Task
    actor,      \* the local state of each actor, see Actor
    turnCount,  \* turns begun so far
    auxCount,   \* auxiliary operations so far
    closing,    \* Op::Shutdown was received
    sent,       \* items handed to the session so far
    history,    \* items recorded in the conversation history
    discarded,  \* items dropped with an interrupted, replaced or failed turn
    started,    \* turns whose TurnStarted event was sent
    terminal    \* number of TurnComplete and TurnAborted events of each turn

sessionVars == <<active, pend, mailbox>>
boundVars   == <<turnCount, auxCount, closing>>
itemVars    == <<sent, history, discarded>>
eventVars   == <<started, terminal>>
vars == <<sessionVars, task, actor, boundVars, itemVars, eventVars>>

\* The stages of a task, from tokio::spawn to the end of its future.
Running   == {"spawned", "work", "top", "drain", "record", "sample",
              "sampled", "again"}
Finishing == {"flush", "finTake", "finRecord", "finClear"}

Task == [pc : Running \cup Finishing \cup {"none", "ended"},
         kind : {"regular"} \cup AuxKinds, cancelled : BOOLEAN,
         input : SUBSET Items, follow : BOOLEAN, left : 0..MaxFollowUps,
         ts : TurnStates \cup {NoTS}]

NoTask == [pc |-> "none", kind |-> "regular", cancelled |-> FALSE, input |-> {},
           follow |-> FALSE, left |-> MaxFollowUps, ts |-> NoTS]

Ended == [NoTask EXCEPT !.pc = "ended"]

\* The stages of the routines an actor may be in.
Aborting == {"abTake", "gTake", "abCancel", "abKill", "abClear"}
Starting == {"msCheck", "msReserve", "stDrain", "stReserve", "stExtend", "stInstall"}
Idling   == {"idle", "tsReserve", "tsRecheck", "tsClear", "tsExtend"}

Actor == [pc : Aborting \cup Starting \cup Idling \cup {"rest", "stopped"},
          turn : Turns \cup {0},          \* the turn it is starting
          kind : {"regular"} \cup AuxKinds,
          input : SUBSET Items,           \* input of that turn's task
          victim : Turns \cup {0},        \* the turn it is aborting
          replace : BOOLEAN,              \* TurnAbortReason::Replaced
          ts : TurnStates \cup {NoTS},    \* the TurnState it holds
          items : SUBSET Items]           \* drained input it carries

Rest == [pc |-> "rest", turn |-> 0, kind |-> "regular", input |-> {},
         victim |-> 0, replace |-> FALSE, ts |-> NoTS, items |-> {}]

----------------------------------------------------------------------------

Init ==
    /\ active = NoTurn
    /\ pend = [s \in TurnStates |-> {}]
    /\ mailbox = {}
    /\ task = [t \in Turns |-> NoTask]
    /\ actor = [a \in Actors |-> Rest]
    /\ turnCount = 0 /\ auxCount = 0 /\ closing = FALSE
    /\ sent = {} /\ history = {} /\ discarded = {}
    /\ started = {}
    /\ terminal = [t \in Turns |-> 0]

Goto(a, l)   == actor' = [actor EXCEPT ![a].pc = l]
Done(a)      == actor' = [actor EXCEPT ![a] = Rest]
TaskGoto(t, l) == task' = [task EXCEPT ![t].pc = l]

FreshTurn == turnCount + 1
CanBegin  == turnCount < MaxTurns

\* has_trigger_turn_mailbox_items
TriggerPending == mailbox \cap TriggerMails # {}

\* What get_pending_input takes: the active turn's pending input, and the
\* mailbox unless that turn has left it to the next one.
TakesMail == ~active.next
Drainable == (IF active = NoTurn THEN {} ELSE pend[active.ts])
             \cup (IF TakesMail THEN mailbox ELSE {})

\* has_pending_input
HasPending == Drainable # {}

\* Fault: the pending input is copied instead of split off.
DrainInputCopies ==
    /\ pend' = pend
    /\ mailbox' = IF TakesMail THEN {} ELSE mailbox

\* get_pending_input empties what it returns.
DrainInput ==
    /\ pend' = IF active = NoTurn THEN pend ELSE [pend EXCEPT ![active.ts] = {}]
    /\ mailbox' = IF TakesMail THEN {} ELSE mailbox

----------------------------------------------------------------------------
(* Client operations: the submission loop *)

LoopReady == actor[Loop].pc = "rest" /\ ~closing

\* steer_input accepts input for a regular task only; a shell task is one.
Steerable == active.task # 0 /\ task[active.task].kind # "compact"

Steer(m) ==
    /\ pend' = [pend EXCEPT ![active.ts] = @ \cup {m}]
    /\ active' = [active EXCEPT !.next = FALSE]

\* Fault: spawn_task goes straight to start_task.
SpawnTaskNoAbort == "stDrain"

\* spawn_task begins with abort_all_tasks(Replaced).
SpawnTask == "abTake"

\* user_input_or_turn_inner: steer the active turn, or replace whatever is
\* there by a new turn; a review or compaction in progress refuses the message.
UserInputOrTurn(a, m) ==
    /\ m \notin sent
    /\ \/ /\ Steerable
          /\ Steer(m)
          /\ sent' = sent \cup {m}
          /\ UNCHANGED <<actor, turnCount, discarded>>
       \/ /\ active.task = 0
          /\ CanBegin
          /\ actor' = [actor EXCEPT ![a] =
                         [Rest EXCEPT !.pc = SpawnTask, !.replace = TRUE,
                                      !.turn = FreshTurn, !.input = {m}]]
          /\ turnCount' = FreshTurn
          /\ sent' = sent \cup {m}
          /\ UNCHANGED <<active, pend, discarded>>
       \/ /\ active.task # 0 /\ ~Steerable
          /\ sent' = sent \cup {m}
          /\ discarded' = discarded \cup {m}
          /\ UNCHANGED <<active, pend, actor, turnCount>>
    /\ UNCHANGED <<mailbox, task, auxCount, closing, history, eventVars>>

UserInput(m) == LoopReady /\ UserInputOrTurn(Loop, m)

\* compact, review, run_user_shell_command: spawn_task with no input.  With a
\* task running, a shell command runs beside it instead.
SpawnAux(k) ==
    /\ LoopReady
    /\ auxCount < MaxAux /\ CanBegin
    /\ auxCount' = auxCount + 1
    /\ IF k = "shell" /\ active.task # 0
       THEN UNCHANGED <<actor, turnCount>>
       ELSE /\ actor' = [actor EXCEPT ![Loop] =
                           [Rest EXCEPT !.pc = SpawnTask, !.replace = TRUE,
                                        !.turn = FreshTurn, !.kind = k]]
            /\ turnCount' = FreshTurn
    /\ UNCHANGED <<sessionVars, task, closing, itemVars, eventVars>>

\* interrupt_task
Interrupt ==
    /\ LoopReady
    /\ actor' = [actor EXCEPT ![Loop] = [Rest EXCEPT !.pc = "abTake"]]
    /\ UNCHANGED <<sessionVars, task, boundVars, itemVars, eventVars>>

\* inter_agent_communication
Mail(m) ==
    /\ LoopReady
    /\ m \notin sent
    /\ sent' = sent \cup {m}
    /\ mailbox' = mailbox \cup {m}
    /\ IF m \in TriggerMails THEN Goto(Loop, "msCheck") ELSE UNCHANGED actor
    /\ UNCHANGED <<active, pend, task, boundVars, history, discarded,
                   eventVars>>

\* shutdown, and the teardown when the submission channel closes.
Shutdown ==
    /\ LoopReady
    /\ closing' = TRUE
    /\ actor' = [actor EXCEPT ![Loop] = [Rest EXCEPT !.pc = "abTake"]]
    /\ UNCHANGED <<sessionVars, task, turnCount, auxCount, itemVars, eventVars>>

----------------------------------------------------------------------------
(* Requests that bypass the loop *)

\* CodexThread::steer_input, turn/steer of the app server.
ExternalSteer(m) ==
    /\ m \notin sent
    /\ Steerable
    /\ Steer(m)
    /\ sent' = sent \cup {m}
    /\ UNCHANGED <<mailbox, task, actor, boundVars, history, discarded, eventVars>>

\* inject_no_new_turn: into the active turn, else straight into history.
Inject(i) ==
    /\ i \notin sent
    /\ sent' = sent \cup {i}
    /\ IF active = NoTurn
       THEN history' = history \cup {i} /\ UNCHANGED pend
       ELSE pend' = [pend EXCEPT ![active.ts] = @ \cup {i}] /\ UNCHANGED history
    /\ UNCHANGED <<active, mailbox, task, actor, boundVars, discarded,
                   eventVars>>

\* route_realtime_text_input, from the fan-out task of the conversation: the
\* same routine as the loop's, beside the loop.
RouteText(m) == actor[Realtime].pc = "rest" /\ UserInputOrTurn(Realtime, m)

\* Closing or restarting the conversation, and the end of a shutdown: the
\* fan-out task is aborted at whichever await it has reached.  The input it
\* carries goes with it, and a task it has taken out of the slot is aborted as
\* its RunningTask is dropped, without an event; a reservation stays.
RealtimeStop ==
    /\ actor[Loop].pc = "rest"
    /\ actor[Realtime].pc # "stopped"
    /\ LET r == actor[Realtime]
           dropped == IF r.pc \in {"abCancel", "abKill"} THEN {r.victim} ELSE {}
       IN  /\ task' = [t \in Turns |-> IF t \in dropped THEN Ended ELSE task[t]]
           /\ discarded' = discarded \cup r.items \cup r.input
                           \cup UNION {task[t].input : t \in dropped}
    /\ actor' = [actor EXCEPT ![Realtime] =
                   [Rest EXCEPT !.pc = IF closing THEN "stopped" ELSE "rest"]]
    /\ UNCHANGED <<sessionVars, boundVars, sent, history, eventVars>>

----------------------------------------------------------------------------
(* abort_all_tasks, abort_turn_if_active and handle_task_abort *)

\* Where an aborting actor goes next: spawn_task goes on to start_task, an
\* interrupt that stopped a task looks for pending work.
AfterAbort(a) == IF actor[a].replace THEN "stDrain" ELSE "msCheck"

\* take_active_turn of a slot with a task.
TakeVictim(a) ==
    /\ actor' = [actor EXCEPT ![a] =
                    [@ EXCEPT !.pc = "abCancel", !.victim = active.task, !.ts = active.ts]]
    /\ active' = NoTurn

\* take_active_turn; a reservation without a task just goes.
AbortTake(a) ==
    /\ actor[a].pc = "abTake"
    /\ IF active.task # 0
       THEN TakeVictim(a)
       ELSE /\ active' = NoTurn
            /\ IF actor[a].replace THEN Goto(a, "stDrain") ELSE Done(a)
    /\ UNCHANGED <<pend, mailbox, task, boundVars, itemVars, eventVars>>

\* record_guardian_denial: too many denials in a turn that is still active.
GuardianTrip ==
    /\ Guardian
    /\ actor[GuardianId].pc = "rest"
    /\ active.task # 0
    /\ actor' = [actor EXCEPT ![GuardianId] =
                   [Rest EXCEPT !.pc = "gTake", !.victim = active.task]]
    /\ UNCHANGED <<sessionVars, task, boundVars, itemVars, eventVars>>

GuardianTake ==
    /\ actor[GuardianId].pc = "gTake"
    /\ IF active.task = actor[GuardianId].victim
       THEN TakeVictim(GuardianId)
       ELSE Done(GuardianId) /\ UNCHANGED active
    /\ UNCHANGED <<pend, mailbox, task, boundVars, itemVars, eventVars>>

\* Fault: the early return of handle_task_abort is taken for every task.
AlwaysCancelled(v) == TRUE

AlreadyCancelled(v) == task[v].cancelled

\* Fault: the cancellation token is never cancelled.
CancelTokenSkipped(v) == UNCHANGED task

CancelToken(v) == task' = [task EXCEPT ![v].cancelled = TRUE]

\* handle_task_abort up to the wait for the task.
AbortCancel(a) ==
    /\ actor[a].pc = "abCancel"
    /\ Goto(a, IF AlreadyCancelled(actor[a].victim) THEN "abClear" ELSE "abKill")
    /\ CancelToken(actor[a].victim)
    /\ UNCHANGED <<sessionVars, boundVars, itemVars, eventVars>>

\* The task ends within the grace period or is aborted after it; then the
\* TurnAborted event.
AbortKill(a) ==
    /\ actor[a].pc = "abKill"
    /\ task' = [task EXCEPT ![actor[a].victim] = Ended]
    /\ discarded' = discarded \cup task[actor[a].victim].input
    /\ terminal' = [terminal EXCEPT ![actor[a].victim] = @ + 1]
    /\ Goto(a, "abClear")
    /\ UNCHANGED <<sessionVars, boundVars, sent, history, started>>

\* clear_pending
AbortClear(a) ==
    /\ actor[a].pc = "abClear"
    /\ discarded' = discarded \cup pend[actor[a].ts]
    /\ pend' = [pend EXCEPT ![actor[a].ts] = {}]
    /\ actor' = [actor EXCEPT ![a] =
                    [@ EXCEPT !.pc = AfterAbort(a), !.victim = 0, !.ts = NoTS]]
    /\ UNCHANGED <<active, mailbox, task, boundVars, sent, history,
                   eventVars>>

----------------------------------------------------------------------------
(* maybe_start_turn_for_pending_work and start_task *)

PendingWorkCheck(a) ==
    /\ actor[a].pc = "msCheck"
    /\ IF TriggerPending THEN Goto(a, "msReserve") ELSE Done(a)
    /\ UNCHANGED <<sessionVars, task, boundVars, itemVars, eventVars>>

\* Reserve the slot for turn t: ActiveTurn::default.
Reserve(t) == active' = [NoTurn EXCEPT !.ts = <<t, 1>>]

PendingWorkReserve(a) ==
    /\ actor[a].pc = "msReserve"
    /\ IF active = NoTurn
       THEN /\ CanBegin
            /\ Reserve(FreshTurn)
            /\ actor' = [actor EXCEPT ![a] =
                            [@ EXCEPT !.pc = "stDrain", !.turn = FreshTurn]]
            /\ turnCount' = FreshTurn
       ELSE Done(a) /\ UNCHANGED <<active, turnCount>>
    /\ UNCHANGED <<pend, mailbox, task, auxCount, closing, itemVars,
                   eventVars>>

StartDrain(a) ==
    /\ actor[a].pc = "stDrain"
    /\ actor' = [actor EXCEPT ![a] = [@ EXCEPT !.pc = "stReserve", !.items = Drainable]]
    /\ DrainInput
    /\ UNCHANGED <<active, task, boundVars, itemVars, eventVars>>

\* The first get_or_insert_with.
StartReserve(a) ==
    /\ actor[a].pc = "stReserve"
    /\ IF active = NoTurn THEN Reserve(actor[a].turn) ELSE UNCHANGED active
    /\ actor' = [actor EXCEPT ![a] = [@ EXCEPT !.pc = "stExtend", !.ts = active'.ts]]
    /\ UNCHANGED <<pend, mailbox, task, boundVars, itemVars, eventVars>>

StartExtend(a) ==
    /\ actor[a].pc = "stExtend"
    /\ pend' = [pend EXCEPT ![actor[a].ts] = @ \cup actor[a].items]
    /\ actor' = [actor EXCEPT ![a] = [@ EXCEPT !.pc = "stInstall", !.items = {}]]
    /\ UNCHANGED <<active, mailbox, task, boundVars, itemVars, eventVars>>

\* The second get_or_insert_with; a RunningTask found there is overwritten,
\* and its AbortOnDropHandle stops it.
StartInstall(a) ==
    /\ actor[a].pc = "stInstall"
    /\ LET t == actor[a].turn
           new == [NoTask EXCEPT !.pc = "spawned", !.kind = actor[a].kind,
                                 !.input = actor[a].input]
       IN  /\ active' = IF active = NoTurn
                        THEN [NoTurn EXCEPT !.task = t, !.ts = <<t, 2>>]
                        ELSE [active EXCEPT !.task = t]
           /\ task' = [u \in Turns |-> IF u = t THEN new
                                       ELSE IF u = active.task THEN Ended
                                       ELSE task[u]]
    /\ Done(a)
    /\ UNCHANGED <<pend, mailbox, boundVars, itemVars, eventVars>>

----------------------------------------------------------------------------
(* Automatic turns: emit_thread_idle_lifecycle_if_idle and, through the goal *)
(* extension, try_start_turn_if_idle                                         *)

\* The app server asks after a goal was set and after a thread was resumed.
AppServerIdle ==
    /\ actor[AppServer].pc = "rest"
    /\ Goto(AppServer, "idle")
    /\ UNCHANGED <<sessionVars, task, boundVars, itemVars, eventVars>>

\* continue_if_idle holds the goal permit until its turn has been started or
\* refused; only the app server and finished tasks get there.
GoalPermitFree == \A a \in Actors \ {Loop, GuardianId, Realtime} :
                    actor[a].pc \in {"rest", "idle"}

\* With nothing active and no work queued the extension may have an active
\* goal to continue, unless the session is in Plan mode.
Idle(a) ==
    /\ actor[a].pc = "idle"
    /\ \/ Done(a)
       \/ /\ active = NoTurn /\ ~TriggerPending
          /\ GoalPermitFree
          /\ \E g \in GoalItems \ sent :
               actor' = [actor EXCEPT ![a] = [@ EXCEPT !.pc = "tsReserve", !.items = {g}]]
    /\ UNCHANGED <<sessionVars, task, boundVars, itemVars, eventVars>>

TryStartReserve(a) ==
    /\ actor[a].pc = "tsReserve"
    /\ IF active = NoTurn
       THEN /\ CanBegin
            /\ Reserve(FreshTurn)
            /\ actor' = [actor EXCEPT ![a] =
                            [@ EXCEPT !.pc = "tsRecheck", !.turn = FreshTurn, !.ts = <<FreshTurn, 1>>]]
            /\ turnCount' = FreshTurn
       ELSE Done(a) /\ UNCHANGED <<active, turnCount>>
    /\ UNCHANGED <<pend, mailbox, task, auxCount, closing, itemVars,
                   eventVars>>

\* Fault: the TurnState is compared with a fresh copy, never equal.
NeverReserved(s) == FALSE

\* The slot has no task and Arc::ptr_eq(turn_state, s).
StillReserved(s) == active.task = 0 /\ active.ts = s

\* Back off for queued mail or Plan mode, give up when the reservation is
\* gone, else go on with the item.
TryStartRecheck(a) ==
    /\ actor[a].pc = "tsRecheck"
    /\ \/ Goto(a, "tsClear")
       \/ /\ ~TriggerPending
          /\ IF StillReserved(actor[a].ts) THEN Goto(a, "tsExtend") ELSE Done(a)
    /\ UNCHANGED <<sessionVars, task, boundVars, itemVars, eventVars>>

\* clear_reserved_idle_turn, then maybe_start_turn_for_pending_work.
TryStartClear(a) ==
    /\ actor[a].pc = "tsClear"
    /\ active' = IF StillReserved(actor[a].ts) THEN NoTurn ELSE active
    /\ actor' = [actor EXCEPT ![a] = [Rest EXCEPT !.pc = "msCheck"]]
    /\ UNCHANGED <<pend, mailbox, task, boundVars, itemVars, eventVars>>

TryStartExtend(a) ==
    /\ actor[a].pc = "tsExtend"
    /\ pend' = [pend EXCEPT ![actor[a].ts] = @ \cup actor[a].items]
    /\ sent' = sent \cup actor[a].items
    /\ actor' = [actor EXCEPT ![a] = [@ EXCEPT !.pc = "stDrain", !.items = {}]]
    /\ UNCHANGED <<active, mailbox, task, boundVars, history, discarded,
                   eventVars>>

----------------------------------------------------------------------------
(* The task of a turn *)

\* RegularTask::run sends TurnStarted first; the other tasks do as well.
TaskStart(t) ==
    /\ task[t].pc = "spawned"
    /\ started' = started \cup {t}
    /\ TaskGoto(t, IF task[t].kind = "regular" THEN "top" ELSE "work")
    /\ UNCHANGED <<sessionVars, actor, boundVars, itemVars, terminal>>

\* Compaction, review and shell tasks: no pending input is read.
TaskWork(t) ==
    /\ task[t].pc = "work"
    /\ TaskGoto(t, "flush")
    /\ UNCHANGED <<sessionVars, actor, boundVars, itemVars, eventVars>>

\* run_turn up to the recording of its input, which is sampled before any
\* pending input is drained.
TurnTop(t) ==
    /\ task[t].pc = "top"
    /\ TaskGoto(t, IF task[t].input = {} THEN "drain" ELSE "record")
    /\ UNCHANGED <<sessionVars, actor, boundVars, itemVars, eventVars>>

\* A failed run_pre_sampling_compact or a session-start hook: run_turn returns
\* before it has recorded its input.
PreSamplingFails(t) ==
    /\ task[t].pc = "top"
    /\ discarded' = discarded \cup task[t].input
    /\ task' = [task EXCEPT ![t] = [@ EXCEPT !.input = {}, !.pc = "again"]]
    /\ UNCHANGED <<sessionVars, actor, boundVars, sent, history, eventVars>>

DrainPending(t) ==
    /\ task[t].pc = "drain"
    /\ task' = [task EXCEPT ![t] = [@ EXCEPT !.input = Drainable, !.pc = "record"]]
    /\ DrainInput
    /\ UNCHANGED <<active, actor, boundVars, itemVars, eventVars>>

\* run_hooks_and_record_inputs.  A hook may stop user messages; with none of
\* them left, run_turn ends.
RecordInputs(t) ==
    /\ task[t].pc = "record"
    /\ \E blocked \in {{}, task[t].input \cap Prompts} :
         /\ history' = history \cup (task[t].input \ blocked)
         /\ discarded' = discarded \cup blocked
         /\ task' = [task EXCEPT ![t] =
                        [@ EXCEPT !.input = {}, !.pc = IF blocked = {} THEN "sample" ELSE "again"]]
    /\ UNCHANGED <<sessionVars, actor, boundVars, sent, eventVars>>

\* The answer of one model request.  A final answer leaves later mail to the
\* next turn unless input is pending (defer_mailbox_delivery_to_next_turn); a
\* tool call takes mail into this turn again; both only while t is active.
SampleAnswer(t) ==
    /\ task[t].pc = "sample"
    /\ \E defers \in BOOLEAN :
         active' = IF defers /\ active.task = t /\ pend[active.ts] = {}
                   THEN [active EXCEPT !.next = TRUE] ELSE active
    /\ task' = [task EXCEPT ![t] = [@ EXCEPT !.pc = "sampled", !.follow = FALSE]]
    /\ UNCHANGED <<pend, mailbox, actor, boundVars, itemVars, eventVars>>

SampleToolCall(t) ==
    /\ task[t].pc = "sample"
    /\ task[t].left > 0
    /\ active' = IF active.task = t THEN [active EXCEPT !.next = FALSE] ELSE active
    /\ task' = [task EXCEPT ![t] =
                   [@ EXCEPT !.pc = "sampled", !.follow = TRUE, !.left = task[t].left - 1]]
    /\ UNCHANGED <<pend, mailbox, actor, boundVars, itemVars, eventVars>>

\* The request fails, or a hook or a failed compaction ends run_turn.
SampleFails(t) ==
    /\ task[t].pc \in {"sample", "sampled"}
    /\ TaskGoto(t, "again")
    /\ UNCHANGED <<sessionVars, actor, boundVars, itemVars, eventVars>>

\* Another request follows when the model wants one or input is pending; after
\* a compaction the model's own continuation goes first.
CheckFollowUp(t) ==
    /\ task[t].pc = "sampled"
    /\ \/ TaskGoto(t, IF task[t].follow \/ HasPending THEN "drain" ELSE "again")
       \/ task[t].follow /\ TaskGoto(t, "sample")
       \/ /\ ~task[t].follow /\ ~HasPending       \* a stop hook continues
          /\ task[t].left > 0
          /\ task' = [task EXCEPT ![t] = [@ EXCEPT !.pc = "drain", !.left = task[t].left - 1]]
    /\ UNCHANGED <<sessionVars, actor, boundVars, itemVars, eventVars>>

\* The loop of RegularTask::run.
CheckPendingInput(t) ==
    /\ task[t].pc = "again"
    /\ TaskGoto(t, IF HasPending THEN "top" ELSE "flush")
    /\ UNCHANGED <<sessionVars, actor, boundVars, itemVars, eventVars>>

\* A cancelled task may return from any of these stages at once.
ObserveCancel(t) ==
    /\ task[t].pc \in Running
    /\ task[t].cancelled
    /\ discarded' = discarded \cup task[t].input
    /\ task' = [task EXCEPT ![t] = [@ EXCEPT !.input = {}, !.pc = "flush"]]
    /\ UNCHANGED <<sessionVars, actor, boundVars, sent, history, eventVars>>

----------------------------------------------------------------------------
(* on_task_finished *)

\* After flush_rollout, whose failure is only a warning.
FinishCheck(t) ==
    /\ task[t].pc = "flush"
    /\ task' = [task EXCEPT ![t] = IF task[t].cancelled THEN Ended
                                   ELSE [NoTask EXCEPT !.pc = "finTake",
                                                       !.kind = task[t].kind]]
    /\ UNCHANGED <<sessionVars, actor, boundVars, itemVars, eventVars>>

\* Fault: on_task_finished looks at the task without taking it.
TakeTaskPeeks == UNCHANGED active

TakeTask == active' = [active EXCEPT !.task = 0]

\* Takes whatever task the slot holds, or returns.
FinishTake(t) ==
    /\ task[t].pc = "finTake"
    /\ IF active.task # 0
       THEN /\ TakeTask
            /\ task' = [task EXCEPT ![t] = [@ EXCEPT !.pc = "finRecord", !.ts = active.ts]]
       ELSE task' = [task EXCEPT ![t] = Ended] /\ UNCHANGED active
    /\ UNCHANGED <<pend, mailbox, actor, boundVars, itemVars, eventVars>>

\* Fault: on_task_finished drops what is still pending.
LeftoverDropped(s) == {}

\* take_pending_input_for_turn_state
Leftover(s) == pend[s]

\* What is still pending is recorded (or stopped by a hook), and TurnComplete
\* is sent.
FinishRecord(t) ==
    /\ task[t].pc = "finRecord"
    /\ \E blocked \in {{}, Leftover(task[t].ts) \cap Prompts} :
         /\ history' = history \cup (Leftover(task[t].ts) \ blocked)
         /\ discarded' = discarded \cup blocked
    /\ pend' = [pend EXCEPT ![task[t].ts] = {}]
    /\ terminal' = [terminal EXCEPT ![t] = @ + 1]
    /\ TaskGoto(t, "finClear")
    /\ UNCHANGED <<active, mailbox, actor, boundVars, sent, started>>

FinishClear(t) ==
    /\ task[t].pc = "finClear"
    /\ IF StillReserved(task[t].ts)
       THEN active' = NoTurn /\ Goto(t, "idle")
       ELSE UNCHANGED <<active, actor>>
    /\ task' = [task EXCEPT ![t] = Ended]
    /\ UNCHANGED <<pend, mailbox, boundVars, itemVars, eventVars>>

----------------------------------------------------------------------------

ClientOp ==
    \/ \E m \in UserMsgs : UserInput(m) \/ ExternalSteer(m)
    \/ \E m \in Routed : RouteText(m)
    \/ RealtimeStop
    \/ \E k \in AuxKinds : SpawnAux(k)
    \/ Interrupt \/ Shutdown
    \/ \E m \in Mails : Mail(m)
    \/ \E i \in Injected : Inject(i)
    \/ AppServerIdle
    \/ GuardianTrip

ActorStep(a) ==
    \/ AbortTake(a) \/ AbortCancel(a) \/ AbortKill(a) \/ AbortClear(a)
    \/ PendingWorkCheck(a) \/ PendingWorkReserve(a)
    \/ StartDrain(a) \/ StartReserve(a) \/ StartExtend(a) \/ StartInstall(a)
    \/ Idle(a) \/ TryStartReserve(a) \/ TryStartRecheck(a) \/ TryStartClear(a)
    \/ TryStartExtend(a)

TaskStep(t) ==
    \/ TaskStart(t) \/ TaskWork(t) \/ TurnTop(t) \/ PreSamplingFails(t)
    \/ DrainPending(t) \/ RecordInputs(t)
    \/ SampleAnswer(t) \/ SampleToolCall(t) \/ SampleFails(t)
    \/ CheckFollowUp(t) \/ CheckPendingInput(t) \/ ObserveCancel(t)
    \/ FinishCheck(t) \/ FinishTake(t) \/ FinishRecord(t) \/ FinishClear(t)

Next ==
    \/ ClientOp
    \/ GuardianTake
    \/ \E a \in Actors : ActorStep(a)
    \/ \E t \in Turns : TaskStep(t)

\* Every spawned future and the submission loop are polled again whenever
\* they can go on: the runtime schedules every ready task.  Clients owe
\* nothing, but a shutdown goes on to stop the conversation.
Fairness ==
    /\ \A a \in Actors : WF_vars(ActorStep(a))
    /\ WF_vars(GuardianTake)
    /\ WF_vars(closing /\ RealtimeStop)
    /\ \A t \in Turns : WF_vars(TaskStep(t))

Spec == Init /\ [][Next]_vars /\ Fairness

----------------------------------------------------------------------------
(* Properties *)

\* Every variable keeps its type.  In particular an ActiveTurn in the slot has
\* a TurnState, and only items handed to the session are recorded or dropped.
TypeOK ==
    /\ active \in [task : Turns \cup {0}, ts : TurnStates, next : BOOLEAN]
                  \cup {NoTurn}
    /\ pend \in [TurnStates -> SUBSET Items]
    /\ mailbox \subseteq Mails
    /\ task \in [Turns -> Task]
    /\ actor \in [Actors -> Actor]
    /\ turnCount \in 0..MaxTurns /\ auxCount \in 0..MaxAux /\ closing \in BOOLEAN
    /\ sent \subseteq Items /\ history \subseteq sent /\ discarded \subseteq sent
    /\ started \subseteq Turns
    /\ terminal \in [Turns -> Nat]

\* The session has no goal extension that continues it, no guardian and no
\* realtime conversation: turns are started and aborted by the loop only.  The
\* next four properties, NoInputLost and TurnEnds are of such a session; with a
\* second starter they fail (an automatic turn or a routed text, beside the
\* loop).
ClientOnly == GoalItems = {} /\ Guardian = FALSE /\ Routed = {}

\* The two debug_assert!(turn.task.is_none()) of start_task: whoever starts a
\* task finds no other task in the slot.
StartFindsNoTask ==
    \A a \in Actors : actor[a].pc \in {"stReserve", "stInstall"} => active.task = 0

\* A task nobody has cancelled is the one in the slot until it finishes, so an
\* interrupt always reaches it, and there is never a second one.
LiveTaskTracked ==
    \A t \in Turns :
      task[t].pc \in Running \cup {"flush"} /\ ~task[t].cancelled
        => \/ active.task = t
           \/ \E a \in Actors : actor[a].pc = "abCancel" /\ actor[a].victim = t

\* Whatever is in the slot is somebody's to remove: a task that still runs, or
\* an actor or a finishing task that holds the reservation.  Otherwise the
\* session would refuse automatic and mail-triggered turns for good.
SlotOwned ==
    \/ active = NoTurn
    \/ /\ active.task # 0
       /\ task[active.task].pc \in Running \cup {"flush", "finTake"}
    \/ /\ active.task = 0
       /\ \/ \E a \in Actors : \/ actor[a].pc \in {"stDrain", "stReserve"}
                               \/ actor[a].pc # "rest" /\ actor[a].ts = active.ts
          \/ \E t \in Turns : task[t].ts = active.ts

\* A turn never has two terminal events, however its own completion races
\* with an abort.
OneTerminalEvent == \A t \in Turns : terminal[t] <= 1

\* The TurnStates some actor or the slot still refers to, and the items that
\* travel with an actor or a task.
Referenced == {active.ts} \cup {actor[a].ts : a \in Actors}
              \cup {task[t].ts : t \in Turns}
Carried == UNION ({actor[a].items \cup actor[a].input : a \in Actors}
                  \cup {task[t].input : t \in {u \in Turns : task[u].pc # "ended"}})

\* Input the session accepted is in the history or on its way there, unless
\* an abort or an error discarded the turn it belonged to: no interleaving
\* drops a message silently.
NoInputLost ==
    \A i \in sent : i \in history \cup discarded \cup mailbox \cup Carried
                    \/ \E s \in Referenced \ {NoTS} : i \in pend[s]

\* Input is delivered at most once: it is never both recorded and still
\* pending, carried by two actors, or discarded after it was recorded.
InputOnce ==
    \A i \in sent :
      Cardinality({s \in TurnStates : i \in pend[s]})
      + Cardinality({a \in Actors : i \in actor[a].items \cup actor[a].input})
      + Cardinality({t \in Turns : i \in task[t].input})
      + Cardinality({x \in {<<1, history>>, <<2, discarded>>, <<3, mailbox>>} :
                       i \in x[2]}) <= 1

\* Every turn that was announced is eventually completed or aborted, unless
\* its attempts fail before sampling for ever: run_turn then returns without
\* having taken the pending input that makes RegularTask::run try again.
\* (Again of a ClientOnly session: a realtime conversation that is closed while
\* it replaces a turn leaves that turn without a terminal event.)
TurnEnds ==
    \A t \in Turns : \/ t \in started ~> terminal[t] > 0
                     \/ []<><<PreSamplingFails(t)>>_vars

\* followup_task: "trigger a turn if it is idle.  If the target is already
\* running, deliver the task promptly at message boundaries".
TriggerMailDelivered ==
    \A m \in TriggerMails : m \in mailbox ~> (m \notin mailbox \/ closing)

=============================================================================
