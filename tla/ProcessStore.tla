---------------------------- MODULE ProcessStore ----------------------------
(***************************************************************************)
(* The store of background processes of a session (codex-rs/core/src/      *)
(* unified_exec/process_manager.rs).  exec_command reserves an id, opens a *)
(* process and, if that is still alive, stores it under the id before it   *)
(* waits for output; write_stdin finds it by the id.  A full store gives   *)
(* up its least recently used process.  The end of a stored process is     *)
(* reported by a watcher, that of a short-lived one by the call itself.    *)
(*                                                                         *)
(* Calls of exec_command run side by side, also in one ToolCallRuntime; a  *)
(* call of write_stdin has its runtime to itself (parallel.rs).  A cell of *)
(* code mode has a runtime of its own.  A turn that is interrupted aborts  *)
(* the call at an await.  A process has the name of the call that opened   *)
(* it.  Output is left out, and of the network approval of a process all   *)
(* but the task that waits for a denial, holds the process, and fails it.  *)
(***************************************************************************)
EXTENDS Naturals, FiniteSets, Functions

CONSTANTS
    Calls,          \* calls of exec_command
    Managed,        \* those whose process has a managed network
    Polls,          \* calls of write_stdin that are under way
    Ids,            \* process ids
    MaxProcesses,   \* MAX_UNIFIED_EXEC_PROCESSES
    Protected,      \* how many recently used processes are not pruned
    Runtimes,       \* ToolCallRuntimes of the session
    None            \* no id, no call

ASSUME StoreAssumption ==
    /\ IsFiniteSet(Calls) /\ Managed \subseteq Calls
    /\ MaxProcesses \in Nat /\ Protected \in 0 .. MaxProcesses - 1
    /\ Runtimes \in Nat \ {0}
    /\ None \notin Ids \cup Calls

VARIABLES
    at,         \* how far each call has come, see Phases
    id,         \* the id it has allocated
    proc,       \* its process: "none", "live" or "exited"
    failed,     \* processes with a failure_message
    token,      \* processes whose exit token is cancelled; a live one was terminated
    kept,       \* calls with process_started_alive
    victim,     \* the entry a call has pruned and has to terminate
    watched,    \* processes whose exit watcher waits
    denial,     \* processes whose task still waits for a network denial
    ends,       \* history: how often the end of each process was reported
    reserved,   \* reserved_process_ids
    store,      \* processes, by id
    age,        \* processes by last_used: how many were used since
    poll,       \* the id and the process of each poll, and whether its write
                \* failed and it has looked into the store since
    doomed,     \* entries that terminate_all_processes has still to terminate
    left,       \* history: what an aborted call left running, see Leaves
    shared,     \* history: processes and calls whose id was given out twice
    loose       \* history: whether an id may have been freed while it was in use:
                \* all processes were terminated, or an entry was pruned, during
                \* its call, or a poll was under way beside a call or a poll

callVars  == <<at, id, kept, victim>>
procVars  == <<proc, failed, token, watched, denial, ends>>
storeVars == <<reserved, store, age>>
historyVars == <<left, shared, loose>>
vars == <<callVars, procVars, storeVars, poll, doomed, historyVars>>

Phases == {"new", "open", "start", "store", "prune", "collect", "emit", "release",
           "over", "aborted"}
Over == {"over", "aborted"}
Idle == [id |-> None, of |-> None, looked |-> FALSE]

Init ==
    /\ at = [c \in Calls |-> "new"]
    /\ id = [c \in Calls |-> None]
    /\ proc = [c \in Calls |-> "none"]
    /\ failed = {} /\ token = {} /\ kept = {} /\ watched = {} /\ denial = {}
    /\ victim = [c \in Calls |-> None]
    /\ ends = [c \in Calls |-> 0]
    /\ reserved = {} /\ doomed = {} /\ left = {} /\ shared = {}
    /\ loose = FALSE
    /\ store = [i \in Ids |-> None]
    /\ age = CHOOSE a \in Injection(Calls, 0 .. Cardinality(Calls) - 1) : TRUE   \* none is used
    /\ poll = [p \in Polls |-> Idle]

InCall(c) == at[c] \notin Over \cup {"new"}

Running == {c \in Calls : InCall(c)}
Polling == {p \in Polls : poll[p] # Idle}

\* How many runtimes are at work at least: a poll has one to itself, and
\* calls can share one.
Engaged == Cardinality(Polling) + (IF Running = {} THEN 0 ELSE 1)

\* has_exited, also of a process that failed.
HasExited(c) == proc[c] = "exited"

Stored == {store[i] : i \in Ids} \ {None}
GoTo(c, phase) == at' = [at EXCEPT ![c] = phase]

\* last_used of c is now.
Use(c) ==
    age' = [d \in Calls |-> IF d = c THEN 0
                           ELSE IF age[d] < age[c] THEN age[d] + 1 ELSE age[d]]

\* A call that ends takes its locals with it.
End(c, phase) ==
    /\ GoTo(c, phase)
    /\ id' = [id EXCEPT ![c] = None]
    /\ kept' = kept \ {c}
    /\ victim' = [victim EXCEPT ![c] = None]

\* Fault: the reservation is given up and the entry kept.
ReleaseReservation(i) == reserved' = reserved \ {i} /\ UNCHANGED store

\* ProcessStore::remove, by whoever holds the id.
Release(i) ==
    /\ reserved' = reserved \ {i}
    /\ store' = [store EXCEPT ![i] = None]

----------------------------------------------------------------------------
(* exec_command *)

\* Who may still use an id: calls under way, polls and the store.
UsersOf(i) == {c \in Calls : InCall(c) /\ id[c] = i}
         \cup {poll[p].of : p \in {q \in Polls : poll[q].id = i}}
         \cup ({store[i]} \ {None})

\* allocate_process_id: any id that is not reserved.
Allocate(c, i) ==
    /\ at[c] = "new" /\ (Running # {} \/ Engaged < Runtimes)
    /\ i \notin reserved
    /\ id' = [id EXCEPT ![c] = i]
    /\ reserved' = reserved \cup {i}
    /\ shared' = IF UsersOf(i) = {} THEN shared ELSE shared \cup UsersOf(i) \cup {c}
    /\ loose' = (loose \/ Polling # {})
    /\ GoTo(c, "open")
    /\ UNCHANGED <<kept, victim, procVars, store, age, poll, doomed, left>>

\* The call is refused, or its process cannot be opened.
Refuse(c) ==
    /\ at[c] = "open"
    /\ Release(id[c])
    /\ End(c, "over")
    /\ UNCHANGED <<procVars, age, poll, doomed, historyVars>>

\* No shell may be used, or the patch it holds is wrong: the id stays reserved.
RefuseEarly(c) ==
    /\ at[c] = "open"
    /\ End(c, "over")
    /\ UNCHANGED <<procVars, storeVars, poll, doomed, historyVars>>

\* open_session_with_sandbox.  With a managed network a task is spawned that
\* waits for a denial.
Open(c) ==
    /\ at[c] = "open"
    /\ proc' = [proc EXCEPT ![c] = "live"]
    /\ denial' = denial \cup ({c} \cap Managed)
    /\ GoTo(c, "start")
    /\ UNCHANGED <<id, kept, victim, failed, token, watched, ends, storeVars, poll, doomed, historyVars>>

\* The start time is taken, and whether the process is alive is looked up once.
Start(c) ==
    /\ at[c] = "start"
    /\ Use(c)
    /\ IF HasExited(c) THEN GoTo(c, "collect") /\ UNCHANGED kept
       ELSE GoTo(c, "store") /\ kept' = kept \cup {c}
    /\ UNCHANGED <<id, victim, procVars, reserved, store, poll, doomed, historyVars>>

\* process_id_to_prune_from_meta: of the entries but the Protected ones that
\* were used last, the oldest one that has exited, or else the oldest.
ToPrune ==
    LET old  == {c \in Stored : Cardinality({d \in Stored : age[d] < age[c]}) >= Protected}
        gone == {c \in old : HasExited(c)}
        from == IF gone # {} THEN gone ELSE old
    IN  CHOOSE c \in from : \A d \in from : age[d] <= age[c]

\* prune_processes_if_needed: what has to go before one more is stored.
Pruned == IF Cardinality(Stored) < MaxProcesses THEN {} ELSE {ToPrune}

\* store_process under the lock: prune, then insert.  Without an entry to
\* terminate the watcher is spawned at once.
Store(c) ==
    /\ at[c] = "store"
    /\ store' = [[i \in Ids |-> IF store[i] \in Pruned THEN None ELSE store[i]]
                    EXCEPT ![id[c]] = c]
    /\ reserved' = reserved \ {i \in Ids : store[i] \in Pruned}
    /\ IF Pruned = {}
       THEN /\ GoTo(c, "collect")
            /\ watched' = watched \cup {c}
            /\ UNCHANGED victim
       ELSE /\ GoTo(c, "prune")
            /\ victim' = [victim EXCEPT ![c] = ToPrune]
            /\ UNCHANGED watched
    /\ loose' = (loose \/ Pruned \cap Running # {})
    /\ UNCHANGED <<id, kept, proc, failed, token, denial, ends, age, poll, doomed, left, shared>>

\* Fault: the pruned process is only forgotten.
ForgetVictim(c) ==
    /\ at[c] = "prune"
    /\ victim' = [victim EXCEPT ![c] = None]
    /\ watched' = watched \cup {c}
    /\ GoTo(c, "collect")
    /\ UNCHANGED <<id, kept, proc, failed, token, denial, ends, storeVars, poll, doomed, historyVars>>

\* Fault: the call goes on without its watcher.
TerminateUnwatched(c) ==
    /\ at[c] = "prune"
    /\ token' = token \cup {victim[c]}
    /\ victim' = [victim EXCEPT ![c] = None]
    /\ GoTo(c, "collect")
    /\ UNCHANGED <<id, kept, proc, failed, watched, denial, ends, storeVars, poll, doomed, historyVars>>

\* The pruned process is terminated after its network approval is unregistered.
TerminateVictim(c) ==
    /\ at[c] = "prune"
    /\ token' = token \cup {victim[c]}
    /\ victim' = [victim EXCEPT ![c] = None]
    /\ watched' = watched \cup {c}
    /\ GoTo(c, "collect")
    /\ UNCHANGED <<id, kept, proc, failed, denial, ends, storeVars, poll, doomed, historyVars>>

\* Fault: the call reports the end of a process that has exited by now.
ReportsEndNow(c) == HasExited(c)

\* Whether the call reports the end of its process: it never was stored.
ReportsEnd(c) == c \notin kept

\* The wait for output is over, and the process has failed or never was stored.
Collect(c) ==
    /\ at[c] = "collect" /\ (c \in failed \/ ReportsEnd(c))
    /\ GoTo(c, IF ReportsEnd(c) THEN "emit" ELSE "release")
    /\ UNCHANGED <<id, kept, victim, procVars, storeVars, poll, doomed, historyVars>>

EmitEnd(c) ==
    /\ at[c] = "emit"
    /\ ends' = [ends EXCEPT ![c] = @ + 1]
    /\ GoTo(c, "release")
    /\ UNCHANGED <<id, kept, victim, proc, failed, token, watched, denial, storeVars, poll, doomed,
                   historyVars>>

ReleaseId(c) ==
    /\ at[c] = "release"
    /\ Release(id[c])
    /\ End(c, "over")
    /\ UNCHANGED <<procVars, age, poll, doomed, historyVars>>

\* refresh_process_state: an entry that has exited is removed.
Refresh(i) ==
    IF store[i] # None /\ HasExited(store[i]) THEN Release(i) ELSE UNCHANGED <<reserved, store>>

\* The wait is over, and the call answers with what the store has under its id.
Answer(c) ==
    /\ at[c] = "collect" /\ c \notin failed /\ ~ReportsEnd(c)
    /\ Refresh(id[c])
    /\ End(c, "over")
    /\ UNCHANGED <<procVars, age, poll, doomed, historyVars>>

\* What runs on, out of reach, when the call is aborted: the entry it has
\* pruned and not terminated, and its own process if that is not stored yet
\* and a task waits for its denial.
Leaves(c) == ({victim[c]} \ {None}) \cup {d \in denial : d = c /\ at[c] \in {"start", "store"}}

\* The turn is interrupted.
Abort(c) ==
    /\ InCall(c)
    /\ left' = left \cup Leaves(c)
    /\ End(c, "aborted")
    /\ UNCHANGED <<procVars, storeVars, poll, doomed, shared, loose>>

----------------------------------------------------------------------------
(* write_stdin *)

\* prepare_process_handles.
PollBegins(p, i) ==
    /\ poll[p] = Idle /\ Engaged < Runtimes
    /\ store[i] # None
    /\ poll' = [poll EXCEPT ![p] = [id |-> i, of |-> store[i], looked |-> FALSE]]
    /\ Use(store[i])
    /\ loose' = (loose \/ Running # {} \/ Polling # {})
    /\ UNCHANGED <<callVars, procVars, reserved, store, doomed, left, shared>>

\* Writing fails, and the process has exited: the entry is removed, and the
\* poll goes on to collect output.
PollFindsExit(p) ==
    /\ poll[p] # Idle /\ ~poll[p].looked
    /\ store[poll[p].id] # None /\ HasExited(store[poll[p].id])
    /\ Release(poll[p].id)
    /\ poll' = [poll EXCEPT ![p].looked = TRUE]
    /\ UNCHANGED <<callVars, procVars, age, doomed, historyVars>>

\* Writing fails because the process is lost: it is terminated.
PollWriteFails(p) ==
    /\ poll[p] # Idle /\ ~poll[p].looked
    /\ ~(store[poll[p].id] # None /\ HasExited(store[poll[p].id]))
    /\ token' = token \cup {poll[p].of}
    /\ Release(poll[p].id)
    /\ poll' = [poll EXCEPT ![p] = Idle]
    /\ UNCHANGED <<callVars, proc, failed, watched, denial, ends, age, doomed, historyVars>>

\* The wait for output is over.
PollEnds(p) ==
    /\ poll[p] # Idle
    /\ IF poll[p].of \in failed THEN Release(poll[p].id)
       ELSE IF poll[p].looked THEN UNCHANGED <<reserved, store>>
       ELSE Refresh(poll[p].id)
    /\ poll' = [poll EXCEPT ![p] = Idle]
    /\ UNCHANGED <<callVars, procVars, age, doomed, historyVars>>

\* Writing fails otherwise, or the turn is interrupted.
PollAborts(p) ==
    /\ poll[p] # Idle
    /\ poll' = [poll EXCEPT ![p] = Idle]
    /\ UNCHANGED <<callVars, procVars, storeVars, doomed, historyVars>>

----------------------------------------------------------------------------
(* terminate_all_processes *)

\* The entries are taken out and every reservation is forgotten, also that of
\* a call that has not stored its process yet.
TerminateAll ==
    /\ doomed = {} /\ Stored \cup reserved # {}
    /\ doomed' = Stored
    /\ reserved' = {}
    /\ store' = [i \in Ids |-> None]
    /\ loose' = (loose \/ Running # {})
    /\ UNCHANGED <<callVars, procVars, age, poll, left, shared>>

TerminateEntry(c) ==
    /\ c \in doomed
    /\ token' = token \cup {c}
    /\ doomed' = doomed \ {c}
    /\ UNCHANGED <<callVars, proc, failed, watched, denial, ends, storeVars, poll, historyVars>>

----------------------------------------------------------------------------
(* Processes *)

\* It exits, or what was done to terminate it shows.
Exit(c) ==
    /\ proc[c] = "live"
    /\ proc' = [proc EXCEPT ![c] = "exited"]
    /\ UNCHANGED <<callVars, failed, token, watched, denial, ends, storeVars, poll, doomed, historyVars>>

\* Its exit is noticed.
NoticeExit(c) ==
    /\ proc[c] = "exited" /\ c \notin token
    /\ token' = token \cup {c}
    /\ UNCHANGED <<callVars, proc, failed, watched, denial, ends, storeVars, poll, doomed, historyVars>>

\* fail_and_terminate: the exec server is lost, or the network is denied, also
\* shortly after the process has exited.
Fail(c) ==
    /\ proc[c] = "live" \/ c \in denial
    /\ proc' = [proc EXCEPT ![c] = "exited"]
    /\ failed' = failed \cup {c}
    /\ token' = token \cup {c}
    /\ denial' = denial \ {c}
    /\ UNCHANGED <<callVars, watched, ends, storeVars, poll, doomed, historyVars>>

\* The process has ended, and no denial came within the grace period.
DenialTaskEnds(c) ==
    /\ c \in denial /\ c \in token
    /\ denial' = denial \ {c}
    /\ UNCHANGED <<callVars, proc, failed, token, watched, ends, storeVars, poll, doomed, historyVars>>

Held(c) ==
    \/ InCall(c) \/ c \in Stored \cup doomed \cup watched \cup denial
    \/ \E d \in Calls : victim[d] = c
    \/ \E p \in Polls : poll[p].of = c

\* Nobody holds the process any more: Drop terminates it.
DropProcess(c) ==
    /\ proc[c] = "live" /\ c \notin token /\ ~Held(c)
    /\ token' = token \cup {c}
    /\ UNCHANGED <<callVars, proc, failed, watched, denial, ends, storeVars, poll, doomed, historyVars>>

\* spawn_exit_watcher: the end is reported when the token is cancelled and
\* the output is drained, which happens a while later.
Watch(c) ==
    /\ c \in watched /\ c \in token
    /\ watched' = watched \ {c}
    /\ ends' = [ends EXCEPT ![c] = @ + 1]
    /\ UNCHANGED <<callVars, proc, failed, token, denial, storeVars, poll, doomed, historyVars>>

----------------------------------------------------------------------------
CallStep(c) ==
    \/ Refuse(c) \/ RefuseEarly(c) \/ Open(c) \/ Start(c) \/ Store(c) \/ TerminateVictim(c)
    \/ Collect(c) \/ EmitEnd(c) \/ ReleaseId(c) \/ Answer(c)

Next ==
    \/ \E c \in Calls :
        \/ \E i \in Ids : Allocate(c, i)
        \/ CallStep(c) \/ Abort(c)
        \/ Exit(c) \/ NoticeExit(c) \/ Fail(c) \/ DenialTaskEnds(c)
        \/ DropProcess(c) \/ Watch(c) \/ TerminateEntry(c)
    \/ \E p \in Polls :
        \/ \E i \in Ids : PollBegins(p, i)
        \/ PollFindsExit(p) \/ PollWriteFails(p) \/ PollEnds(p) \/ PollAborts(p)
    \/ TerminateAll

\* Tasks that are ready are polled.  No process owes an exit, and nobody has
\* to poll.
Fairness ==
    \A c \in Calls : /\ WF_vars(CallStep(c))
                     /\ WF_vars(NoticeExit(c))
                     /\ WF_vars(Watch(c))

Spec == Init /\ [][Next]_vars /\ Fairness

----------------------------------------------------------------------------
(* Properties *)

\* Every variable keeps its type, and the store its bound.
TypeOK ==
    /\ at \in [Calls -> Phases]
    /\ id \in [Calls -> Ids \cup {None}]
    /\ proc \in [Calls -> {"none", "live", "exited"}]
    /\ failed \cup token \cup kept \cup watched \cup denial \cup doomed \subseteq Calls
    /\ left \cup shared \subseteq Calls /\ loose \in BOOLEAN
    /\ victim \in [Calls -> Calls \cup {None}]
    /\ ends \in [Calls -> Nat]
    /\ reserved \subseteq Ids
    /\ store \in [Ids -> Calls \cup {None}]
    /\ Cardinality(Stored) <= MaxProcesses
    /\ age \in Injection(Calls, 0 .. Cardinality(Calls) - 1)
    /\ poll \in [Polls -> [id : Ids \cup {None}, of : Calls \cup {None}, looked : BOOLEAN]]

\* A command's end is reported at most once, whether it exits before it is
\* stored, while it is, or while its call decides who reports it
\* (process_started_alive is looked up once).
EndOnce == \A c \in Calls : ends[c] <= 1

\* A command that runs when its call is over can be found by its id, or is
\* about to be terminated.  The exceptions run on, out of reach: a command
\* whose id was given out twice, one that was pruned by a call that was
\* aborted before it terminated it (the watcher holds it), and one whose own
\* call was aborted before it was stored, with a managed network (the task
\* that waits for a denial holds it).
LiveIsReachable ==
    \A c \in Calls :
        (proc[c] = "live" /\ c \notin token /\ ~InCall(c) /\ Held(c)) =>
            \/ \E i \in Ids : store[i] = c
            \/ c \in doomed \cup left \cup shared
            \/ \E d \in Calls : victim[d] = c
            \/ \E p \in Polls : poll[p].of = c

\* Calls of exec_command that run side by side keep their ids apart, from the
\* reservation to the release, through refusals, aborts, failures and
\* pruning.  An id is given out while it is in use only if its entry was
\* pruned while its call still waited for output, if all processes were
\* terminated during a call, or if a poll was under way beside a call or
\* another poll, which takes two runtimes.
IdsDistinct == ~loose => shared = {}

\* The end of every command whose call returned is reported once it has
\* ended: by the watcher, or by the call.
EndsReported ==
    \A c \in Calls : (at[c] = "over" /\ c \in token) ~> (ends[c] = 1)

=============================================================================
