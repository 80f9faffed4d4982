---------------------------- MODULE ExecSessions ----------------------------
(***************************************************************************)
(* Sessions of the exec server (codex-rs/exec-server/src/server): a        *)
(* process that runs commands for clients on other machines.  A session    *)
(* owns commands and outlives its connection: a connection attaches to a   *)
(* new session or resumes one; when it ends, the session waits             *)
(* DETACHED_SESSION_TTL for another connection, then its commands are shut *)
(* down.  A connection works on its messages one by one, and drops the     *)
(* request under way when its transport ends.                              *)
(*                                                                         *)
(* A session's process map is modelled by one entry.  What the command     *)
(* sends while it runs is the subject of ExecEvents; no name is defined in *)
(* both modules, so that ExecServerProofs can speak of both.               *)
(***************************************************************************)
EXTENDS Integers, FiniteSets

CONSTANTS
    Conns,       \* connections, numbered as they are accepted
    Sessions,    \* session ids
    None,        \* no connection, no session
    Timer        \* the expiry task, as the one who shuts commands down

ASSUME SessionsAssumption ==
    /\ Conns \subseteq Nat
    /\ None \notin Conns \cup Sessions
    /\ Timer \notin Conns \cup {None}

VARIABLES
    used,       \* session ids handed out
    registry,   \* SessionRegistry.sessions
    owner,      \* AttachmentState.current_connection_id of each session
    detached,   \* AttachmentState.detached_connection_id
    due,        \* whether detached_expires_at has passed
    sender,     \* the connection behind the session's notification sender
    timers,     \* the sleeping expire_if_detached tasks
    reapers,    \* who is about to call process.shutdown() of a removed session
    abandoned,  \* history: sessions whose reaper was dropped
    link,       \* whether the transport of each connection works
    at,         \* what the connection's task is doing, see Phases
    held,       \* ExecServerHandler.session
    ready,      \* ExecServerHandler.initialized
    command     \* the session's ProcessEntry: "absent", "starting" or "running"

attachVars == <<owner, detached, due, sender>>
connVars   == <<link, at, held, ready>>
reapVars   == <<reapers, abandoned>>
sessionVars == <<used, registry, attachVars, timers, reapVars, connVars, command>>

\* "idle" waits for a message; "spawning" and "reaping" are inside a request;
\* "stopping" and "unsending" are the steps of handler.shutdown.
Phases == {"unborn", "idle", "spawning", "reaping", "stopping", "unsending", "done"}
Serving(c) == at[c] \in {"idle", "spawning", "reaping"}

SessionsInit ==
    /\ used = {} /\ registry = {} /\ timers = {} /\ abandoned = {}
    /\ owner = [s \in Sessions |-> None]
    /\ detached = [s \in Sessions |-> None]
    /\ due = [s \in Sessions |-> FALSE]
    /\ sender = [s \in Sessions |-> None]
    /\ reapers = [s \in Sessions |-> {}]
    /\ link = [c \in Conns |-> FALSE]
    /\ at = [c \in Conns |-> "unborn"]
    /\ held = [c \in Conns |-> None]
    /\ ready = [c \in Conns |-> FALSE]
    /\ command = [s \in Sessions |-> "absent"]

----------------------------------------------------------------------------
(* initialize *)

\* ExecServerHandler::initialize is handled, for the first time or after it failed.
MayInitialize(c) == link[c] /\ at[c] = "idle" /\ held[c] = None

\* SessionEntry::new and SessionEntry::attach, and the handler keeps the handle.
Attach(c, s) ==
    /\ owner' = [owner EXCEPT ![s] = c]
    /\ detached' = [detached EXCEPT ![s] = None]
    /\ due' = [due EXCEPT ![s] = FALSE]
    /\ sender' = [sender EXCEPT ![s] = c]
    /\ held' = [held EXCEPT ![c] = s]
    /\ UNCHANGED <<timers, reapVars, link, at, ready, command>>

InitializeNew(c, s) ==
    /\ MayInitialize(c)
    /\ s \notin used
    /\ used' = used \cup {s}
    /\ registry' = registry \cup {s}
    /\ Attach(c, s)

IsExpired(s) == due[s]

\* Fault: the session's connection is not asked for.
HasActiveConnectionNever(s) == FALSE

HasActiveConnection(s) == owner[s] # None

\* An unknown session, or one that has a connection, is refused.
Resume(c, s) ==
    /\ MayInitialize(c)
    /\ s \in registry /\ ~IsExpired(s) /\ ~HasActiveConnection(s)
    /\ Attach(c, s)
    /\ UNCHANGED <<used, registry>>

\* The session's time is over, but its timer has not removed it yet.
ResumeExpired(c, s) ==
    /\ MayInitialize(c)
    /\ s \in registry /\ IsExpired(s)
    /\ registry' = registry \ {s}
    /\ reapers' = [reapers EXCEPT ![s] = @ \cup {c}]
    /\ at' = [at EXCEPT ![c] = "reaping"]
    /\ UNCHANGED <<used, attachVars, timers, abandoned, link, held, ready, command>>

\* LocalProcess::shutdown drains the process map and terminates what runs.
ShutdownProcesses(s, who) ==
    /\ who \in reapers[s]
    /\ command' = [command EXCEPT ![s] = "absent"]
    /\ reapers' = [reapers EXCEPT ![s] = @ \ {who}]
    /\ UNCHANGED <<used, registry, attachVars, timers, abandoned, link, held, ready>>

\* The rest of the attach that found an expired session; initialize fails.
ReapExpired(c, s) ==
    /\ at[c] = "reaping"
    /\ ShutdownProcesses(s, c)
    /\ at' = [at EXCEPT ![c] = "idle"]

\* The initialized notification; without an attached session it ends the loop.
Initialized(c) ==
    /\ link[c] /\ at[c] = "idle" /\ held[c] # None /\ ~ready[c] /\ owner[held[c]] = c
    /\ ready' = [ready EXCEPT ![c] = TRUE]
    /\ UNCHANGED <<used, registry, attachVars, timers, reapVars, link, at, held, command>>

----------------------------------------------------------------------------
(* Expiry *)

\* DETACHED_SESSION_TTL passes.
Elapse(s) ==
    /\ s \in registry /\ detached[s] # None /\ ~due[s]
    /\ due' = [due EXCEPT ![s] = TRUE]
    /\ UNCHANGED <<used, registry, owner, detached, sender, timers, reapVars, connVars, command>>

IsDetachedConnectionExpired(s, c) == owner[s] = None /\ detached[s] = c /\ due[s]

\* expire_if_detached after its sleep: for the detachment that started it,
\* the time has passed by then.
TimerFires(s, c) ==
    /\ <<s, c>> \in timers
    /\ detached[s] = c => due[s]
    /\ timers' = timers \ {<<s, c>>}
    /\ IF s \in registry /\ IsDetachedConnectionExpired(s, c)
       THEN /\ registry' = registry \ {s}
            /\ reapers' = [reapers EXCEPT ![s] = @ \cup {Timer}]
       ELSE UNCHANGED <<registry, reapers>>
    /\ UNCHANGED <<used, attachVars, abandoned, connVars, command>>

TimerReaps(s) == ShutdownProcesses(s, Timer) /\ UNCHANGED at

----------------------------------------------------------------------------
(* The connection's task *)

Connect(c) ==
    /\ at[c] = "unborn"
    /\ \A d \in Conns : d < c => at[d] # "unborn"
    /\ at' = [at EXCEPT ![c] = "idle"]
    /\ link' = [link EXCEPT ![c] = TRUE]
    /\ UNCHANGED <<used, registry, attachVars, timers, reapVars, held, ready, command>>

\* The transport ends, at any moment.
TransportEnds(c) ==
    /\ link[c]
    /\ link' = [link EXCEPT ![c] = FALSE]
    /\ UNCHANGED <<used, registry, attachVars, timers, reapVars, at, held, ready, command>>

\* The loop of run_connection ends: the transport has ended, and the request
\* under way is dropped, or, between two messages, at an unexpected message
\* or because the session is attached elsewhere.
LeaveLoop(c) ==
    /\ Serving(c) /\ (at[c] = "idle" \/ ~link[c])
    /\ at' = [at EXCEPT ![c] = "stopping"]
    /\ reapers' = [s \in Sessions |-> reapers[s] \ {c}]
    /\ abandoned' = abandoned \cup {s \in Sessions : c \in reapers[s]}
    /\ UNCHANGED <<used, registry, attachVars, timers, link, held, ready, command>>

\* handler.shutdown: SessionEntry::detach, if the session is still this one's.
Detach(c) ==
    /\ at[c] = "stopping"
    /\ held[c] # None /\ owner[held[c]] = c
    /\ owner' = [owner EXCEPT ![held[c]] = None]
    /\ detached' = [detached EXCEPT ![held[c]] = c]
    /\ due' = [due EXCEPT ![held[c]] = FALSE]
    /\ at' = [at EXCEPT ![c] = "unsending"]
    /\ UNCHANGED <<used, registry, sender, timers, reapVars, link, held, ready, command>>

\* Fault: the sender stays, or no timer is started.
StopSendingKeeps(c) ==
    /\ at[c] = "unsending"
    /\ timers' = timers \cup {<<held[c], c>>}
    /\ at' = [at EXCEPT ![c] = "done"]
    /\ link' = [link EXCEPT ![c] = FALSE]
    /\ UNCHANGED <<used, registry, attachVars, reapVars, held, ready, command>>

StopSendingOnly(c) ==
    /\ at[c] = "unsending"
    /\ sender' = [sender EXCEPT ![held[c]] = None]
    /\ at' = [at EXCEPT ![c] = "done"]
    /\ link' = [link EXCEPT ![c] = FALSE]
    /\ UNCHANGED <<used, registry, owner, detached, due, timers, reapVars, held, ready, command>>

\* The rest of SessionHandle::detach, outside the registry's lock.  Then
\* run_connection ends and closes the transport.
StopSending(c) ==
    /\ at[c] = "unsending"
    /\ sender' = [sender EXCEPT ![held[c]] = None]
    /\ timers' = timers \cup {<<held[c], c>>}
    /\ at' = [at EXCEPT ![c] = "done"]
    /\ link' = [link EXCEPT ![c] = FALSE]
    /\ UNCHANGED <<used, registry, owner, detached, due, reapVars, held, ready, command>>

\* handler.shutdown without a session, or with one that is attached elsewhere.
Finish(c) ==
    /\ at[c] = "stopping"
    /\ held[c] # None => owner[held[c]] # c
    /\ at' = [at EXCEPT ![c] = "done"]
    /\ link' = [link EXCEPT ![c] = FALSE]
    /\ UNCHANGED <<used, registry, attachVars, timers, reapVars, held, ready, command>>

----------------------------------------------------------------------------
(* Commands *)

\* require_initialized_for.
Admitted(c) == link[c] /\ at[c] = "idle" /\ ready[c] /\ owner[held[c]] = c

\* start_process takes the id, unless it is taken, and spawns the child.
StartProcess(c, s) ==
    /\ Admitted(c) /\ held[c] = s
    /\ command[s] = "absent"
    /\ command' = [command EXCEPT ![s] = "starting"]
    /\ at' = [at EXCEPT ![c] = "spawning"]
    /\ UNCHANGED <<used, registry, attachVars, timers, reapVars, link, held, ready>>

\* The child runs, or could not be spawned.
ExecEnd(c, s, result) ==
    /\ at[c] = "spawning" /\ held[c] = s
    /\ command' = [command EXCEPT ![s] = result]
    /\ at' = [at EXCEPT ![c] = "idle"]
    /\ UNCHANGED <<used, registry, attachVars, timers, reapVars, link, held, ready>>

\* The child has closed, and EXITED_PROCESS_RETENTION has passed.
Forget(s) ==
    /\ command[s] = "running"
    /\ command' = [command EXCEPT ![s] = "absent"]
    /\ UNCHANGED <<used, registry, attachVars, timers, reapVars, connVars>>

\* The rest of an exec request.
ExecReturns(c) == \E s \in Sessions, result \in {"running", "absent"} : ExecEnd(c, s, result)

SessionsNext ==
    \/ \E c \in Conns :
        \/ Connect(c) \/ TransportEnds(c) \/ LeaveLoop(c)
        \/ Detach(c) \/ StopSending(c) \/ Finish(c)
        \/ Initialized(c) \/ ExecReturns(c)
    \/ \E s \in Sessions : Elapse(s) \/ TimerReaps(s) \/ Forget(s)
    \/ \E c \in Conns, s \in Sessions :
        \/ InitializeNew(c, s) \/ Resume(c, s) \/ ResumeExpired(c, s) \/ ReapExpired(c, s)
        \/ StartProcess(c, s) \/ TimerFires(s, c)

\* The runtime runs every task that can go on, and time passes; a transport
\* that has ended is noticed.  Clients and children do as they please.
SessionsFairness ==
    /\ \A s \in Sessions : WF_sessionVars(Elapse(s)) /\ WF_sessionVars(TimerReaps(s))
    /\ \A c \in Conns :
        /\ WF_sessionVars(~link[c] /\ LeaveLoop(c))
        /\ WF_sessionVars(Detach(c)) /\ WF_sessionVars(StopSending(c)) /\ WF_sessionVars(Finish(c))
        /\ WF_sessionVars(ExecReturns(c))
        /\ \A s \in Sessions : WF_sessionVars(TimerFires(s, c)) /\ WF_sessionVars(ReapExpired(c, s))

SessionsSpec == SessionsInit /\ [][SessionsNext]_sessionVars /\ SessionsFairness

----------------------------------------------------------------------------
(* Properties *)

\* Every variable keeps its type.
SessionsTypeOK ==
    /\ registry \subseteq used /\ used \subseteq Sessions /\ abandoned \subseteq used
    /\ owner \in [Sessions -> Conns \cup {None}]
    /\ detached \in [Sessions -> Conns \cup {None}]
    /\ due \in [Sessions -> BOOLEAN]
    /\ sender \in [Sessions -> Conns \cup {None}]
    /\ timers \subseteq Sessions \X Conns
    /\ reapers \in [Sessions -> SUBSET (Conns \cup {Timer})]
    /\ link \in [Conns -> BOOLEAN]
    /\ at \in [Conns -> Phases]
    /\ held \in [Conns -> Sessions \cup {None}]
    /\ ready \in [Conns -> BOOLEAN]
    /\ command \in [Sessions -> {"absent", "starting", "running"}]

\* A connection keeps the session it was given for as long as it serves
\* requests: no timer of an earlier detachment, no resume of an expired
\* session and no other connection takes it away (attach,
\* expire_if_detached and detach of session_registry.rs).  So the eviction
\* that run_connection and require_session_attached look for never happens.
HolderKeepsSession ==
    \A c \in Conns : Serving(c) /\ held[c] # None =>
        owner[held[c]] = c /\ held[c] \in registry /\ reapers[held[c]] = {}

\* Notifications go to the connection that owns the session, or to the one
\* that is just leaving it: never to one whose detach is complete.
SenderIsCurrent ==
    \A s \in Sessions : sender[s] # None =>
        owner[s] = sender[s] \/ (at[sender[s]] = "unsending" /\ held[sender[s]] = s)

\* A session without a connection is resumed, or it is removed and its
\* command is shut down: its timer cannot be lost to the detachments that come
\* before and after it.  The exception is a session that a resume found expired,
\* when the connection was dropped before it shut the command down.
DetachedIsReaped ==
    \A s \in Sessions :
        (s \in used /\ owner[s] = None)
            ~> (owner[s] # None \/ (s \notin registry /\ command[s] = "absent") \/ s \in abandoned)

=============================================================================
