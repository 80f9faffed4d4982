-------------------------- MODULE RequestDispatch ---------------------------
(***************************************************************************)
(* How the app server runs the requests of its clients                     *)
(* (codex-rs/app-server/src).  One processor task works through transport  *)
(* events (lib.rs): connections open, initialize and close, and requests   *)
(* are dispatched.  A request with a serialization scope joins the queue   *)
(* of its key, which a task of its own drains (request_serialization.rs);  *)
(* one without is spawned directly.  Every handler runs behind the gate of *)
(* its connection (connection_rpc_gate.rs): closing a connection closes    *)
(* the gate and waits for the handlers inside, in the processor task       *)
(* itself, and only then gives up what belongs to the connection.          *)
(*                                                                         *)
(* A handler may ask a client for fresh tokens (message_processor.rs,      *)
(* ExternalAuthRefreshBridge); the answer comes through the processor      *)
(* task, so only a timeout frees a handler that a closing connection waits *)
(* for.  command/exec leaves a process behind that answers its request     *)
(* later (command_exec.rs).  Signals ask for a graceful restart, a second  *)
(* one forces it.                                                          *)
(***************************************************************************)
EXTENDS Naturals, Sequences, FiniteSets

CONSTANTS
    Conns,        \* connection ids, each opened once
    Reqs,         \* client requests, each sent once
    Offer,        \* what each request may be, see Request
    Keys,         \* serialization keys
    NoKey,        \* "no serialization scope"
    NoConn,       \* the connection of a request not yet sent
    MaxRunning    \* bound: assistant turns running at once

\* A client request: the connection it comes from, its serialization scope,
\* whether its handler may ask a client for tokens, whether it is
\* command/exec, and whether that command runs in the Windows sandbox
\* (SandboxType::WindowsRestrictedToken).  Only reads of a global scope share
\* their queue.
Access  == {"Exclusive", "SharedRead"}
Request == [conn : Conns, key : Keys \cup {NoKey}, access : Access,
            asks : BOOLEAN, command : BOOLEAN, sandboxed : BOOLEAN]
Unsent  == [conn |-> NoConn, key |-> NoKey, access |-> "Exclusive",
            asks |-> FALSE, command |-> FALSE, sandboxed |-> FALSE]

ASSUME DispatchAssumption ==
    /\ IsFiniteSet(Reqs)
    /\ Offer \in [Reqs -> SUBSET Request]
    /\ NoKey \notin Keys /\ NoConn \notin Conns
    /\ MaxRunning \in Nat

VARIABLES
    single,     \* single_client_mode: the transport is stdio
    loop,       \* the processor task: "serving", "draining" or "exited"
    shutdown,   \* ShutdownState: "none", "requested" or "forced"
    running,    \* the running assistant turns; read from the first signal on
    conn,       \* the life of each connection
    accepting,  \* ConnectionRpcGate.accepting of each connection
    request,    \* what each request is, see Request
    phase,      \* how far each request has come
    queues,     \* RequestSerializationQueues.inner: a queue for some keys
    drain,      \* the drain task a request's enqueue spawned, if any
    batch,      \* the requests that drain task popped last
    contexts,   \* OutgoingMessageSender.request_contexts
    callbacks,  \* requests with an entry in request_id_to_callback
    sessions,   \* CommandExecManager.sessions
    command,    \* the process of each command/exec request
    arrivals,   \* history: how many requests were dispatched
    arrived     \* history: the place of each request among them, 0 if none

loopVars    == <<single, loop, shutdown, running>>
gateVars    == <<conn, accepting>>
queueVars   == <<queues, drain, batch>>
ownedVars   == <<contexts, callbacks, sessions, command>>
history     == <<arrivals, arrived>>
vars == <<loopVars, gateVars, request, phase, queueVars, ownedVars, history>>

InFlight == {"running", "asking", "answered"}   \* inside the gate, with a token
Settled  == {"rejected", "ended", "dropped"}
Phases   == {"new", "queued", "ready"} \cup InFlight \cup Settled

Init ==
    /\ single \in BOOLEAN
    /\ loop = "serving" /\ shutdown = "none" /\ running = 0
    /\ conn = [c \in Conns |-> "absent"]
    /\ accepting = [c \in Conns |-> TRUE]
    /\ request = [r \in Reqs |-> Unsent]
    /\ phase = [r \in Reqs |-> "new"]
    /\ queues = [k \in {} |-> <<>>]
    /\ drain = [r \in Reqs |-> "none"]
    /\ batch = [r \in Reqs |-> {}]
    /\ contexts = {} /\ callbacks = {} /\ sessions = {}
    /\ command = [r \in Reqs |-> "none"]
    /\ arrivals = 0 /\ arrived = [r \in Reqs |-> 0]

Of(c)     == {r \in Reqs : request[r].conn = c}
Tokens(c) == {r \in Of(c) : phase[r] \in InFlight}    \* ConnectionRpcGate.tasks

\* The processor task is at its select, not inside an event.
Serving == loop = "serving" /\ \A c \in Conns : conn[c] # "closing"

----------------------------------------------------------------------------
(* Connections *)

\* TransportEvent::ConnectionOpened.
ConnectionOpened(c) ==
    /\ Serving
    /\ conn[c] = "absent"
    /\ conn' = [conn EXCEPT ![c] = "open"]
    /\ UNCHANGED <<loopVars, accepting, request, phase, queueVars, ownedVars, history>>

\* The initialize request, which handle_client_request works off in place.
Initialize(c) ==
    /\ Serving
    /\ conn[c] = "open"
    /\ conn' = [conn EXCEPT ![c] = "initialized"]
    /\ UNCHANGED <<loopVars, accepting, request, phase, queueVars, ownedVars, history>>

\* Fault: the gate only waits, it still hands out tokens.
CloseGateWaitOnly(c) == UNCHANGED accepting

\* ConnectionRpcGate::shutdown stops handing out tokens.
CloseGate(c) == accepting' = [accepting EXCEPT ![c] = FALSE]

\* ConnectionClosed: the connection leaves the map and its gate closes.
ConnectionClosed(c) ==
    /\ Serving
    /\ conn[c] \in {"open", "initialized"}
    /\ conn' = [conn EXCEPT ![c] = "closing"]
    /\ CloseGate(c)
    /\ UNCHANGED <<loopVars, request, phase, queueVars, ownedVars, history>>

\* The processes of the sessions with a control channel.  A session of the
\* Windows sandbox has none.
ToldToTerminate(c) == {r \in sessions \cap Of(c) : ~request[r].sandboxed}

\* The gate is empty: the contexts of the connection's requests and its
\* command sessions go, and processes are told to terminate.  The server of a
\* single client then stops.
ConnectionReleased(c) ==
    /\ conn[c] = "closing"
    /\ Tokens(c) = {}
    /\ conn' = [conn EXCEPT ![c] = "closed"]
    /\ contexts' = contexts \ Of(c)
    /\ sessions' = sessions \ Of(c)
    /\ command' = [r \in Reqs |-> IF r \in ToldToTerminate(c) THEN "killed"
                                  ELSE command[r]]
    /\ loop' = IF single /\ \A d \in Conns \ {c} : conn[d] \in {"absent", "closed"}
               THEN "draining" ELSE loop
    /\ UNCHANGED <<single, shutdown, running, accepting, request, phase, queueVars, callbacks,
                   history>>

----------------------------------------------------------------------------
(* Requests and their queues *)

\* dispatch_initialized_client_request: without a scope the request is spawned;
\* with one it joins the queue of its key, and whoever creates the queue
\* spawns its drain task.
Dispatch(r, x) ==
    LET k == x.key IN
    /\ Serving
    /\ phase[r] = "new"
    /\ conn[x.conn] = "initialized"
    /\ request' = [request EXCEPT ![r] = x]
    /\ contexts' = contexts \cup {r}
    /\ arrivals' = arrivals + 1
    /\ arrived' = [arrived EXCEPT ![r] = arrivals + 1]
    /\ IF k = NoKey
       THEN /\ phase' = [phase EXCEPT ![r] = "ready"]
            /\ UNCHANGED <<queues, drain>>
       ELSE /\ phase' = [phase EXCEPT ![r] = "queued"]
            /\ IF k \in DOMAIN queues
               THEN /\ queues' = [queues EXCEPT ![k] = Append(@, r)]
                    /\ UNCHANGED drain
               ELSE /\ queues' = [j \in DOMAIN queues \cup {k} |->
                                    IF j = k THEN <<r>> ELSE queues[j]]
                    /\ drain' = [drain EXCEPT ![r] = "popping"]
    /\ UNCHANGED <<loopVars, gateVars, batch, callbacks, sessions, command>>

\* A request before initialize is answered "Not initialized".
Reject(r, x) ==
    /\ Serving
    /\ phase[r] = "new"
    /\ conn[x.conn] = "open"
    /\ phase' = [phase EXCEPT ![r] = "rejected"]
    /\ UNCHANGED <<loopVars, gateVars, request, queueVars, ownedVars, history>>

IsRead(r) == request[r].access = "SharedRead"

\* Fault: everything behind a read at the front is popped with it.
PopCountAll(q) == IF IsRead(q[1]) THEN Len(q) ELSE 1

\* How many requests drain pops: one, or all the reads at the front.
PopCount(q) ==
    CHOOSE n \in 1..Len(q) :
      /\ n > 1 => \A i \in 1..n : IsRead(q[i])
      /\ n = Len(q) \/ ~IsRead(q[1]) \/ ~IsRead(q[n + 1])

\* The requests join_all runs.
Batch(q, n) == {q[i] : i \in 1..n}

\* The drain task takes its next requests under the lock of the queues.
DrainPop(t) ==
    LET k == request[t].key IN
    /\ drain[t] = "popping"
    /\ k \in DOMAIN queues /\ queues[k] # <<>>
    /\ LET q == queues[k]
           n == PopCount(q)
       IN /\ queues' = [queues EXCEPT ![k] = SubSeq(q, n + 1, Len(q))]
          /\ batch' = [batch EXCEPT ![t] = Batch(q, n)]
          /\ phase' = [r \in Reqs |-> IF r \in Batch(q, n) THEN "ready" ELSE phase[r]]
    /\ drain' = [drain EXCEPT ![t] = "joining"]
    /\ UNCHANGED <<loopVars, gateVars, request, ownedVars, history>>

\* Fault: the drain task leaves the empty queue behind.
DropQueueForgotten(k) == UNCHANGED queues

\* queues.remove(&key), under the lock under which the queue was found empty.
DropQueue(k) == queues' = [j \in DOMAIN queues \ {k} |-> queues[j]]

\* It finds the queue empty, removes it and returns.
DrainReturn(t) ==
    LET k == request[t].key IN
    /\ drain[t] = "popping"
    /\ k \in DOMAIN queues => queues[k] = <<>>
    /\ DropQueue(k)
    /\ drain' = [drain EXCEPT ![t] = "none"]
    /\ UNCHANGED <<loopVars, gateVars, request, phase, batch, ownedVars, history>>

\* join_all returns: every request of the batch has run or was refused.
DrainJoined(t) ==
    /\ drain[t] = "joining"
    /\ \A r \in batch[t] : phase[r] \in Settled
    /\ batch' = [batch EXCEPT ![t] = {}]
    /\ drain' = [drain EXCEPT ![t] = "popping"]
    /\ UNCHANGED <<loopVars, gateVars, request, phase, queues, ownedVars, history>>

----------------------------------------------------------------------------
(* Handlers *)

\* Fault: a request waits at a closed gate.
PassGateWaiting(r) == IF accepting[request[r].conn] THEN "running" ELSE "ready"

\* A token if the gate accepts, otherwise the future is dropped unpolled.
PassGate(r) == IF accepting[request[r].conn] THEN "running" ELSE "dropped"

\* ConnectionRpcGate::run, up to the first poll of the handler.
GateRun(r) ==
    /\ phase[r] = "ready"
    /\ phase' = [phase EXCEPT ![r] = PassGate(r)]
    /\ UNCHANGED <<loopVars, gateVars, request, queueVars, ownedVars, history>>

\* ExternalAuth::refresh asks every client for tokens.
AskClient(r) ==
    /\ phase[r] = "running"
    /\ request[r].asks
    /\ phase' = [phase EXCEPT ![r] = "asking"]
    /\ callbacks' = callbacks \cup {r}
    /\ UNCHANGED <<loopVars, gateVars, request, queueVars, contexts, sessions, command,
                   history>>

\* A client of a connection in the map answers, through the processor task.
ClientAnswers(r) ==
    /\ Serving
    /\ \E c \in Conns : conn[c] = "initialized"
    /\ r \in callbacks
    /\ callbacks' = callbacks \ {r}
    /\ phase' = [phase EXCEPT ![r] = "answered"]
    /\ UNCHANGED <<loopVars, gateVars, request, queueVars, contexts, sessions, command,
                   history>>

\* Fault: the timer is only looked at by the processor task.
TimerFiresWhenServing == Serving

\* tokio::time::timeout polls the timer in the handler's own task.
TimerFires == TRUE

\* EXTERNAL_AUTH_REFRESH_TIMEOUT passes: cancel_request, and an error.
AskTimesOut(r) ==
    /\ phase[r] = "asking"
    /\ TimerFires
    /\ callbacks' = callbacks \ {r}
    /\ phase' = [phase EXCEPT ![r] = "answered"]
    /\ UNCHANGED <<loopVars, gateVars, request, queueVars, contexts, sessions, command,
                   history>>

\* The handler returns with a response or an error, which takes the context,
\* and the token is dropped.
HandlerReturns(r) ==
    /\ phase[r] \in {"running", "answered"}
    /\ phase' = [phase EXCEPT ![r] = "ended"]
    /\ contexts' = contexts \ {r}
    /\ UNCHANGED <<loopVars, gateVars, request, queueVars, callbacks, sessions, command,
                   history>>

\* The handler of command/exec registers a session and leaves the process to a
\* task, which will send the response.  In the Windows sandbox only a command
\* with a client's process id has a session.
CommandStarts(r) ==
    /\ phase[r] \in {"running", "answered"}
    /\ request[r].command
    /\ phase' = [phase EXCEPT ![r] = "ended"]
    /\ \/ sessions' = sessions \cup {r}
       \/ request[r].sandboxed /\ UNCHANGED sessions
    /\ command' = [command EXCEPT ![r] = "running"]
    /\ UNCHANGED <<loopVars, gateVars, request, queueVars, contexts, callbacks, history>>

\* run_command, or execute_env in the Windows sandbox: the process is gone, the
\* response is sent and the session removed.
CommandExits(r) ==
    /\ command[r] \in {"running", "killed"}
    /\ command' = [command EXCEPT ![r] = "exited"]
    /\ contexts' = contexts \ {r}
    /\ sessions' = sessions \ {r}
    /\ UNCHANGED <<loopVars, gateVars, request, phase, queueVars, callbacks, history>>

----------------------------------------------------------------------------
(* Shutdown *)

\* ShutdownState::on_signal: the first signal asks for a restart once no turn
\* runs, a second one of the forceable kind does not wait.  Over stdio nobody
\* listens for signals.
FirstSignal(n) ==
    /\ Serving
    /\ ~single
    /\ shutdown = "none"
    /\ shutdown' = "requested"
    /\ running' = n
    /\ UNCHANGED <<single, loop, gateVars, request, phase, queueVars, ownedVars, history>>

SecondSignal ==
    /\ Serving
    /\ shutdown = "requested"
    /\ shutdown' = "forced"
    /\ UNCHANGED <<single, loop, running, gateVars, request, phase, queueVars, ownedVars, history>>

\* The sessions of the server start and end assistant turns.
TurnsChange(n) ==
    /\ loop = "serving" /\ shutdown = "requested"
    /\ n # running
    /\ running' = n
    /\ UNCHANGED <<single, loop, shutdown, gateVars, request, phase, queueVars, ownedVars, history>>

\* Fault: the task waits for the gates without closing them.
GateAfterLoopOpen(c) == accepting[c]

\* Unless forced, the gate of every connection in the map closes.
GateAfterLoop(c) ==
    /\ accepting[c]
    /\ shutdown = "forced" \/ conn[c] \notin {"open", "initialized"}

\* The task leaves its loop: forced, it returns at once; otherwise it closes
\* the gate of every connection in the map and waits.
LeaveLoop ==
    /\ loop' = IF shutdown = "forced" THEN "exited" ELSE "draining"
    /\ accepting' = [c \in Conns |-> GateAfterLoop(c)]
    /\ UNCHANGED <<single, shutdown, running, conn, request, phase, queueVars, ownedVars, history>>

\* ShutdownState::update answers Finish at the head of the loop.
Finish ==
    /\ Serving
    /\ \/ shutdown = "forced"
       \/ shutdown = "requested" /\ running = 0
    /\ LeaveLoop

\* Every acceptor is gone and with it the transport channel.
TransportEnds ==
    /\ Serving
    /\ LeaveLoop

\* Every gate has drained, and the task returns.
Drained ==
    /\ loop = "draining"
    /\ \A c \in Conns : conn[c] \in {"open", "initialized"} => Tokens(c) = {}
    /\ loop' = "exited"
    /\ UNCHANGED <<single, shutdown, running, gateVars, request, phase, queueVars, ownedVars,
                   history>>

----------------------------------------------------------------------------

Next ==
    \/ \E c \in Conns : \/ ConnectionOpened(c) \/ Initialize(c)
                        \/ ConnectionClosed(c) \/ ConnectionReleased(c)
    \/ \E r \in Reqs : \E x \in Offer[r] : Dispatch(r, x) \/ Reject(r, x)
    \/ \E t \in Reqs : DrainPop(t) \/ DrainReturn(t) \/ DrainJoined(t)
    \/ \E r \in Reqs : \/ GateRun(r) \/ AskClient(r) \/ ClientAnswers(r)
                       \/ AskTimesOut(r) \/ HandlerReturns(r)
                       \/ CommandStarts(r) \/ CommandExits(r)
    \/ \E n \in 0..MaxRunning : FirstSignal(n) \/ TurnsChange(n)
    \/ SecondSignal
    \/ Finish \/ TransportEnds \/ Drained

\* The runtime polls every ready task; a handler returns unless it waits for
\* a client, whose answer only the timeout makes certain; a process that was
\* told to terminate exits.  Clients, signals and turns owe nothing.
Fairness ==
    /\ \A c \in Conns : WF_vars(ConnectionReleased(c))
    /\ \A r \in Reqs :
         /\ WF_vars(DrainPop(r)) /\ WF_vars(DrainReturn(r)) /\ WF_vars(DrainJoined(r))
         /\ WF_vars(GateRun(r)) /\ WF_vars(AskTimesOut(r))
         /\ WF_vars(HandlerReturns(r) \/ CommandStarts(r))
         /\ WF_vars(command[r] = "killed" /\ CommandExits(r))
    /\ WF_vars(Finish) /\ WF_vars(Drained)

Spec == Init /\ [][Next]_vars /\ Fairness

----------------------------------------------------------------------------
(* Properties *)

\* Every variable keeps its type.
TypeOK ==
    /\ single \in BOOLEAN
    /\ loop \in {"serving", "draining", "exited"}
    /\ shutdown \in {"none", "requested", "forced"}
    /\ running \in 0..MaxRunning
    /\ conn \in [Conns -> {"absent", "open", "initialized", "closing", "closed"}]
    /\ accepting \in [Conns -> BOOLEAN]
    /\ request \in [Reqs -> Request \cup {Unsent}]
    /\ phase \in [Reqs -> Phases]
    /\ DOMAIN queues \subseteq Keys /\ \A k \in DOMAIN queues : queues[k] \in Seq(Reqs)
    /\ drain \in [Reqs -> {"none", "popping", "joining"}]
    /\ batch \in [Reqs -> SUBSET Reqs]
    /\ contexts \subseteq Reqs /\ callbacks \subseteq Reqs /\ sessions \subseteq Reqs
    /\ command \in [Reqs -> {"none", "running", "killed", "exited"}]
    /\ arrivals \in Nat /\ arrived \in [Reqs -> Nat]

\* RequestSerializationQueues keeps the promise of SerialRequests: requests of
\* one key that are not both reads start in the order of their arrival, each
\* after the other is over, whatever the batches, the gates and the races
\* between enqueue and the drain task that is about to remove the queue.
Serial == INSTANCE SerialRequests WITH
    status <- [r \in Reqs |-> CASE phase[r] \in {"new", "rejected"}  -> "new"
                               [] phase[r] \in {"queued", "ready"}  -> "waiting"
                               [] phase[r] \in InFlight             -> "active"
                               [] OTHER                             -> "over"],
    scope <- [r \in Reqs |-> [key |-> request[r].key, access |-> request[r].access]]

SerialOrder == Serial!Spec

\* enqueue spawns a drain task exactly when nobody drains the queue: a queue in
\* the map has one drain task, a key without a queue has none.
QueueServed ==
    \A k \in Keys :
      Cardinality({t \in Reqs : drain[t] # "none" /\ request[t].key = k})
        = IF k \in DOMAIN queues THEN 1 ELSE 0

\* Once connection_closed has returned nothing of the connection is left: no
\* handler runs, and no request context, pending question or command session
\* remains, although its requests may still sit in queues.
ClosedIsClean ==
    \A c \in Conns : conn[c] = "closed" =>
      /\ Tokens(c) = {}
      /\ Of(c) \cap (contexts \cup callbacks \cup sessions) = {}

\* A processor task that was not forced returns with no handler in progress,
\* and none starts afterwards.
GracefulExit ==
    loop = "exited" /\ shutdown # "forced" => \A r \in Reqs : phase[r] \notin InFlight

\* Every request that was dispatched runs to its end or is refused by a closed
\* gate: none is forgotten in a queue.
RequestSettles ==
    \A r \in Reqs : phase[r] \in {"queued", "ready"} ~> phase[r] \in Settled

\* Closing a connection ends, even while one of its handlers waits for an
\* answer that only the processor task, which is waiting, could deliver: the
\* server goes on serving the others, and the processes of the connection exit.
\* Only a command in the Windows sandbox, which nobody can terminate, may go on.
CloseCompletes ==
    \A c \in Conns : conn[c] = "closing" ~>
      /\ conn[c] = "closed"
      /\ \A r \in Of(c) : command[r] \in {"none", "exited"} \/ request[r].sandboxed

=============================================================================
