----------------------------- MODULE ExecEvents -----------------------------
(***************************************************************************)
(* The events of commands run by the exec server                           *)
(* (codex-rs/exec-server/src/local_process.rs), and the client of the      *)
(* connection that started them (client.rs, remote_process.rs, and the     *)
(* reader in core/src/unified_exec/process.rs).                            *)
(*                                                                         *)
(* Three tasks follow each child: one for each output stream and one for   *)
(* its exit.  They number events under the lock of the process map and     *)
(* notify the session's connection after they released it, so              *)
(* notifications overtake one another.  The client puts them back in       *)
(* order, and a reader polls the output whenever one arrives.  The         *)
(* transport may end at any moment, and the client's RPC reader may end    *)
(* before it.                                                              *)
(*                                                                         *)
(* The connection has opened its session (ExecSessions), so the session's  *)
(* notifications are this connection's until its transport ends, and the   *)
(* process map is emptied only after that, when the session expires.       *)
(* Process ids are not reused.                                             *)
(***************************************************************************)
EXTENDS Integers, Sequences, FiniteSets

CONSTANTS
    Procs,       \* process ids
    MaxOutput,   \* bound: output chunks of one command
    Retained     \* chunks kept (RETAINED_OUTPUT_BYTES_PER_PROCESS)

ASSUME EventsAssumption == MaxOutput \in Nat /\ Retained \in Nat

VARIABLES
    up,         \* whether the client still hears the server
    entry,      \* each ProcessEntry: "absent", "starting" or "running"
    log,        \* the events of each command, by sequence number
    streams,    \* RunningProcess.open_streams
    task,       \* the three tasks of each command, see At
    outgoing,   \* notifications on their way to the client
    gone,       \* whether the client's event loop has met the disconnect
    client,     \* the client's SessionState of each process, see NoClient
    reader      \* the task that reads its output, see NoReader

processVars == <<entry, log, streams, task>>
vars == <<up, processVars, outgoing, gone, client, reader>>

Outputs == {"stdout", "stderr"}
Tasks   == Outputs \cup {"exit"}

\* A task waits for the child, has an event to tell, or is on its way out.
At(step, seq) == [step |-> step, seq |-> seq]

\* route: whether Inner.sessions has the process; seen: last_published_seq;
\* early: the keys of pending; published: the numbers of the events published,
\* in order; failed: SessionState.failure is set; wake: a change of wake_tx
\* that the reader has not seen.
NoClient == [route |-> FALSE, seen |-> 0, early |-> {}, published |-> <<>>, failed |-> FALSE,
             wake |-> FALSE]

\* after: after_seq; got: the chunks it was given; due: the chunks that lay in
\* the server's buffer when it asked.
NoReader == [step |-> "off", after |-> 0, got |-> {}, due |-> {}]
Failed   == [NoReader EXCEPT !.step = "failed"]
Hung     == [NoReader EXCEPT !.step = "hung"]

Init ==
    /\ up = TRUE /\ outgoing = <<>> /\ gone = FALSE
    /\ entry = [p \in Procs |-> "absent"]
    /\ log = [p \in Procs |-> <<>>]
    /\ streams = [p \in Procs |-> 0]
    /\ task = [p \in Procs |-> [t \in Tasks |-> At("off", 0)]]
    /\ client = [p \in Procs |-> NoClient]
    /\ reader = [p \in Procs |-> NoReader]

Logged(p, e) == \E n \in DOMAIN log[p] : log[p][n] = e
Chunks(p)    == {n \in DOMAIN log[p] : log[p][n] = "output"}

----------------------------------------------------------------------------
(* The connection and its session *)

\* The transport ends: what is sent from now on does not arrive, and
\* disconnected_rx tells every later call.
Disconnect ==
    /\ up
    /\ up' = FALSE
    /\ UNCHANGED <<processVars, outgoing, gone, client, reader>>

\* The RPC reader ends before the transport, at a message it cannot parse or a
\* request of the server.  It fails the calls that wait, but disconnected_rx is
\* not told: a read that is entered in pending after the drain, before the
\* client's event loop has met the disconnect, is never answered.
ReaderBreaks(late) ==
    /\ up
    /\ up' = FALSE
    /\ \A p \in late : reader[p].step = "ask" /\ ~client[p].failed
    /\ reader' = [p \in Procs |-> IF p \in late THEN Hung ELSE reader[p]]
    /\ UNCHANGED <<processVars, outgoing, gone, client>>

\* LocalProcess::shutdown, once the detached session has expired.
Shutdown ==
    /\ ~up
    /\ \E p \in Procs : entry[p] # "absent"
    /\ entry' = [p \in Procs |-> "absent"]
    /\ UNCHANGED <<up, log, streams, task, outgoing, gone, client, reader>>

----------------------------------------------------------------------------
(* Commands *)

\* RemoteProcess::start registers the route, then start_process takes the id.
ExecBegin(p) ==
    /\ up /\ entry[p] = "absent" /\ log[p] = <<>>
    /\ entry' = [entry EXCEPT ![p] = "starting"]
    /\ client' = [client EXCEPT ![p].route = TRUE]
    /\ UNCHANGED <<up, log, streams, task, outgoing, gone, reader>>

\* The child runs.  The client's reader subscribes to changes before its
\* first read.  A request whose transport has ended may be dropped before.
ExecSpawned(p) ==
    /\ up /\ entry[p] = "starting"
    /\ entry' = [entry EXCEPT ![p] = "running"]
    /\ streams' = [streams EXCEPT ![p] = Cardinality(Outputs)]
    /\ task' = [task EXCEPT ![p] = [t \in Tasks |-> At("wait", 0)]]
    /\ reader' = [reader EXCEPT ![p].step = "ask"]
    /\ UNCHANGED <<up, log, outgoing, gone, client>>

ExecFailed(p) ==
    /\ up /\ entry[p] = "starting"
    /\ entry' = [entry EXCEPT ![p] = "absent"]
    /\ client' = [client EXCEPT ![p].route = FALSE]
    /\ UNCHANGED <<up, log, streams, task, outgoing, gone, reader>>

\* Under the process map's lock an event gets the next number, and its task
\* leaves the lock with the notification in hand.
Publish(p, t, e) ==
    /\ log' = [log EXCEPT ![p] = Append(@, e)]
    /\ task' = [task EXCEPT ![p][t] = At(IF e = "closed" THEN "tell_closed" ELSE "tell",
                                          Len(log[p]) + 1)]

Become(p, t, step) ==
    /\ task' = [task EXCEPT ![p][t] = At(step, 0)]
    /\ log' = log

\* stream_output has received a chunk; it ends when its process is forgotten.
Output(p, t) ==
    /\ task[p][t].step = "wait" /\ Cardinality(Chunks(p)) < MaxOutput
    /\ IF entry[p] = "running" THEN Publish(p, t, "output") ELSE Become(p, t, "finish")
    /\ UNCHANGED <<up, entry, streams, outgoing, gone, client, reader>>

StreamEnds(p, t) ==
    /\ task[p][t].step = "wait"
    /\ Become(p, t, "finish")
    /\ UNCHANGED <<up, entry, streams, outgoing, gone, client, reader>>

\* watch_exit.
Exit(p) ==
    /\ task[p]["exit"].step = "wait"
    /\ IF entry[p] = "running" THEN Publish(p, "exit", "exit") ELSE Become(p, "exit", "close")
    /\ UNCHANGED <<up, entry, streams, outgoing, gone, client, reader>>

\* finish_output_stream.
FinishStream(p, t) ==
    /\ task[p][t].step = "finish"
    /\ IF entry[p] = "running"
       THEN Become(p, t, "close") /\ streams' = [streams EXCEPT ![p] = @ - 1]
       ELSE Become(p, t, "done") /\ UNCHANGED streams
    /\ UNCHANGED <<up, entry, outgoing, gone, client, reader>>

\* The condition of maybe_emit_closed.
Finished(p) ==
    /\ entry[p] = "running" /\ ~Logged(p, "closed")
    /\ streams[p] = 0 /\ Logged(p, "exit")

MaybeEmitClosed(p, t) ==
    /\ task[p][t].step = "close"
    /\ IF Finished(p) THEN Publish(p, t, "closed") ELSE Become(p, t, "done")
    /\ UNCHANGED <<up, entry, streams, outgoing, gone, client, reader>>

\* Fault: watch_exit does not look whether it was the last.
TellExitOnly(p, t) ==
    /\ task[p][t].step \in {"tell", "tell_closed"}
    /\ outgoing' = IF up THEN Append(outgoing, [proc |-> p, seq |-> task[p][t].seq])
                   ELSE outgoing
    /\ Become(p, t, IF task[p][t].step = "tell_closed" \/ t = "exit" THEN "done" ELSE "wait")
    /\ UNCHANGED <<up, entry, streams, gone, client, reader>>

\* After the lock, the notification goes to the connection, if it is there.
Tell(p, t) ==
    /\ task[p][t].step \in {"tell", "tell_closed"}
    /\ outgoing' = IF up THEN Append(outgoing, [proc |-> p, seq |-> task[p][t].seq])
                      ELSE outgoing
    /\ Become(p, t, CASE task[p][t].step = "tell_closed" -> "done"
                      [] t = "exit" -> "close"
                      [] OTHER -> "wait")
    /\ UNCHANGED <<up, entry, streams, gone, client, reader>>

\* EXITED_PROCESS_RETENTION after the close.
Cleanup(p) ==
    /\ entry[p] = "running" /\ Logged(p, "closed")
    /\ entry' = [entry EXCEPT ![p] = "absent"]
    /\ UNCHANGED <<up, log, streams, task, outgoing, gone, client, reader>>

----------------------------------------------------------------------------
(* The client *)

\* publish_ordered_event: the last event such that it and all before it have
\* come.
LastInOrder(p, seq) ==
    LET come == 1..client[p].seen \cup client[p].early \cup {seq}
    IN  CHOOSE n \in 0..Cardinality(come) : 1..n \subseteq come /\ n + 1 \notin come

\* Fault: an event is published as soon as it comes.
ReadyAtOnce(p, seq) == IF seq > client[p].seen THEN <<seq>> ELSE <<>>

\* The events that leave pending for good, one after the other.
Ready(p, seq) ==
    LET seen == client[p].seen
    IN  [i \in 1..(LastInOrder(p, seq) - seen) |-> seen + i]

\* The events in now are published, and what lies beyond them is kept.  The
\* route is removed when Closed is published.
Published(p, seq, now) ==
    LET last == client[p].seen + Len(now)
    IN  [client[p] EXCEPT
            !.wake = TRUE, !.seen = last, !.published = client[p].published \o now,
            !.early = {n \in client[p].early \cup {seq} : n > last},
            !.route = \A i \in DOMAIN now : log[p][now[i]] # "closed"]

\* handle_server_notification.
Receive ==
    /\ outgoing # <<>> /\ ~gone
    /\ outgoing' = Tail(outgoing)
    /\ LET p   == Head(outgoing).proc
           seq == Head(outgoing).seq
       IN  client' = [client EXCEPT ![p] =
               IF client[p].route THEN Published(p, seq, Ready(p, seq)) ELSE client[p]]
    /\ UNCHANGED <<up, processVars, gone, reader>>

\* Fault: the reader is not woken.
SetFailureQuietly(cl) == [cl EXCEPT !.failed = TRUE]

\* SessionState::set_failure.
SetFailure(cl) == [cl EXCEPT !.failed = TRUE, !.wake = TRUE]

\* The Disconnected event comes behind the notifications that got through;
\* record_disconnected tells later calls, and fail_all_in_flight_work takes all
\* routes and fails their sessions.
NoticeDisconnect ==
    /\ ~up /\ ~gone
    /\ gone' = TRUE
    /\ outgoing' = <<>>
    /\ client' = [p \in Procs |->
           IF client[p].route THEN [SetFailure(client[p]) EXCEPT !.route = FALSE, !.early = {}]
           ELSE client[p]]
    /\ UNCHANGED <<up, processVars, reader>>

\* The output buffer drops its oldest chunks.
RetainedOutput(p) ==
    {n \in Chunks(p) : Cardinality({m \in Chunks(p) : m > n}) < Retained}

\* exec_read without a byte limit: the chunks after after_seq, and the number
\* from which the next read continues.
ReadChunks(p, after) == {n \in RetainedOutput(p) : n > after}
NextSeq(p, after) ==
    IF ReadChunks(p, after) = {}
    THEN Len(log[p]) + 1
    ELSE (CHOOSE n \in ReadChunks(p, after) : \A m \in ReadChunks(p, after) : m <= n) + 1

\* Fault: one too many is skipped.
AfterSeqNext(next) == next

\* The reader's after_seq for its next read.
AfterSeq(next) == next - 1

\* What the reader makes of an answer: it takes the chunks, and stops if the
\* process has closed.
Answered(p) ==
    [step   |-> IF Logged(p, "closed") THEN "closed" ELSE "wait",
     after  |-> AfterSeq(NextSeq(p, reader[p].after)),
     got    |-> reader[p].got \cup ReadChunks(p, reader[p].after),
     due    |-> reader[p].due \cup RetainedOutput(p)]

\* A read that reaches the server.  It fails for a process already forgotten.
Read(p) ==
    /\ reader[p].step = "ask" /\ ~client[p].failed /\ up
    /\ reader' = [reader EXCEPT ![p] = IF entry[p] = "running" THEN Answered(p) ELSE Failed]
    /\ UNCHANGED <<up, processVars, outgoing, gone, client>>

\* Session::read when the session has failed, or when the transport fails the call.
ReadFails(p) ==
    /\ reader[p].step = "ask" /\ (client[p].failed \/ ~up)
    /\ client' = [client EXCEPT ![p] = SetFailure(@)]
    /\ reader' = [reader EXCEPT ![p] = Failed]
    /\ UNCHANGED <<up, processVars, outgoing, gone>>

\* wake_rx.changed().
Wake(p) ==
    /\ reader[p].step = "wait" /\ client[p].wake
    /\ client' = [client EXCEPT ![p].wake = FALSE]
    /\ reader' = [reader EXCEPT ![p].step = "ask"]
    /\ UNCHANGED <<up, processVars, outgoing, gone>>

----------------------------------------------------------------------------
ProcessStep(p) ==
    \/ ExecBegin(p) \/ ExecSpawned(p) \/ ExecFailed(p) \/ Exit(p) \/ Cleanup(p)
    \/ \E t \in Outputs : Output(p, t) \/ StreamEnds(p, t) \/ FinishStream(p, t)
    \/ \E t \in Tasks : MaybeEmitClosed(p, t) \/ Tell(p, t)

ReaderStep(p) == Read(p) \/ ReadFails(p) \/ Wake(p)

Next ==
    \/ Disconnect \/ Shutdown \/ Receive \/ NoticeDisconnect
    \/ \E late \in SUBSET Procs : ReaderBreaks(late)
    \/ \E p \in Procs : ProcessStep(p) \/ ReaderStep(p)

\* The runtime runs every task that can go on, and the transport delivers.
\* Children end when they please; terminate only makes them end.
Fairness ==
    /\ WF_vars(Receive \/ NoticeDisconnect)
    /\ \A p \in Procs :
        /\ WF_vars(ReaderStep(p))
        /\ \A t \in Outputs : WF_vars(FinishStream(p, t) \/ MaybeEmitClosed(p, t) \/ Tell(p, t))
        /\ WF_vars(MaybeEmitClosed(p, "exit") \/ Tell(p, "exit"))

Spec == Init /\ [][Next]_vars /\ Fairness

----------------------------------------------------------------------------
(* Properties *)

\* Every variable keeps its type, every number in flight is one that was given
\* out, and what the client holds back lies beyond a gap.
TypeOK ==
    /\ {up, gone} \subseteq BOOLEAN
    /\ entry \in [Procs -> {"absent", "starting", "running"}]
    /\ \A p \in Procs : \A n \in DOMAIN log[p] : log[p][n] \in {"output", "exit", "closed"}
    /\ streams \in [Procs -> 0..Cardinality(Outputs)]
    /\ \A p \in Procs, t \in Tasks : task[p][t].seq \in 0..Len(log[p])
    /\ \A n \in DOMAIN outgoing : outgoing[n].seq \in 1..Len(log[outgoing[n].proc])
    /\ \A p \in Procs : client[p].early \subseteq (client[p].seen + 2)..Len(log[p])
    /\ \A p \in Procs : reader[p].got \subseteq Chunks(p) /\ reader[p].after \in Nat

\* What the client publishes about a process is its history from the
\* beginning, in order and without repetition, and the history has one exit
\* and nothing after Closed, although the notifications of the server's three
\* tasks come in any order (maybe_emit_closed, publish_ordered_event).
Stream == INSTANCE EventStream WITH
    Sources <- Procs, history <- log, shown <- [p \in Procs |-> client[p].published], over <- gone

\* local_process.rs and client.rs together implement EventStream.
FollowsHistory == Stream!Spec

\* The reader has been given every chunk that lay in the server's buffer at one
\* of its reads, evicted since or not: the numbers that exec_read returns and
\* the reader's after_seq leave no hole, whatever happens between two reads.
ReaderComplete == \A p \in Procs : reader[p].due \subseteq reader[p].got

\* When the child has exited and both its streams have ended, Closed is
\* published, by whichever of the three tasks comes last, unless the process
\* is forgotten before.
CloseIsPublished ==
    \A p \in Procs :
        (Logged(p, "exit") /\ \A t \in Outputs : task[p][t].step \notin {"wait", "tell"})
            ~> (Logged(p, "closed") \/ entry[p] # "running")

\* Once the process has closed or the client hears no more, the reader stops: it
\* never sleeps through the last change.  One thing keeps it: a read that was
\* entered after the RPC reader had broken off, although RpcClient::call looks
\* for a disconnect under the lock of pending so that no call can slip in after
\* the drain and wait for ever.
ReaderStops ==
    \A p \in Procs :
        (reader[p].step # "off" /\ (~up \/ Logged(p, "closed")))
            ~> (reader[p].step \in {"closed", "failed", "hung"})

=============================================================================
