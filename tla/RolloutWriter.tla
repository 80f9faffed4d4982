--------------------------- MODULE RolloutWriter ----------------------------
(***************************************************************************)
(* The rollout recorder (codex-rs/rollout/src/recorder.rs): the file in    *)
(* which a session keeps its conversation, and the background task that    *)
(* writes it.  Recorder calls queue commands; the task works them off one  *)
(* by one.  Items wait in pending_items until they are written; a new      *)
(* session's file is created only by the first barrier that has something  *)
(* to write; an I/O error drops the file handle, and the attempt is made   *)
(* once more with a fresh one; what stays unwritten waits for the next     *)
(* command.                                                                *)
(*                                                                         *)
(* Each line is written with write_all and flush, so an error, or the end  *)
(* of the process, may leave the beginning of a line in the file.  Nothing *)
(* ends that line: the next write is glued to it.  load_rollout_items      *)
(* skips a line that is no JSON, but fails altogether on one that is no    *)
(* UTF-8, which a line cut inside a character is.  The file is a sequence  *)
(* of what was appended: Meta, items, Fragments and Torn ones.             *)
(***************************************************************************)
EXTENDS Integers, Sequences, FiniteSets

CONSTANTS
    Barriers,     \* persist, flush and shutdown calls, each made once
    MaxItems,     \* bound: items recorded
    MaxFaults,    \* bound: I/O errors
    MaxRestarts   \* bound: times the session is resumed

ASSUME WriterAssumption ==
    IsFiniteSet(Barriers) /\ {MaxItems, MaxFaults, MaxRestarts} \subseteq Nat

Meta     == 0     \* the session meta line
Fragment == -1    \* the beginning of a line, without its end
Torn     == -2    \* the same, cut inside a character of several bytes
Items    == 1..MaxItems
Rests    == {Fragment, Torn}

VARIABLES
    recorded,   \* items accepted by record_canonical_items: 1..recorded
    chan,       \* the command channel
    task,       \* the writer task: "running", "stopping" or "gone"
    job,        \* the command it works on, see Job
    handle,     \* whether RolloutWriterState.writer is Some
    deferred,   \* whether deferred_log_file_info is Some
    meta,       \* whether RolloutWriterState.meta is Some
    pending,    \* RolloutWriterState.pending_items
    exists,     \* whether the rollout file exists
    file,       \* what was appended to it
    answer,     \* what each barrier call returned
    covers,     \* the items recorded before each barrier call
    promised,   \* history: items covered by a barrier that returned Ok
    lost,       \* history: items up to this one died with a writer
    faults, restarts

writerVars == <<handle, deferred, meta, pending>>
fileVars   == <<exists, file>>
callVars   == <<answer, covers>>
boundVars  == <<faults, restarts>>
vars == <<recorded, chan, task, job, writerVars, fileVars, callVars, promised, lost,
          boundVars>>

\* A command in the channel: items to add, or a barrier call.
Add(first, last) == [op |-> "add", from |-> first, to |-> last]
Call(op, b)      == [op |-> op, who |-> b]

\* Between commands, or the attempt under way for one.
Idle == [step |-> "idle"]
Attempt(cmd) == [step |-> "open", cmd |-> cmd, retry |-> FALSE]

Init ==
    /\ recorded = 0 /\ chan = <<>> /\ task = "running" /\ job = Idle
    /\ handle = FALSE /\ deferred = TRUE /\ meta = TRUE /\ pending = <<>>
    /\ exists = FALSE /\ file = <<>>
    /\ answer = [b \in Barriers |-> "none"]
    /\ covers = [b \in Barriers |-> {}]
    /\ promised = {} /\ lost = 0 /\ faults = 0 /\ restarts = 0

----------------------------------------------------------------------------
(* Recorder calls *)

\* record_canonical_items with n items, while the channel has its receiver.
RecordItems(n) ==
    /\ task # "gone"
    /\ recorded + n <= MaxItems
    /\ recorded' = recorded + n
    /\ chan' = Append(chan, Add(recorded + 1, recorded + n))
    /\ UNCHANGED <<task, job, writerVars, fileVars, callVars, promised, lost, boundVars>>

\* persist, flush or shutdown queues its command and waits for the ack; with
\* the receiver gone it returns an error.
Barrier(b, op) ==
    /\ answer[b] = "none"
    /\ IF task = "gone"
       THEN /\ answer' = [answer EXCEPT ![b] = "err"]
            /\ UNCHANGED <<chan, covers>>
       ELSE /\ answer' = [answer EXCEPT ![b] = "waiting"]
            /\ covers' = [covers EXCEPT ![b] = (lost + 1)..recorded]
            /\ chan' = Append(chan, Call(op, b))
    /\ UNCHANGED <<recorded, task, job, writerVars, fileVars, promised, lost, boundVars>>

----------------------------------------------------------------------------
(* The writer task *)

IsDeferred == ~handle /\ deferred

\* Answer barrier b; what it covers is promised when it succeeded.
Ack(b, result) ==
    /\ answer' = [answer EXCEPT ![b] = result]
    /\ promised' = IF result = "ok" THEN promised \cup covers[b] ELSE promised
    /\ UNCHANGED covers

\* The items of an AddItems command, in order.
Added(cmd) == [n \in 1..(cmd.to - cmd.from + 1) |-> cmd.from + n - 1]

\* AddItems joins the pending items, which are written unless the file is
\* still deferred.
ReceiveAdd ==
    LET cmd == Head(chan) IN
    /\ task = "running" /\ job = Idle
    /\ chan # <<>> /\ cmd.op = "add"
    /\ chan' = Tail(chan)
    /\ pending' = pending \o Added(cmd)
    /\ job' = IF IsDeferred THEN Idle ELSE Attempt(cmd)
    /\ UNCHANGED <<recorded, task, handle, deferred, meta, fileVars, callVars, promised,
                   lost, boundVars>>

\* Fault: what is pending for a deferred file is left out of account.
NothingToWriteYet(cmd) == cmd.op # "persist" /\ IsDeferred

\* flush and shutdown have nothing to do for a file that is not there yet when
\* nothing is pending.
NothingToWrite(cmd) == cmd.op # "persist" /\ IsDeferred /\ pending = <<>>

ReceiveCall ==
    LET cmd == Head(chan) IN
    /\ task = "running" /\ job = Idle
    /\ chan # <<>> /\ cmd.op # "add"
    /\ chan' = Tail(chan)
    /\ IF NothingToWrite(cmd)
       THEN /\ Ack(cmd.who, "ok")
            /\ task' = IF cmd.op = "shutdown" THEN "stopping" ELSE task
            /\ UNCHANGED job
       ELSE /\ job' = Attempt(cmd)
            /\ UNCHANGED <<task, callVars, promised>>
    /\ UNCHANGED <<recorded, writerVars, fileVars, lost, boundVars>>

At(step) == task = "running" /\ job.step = step
GoTo(step) == job' = [job EXCEPT !.step = step]

\* ensure_writer_open.
OpenFile ==
    /\ At("open")
    /\ handle' = TRUE /\ deferred' = FALSE /\ exists' = TRUE
    /\ GoTo("meta")
    /\ UNCHANGED <<recorded, chan, task, meta, pending, file, callVars, promised, lost,
                   boundVars>>

\* write_session_meta_if_needed.
WriteMeta ==
    /\ At("meta")
    /\ file' = IF meta THEN Append(file, Meta) ELSE file
    /\ meta' = FALSE
    /\ GoTo("items")
    /\ UNCHANGED <<recorded, chan, task, handle, deferred, pending, exists, callVars,
                   promised, lost, boundVars>>

\* write_pending_items_once: a line is in the file, and its item leaves the
\* queue.
WriteItem ==
    /\ At("items")
    /\ pending # <<>>
    /\ file' = Append(file, Head(pending))
    /\ pending' = Tail(pending)
    /\ UNCHANGED <<recorded, chan, task, job, handle, deferred, meta, exists, callVars,
                   promised, lost, boundVars>>

\* The attempt succeeded; the task of a shutdown leaves its loop.
AttemptDone ==
    /\ At("items")
    /\ pending = <<>>
    /\ job' = Idle
    /\ IF job.cmd.op = "add" THEN UNCHANGED <<callVars, promised>>
                             ELSE Ack(job.cmd.who, "ok")
    /\ task' = IF job.cmd.op = "shutdown" THEN "stopping" ELSE task
    /\ UNCHANGED <<recorded, chan, writerVars, fileVars, lost, boundVars>>

\* Whether a line is being written.
Writing == (At("meta") /\ meta) \/ (At("items") /\ pending # <<>>)

\* What a failed or interrupted write leaves behind: nothing, or part of a line.
Left == {file} \cup (IF Writing THEN {Append(file, x) : x \in Rests} ELSE {})

\* Fault: the drain is one short, so the item written last stays queued.
UnwrittenAndLast ==
    LET n == Len(file) IN
    IF n > 0 /\ file[n] \in Items THEN <<file[n]>> \o pending ELSE pending

\* The unwritten suffix stays queued.
Unwritten == pending

\* An I/O error: the handle is dropped, and the first time the attempt is
\* repeated; the second time the barrier returns the error.
IoError ==
    /\ (At("open") /\ ~handle) \/ Writing
    /\ faults < MaxFaults
    /\ faults' = faults + 1
    /\ file' \in Left
    /\ handle' = FALSE /\ pending' = Unwritten
    /\ IF ~job.retry
       THEN /\ job' = [job EXCEPT !.step = "open", !.retry = TRUE]
            /\ UNCHANGED <<callVars, promised>>
       ELSE /\ job' = Idle
            /\ IF job.cmd.op = "add" THEN UNCHANGED <<callVars, promised>>
                                     ELSE Ack(job.cmd.who, "err")
    /\ UNCHANGED <<recorded, chan, task, deferred, meta, exists, lost, restarts>>

\* Fault: a call whose command is still queued keeps waiting.
AbandonedWaits(b) == answer[b]

\* A dropped oneshot sender fails the call that waits for it.
Abandoned(b) == IF answer[b] = "waiting" THEN "err" ELSE answer[b]

\* The task returns or dies with its process: its memory and the receiver go,
\* and the calls that still wait fail.
Gone ==
    /\ task' = "gone" /\ job' = Idle /\ chan' = <<>>
    /\ handle' = FALSE /\ deferred' = FALSE /\ meta' = FALSE /\ pending' = <<>>
    /\ answer' = [b \in Barriers |-> Abandoned(b)]
    /\ lost' = recorded
    /\ UNCHANGED <<recorded, exists, covers, promised, boundVars>>

Stop  == task = "stopping" /\ Gone /\ UNCHANGED file
Crash == task # "gone" /\ restarts < MaxRestarts /\ Gone /\ file' \in Left

----------------------------------------------------------------------------
(* Loading and resuming *)

\* load_rollout_items: next_line returns an error for a line that is no UTF-8,
\* and with it the whole load.
Readable == \A n \in DOMAIN file : file[n] # Torn

\* A line glued to the rest of another does not parse.
Parses(n) == file[n] \notin Rests /\ (n > 1 => file[n - 1] \notin Rests)
Loaded == IF Readable THEN {file[n] : n \in {m \in DOMAIN file : Parses(m)}} ELSE {}

\* The session is resumed: get_rollout_history needs a session meta line, and
\* the recorder opens the existing file to append.
Resume ==
    /\ task = "gone"
    /\ restarts < MaxRestarts
    /\ exists /\ Meta \in Loaded
    /\ restarts' = restarts + 1
    /\ task' = "running" /\ handle' = TRUE
    /\ UNCHANGED <<recorded, chan, job, deferred, meta, pending, fileVars, callVars,
                   promised, lost, faults>>

----------------------------------------------------------------------------

WriterStep == \/ ReceiveAdd \/ ReceiveCall \/ OpenFile \/ WriteMeta \/ WriteItem
              \/ AttemptDone \/ Stop

Next ==
    \/ \E n \in 1..2 : RecordItems(n)
    \/ \E b \in Barriers, op \in {"persist", "flush", "shutdown"} : Barrier(b, op)
    \/ WriterStep
    \/ IoError \/ Crash \/ Resume

\* The runtime polls the writer task whenever it can go on.
Spec == Init /\ [][Next]_vars /\ WF_vars(WriterStep)

----------------------------------------------------------------------------
(* Properties *)

\* Every variable keeps its type.
TypeOK ==
    /\ recorded \in 0..MaxItems /\ task \in {"running", "stopping", "gone"}
    /\ {handle, deferred, meta, exists} \subseteq BOOLEAN
    /\ \A n \in DOMAIN pending : pending[n] \in Items
    /\ \A n \in DOMAIN file : file[n] \in Items \cup {Meta} \cup Rests
    /\ answer \in [Barriers -> {"none", "waiting", "ok", "err"}]
    /\ promised \subseteq 1..recorded /\ lost \in 0..recorded
    /\ faults \in 0..MaxFaults /\ restarts \in 0..MaxRestarts

\* The file is a durable log: its meta line comes once and before every item;
\* across write errors, retries with a new handle,
\* crashes and resumes, every item is appended once and in order, nothing a
\* barrier reported as Ok is missing, and only what a writer had not written
\* when it went away is lost.
Log == INSTANCE DurableLog WITH
    headers <- {n \in DOMAIN file : file[n] = Meta},
    stored  <- [n \in {m \in DOMAIN file : file[m] \in Items} |-> file[n]]

WritesLog == Log!Spec

\* A promised item can be loaded again unless it was written right behind what
\* a failed or interrupted write had left in the file; and while such a rest is
\* cut inside a character no item can be loaded, those promised long before it
\* included.
LostOnlyBehindFragment ==
    Readable =>
      \A i \in promised \ Loaded :
        \E n \in DOMAIN file : file[n] = i /\ n > 1 /\ file[n - 1] = Fragment

\* Every barrier call returns, with Ok or an error, whatever fails.
BarrierReturns == \A b \in Barriers : answer[b] = "waiting" ~> answer[b] \in {"ok", "err"}

=============================================================================
