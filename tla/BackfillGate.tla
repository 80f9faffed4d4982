---------------------------- MODULE BackfillGate ----------------------------
(***************************************************************************)
(* The backfill that fills the state database from the rollout files       *)
(* (codex-rs/state/src/runtime/backfill.rs, codex-rs/rollout/src: the      *)
(* worker in metadata.rs, the gate in state_db.rs).  Every process that    *)
(* starts waits at the gate until the backfill is complete.  One process   *)
(* at a time should do the work: it claims a row of the database, reads    *)
(* the files in the order of their names, and writes the name it has come  *)
(* to after every batch.  A claim that was not renewed for the length of   *)
(* the lease may be taken over, by a process that continues from that      *)
(* name.  Nothing but the claim itself asks who holds the lease.           *)
(*                                                                         *)
(* The directories are listed without an error and no file joins them      *)
(* while processes start (threads write their own rows as they run).       *)
(***************************************************************************)
EXTENDS Integers

CONSTANTS
    Procs,       \* processes that start, each once
    Files,       \* number of rollout files; 1..Files in the order of their names
    BatchSize,   \* BACKFILL_BATCH_SIZE
    MaxErrors    \* bound: failed database operations

ASSUME BackfillAssumption ==
    /\ {Files, MaxErrors} \subseteq Nat
    /\ BatchSize \in Nat \ {0}

VARIABLES
    status,      \* backfill_state.status: "pending", "running" or "complete"
    watermark,   \* last_watermark, 0 if there is none
    fresh,       \* whether updated_at lies within the lease
    at,          \* what each process is doing, see Phases
    from,        \* the watermark its worker started from
    next,        \* the next file of its worker
    last,        \* last_watermark of its worker
    late,        \* whether STARTUP_BACKFILL_WAIT_TIMEOUT has passed for it
    indexed,     \* files some worker has worked through
    errors

rowVars  == <<status, watermark, fresh>>
workVars == <<from, next, last>>
vars == <<rowVars, at, workVars, late, indexed, errors>>

\* "gate" to "sleep" are steps of wait_for_backfill_gate, and among them "claim" to
\* "finish" the steps of backfill_sessions.
Phases == {"off", "gate", "ask", "claim", "read", "mark", "work", "checkpoint", "finish",
           "check", "sleep", "ready", "failed", "crashed"}
Over(p) == at[p] \in {"ready", "failed", "crashed"}

Init ==
    /\ status = "pending" /\ watermark = 0 /\ fresh = FALSE
    /\ at = [p \in Procs |-> "off"]
    /\ from = [p \in Procs |-> 0]
    /\ next = [p \in Procs |-> 0]
    /\ last = [p \in Procs |-> 0]
    /\ late = [p \in Procs |-> FALSE]
    /\ indexed = {} /\ errors = 0

GoTo(p, phase) == at' = [at EXCEPT ![p] = phase]

\* A database operation fails.
Fault == errors < MaxErrors /\ errors' = errors + 1

----------------------------------------------------------------------------
(* The gate *)

\* Fault: the clock starts anew with every look.
KnockAfresh(p) ==
    /\ at[p] \in {"off", "sleep"}
    /\ GoTo(p, "gate")
    /\ late' = [late EXCEPT ![p] = FALSE]
    /\ UNCHANGED <<rowVars, workVars, indexed, errors>>

\* A process starts, or looks again after its poll interval.
Knock(p) ==
    /\ at[p] \in {"off", "sleep"}
    /\ GoTo(p, "gate")
    /\ UNCHANGED <<rowVars, workVars, late, indexed, errors>>

\* Fault: a backfill that another process has begun is good enough.
GateReadsBegun(p) ==
    /\ at[p] = "gate"
    /\ GoTo(p, IF status # "pending" THEN "ready" ELSE "ask")
    /\ UNCHANGED <<rowVars, workVars, late, indexed, errors>>

\* The state is read before a worker is tried; an error ends the start.
GateReads(p) ==
    /\ at[p] = "gate"
    /\ GoTo(p, IF status = "complete" THEN "ready" ELSE "ask")
    /\ UNCHANGED <<rowVars, workVars, late, indexed, errors>>

GateFails(p) ==
    /\ at[p] \in {"gate", "check"}
    /\ Fault
    /\ GoTo(p, "failed")
    /\ UNCHANGED <<rowVars, workVars, late, indexed>>

\* It is read again behind the worker, which may have been refused.
GateChecks(p) ==
    /\ at[p] = "check"
    /\ GoTo(p, IF status = "complete" THEN "ready" ELSE IF late[p] THEN "failed" ELSE "sleep")
    /\ UNCHANGED <<rowVars, workVars, late, indexed, errors>>

\* The clock of wait_started runs from the first look on.
TimePasses(p) ==
    /\ at[p] # "off" /\ ~Over(p) /\ ~late[p]
    /\ late' = [late EXCEPT ![p] = TRUE]
    /\ UNCHANGED <<rowVars, at, workVars, indexed, errors>>

----------------------------------------------------------------------------
(* The worker *)

\* backfill_sessions looks first; an error counts as not complete.
WorkerLooks(p) ==
    /\ at[p] = "ask"
    /\ \/ GoTo(p, IF status = "complete" THEN "check" ELSE "claim") /\ UNCHANGED errors
       \/ GoTo(p, "claim") /\ Fault
    /\ UNCHANGED <<rowVars, workVars, late, indexed>>

\* The condition of try_claim_backfill's UPDATE.
Claimable == status # "complete" /\ (status # "running" \/ ~fresh)

Claim(p) ==
    /\ at[p] = "claim" /\ Claimable
    /\ status' = "running" /\ fresh' = TRUE
    /\ GoTo(p, "read")
    /\ UNCHANGED <<watermark, workVars, late, indexed, errors>>

\* It is complete, or another worker's, or the UPDATE fails.
ClaimRefused(p) ==
    /\ at[p] = "claim"
    /\ (~Claimable /\ UNCHANGED errors) \/ Fault
    /\ GoTo(p, "check")
    /\ UNCHANGED <<rowVars, workVars, late, indexed>>

\* rollout_paths.retain: what comes after the watermark.
StartFrom(p, n) ==
    /\ from' = [from EXCEPT ![p] = n]
    /\ next' = [next EXCEPT ![p] = n + 1]
    /\ last' = [last EXCEPT ![p] = n]

\* Where the claimed work begins; an error means at the beginning.  Someone
\* else may have completed it between the claim and this read.
ReadClaimed(p) ==
    /\ at[p] = "read"
    /\ \/ /\ GoTo(p, IF status = "running" THEN "work" ELSE "mark")
          /\ StartFrom(p, watermark)
          /\ UNCHANGED errors
       \/ GoTo(p, "work") /\ StartFrom(p, 0) /\ Fault
    /\ UNCHANGED <<rowVars, late, indexed>>

\* mark_backfill_running, or its failure.
MarkRunning(p) ==
    /\ at[p] = "mark"
    /\ \/ status' = "running" /\ fresh' = TRUE /\ UNCHANGED errors
       \/ UNCHANGED <<status, fresh>> /\ Fault
    /\ GoTo(p, "work")
    /\ UNCHANGED <<watermark, workVars, late, indexed>>

\* The last file of a batch, counted from where the worker started.
BatchEnds(p, n) == n = Files \/ (n - from[p]) % BatchSize = 0

\* A file is read and its metadata written; what cannot be read is skipped.
IndexFile(p) ==
    /\ at[p] = "work" /\ next[p] <= Files
    /\ indexed' = indexed \cup {next[p]}
    /\ next' = [next EXCEPT ![p] = @ + 1]
    /\ GoTo(p, IF BatchEnds(p, next[p]) THEN "checkpoint" ELSE "work")
    /\ UNCHANGED <<rowVars, from, last, late, errors>>

\* Fault: the name of the file that comes next is written.
CheckpointNext(p) ==
    /\ at[p] = "checkpoint"
    /\ status' = "running" /\ watermark' = next[p] /\ fresh' = TRUE
    /\ last' = [last EXCEPT ![p] = next[p]]
    /\ GoTo(p, "work")
    /\ UNCHANGED <<from, next, late, indexed, errors>>

\* checkpoint_backfill, whoever holds the lease.
Checkpoint(p) ==
    /\ at[p] = "checkpoint"
    /\ status' = "running" /\ watermark' = next[p] - 1 /\ fresh' = TRUE
    /\ last' = [last EXCEPT ![p] = next[p] - 1]
    /\ GoTo(p, "work")
    /\ UNCHANGED <<from, next, late, indexed, errors>>

CheckpointFails(p) ==
    /\ at[p] = "checkpoint"
    /\ Fault
    /\ GoTo(p, "work")
    /\ UNCHANGED <<rowVars, workVars, late, indexed>>

WorkDone(p) ==
    /\ at[p] = "work" /\ next[p] > Files
    /\ GoTo(p, "finish")
    /\ UNCHANGED <<rowVars, workVars, late, indexed, errors>>

\* mark_backfill_complete: COALESCE keeps the watermark when there is none.
Complete(p) ==
    /\ at[p] = "finish"
    /\ status' = "complete" /\ fresh' = TRUE
    /\ watermark' = IF last[p] = 0 THEN watermark ELSE last[p]
    /\ GoTo(p, "check")
    /\ UNCHANGED <<workVars, late, indexed, errors>>

CompleteFails(p) ==
    /\ at[p] = "finish"
    /\ Fault
    /\ GoTo(p, "check")
    /\ UNCHANGED <<rowVars, workVars, late, indexed>>

----------------------------------------------------------------------------
\* The lease runs out: the worker is slow, its machine slept, or it is gone.
LeaseExpires ==
    /\ status = "running" /\ fresh
    /\ fresh' = FALSE
    /\ UNCHANGED <<status, watermark, at, workVars, late, indexed, errors>>

\* The process dies between two operations.
Crash(p) ==
    /\ at[p] # "off" /\ ~Over(p)
    /\ GoTo(p, "crashed")
    /\ UNCHANGED <<rowVars, workVars, late, indexed, errors>>

WorkerStep(p) ==
    \/ WorkerLooks(p) \/ Claim(p) \/ ClaimRefused(p) \/ ReadClaimed(p) \/ MarkRunning(p)
    \/ IndexFile(p) \/ Checkpoint(p) \/ CheckpointFails(p) \/ WorkDone(p)
    \/ Complete(p) \/ CompleteFails(p)

Step(p) == Knock(p) \/ GateReads(p) \/ GateChecks(p) \/ WorkerStep(p)

Next ==
    \/ \E p \in Procs : Step(p) \/ GateFails(p) \/ TimePasses(p) \/ Crash(p)
    \/ LeaseExpires

\* A process that has started goes on, and time passes.
Fairness == \A p \in Procs : WF_vars(at[p] # "off" /\ Step(p)) /\ WF_vars(TimePasses(p))

Spec == Init /\ [][Next]_vars /\ Fairness

----------------------------------------------------------------------------
(* Properties *)

\* Every variable keeps its type.
TypeOK ==
    /\ status \in {"pending", "running", "complete"} /\ watermark \in 0..Files
    /\ fresh \in BOOLEAN
    /\ at \in [Procs -> Phases]
    /\ from \in [Procs -> 0..Files] /\ next \in [Procs -> 0..(Files + 1)]
    /\ last \in [Procs -> 0..Files]
    /\ late \in [Procs -> BOOLEAN]
    /\ indexed \subseteq 1..Files /\ errors \in 0..MaxErrors

\* The name in the database never runs ahead of the work: whoever takes over
\* from it skips only files that were worked through, although workers whose
\* lease ran out go on writing names of their own (checkpoint_backfill,
\* backfill_sessions_with_lease).
WatermarkIsSafe == 1..watermark \subseteq indexed

\* A process that was let through the gate finds every file worked through,
\* whoever did it, and whatever crashed, expired or failed meanwhile
\* (wait_for_backfill_gate).
ReadyIsIndexed == (\E p \in Procs : at[p] = "ready") => indexed = 1..Files

\* A process that starts gets through the gate, gives up after its waiting
\* time, or dies: it does not wait for a worker that is gone.
StartReturns == \A p \in Procs : at[p] = "gate" ~> Over(p)
=============================================================================
