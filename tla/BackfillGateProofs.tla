------------------------- MODULE BackfillGateProofs -------------------------
(***************************************************************************)
(* Proofs about BackfillGate: for any number of processes, files, faults   *)
(* and any size of a batch, the watermark never runs ahead of the work,    *)
(* and who is let through the gate finds every file worked through.        *)
(***************************************************************************)
EXTENDS BackfillGate, TLAPS

\* A worker has worked through, or may skip, what lies before its next file,
\* and it will write no name beyond that.
Sound(p) ==
    /\ next[p] >= 1
    /\ last[p] <= next[p] - 1
    /\ \A n \in 1..(next[p] - 1) : n \in indexed

AllIndexed == \A n \in 1..Files : n \in indexed
Working == {"mark", "work", "checkpoint", "finish"}

\* Whoever works is sound, whoever finishes has seen all files, and the
\* backfill is complete, or a process let through, only when all are indexed.
IndexInv ==
    /\ \A n \in 1..watermark : n \in indexed
    /\ \A p \in Procs : at[p] \in Working => Sound(p)
    /\ \A p \in Procs : at[p] = "finish" => next[p] > Files
    /\ status = "complete" => AllIndexed
    /\ \A p \in Procs : at[p] = "ready" => AllIndexed

Inv == TypeOK /\ IndexInv

ProcStep(p) == Step(p) \/ GateFails(p) \/ TimePasses(p) \/ Crash(p)

\* The initial states satisfy the invariant.
LEMMA InitInv == Init => Inv
  <1> SUFFICES ASSUME Init PROVE Inv
    OBVIOUS
  <1>1. TypeOK
    <2>1. fresh \in BOOLEAN /\ late \in [Procs -> BOOLEAN]
      BY Zenon DEF Init
    <2> QED
      BY <2>1, BackfillAssumption DEF Init, TypeOK, Phases
  <1>2. IndexInv
    BY BackfillAssumption DEF Init, IndexInv, Working, Sound, AllIndexed
  <1> QED
    BY <1>1, <1>2 DEF Inv

\* What IndexFile does, whether the batch ends or not.
IndexEffect(p, phase) ==
    /\ at' = [at EXCEPT ![p] = phase]
    /\ next' = [next EXCEPT ![p] = next[p] + 1]
    /\ indexed' = indexed \cup {next[p]}
    /\ UNCHANGED <<rowVars, from, last, late, errors>>

\* IndexFile has one of two effects.
LEMMA IndexFileEffect ==
    ASSUME NEW p \in Procs, IndexFile(p)
    PROVE  \E phase \in {"checkpoint", "work"} : IndexEffect(p, phase)
  <1>1. CASE BatchEnds(p, next[p])
    BY <1>1, Zenon DEF IndexFile, IndexEffect, GoTo
  <1>2. CASE ~BatchEnds(p, next[p])
    BY <1>2, Zenon DEF IndexFile, IndexEffect, GoTo
  <1> QED
    BY <1>1, <1>2

\* No step of a process breaks a type.
LEMMA TypeStep ==
    ASSUME Inv, NEW p \in Procs, ProcStep(p)
    PROVE  TypeOK'
  <1> USE BackfillAssumption DEF Inv, TypeOK, Phases, rowVars, workVars, GoTo
  <1>1. CASE Knock(p)
    BY <1>1 DEF Knock
  <1>2. CASE GateReads(p)
    BY <1>2 DEF GateReads
  <1>3. CASE GateChecks(p)
    BY <1>3 DEF GateChecks
  <1>4. CASE WorkerLooks(p)
    BY <1>4 DEF WorkerLooks, Fault
  <1>5. CASE Claim(p)
    BY <1>5 DEF Claim
  <1>6. CASE ClaimRefused(p)
    BY <1>6 DEF ClaimRefused, Fault
  <1>7. CASE ReadClaimed(p)
    BY <1>7 DEF ReadClaimed, StartFrom, Fault
  <1>8. CASE MarkRunning(p)
    <2>1. CASE status' = "running" /\ fresh' = TRUE /\ UNCHANGED errors
      BY <1>8, <2>1 DEF MarkRunning
    <2>2. CASE UNCHANGED <<status, fresh>> /\ Fault
      BY <1>8, <2>2 DEF MarkRunning, Fault
    <2> QED
      BY <1>8, <2>1, <2>2 DEF MarkRunning
  <1>9. CASE IndexFile(p)
    <2>1. next[p] \in 1..Files
      BY <1>9 DEF IndexFile, IndexInv, Sound, Working
    <2>2. PICK phase \in {"checkpoint", "work"} : IndexEffect(p, phase)
      BY <1>9, IndexFileEffect
    <2>3. at' \in [Procs -> Phases] /\ next' \in [Procs -> 0..(Files + 1)]
      BY <2>1, <2>2 DEF IndexEffect
    <2>4. indexed' \subseteq 1..Files
      BY <2>1, <2>2 DEF IndexEffect
    <2> QED
      BY <2>2, <2>3, <2>4 DEF IndexEffect
  <1>10. CASE Checkpoint(p)
    <2>1. next[p] \in 1..(Files + 1)
      BY <1>10 DEF Checkpoint, IndexInv, Sound, Working
    <2> QED
      BY <1>10, <2>1 DEF Checkpoint
  <1>11. CASE CheckpointFails(p)
    BY <1>11 DEF CheckpointFails, Fault
  <1>12. CASE WorkDone(p)
    BY <1>12 DEF WorkDone
  <1>13. CASE Complete(p)
    BY <1>13 DEF Complete
  <1>14. CASE CompleteFails(p)
    BY <1>14 DEF CompleteFails, Fault
  <1>15. CASE GateFails(p)
    BY <1>15 DEF GateFails, Fault
  <1>16. CASE TimePasses(p)
    BY <1>16 DEF TimePasses
  <1>17. CASE Crash(p)
    BY <1>17 DEF Crash
  <1> QED
    BY <1>1, <1>2, <1>3, <1>4, <1>5, <1>6, <1>7, <1>8, <1>9, <1>10, <1>11, <1>12, <1>13,
       <1>14, <1>15, <1>16, <1>17 DEF ProcStep, Step, WorkerStep

\* No step of a process breaks the invariant: a name is written only by a
\* worker that is sound, and the workers' own files are never taken back.
LEMMA IndexStep ==
    ASSUME Inv, NEW p \in Procs, ProcStep(p)
    PROVE  IndexInv'
  <1> USE BackfillAssumption
      DEF Inv, TypeOK, Phases, rowVars, workVars, GoTo, IndexInv, Sound, Working,
          AllIndexed
  <1>1. CASE Knock(p)
    BY <1>1 DEF Knock
  <1>2. CASE GateReads(p)
    BY <1>2 DEF GateReads
  <1>3. CASE GateChecks(p)
    BY <1>3 DEF GateChecks
  <1>4. CASE WorkerLooks(p)
    BY <1>4 DEF WorkerLooks, Fault
  <1>5. CASE Claim(p)
    BY <1>5 DEF Claim
  <1>6. CASE ClaimRefused(p)
    BY <1>6 DEF ClaimRefused, Fault
  <1>7. CASE ReadClaimed(p)
    <2>1. PICK n \in {0, watermark}, phase \in {"work", "mark"} :
              StartFrom(p, n) /\ at' = [at EXCEPT ![p] = phase]
      BY <1>7 DEF ReadClaimed
    <2>2. UNCHANGED <<rowVars, indexed>>
      BY <1>7 DEF ReadClaimed
    <2>3. \A q \in Procs : at'[q] \in Working => Sound(q)'
      BY <2>1, <2>2 DEF StartFrom
    <2> QED
      BY <2>1, <2>2, <2>3 DEF StartFrom
  <1>8. CASE MarkRunning(p)
    BY <1>8 DEF MarkRunning, Fault
  <1>9. CASE IndexFile(p)
    <2>1. PICK phase \in {"checkpoint", "work"} : IndexEffect(p, phase)
      BY <1>9, IndexFileEffect
    <2>2. at[p] = "work"
      BY <1>9 DEF IndexFile
    <2>3. \A q \in Procs : at'[q] \in Working => Sound(q)'
      BY <2>1, <2>2 DEF IndexEffect
    <2>4. indexed \subseteq indexed' /\ UNCHANGED <<watermark, status>>
      BY <2>1 DEF IndexEffect
    <2>5. \A q \in Procs : at'[q] \in {"ready", "finish"} => at'[q] = at[q] /\ next'[q] = next[q]
      BY <2>1 DEF IndexEffect
    <2> QED
      BY <2>3, <2>4, <2>5
  <1>10. CASE Checkpoint(p)
    BY <1>10 DEF Checkpoint
  <1>11. CASE CheckpointFails(p)
    BY <1>11 DEF CheckpointFails, Fault
  <1>12. CASE WorkDone(p)
    BY <1>12 DEF WorkDone
  <1>13. CASE Complete(p)
    <2>1. Sound(p) /\ next[p] > Files
      BY <1>13 DEF Complete
    <2>2. AllIndexed
      BY <2>1
    <2> QED
      BY <1>13, <2>2 DEF Complete
  <1>14. CASE CompleteFails(p)
    BY <1>14 DEF CompleteFails, Fault
  <1>15. CASE GateFails(p)
    BY <1>15 DEF GateFails, Fault
  <1>16. CASE TimePasses(p)
    BY <1>16 DEF TimePasses
  <1>17. CASE Crash(p)
    BY <1>17 DEF Crash
  <1> QED
    BY <1>1, <1>2, <1>3, <1>4, <1>5, <1>6, <1>7, <1>8, <1>9, <1>10, <1>11, <1>12, <1>13,
       <1>14, <1>15, <1>16, <1>17 DEF ProcStep, Step, WorkerStep

\* Every step, of a process or of the lease, keeps the invariant.
LEMMA NextInv == Inv /\ [Next]_vars => Inv'
  <1> SUFFICES ASSUME Inv, [Next]_vars PROVE Inv'
    OBVIOUS
  <1>1. ASSUME NEW p \in Procs, ProcStep(p) PROVE Inv'
    BY <1>1, TypeStep, IndexStep DEF Inv
  <1>2. CASE LeaseExpires
    <2>1. TypeOK'
      BY <1>2 DEF LeaseExpires, Inv, TypeOK, workVars
    <2>2. IndexInv'
      BY <1>2 DEF LeaseExpires, Inv, IndexInv, Sound, AllIndexed, workVars
    <2> QED
      BY <2>1, <2>2 DEF Inv
  <1>3. CASE UNCHANGED vars
    <2>1. TypeOK'
      BY <1>3 DEF vars, rowVars, workVars, Inv, TypeOK
    <2>2. IndexInv'
      BY <1>3 DEF vars, rowVars, workVars, Inv, IndexInv, Sound, AllIndexed
    <2> QED
      BY <2>1, <2>2 DEF Inv
  <1> QED
    BY <1>1, <1>2, <1>3 DEF Next, ProcStep

\* The invariant holds of every reachable state.
THEOREM Invariance == Spec => []Inv
  BY InitInv, NextInv, PTL DEF Spec

\* The backfill is type correct: no worker writes a name that is no file's
\* (checkpoint_backfill, mark_backfill_complete).
THEOREM TypeCorrect == Spec => []TypeOK
  <1>1. Inv => TypeOK
    BY DEF Inv
  <1> QED
    BY Invariance, <1>1, PTL

\* The watermark never runs ahead of the work, for any number of workers
\* that believe they hold the lease (checkpoint_backfill).
THEOREM WatermarkSafe == Spec => []WatermarkIsSafe
  <1>1. Inv => WatermarkIsSafe
    BY DEF Inv, IndexInv, WatermarkIsSafe
  <1> QED
    BY Invariance, <1>1, PTL

\* Whoever passes the gate finds every file worked through
\* (wait_for_backfill_gate).
THEOREM GateSafe == Spec => []ReadyIsIndexed
  <1>1. Inv => ReadyIsIndexed
    <2> SUFFICES ASSUME Inv, NEW p \in Procs, at[p] = "ready" PROVE indexed = 1..Files
      BY DEF ReadyIsIndexed
    <2>1. 1..Files \subseteq indexed
      BY DEF Inv, IndexInv, AllIndexed
    <2>2. indexed \subseteq 1..Files
      BY DEF Inv, TypeOK
    <2> QED
      BY <2>1, <2>2
  <1> QED
    BY Invariance, <1>1, PTL

=============================================================================
