------------------------ MODULE RolloutWriterProofs -------------------------
(***************************************************************************)
(* Proofs about RolloutWriter, for any number of barrier calls, items, I/O *)
(* errors and restarts: it implements DurableLog, and what a barrier       *)
(* reported can be read back unless it is glued to a fragment.             *)
(***************************************************************************)
EXTENDS RolloutWriter, SequenceTheorems, TLAPS

(* Commands and attempts.                                                   *)
Adding  == [op : {"add"}, from : Nat, to : Nat]
Calling == [op : {"persist", "flush", "shutdown"}, who : Barriers]
Cmds    == Adding \cup Calling
Jobs    == [step : {"open", "meta", "items"}, cmd : Cmds, retry : BOOLEAN]

Types ==
    /\ recorded \in 0..MaxItems /\ lost \in 0..recorded
    /\ chan \in Seq(Cmds) /\ job \in {Idle} \cup Jobs
    /\ task \in {"running", "stopping", "gone"}
    /\ handle \in BOOLEAN /\ deferred \in BOOLEAN /\ meta \in BOOLEAN
    /\ exists \in BOOLEAN
    /\ pending \in Seq(Items) /\ file \in Seq(Items \cup {Meta} \cup Rests)
    /\ answer \in [Barriers -> {"none", "waiting", "ok", "err"}]
    /\ covers \in [Barriers -> SUBSET (1..recorded)]
    /\ promised \subseteq 1..recorded
    /\ faults \in 0..MaxFaults /\ restarts \in 0..MaxRestarts

(* Where an item is: in the file, among the pending ones, or in one of the   *)
(* commands before the k-th.                                                 *)
InFile(i)    == \E n \in DOMAIN file : file[n] = i
InPending(i) == \E n \in DOMAIN pending : pending[n] = i
InChan(i, k) == \E j \in DOMAIN chan :
                  j < k /\ chan[j].op = "add" /\ i \in chan[j].from..chan[j].to

(* Items wait in the order in which they were recorded, behind all that are  *)
(* in the file; none of them is lost.                                        *)
PendingInOrder ==
    \A k \in DOMAIN pending :
      /\ lost < pending[k] /\ pending[k] <= recorded
      /\ \A j \in DOMAIN pending : j < k => pending[j] < pending[k]
      /\ \A n \in DOMAIN file : file[n] < pending[k]

AddsInOrder ==
    \A k \in DOMAIN chan : chan[k].op = "add" =>
      /\ lost < chan[k].from /\ chan[k].from <= chan[k].to /\ chan[k].to <= recorded
      /\ \A j \in DOMAIN chan :
           j < k /\ chan[j].op = "add" => chan[j].to < chan[k].from
      /\ \A n \in DOMAIN pending : pending[n] < chan[k].from
      /\ \A n \in DOMAIN file : file[n] < chan[k].from

(* Every item that was not lost is somewhere.                                *)
NoneMissing ==
    \A i \in (lost + 1)..recorded :
      InFile(i) \/ InPending(i) \/ InChan(i, Len(chan) + 1)

(* What a queued barrier covers is written or lies before it in the queue;   *)
(* what the barrier being worked on covers is written or pending.            *)
CallsCovered ==
    \A k \in DOMAIN chan : chan[k].op # "add" =>
      /\ answer[chan[k].who] # "none"
      /\ \A i \in covers[chan[k].who] : InFile(i) \/ InPending(i) \/ InChan(i, k)

JobCovered ==
    job # Idle =>
      /\ task = "running"
      /\ job.cmd.op # "add" =>
           /\ answer[job.cmd.who] # "none"
           /\ \A i \in covers[job.cmd.who] : InFile(i) \/ InPending(i)

(* The header comes first.                                                   *)
HeaderFirst ==
    /\ meta => \A n \in DOMAIN file : file[n] \in Rests
    /\ ~meta /\ task # "gone" => InFile(Meta)
    /\ job.step = "items" => ~meta

(* What was promised is in the file, which holds recorded items only.        *)
Kept ==
    /\ \A i \in promised : InFile(i)
    /\ \A n \in DOMAIN file : file[n] <= recorded

Inv == /\ Types /\ PendingInOrder /\ AddsInOrder /\ NoneMissing /\ CallsCovered
       /\ JobCovered /\ HeaderFirst /\ Kept

----------------------------------------------------------------------------
(* Sequences and commands, place by place.                                   *)

(* What appending does.                                                      *)
LEMMA Appended ==
    ASSUME NEW S, NEW s \in Seq(S), NEW e \in S
    PROVE  /\ Append(s, e) \in Seq(S) /\ Len(s) \in Nat
           /\ Len(Append(s, e)) = Len(s) + 1
           /\ DOMAIN s = 1..Len(s) /\ DOMAIN Append(s, e) = 1..(Len(s) + 1)
           /\ \A i \in 1..Len(s) : Append(s, e)[i] = s[i]
           /\ Append(s, e)[Len(s) + 1] = e
  BY AppendProperties, LenProperties

(* What taking the head away does.                                           *)
LEMMA Tailed ==
    ASSUME NEW S, NEW s \in Seq(S), s # <<>>
    PROVE  /\ Tail(s) \in Seq(S) /\ Len(s) \in Nat /\ Len(s) >= 1
           /\ Head(s) = s[1] /\ 1 \in DOMAIN s /\ Head(s) \in S
           /\ Len(Tail(s)) = Len(s) - 1
           /\ DOMAIN s = 1..Len(s) /\ DOMAIN Tail(s) = 1..(Len(s) - 1)
           /\ \A i \in 1..(Len(s) - 1) : Tail(s)[i] = s[i + 1]
<1>1. Len(s) \in Nat /\ DOMAIN s = 1..Len(s) /\ Len(s) # 0
  BY LenProperties, EmptySeq
<1>2. Tail(s) \in Seq(S) /\ Len(Tail(s)) = Len(s) - 1 /\ Head(s) \in S
  BY HeadTailProperties
<1>3. \A i \in 1..(Len(s) - 1) : Tail(s)[i] = s[i + 1]
  BY <1>2, HeadTailProperties
<1>4. DOMAIN Tail(s) = 1..(Len(s) - 1)
  BY <1>2, LenProperties
<1>5. Head(s) = s[1]
  OBVIOUS
<1> QED BY <1>1, <1>2, <1>3, <1>4, <1>5

(* The fields of a command.                                                  *)
LEMMA CmdFields ==
    ASSUME Types, NEW k \in DOMAIN chan
    PROVE  /\ chan[k] \in Cmds
           /\ chan[k].op \in {"add", "persist", "flush", "shutdown"}
           /\ chan[k].op = "add" => chan[k].from \in Nat /\ chan[k].to \in Nat
           /\ chan[k].op # "add" => chan[k].who \in Barriers
<1>1. chan[k] \in Cmds
  BY ElementOfSeq, LenProperties DEF Types
<1> QED BY <1>1 DEF Cmds, Adding, Calling

(* The fields of an attempt.                                                 *)
LEMMA JobFields ==
    ASSUME Types
    PROVE  /\ job.step \in {"idle", "open", "meta", "items"}
           /\ job = Idle <=> job.step = "idle"
           /\ job # Idle => /\ job \in Jobs /\ job.cmd \in Cmds /\ job.retry \in BOOLEAN
                            /\ job.cmd.op \in {"add", "persist", "flush", "shutdown"}
                            /\ job.cmd.op # "add" => job.cmd.who \in Barriers
<1>1. CASE job = Idle
  BY <1>1 DEF Idle
<1>2. CASE job \in Jobs
  <2>1. job.step \in {"open", "meta", "items"} /\ job.cmd \in Cmds /\ job.retry \in BOOLEAN
    BY <1>2 DEF Jobs
  <2>2. /\ job.cmd.op \in {"add", "persist", "flush", "shutdown"}
        /\ job.cmd.op # "add" => job.cmd.who \in Barriers
    BY <2>1 DEF Cmds, Adding, Calling
  <2>3. job # Idle
    BY <2>1 DEF Idle
  <2> QED BY <1>2, <2>1, <2>2, <2>3
<1> QED BY <1>1, <1>2 DEF Types

(* The variables' ranges, in the form the provers use.                       *)
LEMMA Ranges ==
    ASSUME Types
    PROVE  /\ recorded \in Nat /\ lost \in Nat /\ MaxItems \in Nat
           /\ lost <= recorded /\ recorded <= MaxItems
           /\ Len(chan) \in Nat /\ DOMAIN chan = 1..Len(chan)
           /\ Len(pending) \in Nat /\ DOMAIN pending = 1..Len(pending)
           /\ Len(file) \in Nat /\ DOMAIN file = 1..Len(file)
           /\ \A n \in DOMAIN pending : pending[n] \in 1..MaxItems
           /\ \A n \in DOMAIN file : file[n] \in Int /\ file[n] \in -2..MaxItems
<1>1. recorded \in Nat /\ lost \in Nat /\ MaxItems \in Nat
      /\ lost <= recorded /\ recorded <= MaxItems
  BY WriterAssumption DEF Types
<1>2. /\ Len(chan) \in Nat /\ DOMAIN chan = 1..Len(chan)
      /\ Len(pending) \in Nat /\ DOMAIN pending = 1..Len(pending)
      /\ Len(file) \in Nat /\ DOMAIN file = 1..Len(file)
  BY LenProperties DEF Types
<1>3. \A n \in DOMAIN pending : pending[n] \in Items
  BY <1>2, ElementOfSeq DEF Types
<1>4. \A n \in DOMAIN file : file[n] \in Items \cup {Meta} \cup Rests
  BY <1>2, ElementOfSeq DEF Types
<1>5. \A n \in DOMAIN file : file[n] \in Int /\ file[n] \in -2..MaxItems
  BY <1>1, <1>4 DEF Items, Meta, Rests, Fragment, Torn
<1> QED BY <1>1, <1>2, <1>3, <1>5 DEF Items

----------------------------------------------------------------------------
(* One lemma for each step.                                                  *)

(* record_canonical_items queues items behind all others.                    *)
LEMMA RecordInv ==
    ASSUME Inv, NEW n \in 1..2, RecordItems(n)
    PROVE  Inv'
<1> DEFINE cmd == Add(recorded + 1, recorded + n)
           l == Len(chan) + 1
<1>0. Types
  BY DEF Inv
<1>1. /\ recorded' = recorded + n /\ recorded + n <= MaxItems /\ n \in Nat /\ n >= 1
      /\ chan' = Append(chan, cmd) /\ task # "gone"
      /\ UNCHANGED <<task, job, handle, deferred, meta, pending, exists, file, answer,
                     covers, promised, lost, faults, restarts>>
  BY DEF RecordItems, writerVars, fileVars, callVars, boundVars
<1>2. cmd \in Cmds /\ cmd.op = "add" /\ cmd.from = recorded + 1 /\ cmd.to = recorded + n
  BY <1>0, <1>1, Ranges DEF Add, Cmds, Adding
<1> HIDE DEF cmd
<1>3. /\ chan' \in Seq(Cmds) /\ DOMAIN chan' = 1..l /\ chan'[l] = cmd
      /\ DOMAIN chan = 1..Len(chan) /\ Len(chan) \in Nat /\ Len(chan') = l
      /\ \A k \in DOMAIN chan : chan'[k] = chan[k]
  BY <1>0, <1>1, <1>2, Appended DEF Types
<1>4. Types'
  <2>1. recorded' \in 0..MaxItems /\ lost' \in 0..recorded' /\ 1..recorded \subseteq 1..recorded'
    BY <1>0, <1>1, Ranges
  <2> QED BY <1>0, <1>1, <1>3, <2>1 DEF Types
<1>5. PendingInOrder'
  BY <1>0, <1>1, Ranges DEF Inv, PendingInOrder
<1>6. AddsInOrder'
  <2>1. ASSUME NEW k \in DOMAIN chan, chan'[k].op = "add"
        PROVE  /\ lost < chan'[k].from /\ chan'[k].from <= chan'[k].to
               /\ chan'[k].to <= recorded'
               /\ \A j \in DOMAIN chan' :
                    j < k /\ chan'[j].op = "add" => chan'[j].to < chan'[k].from
               /\ \A m \in DOMAIN pending : pending[m] < chan'[k].from
               /\ \A m \in DOMAIN file : file[m] < chan'[k].from
    BY <1>0, <1>1, <1>3, <2>1, Ranges, CmdFields DEF Inv, AddsInOrder
  <2>2. /\ lost < chan'[l].from /\ chan'[l].from <= chan'[l].to
        /\ chan'[l].to <= recorded'
        /\ \A m \in DOMAIN pending : pending[m] < chan'[l].from
        /\ \A m \in DOMAIN file : file[m] < chan'[l].from
    BY <1>0, <1>1, <1>2, <1>3, Ranges DEF Inv, PendingInOrder, Kept
  <2>3. \A j \in DOMAIN chan' : j < l /\ chan'[j].op = "add" => chan'[j].to < chan'[l].from
    BY <1>0, <1>1, <1>2, <1>3, Ranges, CmdFields DEF Inv, AddsInOrder
  <2> QED BY <1>1, <1>3, <2>1, <2>2, <2>3 DEF AddsInOrder
<1>7. NoneMissing'
  <2>1. ASSUME NEW i \in (lost + 1)..recorded
        PROVE  (InFile(i) \/ InPending(i) \/ InChan(i, l))
    BY DEF Inv, NoneMissing
  <2>2. ASSUME NEW i \in (lost + 1)..recorded
        PROVE  InFile(i)' \/ InPending(i)' \/ InChan(i, Len(chan) + 1)'
    <3>1. CASE InFile(i) \/ InPending(i)
      BY <1>1, <3>1 DEF InFile, InPending
    <3>2. CASE InChan(i, l)
      BY <1>3, <3>2 DEF InChan
    <3> QED BY <2>1, <2>2, <3>1, <3>2
  <2>3. ASSUME NEW i \in (recorded + 1)..recorded'
        PROVE  InChan(i, Len(chan) + 1)'
    <3>1. l \in DOMAIN chan' /\ l < Len(chan') + 1
      BY <1>3
    <3>2. chan'[l].op = "add" /\ i \in chan'[l].from..chan'[l].to
      BY <1>0, <1>1, <1>2, <1>3, Ranges
    <3> QED BY <3>1, <3>2 DEF InChan
  <2>4. (lost' + 1)..recorded' = (lost + 1)..recorded \cup (recorded + 1)..recorded'
    BY <1>0, <1>1, Ranges
  <2> QED BY <1>3, <2>2, <2>3, <2>4 DEF NoneMissing
<1>8. CallsCovered'
  <2>1. ASSUME NEW k \in DOMAIN chan, chan[k].op # "add", NEW i \in covers[chan[k].who]
        PROVE  InFile(i)' \/ InPending(i)' \/ InChan(i, k)'
    <3>1. InFile(i) \/ InPending(i) \/ InChan(i, k)
      BY <2>1 DEF Inv, CallsCovered
    <3>2. InChan(i, k) => InChan(i, k)'
      BY <1>3 DEF InChan
    <3> QED BY <1>1, <3>1, <3>2 DEF InFile, InPending
  <2> QED BY <1>1, <1>2, <1>3, <2>1 DEF Inv, CallsCovered
<1>9. JobCovered' /\ HeaderFirst'
  BY <1>1 DEF Inv, JobCovered, HeaderFirst, InFile, InPending
<1>10. Kept'
  BY <1>0, <1>1, Ranges DEF Inv, Kept, InFile
<1> QED BY <1>4, <1>5, <1>6, <1>7, <1>8, <1>9, <1>10 DEF Inv

(* What persist, flush or shutdown covers was recorded, so it lies in the     *)
(* file, among the pending items or in the queue before the new command.      *)
LEMMA BarrierInv ==
    ASSUME Inv, NEW b \in Barriers, NEW op \in {"persist", "flush", "shutdown"},
           Barrier(b, op)
    PROVE  Inv'
<1> DEFINE cmd == Call(op, b)
           l == Len(chan) + 1
<1>0. Types /\ answer[b] = "none"
  BY DEF Inv, Barrier
<1>1. /\ UNCHANGED <<recorded, task, job, handle, deferred, meta, pending, exists, file,
                     promised, lost, faults, restarts>>
  BY DEF Barrier, writerVars, fileVars, boundVars
<1>2. \A c \in Barriers \ {b} : answer'[c] = answer[c] /\ covers'[c] = covers[c]
  BY <1>0 DEF Barrier, Types
<1>3. answer'[b] # "none" /\ answer' \in [Barriers -> {"none", "waiting", "ok", "err"}]
  BY <1>0 DEF Barrier, Types
<1>4. PendingInOrder' /\ HeaderFirst' /\ Kept'
  BY <1>1 DEF Inv, PendingInOrder, HeaderFirst, Kept, InFile
<1>5. JobCovered'
  <2>1. job # Idle /\ job.cmd.op # "add" => job.cmd.who \in Barriers \ {b}
    BY <1>0, JobFields DEF Inv, JobCovered
  <2> QED BY <1>1, <1>2, <2>1 DEF Inv, JobCovered, InFile, InPending
<1>6. \A k \in DOMAIN chan : chan[k].op # "add" => chan[k].who \in Barriers \ {b}
  BY <1>0, CmdFields DEF Inv, CallsCovered
<1>7. CASE task = "gone"
  <2>1. UNCHANGED <<chan, covers>>
    BY <1>7 DEF Barrier
  <2>2. Types'
    BY <1>0, <1>1, <1>3, <2>1 DEF Types
  <2>3. AddsInOrder' /\ NoneMissing'
    BY <1>1, <2>1 DEF Inv, AddsInOrder, NoneMissing, InFile, InPending, InChan
  <2>4. CallsCovered'
    BY <1>1, <1>2, <1>6, <2>1 DEF Inv, CallsCovered, InFile, InPending, InChan
  <2> QED BY <1>4, <1>5, <2>2, <2>3, <2>4 DEF Inv
<1>8. CASE task # "gone"
  <2>1. /\ chan' = Append(chan, cmd)
        /\ covers' = [covers EXCEPT ![b] = (lost + 1)..recorded]
    BY <1>8 DEF Barrier
  <2>2. cmd \in Cmds /\ cmd.op # "add" /\ cmd.who = b
    BY DEF Call, Cmds, Calling
  <2> HIDE DEF cmd
  <2>3. /\ chan' \in Seq(Cmds) /\ DOMAIN chan' = 1..l /\ chan'[l] = cmd
        /\ DOMAIN chan = 1..Len(chan) /\ Len(chan) \in Nat /\ Len(chan') = l
        /\ \A k \in DOMAIN chan : chan'[k] = chan[k]
    BY <1>0, <2>1, <2>2, Appended DEF Types
  <2>4. covers'[b] = (lost + 1)..recorded
    BY <1>0, <2>1 DEF Types
  <2>5. Types'
    <3>1. (lost + 1)..recorded \subseteq 1..recorded
      BY <1>0, Ranges
    <3>2. covers' \in [Barriers -> SUBSET (1..recorded)]
      BY <1>0, <2>1, <3>1 DEF Types
    <3> QED BY <1>0, <1>1, <1>3, <2>3, <3>2 DEF Types
  <2>6. AddsInOrder'
    BY <1>1, <2>2, <2>3 DEF Inv, AddsInOrder
  <2>7. ASSUME NEW i, NEW k, InChan(i, k)
        PROVE  InChan(i, k)'
    BY <2>3, <2>7 DEF InChan
  <2>8. ASSUME NEW i \in (lost + 1)..recorded
        PROVE  InFile(i)' \/ InPending(i)' \/ (\E j \in DOMAIN chan : /\ chan[j].op = "add"
                                           /\ i \in chan[j].from..chan[j].to)
    BY <1>1, <2>8 DEF Inv, NoneMissing, InFile, InPending, InChan
  <2>9. NoneMissing'
    BY <1>1, <2>3, <2>8 DEF NoneMissing, InChan
  <2>10. ASSUME NEW k \in DOMAIN chan, chan[k].op # "add", NEW i \in covers[chan[k].who]
         PROVE  InFile(i)' \/ InPending(i)' \/ InChan(i, k)'
    <3>1. InFile(i) \/ InPending(i) \/ InChan(i, k)
      BY <2>10 DEF Inv, CallsCovered
    <3> QED BY <1>1, <2>7, <3>1 DEF InFile, InPending
  <2>11. ASSUME NEW i \in covers'[b]
         PROVE  InFile(i)' \/ InPending(i)'
                \/ (\E j \in DOMAIN chan' : /\ j < l /\ chan'[j].op = "add"
                                             /\ i \in chan'[j].from..chan'[j].to)
    BY <2>3, <2>4, <2>8
  <2>12. CallsCovered'
    <3>1. \A k \in DOMAIN chan : chan'[k].op # "add" =>
            /\ answer'[chan'[k].who] # "none"
            /\ \A i \in covers'[chan'[k].who] :
                 InFile(i)' \/ InPending(i)' \/ InChan(i, k)'
      BY <1>2, <1>6, <2>3, <2>10 DEF Inv, CallsCovered
    <3>2. /\ answer'[chan'[l].who] # "none"
          /\ \A i \in covers'[chan'[l].who] :
               InFile(i)' \/ InPending(i)' \/ (\E j \in DOMAIN chan' :
                   j < l /\ chan'[j].op = "add" /\ i \in chan'[j].from..chan'[j].to)
      BY <1>3, <2>2, <2>3, <2>11
    <3> QED BY <2>3, <3>1, <3>2 DEF CallsCovered, InChan
  <2> QED BY <1>4, <1>5, <2>5, <2>6, <2>9, <2>12 DEF Inv
<1> QED BY <1>7, <1>8

(* The items of a command join the pending ones.                              *)
LEMMA Joined ==
    ASSUME Types, NEW cmd \in Adding, 1 <= cmd.from, cmd.from <= cmd.to,
           cmd.to <= MaxItems, pending' = pending \o Added(cmd)
    PROVE  LET l == Len(pending)
               m == cmd.to - cmd.from + 1
           IN  /\ pending' \in Seq(Items) /\ DOMAIN pending' = 1..(l + m)
               /\ \A k \in 1..l : pending'[k] = pending[k]
               /\ \A k \in (l + 1)..(l + m) : pending'[k] = cmd.from + (k - l) - 1
<1> DEFINE l == Len(pending)
           m == cmd.to - cmd.from + 1
<1>0. cmd.from \in Nat /\ cmd.to \in Nat /\ m \in Nat /\ l \in Nat
  BY Ranges DEF Adding
<1>1. Added(cmd) \in [1..m -> Items]
  BY <1>0, Ranges DEF Added, Items
<1>2. Added(cmd) \in Seq(Items)
  BY <1>0, <1>1, SeqDef
<1>3. Len(Added(cmd)) = m
  BY <1>0, <1>1, <1>2, LenProperties
<1>4. /\ pending' \in Seq(Items) /\ Len(pending') = l + m
      /\ \A k \in 1..(l + m) : pending'[k] = IF k <= l THEN pending[k] ELSE Added(cmd)[k - l]
  BY <1>2, <1>3, ConcatProperties DEF Types
<1>5. DOMAIN pending' = 1..(l + m)
  BY <1>4, LenProperties
<1>6. \A k \in 1..l : pending'[k] = pending[k]
  BY <1>0, <1>4
<1>7. ASSUME NEW k \in (l + 1)..(l + m)
      PROVE  pending'[k] = cmd.from + (k - l) - 1
  <2>1. k - l \in 1..m /\ k \in 1..(l + m) /\ ~(k <= l)
    BY <1>0
  <2>2. pending'[k] = Added(cmd)[k - l]
    BY <1>4, <2>1
  <2>3. Added(cmd)[k - l] = cmd.from + (k - l) - 1
    BY <2>1 DEF Added
  <2> QED BY <2>2, <2>3
<1> QED BY <1>4, <1>5, <1>6, <1>7

(* The command at the head of the queue goes.                                 *)
LEMMA Popped ==
    ASSUME Types, chan # <<>>, chan' = Tail(chan)
    PROVE  /\ chan' \in Seq(Cmds) /\ Head(chan) = chan[1] /\ 1 \in DOMAIN chan
           /\ DOMAIN chan = 1..Len(chan) /\ Len(chan) \in Nat
           /\ Len(chan') = Len(chan) - 1
           /\ DOMAIN chan' = 1..(Len(chan) - 1)
           /\ \A k \in DOMAIN chan' : k + 1 \in DOMAIN chan /\ chan'[k] = chan[k + 1]
  BY Tailed DEF Types

(* An item queued behind the first command stays queued.                      *)
LEMMA StaysQueued ==
    ASSUME Types, chan # <<>>, chan' = Tail(chan), NEW i, NEW k \in Nat,
           NEW j \in DOMAIN chan, j # 1, j < k + 1, chan[j].op = "add",
           i \in chan[j].from..chan[j].to
    PROVE  InChan(i, k)'
<1>1. j - 1 \in DOMAIN chan' /\ j - 1 < k /\ chan'[j - 1] = chan[j]
  BY Popped
<1> QED BY <1>1 DEF InChan

(* AddItems moves the items of the first command to the pending ones.         *)
LEMMA ReceiveAddInv ==
    ASSUME Inv, ReceiveAdd
    PROVE  Inv'
<1> DEFINE cmd == chan[1]
           l == Len(pending)
           m == cmd.to - cmd.from + 1
<1>0. Types
  BY DEF Inv
<1>1. /\ task = "running" /\ job = Idle /\ chan # <<>> /\ chan' = Tail(chan)
      /\ Head(chan).op = "add" /\ pending' = pending \o Added(Head(chan))
      /\ job' = Idle \/ job' = Attempt(Head(chan))
      /\ UNCHANGED <<recorded, task, handle, deferred, meta, exists, file, answer, covers,
                     promised, lost, faults, restarts>>
  BY DEF ReceiveAdd, fileVars, callVars, boundVars
<1>2. /\ Head(chan) = cmd /\ 1 \in DOMAIN chan /\ cmd.op = "add" /\ cmd \in Cmds
      /\ cmd.from \in Nat /\ cmd.to \in Nat
  BY <1>0, <1>1, Popped, CmdFields
<1>3. cmd \in Adding
  BY <1>2 DEF Cmds, Calling
<1>4. /\ lost < cmd.from /\ cmd.from <= cmd.to /\ cmd.to <= recorded
      /\ \A n \in DOMAIN pending : pending[n] < cmd.from
      /\ \A n \in DOMAIN file : file[n] < cmd.from
  BY <1>2 DEF Inv, AddsInOrder
<1>5. 1 <= cmd.from /\ cmd.to <= MaxItems /\ l \in Nat /\ m \in Nat
  BY <1>0, <1>2, <1>4, Ranges
<1>6. /\ pending' \in Seq(Items) /\ DOMAIN pending' = 1..(l + m)
      /\ \A k \in 1..l : pending'[k] = pending[k]
      /\ \A k \in (l + 1)..(l + m) : pending'[k] = cmd.from + (k - l) - 1
  BY <1>0, <1>1, <1>2, <1>3, <1>4, <1>5, Joined
<1> HIDE DEF cmd
<1>7. \A k \in DOMAIN pending' : pending'[k] \in Int /\ k \in Int /\
        \/ k \in DOMAIN pending /\ pending'[k] = pending[k]
        \/ /\ k > l /\ pending'[k] = cmd.from + (k - l) - 1
           /\ cmd.from <= pending'[k] /\ pending'[k] <= cmd.to
  <2>1. ASSUME NEW k \in DOMAIN pending'
        PROVE  k \in 1..l \/ k \in (l + 1)..(l + m)
    BY <1>5, <1>6
  <2>2. ASSUME NEW k \in (l + 1)..(l + m)
        PROVE  /\ k > l /\ pending'[k] = cmd.from + (k - l) - 1 /\ pending'[k] \in Int
               /\ cmd.from <= pending'[k] /\ pending'[k] <= cmd.to
    <3>1. pending'[k] = cmd.from + (k - l) - 1
      BY <1>6
    <3>2. 1 <= k - l /\ k - l <= cmd.to - cmd.from + 1 /\ k - l \in Int /\ k > l
      BY <1>2, <1>5
    <3>3. \A a, b, d \in Int : 1 <= d /\ d <= b - a + 1 => a <= a + d - 1 /\ a + d - 1 <= b
      OBVIOUS
    <3> QED BY <1>2, <3>1, <3>2, <3>3
  <2> QED BY <1>0, <1>6, <2>1, <2>2, Ranges
<1>8. Types'
  <2>1. job' \in {Idle} \cup Jobs
    <3>1. \A c \in Cmds : Attempt(c) \in Jobs
      BY DEF Attempt, Jobs
    <3> QED BY <1>1, <1>2, <3>1
  <2> QED BY <1>0, <1>1, <1>6, <2>1, Popped DEF Types
<1>9. PendingInOrder'
  <2>1. ASSUME NEW k \in DOMAIN pending'
        PROVE  /\ lost < pending'[k] /\ pending'[k] <= recorded
               /\ \A n \in DOMAIN file : file[n] < pending'[k]
    <3>1. CASE k \in DOMAIN pending /\ pending'[k] = pending[k]
      BY <3>1 DEF Inv, PendingInOrder
    <3>2. CASE cmd.from <= pending'[k] /\ pending'[k] <= cmd.to
      BY <1>0, <1>2, <1>4, <1>7, <3>2, Ranges
    <3> QED BY <1>7, <3>1, <3>2
  <2>2. ASSUME NEW k \in DOMAIN pending', NEW j \in DOMAIN pending', j < k
        PROVE  pending'[j] < pending'[k]
    <3>1. CASE k \in DOMAIN pending
      <4>1. j \in DOMAIN pending
        BY <1>0, <1>7, <2>2, <3>1, Ranges
      <4> QED BY <1>0, <1>6, <2>2, <3>1, <4>1, Ranges DEF Inv, PendingInOrder
    <3>2. CASE j \in DOMAIN pending /\ k \notin DOMAIN pending
      <4>1. pending'[j] < cmd.from /\ cmd.from <= pending'[k]
        BY <1>0, <1>4, <1>6, <1>7, <3>2, Ranges
      <4> QED BY <1>2, <1>7, <4>1
    <3>3. CASE j \notin DOMAIN pending /\ k \notin DOMAIN pending
      <4>1. pending'[j] = cmd.from + (j - l) - 1 /\ pending'[k] = cmd.from + (k - l) - 1
        BY <1>7, <3>3
      <4> QED BY <1>2, <1>5, <1>7, <2>2, <4>1
    <3> QED BY <3>1, <3>2, <3>3
  <2> QED BY <1>1, <2>1, <2>2 DEF PendingInOrder
<1>10. AddsInOrder'
  <2>1. ASSUME NEW k \in DOMAIN chan', chan'[k].op = "add"
        PROVE  /\ lost < chan'[k].from /\ chan'[k].from <= chan'[k].to
               /\ chan'[k].to <= recorded
               /\ \A j \in DOMAIN chan' :
                    j < k /\ chan'[j].op = "add" => chan'[j].to < chan'[k].from
               /\ \A n \in DOMAIN file : file[n] < chan'[k].from
               /\ \A n \in DOMAIN pending : pending[n] < chan'[k].from
               /\ cmd.to < chan'[k].from
    BY <1>0, <1>1, <1>2, <2>1, Popped DEF Inv, AddsInOrder, cmd
  <2>2. ASSUME NEW k \in DOMAIN chan', chan'[k].op = "add", NEW n \in DOMAIN pending'
        PROVE  pending'[n] < chan'[k].from
    <3>1. chan'[k].from \in Nat
      BY <1>0, <1>1, <2>2, Popped, CmdFields
    <3>2. CASE n \in DOMAIN pending /\ pending'[n] = pending[n]
      BY <2>1, <2>2, <3>2
    <3>3. CASE pending'[n] <= cmd.to
      BY <1>2, <1>7, <2>1, <2>2, <3>1, <3>3
    <3> QED BY <1>7, <3>2, <3>3
  <2> QED BY <1>1, <2>1, <2>2 DEF AddsInOrder
<1>11. ASSUME NEW i, NEW k \in Nat, InFile(i) \/ InPending(i) \/ InChan(i, k + 1)
       PROVE  InFile(i)' \/ InPending(i)' \/ InChan(i, k)'
  <2>1. CASE InFile(i)
    BY <1>1, <2>1 DEF InFile
  <2>2. CASE InPending(i)
    <3>1. PICK n \in DOMAIN pending : pending[n] = i
      BY <2>2 DEF InPending
    <3>2. n \in DOMAIN pending' /\ pending'[n] = i
      BY <1>0, <1>5, <1>6, <3>1, Ranges
    <3> QED BY <3>2 DEF InPending
  <2>3. CASE InChan(i, k + 1)
    <3>1. PICK j \in DOMAIN chan :
            j < k + 1 /\ chan[j].op = "add" /\ i \in chan[j].from..chan[j].to
      BY <2>3 DEF InChan
    <3>2. CASE j = 1
      <4>1. i \in cmd.from..cmd.to
        BY <3>1, <3>2 DEF cmd
      <4>2. PICK n \in (l + 1)..(l + m) : cmd.from + (n - l) - 1 = i
        <5>1. \A a, b, d \in Nat : \A e \in a..b :
                /\ d + 1 + e - a \in (d + 1)..(d + (b - a + 1))
                /\ a + ((d + 1 + e - a) - d) - 1 = e
          OBVIOUS
        <5>2. /\ l + 1 + i - cmd.from \in (l + 1)..(l + m)
              /\ cmd.from + ((l + 1 + i - cmd.from) - l) - 1 = i
          BY <1>2, <1>5, <4>1, <5>1
        <5> QED BY <5>2
      <4>3. n \in DOMAIN pending'
        BY <1>5, <1>6
      <4>4. pending'[n] = i
        BY <1>6, <4>2
      <4> QED BY <4>3, <4>4 DEF InPending
    <3>3. CASE j # 1
      BY <1>0, <1>1, <3>1, <3>3, StaysQueued
    <3> QED BY <3>2, <3>3
  <2> QED BY <1>11, <2>1, <2>2, <2>3
<1>12. NoneMissing'
  <2>1. Len(chan') \in Nat /\ Len(chan) + 1 = (Len(chan') + 1) + 1
    BY <1>0, <1>1, Popped, Ranges
  <2>2. ASSUME NEW i \in (lost + 1)..recorded
        PROVE  InFile(i)' \/ InPending(i)' \/ InChan(i, Len(chan) + 1)'
    <3>1. PICK k \in Nat : k = Len(chan') + 1
      BY <2>1
    <3>2. InFile(i) \/ InPending(i) \/ InChan(i, k + 1)
      BY <2>1, <2>2, <3>1 DEF Inv, NoneMissing
    <3>3. InFile(i)' \/ InPending(i)' \/ InChan(i, k)'
      BY <1>11, <3>2
    <3> QED BY <3>1, <3>3 DEF InChan
  <2> QED BY <1>1, <2>2 DEF NoneMissing
<1>13. CallsCovered'
  <2>1. ASSUME NEW k \in DOMAIN chan', chan'[k].op # "add"
        PROVE  /\ answer[chan'[k].who] # "none"
               /\ \A i \in covers[chan'[k].who] : InFile(i)' \/ InPending(i)' \/ InChan(i, k)'
    <3>1. k + 1 \in DOMAIN chan /\ chan'[k] = chan[k + 1] /\ k \in Nat
      BY <1>0, <1>1, Popped
    <3>2. /\ answer[chan'[k].who] # "none"
          /\ \A i \in covers[chan'[k].who] : InFile(i) \/ InPending(i) \/ InChan(i, k + 1)
      BY <2>1, <3>1 DEF Inv, CallsCovered
    <3> QED BY <1>11, <3>1, <3>2
  <2> QED BY <1>1, <2>1 DEF CallsCovered
<1>14. JobCovered'
  BY <1>1, <1>2 DEF JobCovered, Attempt
<1>15. HeaderFirst' /\ Kept'
  BY <1>1 DEF Inv, HeaderFirst, Kept, InFile, Attempt, Idle
<1> QED BY <1>8, <1>9, <1>10, <1>12, <1>13, <1>14, <1>15 DEF Inv

(* flush, persist and shutdown start an attempt, or find nothing to write:     *)
(* then all that they cover is in the file.                                    *)
LEMMA ReceiveCallInv ==
    ASSUME Inv, ReceiveCall
    PROVE  Inv'
<1> DEFINE cmd == chan[1]
<1>0. Types
  BY DEF Inv
<1>1. /\ task = "running" /\ job = Idle /\ chan # <<>> /\ chan' = Tail(chan)
      /\ Head(chan).op # "add"
      /\ UNCHANGED <<recorded, handle, deferred, meta, pending, exists, file, covers, lost,
                     faults, restarts>>
  BY DEF ReceiveCall, Ack, callVars, writerVars, fileVars, boundVars
<1>2. /\ Head(chan) = cmd /\ 1 \in DOMAIN chan /\ cmd.op # "add" /\ cmd \in Cmds
      /\ cmd.who \in Barriers
  BY <1>0, <1>1, Popped, CmdFields
<1>3. /\ answer[cmd.who] # "none"
      /\ \A i \in covers[cmd.who] : InFile(i) \/ InPending(i)
  <2>1. \A i : ~InChan(i, 1)
    BY <1>0, Ranges DEF InChan
  <2> QED BY <1>2, <2>1 DEF Inv, CallsCovered
<1> HIDE DEF cmd
<1>4. \/ /\ pending = <<>> /\ answer' = [answer EXCEPT ![cmd.who] = "ok"]
         /\ promised' = promised \cup covers[cmd.who]
         /\ task' \in {"running", "stopping"} /\ UNCHANGED job
      \/ job' = Attempt(cmd) /\ UNCHANGED <<task, answer, promised>>
  BY <1>1, <1>2 DEF ReceiveCall, NothingToWrite, Ack, callVars
<1>5. /\ answer' \in [Barriers -> {"none", "waiting", "ok", "err"}]
      /\ \A b \in Barriers : answer[b] # "none" => answer'[b] # "none"
  BY <1>0, <1>2, <1>4 DEF Types
<1>6. Types'
  <2>1. promised' \subseteq 1..recorded /\ task' \in {"running", "stopping", "gone"}
    BY <1>0, <1>2, <1>4 DEF Types
  <2>2. \A c \in Cmds : Attempt(c) \in Jobs
    BY DEF Attempt, Jobs
  <2>3. job' \in {Idle} \cup Jobs
    BY <1>1, <1>2, <1>4, <2>2
  <2> QED BY <1>0, <1>1, <1>5, <2>1, <2>3, Popped DEF Types
<1>7. PendingInOrder'
  BY <1>1 DEF Inv, PendingInOrder
<1>8. AddsInOrder'
  <2>1. ASSUME NEW k \in DOMAIN chan', chan'[k].op = "add"
        PROVE  /\ lost < chan'[k].from /\ chan'[k].from <= chan'[k].to
               /\ chan'[k].to <= recorded
               /\ \A j \in DOMAIN chan' :
                    j < k /\ chan'[j].op = "add" => chan'[j].to < chan'[k].from
               /\ \A n \in DOMAIN file : file[n] < chan'[k].from
               /\ \A n \in DOMAIN pending : pending[n] < chan'[k].from
    BY <1>0, <1>1, <2>1, Popped DEF Inv, AddsInOrder
  <2> QED BY <1>1, <2>1 DEF AddsInOrder
<1>9. ASSUME NEW i, NEW k \in Nat, InFile(i) \/ InPending(i) \/ InChan(i, k + 1)
      PROVE  InFile(i)' \/ InPending(i)' \/ InChan(i, k)'
  <2>1. CASE InFile(i) \/ InPending(i)
    BY <1>1, <2>1 DEF InFile, InPending
  <2>2. CASE InChan(i, k + 1)
    <3>1. PICK j \in DOMAIN chan :
            j < k + 1 /\ chan[j].op = "add" /\ i \in chan[j].from..chan[j].to
      BY <2>2 DEF InChan
    <3>2. j # 1
      BY <1>2, <3>1 DEF cmd
    <3> QED BY <1>0, <1>1, <3>1, <3>2, StaysQueued
  <2> QED BY <1>9, <2>1, <2>2
<1>10. NoneMissing'
  <2>1. Len(chan') \in Nat /\ Len(chan) + 1 = (Len(chan') + 1) + 1
    BY <1>0, <1>1, Popped, Ranges
  <2>2. ASSUME NEW i \in (lost + 1)..recorded
        PROVE  InFile(i)' \/ InPending(i)' \/ InChan(i, Len(chan) + 1)'
    <3>1. PICK k \in Nat : k = Len(chan') + 1
      BY <2>1
    <3>2. InFile(i) \/ InPending(i) \/ InChan(i, k + 1)
      BY <2>1, <2>2, <3>1 DEF Inv, NoneMissing
    <3>3. InFile(i)' \/ InPending(i)' \/ InChan(i, k)'
      BY <1>9, <3>2
    <3> QED BY <3>1, <3>3 DEF InChan
  <2> QED BY <1>1, <2>2 DEF NoneMissing
<1>11. CallsCovered'
  <2>1. ASSUME NEW k \in DOMAIN chan', chan'[k].op # "add"
        PROVE  /\ answer'[chan'[k].who] # "none"
               /\ \A i \in covers[chan'[k].who] : InFile(i)' \/ InPending(i)' \/ InChan(i, k)'
    <3>1. /\ k + 1 \in DOMAIN chan /\ chan'[k] = chan[k + 1] /\ k \in Nat
          /\ chan'[k].who \in Barriers
      BY <1>0, <1>1, <2>1, Popped, CmdFields
    <3>2. /\ answer[chan'[k].who] # "none"
          /\ \A i \in covers[chan'[k].who] : InFile(i) \/ InPending(i) \/ InChan(i, k + 1)
      BY <2>1, <3>1 DEF Inv, CallsCovered
    <3> QED BY <1>5, <1>9, <3>1, <3>2
  <2> QED BY <1>1, <2>1 DEF CallsCovered
<1>12. JobCovered'
  BY <1>1, <1>3, <1>4 DEF JobCovered, Attempt, InFile, InPending
<1>13. HeaderFirst'
  BY <1>1, <1>4 DEF Inv, HeaderFirst, InFile, Attempt, Idle
<1>14. Kept'
  <2>1. pending = <<>> => \A i : ~InPending(i)
    BY DEF InPending
  <2> QED BY <1>1, <1>3, <1>4, <2>1 DEF Inv, Kept, InFile
<1> QED BY <1>6, <1>7, <1>8, <1>10, <1>11, <1>12, <1>13, <1>14 DEF Inv

(* An attempt that goes on is an attempt for the same command.                 *)
LEMMA GoesOn ==
    ASSUME Types, job # Idle, NEW step \in {"open", "meta", "items"}, NEW r \in BOOLEAN,
           job' = [job EXCEPT !.step = step, !.retry = r] \/ job' = [job EXCEPT !.step = step]
    PROVE  job' \in Jobs /\ job' # Idle /\ job'.cmd = job.cmd /\ job'.step = step
<1>1. job \in Jobs
  BY JobFields
<1>2. job' \in Jobs /\ job'.cmd = job.cmd /\ job'.step = step
  BY <1>1 DEF Jobs
<1>3. job' # Idle
  BY <1>2 DEF Idle
<1> QED BY <1>2, <1>3

(* ensure_writer_open touches no item.                                         *)
LEMMA OpenFileInv ==
    ASSUME Inv, OpenFile
    PROVE  Inv'
<1>1. /\ task = "running" /\ job.step = "open" /\ handle' = TRUE /\ deferred' = FALSE
      /\ exists' = TRUE /\ job' = [job EXCEPT !.step = "meta"]
      /\ UNCHANGED <<recorded, chan, task, meta, pending, file, answer, covers, promised, lost,
                     faults, restarts>>
  BY DEF OpenFile, At, GoTo, callVars, boundVars
<1>2. job # Idle /\ job' \in Jobs /\ job' # Idle /\ job'.cmd = job.cmd /\ job'.step = "meta"
  BY <1>1, JobFields, GoesOn DEF Inv
<1>3. Types'
  BY <1>1, <1>2 DEF Inv, Types
<1>4. PendingInOrder' /\ AddsInOrder'
  BY <1>1 DEF Inv, PendingInOrder, AddsInOrder
<1>5. NoneMissing' /\ CallsCovered'
  BY <1>1 DEF Inv, NoneMissing, CallsCovered, InFile, InPending, InChan
<1>6. JobCovered'
  BY <1>1, <1>2 DEF Inv, JobCovered, InFile, InPending
<1>7. HeaderFirst' /\ Kept'
  BY <1>1, <1>2 DEF Inv, HeaderFirst, Kept, InFile
<1> QED BY <1>3, <1>4, <1>5, <1>6, <1>7 DEF Inv

(* Appending something that is no item keeps the order.                         *)
LEMMA MarkAppended ==
    ASSUME Inv, NEW x \in {Meta} \cup Rests, file' = Append(file, x),
           UNCHANGED <<recorded, lost, pending, chan, covers, promised>>,
           \A b \in Barriers : answer[b] # "none" => answer'[b] # "none"
    PROVE  /\ file' \in Seq(Items \cup {Meta} \cup Rests)
           /\ PendingInOrder' /\ AddsInOrder' /\ NoneMissing' /\ CallsCovered' /\ Kept'
           /\ \A i : InFile(i) => InFile(i)'
           /\ InFile(x)'
           /\ \A n \in DOMAIN file' : file'[n] = x \/ (n \in DOMAIN file /\ file'[n] = file[n])
<1>0. Types
  BY DEF Inv
<1>1. /\ file' \in Seq(Items \cup {Meta} \cup Rests) /\ DOMAIN file = 1..Len(file)
      /\ DOMAIN file' = 1..(Len(file) + 1) /\ Len(file) \in Nat
      /\ \A n \in DOMAIN file : file'[n] = file[n]
      /\ file'[Len(file) + 1] = x
  BY <1>0, Appended DEF Types
<1>2. \A n \in DOMAIN file' : file'[n] = x \/ (n \in DOMAIN file /\ file'[n] = file[n])
  BY <1>1
<1>3. x <= 0 /\ x \in Int
  BY DEF Meta, Rests, Fragment, Torn
<1>4. \A i : InFile(i) => InFile(i)'
  BY <1>1 DEF InFile
<1>5. InFile(x)'
  BY <1>1 DEF InFile
<1>6. PendingInOrder'
  <2>1. \A k \in DOMAIN pending : x < pending[k]
    BY <1>0, <1>3, Ranges
  <2> QED BY <1>2, <2>1 DEF Inv, PendingInOrder
<1>7. AddsInOrder'
  <2>1. ASSUME NEW k \in DOMAIN chan, chan[k].op = "add"
        PROVE  x < chan[k].from
    BY <1>0, <1>3, <2>1, Ranges, CmdFields DEF Inv, AddsInOrder
  <2> QED BY <1>2, <2>1 DEF Inv, AddsInOrder
<1>8. NoneMissing' /\ CallsCovered'
  <2>1. \A i, k : InFile(i) \/ InPending(i) \/ InChan(i, k)
                   => InFile(i)' \/ InPending(i)' \/ InChan(i, k)'
    BY <1>4 DEF InPending, InChan
  <2>2. \A k \in DOMAIN chan : chan[k].op # "add" => chan[k].who \in Barriers
    BY <1>0, CmdFields
  <2> QED BY <2>1, <2>2 DEF Inv, NoneMissing, CallsCovered
<1>9. Kept'
  BY <1>0, <1>2, <1>3, <1>4, Ranges DEF Inv, Kept
<1> QED BY <1>1, <1>2, <1>4, <1>5, <1>6, <1>7, <1>8, <1>9

(* write_session_meta_if_needed: the header is written when no item is there.  *)
LEMMA WriteMetaInv ==
    ASSUME Inv, WriteMeta
    PROVE  Inv'
<1>1. /\ task = "running" /\ job.step = "meta" /\ meta' = FALSE
      /\ job' = [job EXCEPT !.step = "items"]
      /\ file' = IF meta THEN Append(file, Meta) ELSE file
      /\ UNCHANGED <<recorded, chan, task, handle, deferred, pending, exists, answer, covers,
                     promised, lost, faults, restarts>>
  BY DEF WriteMeta, At, GoTo, callVars, boundVars
<1>2. job # Idle /\ job' \in Jobs /\ job' # Idle /\ job'.cmd = job.cmd /\ job'.step = "items"
  BY <1>1, JobFields, GoesOn DEF Inv
<1>3. /\ file' \in Seq(Items \cup {Meta} \cup Rests)
      /\ PendingInOrder' /\ AddsInOrder' /\ NoneMissing' /\ CallsCovered' /\ Kept'
      /\ (\A i : InFile(i) => InFile(i)') /\ InFile(Meta)'
  <2>1. CASE meta
    BY <1>1, <2>1, MarkAppended
  <2>2. CASE ~meta
    <3>1. UNCHANGED file /\ InFile(Meta)
      BY <1>1, <2>2 DEF Inv, HeaderFirst
    <3>2. file' \in Seq(Items \cup {Meta} \cup Rests)
      BY <3>1 DEF Inv, Types
    <3>3. PendingInOrder' /\ AddsInOrder' /\ Kept'
      BY <1>1, <3>1 DEF Inv, PendingInOrder, AddsInOrder, Kept, InFile
    <3>4. NoneMissing' /\ CallsCovered'
      BY <1>1, <3>1 DEF Inv, NoneMissing, CallsCovered, InFile, InPending, InChan
    <3> QED BY <3>1, <3>2, <3>3, <3>4 DEF InFile
  <2> QED BY <2>1, <2>2
<1>4. Types'
  BY <1>1, <1>2, <1>3 DEF Inv, Types
<1>5. JobCovered'
  BY <1>1, <1>2, <1>3 DEF Inv, JobCovered, InPending
<1>6. HeaderFirst'
  BY <1>1, <1>3 DEF HeaderFirst
<1> QED BY <1>3, <1>4, <1>5, <1>6 DEF Inv

(* write_pending_items_once: the first pending item moves to the file.         *)
LEMMA WriteItemInv ==
    ASSUME Inv, WriteItem
    PROVE  Inv'
<1> DEFINE x == pending[1]
<1>0. Types
  BY DEF Inv
<1>1. /\ task = "running" /\ job.step = "items" /\ pending # <<>>
      /\ file' = Append(file, Head(pending)) /\ pending' = Tail(pending)
      /\ UNCHANGED <<recorded, chan, task, job, handle, deferred, meta, exists, answer, covers,
                     promised, lost, faults, restarts>>
  BY DEF WriteItem, At, callVars, boundVars
<1>2. /\ Head(pending) = x /\ 1 \in DOMAIN pending /\ x \in Items
      /\ pending' \in Seq(Items)
      /\ \A k \in DOMAIN pending' : k + 1 \in DOMAIN pending /\ pending'[k] = pending[k + 1]
      /\ \A k \in DOMAIN pending : k # 1 => k - 1 \in DOMAIN pending' /\ pending'[k - 1] = pending[k]
      /\ DOMAIN pending' \subseteq Nat \ {0}
  BY <1>0, <1>1, Tailed DEF Types
<1>3. /\ lost < x /\ x <= recorded /\ x \in Int
      /\ \A k \in DOMAIN pending' : x < pending'[k]
      /\ \A n \in DOMAIN file : file[n] < x
  BY <1>0, <1>2, Ranges DEF Inv, PendingInOrder
<1> HIDE DEF x
<1>4. /\ file' \in Seq(Items \cup {Meta} \cup Rests) /\ DOMAIN file \subseteq DOMAIN file'
      /\ Len(file) + 1 \in DOMAIN file' /\ file'[Len(file) + 1] = x
      /\ \A n \in DOMAIN file : file'[n] = file[n]
      /\ \A n \in DOMAIN file' : file'[n] = x \/ (n \in DOMAIN file /\ file'[n] = file[n])
  <2>1. x \in Items \cup {Meta} \cup Rests
    BY <1>2
  <2> QED BY <1>0, <1>1, <1>2, <2>1, Appended DEF Types
<1>5. \A i : InFile(i) => InFile(i)'
  BY <1>4 DEF InFile
<1>6. \A i : InPending(i) => InFile(i)' \/ InPending(i)'
  <2>1. ASSUME NEW i, NEW k \in DOMAIN pending, pending[k] = i
        PROVE  InFile(i)' \/ InPending(i)'
    <3>1. CASE k = 1
      BY <1>4, <2>1, <3>1 DEF InFile, x
    <3>2. CASE k # 1
      BY <1>2, <2>1, <3>2 DEF InPending
    <3> QED BY <3>1, <3>2
  <2> QED BY <2>1 DEF InPending
<1>7. Types'
  BY <1>0, <1>1, <1>2, <1>4 DEF Types
<1>8. PendingInOrder'
  <2>1. ASSUME NEW k \in DOMAIN pending'
        PROVE  /\ lost < pending'[k] /\ pending'[k] <= recorded
               /\ \A j \in DOMAIN pending' : j < k => pending'[j] < pending'[k]
               /\ \A n \in DOMAIN file : file[n] < pending'[k]
    BY <1>2 DEF Inv, PendingInOrder
  <2> QED BY <1>1, <1>3, <1>4, <2>1 DEF PendingInOrder
<1>9. AddsInOrder'
  <2>1. ASSUME NEW k \in DOMAIN chan, chan[k].op = "add"
        PROVE  /\ x < chan[k].from
               /\ \A n \in DOMAIN pending' : pending'[n] < chan[k].from
    BY <1>2, <2>1 DEF Inv, AddsInOrder, x
  <2> QED BY <1>1, <1>4, <2>1 DEF Inv, AddsInOrder
<1>10. NoneMissing' /\ CallsCovered'
  <2>1. \A i, k : InFile(i) \/ InPending(i) \/ InChan(i, k)
                   => InFile(i)' \/ InPending(i)' \/ InChan(i, k)'
    BY <1>1, <1>5, <1>6 DEF InChan
  <2> QED BY <1>1, <2>1 DEF Inv, NoneMissing, CallsCovered
<1>11. JobCovered'
  BY <1>1, <1>5, <1>6 DEF Inv, JobCovered
<1>12. HeaderFirst'
  BY <1>1, <1>5 DEF Inv, HeaderFirst
<1>13. Kept'
  BY <1>1, <1>3, <1>4, <1>5 DEF Inv, Kept
<1> QED BY <1>7, <1>8, <1>9, <1>10, <1>11, <1>12, <1>13 DEF Inv

(* The attempt is over, with everything in the file: the barrier it was for    *)
(* may report all it covers.                                                   *)
LEMMA AttemptDoneInv ==
    ASSUME Inv, AttemptDone
    PROVE  Inv'
<1>0. Types
  BY DEF Inv
<1>1. /\ task = "running" /\ job.step = "items" /\ pending = <<>> /\ job' = Idle
      /\ task' \in {"running", "stopping"}
      /\ UNCHANGED <<recorded, chan, handle, deferred, meta, pending, exists, file, covers,
                     lost, faults, restarts>>
  BY DEF AttemptDone, At, Ack, callVars, writerVars, fileVars, boundVars
<1>2. job # Idle /\ (job.cmd.op # "add" => job.cmd.who \in Barriers)
  BY <1>0, <1>1, JobFields
<1>3. \/ UNCHANGED <<answer, promised>>
      \/ /\ job.cmd.op # "add" /\ answer' = [answer EXCEPT ![job.cmd.who] = "ok"]
         /\ promised' = promised \cup covers[job.cmd.who]
  BY DEF AttemptDone, Ack, callVars
<1>4. /\ answer' \in [Barriers -> {"none", "waiting", "ok", "err"}]
      /\ \A b \in Barriers : answer[b] # "none" => answer'[b] # "none"
  BY <1>0, <1>2, <1>3 DEF Types
<1>5. Types'
  <2>1. promised' \subseteq 1..recorded
    BY <1>0, <1>2, <1>3 DEF Types
  <2> QED BY <1>0, <1>1, <1>4, <2>1 DEF Types
<1>6. PendingInOrder' /\ AddsInOrder' /\ NoneMissing'
  BY <1>1 DEF Inv, PendingInOrder, AddsInOrder, NoneMissing, InFile, InPending, InChan
<1>7. CallsCovered'
  <2>1. \A k \in DOMAIN chan : chan[k].op # "add" => chan[k].who \in Barriers
    BY <1>0, CmdFields
  <2> QED BY <1>1, <1>4, <2>1 DEF Inv, CallsCovered, InFile, InPending, InChan
<1>8. JobCovered'
  BY <1>1 DEF JobCovered
<1>9. HeaderFirst'
  BY <1>1 DEF Inv, HeaderFirst, InFile, Idle
<1>10. Kept'
  <2>1. \A i : ~InPending(i)
    BY <1>1 DEF InPending
  <2>2. \A i \in promised' : InFile(i)
    BY <1>2, <1>3, <2>1 DEF Inv, JobCovered, Kept
  <2> QED BY <1>1, <2>2 DEF Inv, Kept, InFile
<1> QED BY <1>5, <1>6, <1>7, <1>8, <1>9, <1>10 DEF Inv

(* A failed or interrupted write leaves the file, or a fragment at its end.    *)
LEMMA LeftInv ==
    ASSUME Inv, file' \in Left,
           UNCHANGED <<recorded, lost, pending, chan, covers, promised>>,
           \A b \in Barriers : answer[b] # "none" => answer'[b] # "none"
    PROVE  /\ file' \in Seq(Items \cup {Meta} \cup Rests)
           /\ PendingInOrder' /\ AddsInOrder' /\ NoneMissing' /\ CallsCovered' /\ Kept'
           /\ \A i : InFile(i) => InFile(i)'
           /\ \A n \in DOMAIN file' :
                file'[n] \in Rests \/ (n \in DOMAIN file /\ file'[n] = file[n])
<1>1. ASSUME NEW x \in Rests, file' = Append(file, x)
      PROVE  /\ file' \in Seq(Items \cup {Meta} \cup Rests)
             /\ PendingInOrder' /\ AddsInOrder' /\ NoneMissing' /\ CallsCovered' /\ Kept'
             /\ \A i : InFile(i) => InFile(i)'
             /\ \A n \in DOMAIN file' :
                  file'[n] \in Rests \/ (n \in DOMAIN file /\ file'[n] = file[n])
  <2>1. x \in {Meta} \cup Rests
    OBVIOUS
  <2> QED BY <1>1, <2>1, MarkAppended
<1>2. CASE UNCHANGED file
  <2>1. file' \in Seq(Items \cup {Meta} \cup Rests)
    BY <1>2 DEF Inv, Types
  <2>2. PendingInOrder' /\ AddsInOrder' /\ Kept'
    BY <1>2 DEF Inv, PendingInOrder, AddsInOrder, Kept, InFile
  <2>3. \A k \in DOMAIN chan : chan[k].op # "add" => chan[k].who \in Barriers
    BY CmdFields DEF Inv
  <2>4. NoneMissing' /\ CallsCovered'
    BY <1>2, <2>3 DEF Inv, NoneMissing, CallsCovered, InFile, InPending, InChan
  <2> QED BY <1>2, <2>1, <2>2, <2>4 DEF InFile
<1> QED BY <1>1, <1>2 DEF Left

(* An I/O error loses nothing: what was being written is still pending.        *)
LEMMA IoErrorInv ==
    ASSUME Inv, IoError
    PROVE  Inv'
<1>0. Types
  BY DEF Inv
<1>1. /\ task = "running" /\ job.step \in {"open", "meta", "items"} /\ file' \in Left
      /\ handle' = FALSE /\ faults < MaxFaults /\ faults' = faults + 1
      /\ UNCHANGED <<recorded, chan, task, deferred, meta, pending, exists, covers, promised,
                     lost, restarts>>
  BY DEF IoError, At, Writing, Unwritten, Ack, callVars
<1>2. job # Idle /\ (job.cmd.op # "add" => job.cmd.who \in Barriers)
  BY <1>0, <1>1, JobFields
<1>3. \/ /\ job' = [job EXCEPT !.step = "open", !.retry = TRUE]
         /\ UNCHANGED answer
      \/ job' = Idle /\ UNCHANGED answer
      \/ /\ job' = Idle /\ job.cmd.op # "add"
         /\ answer' = [answer EXCEPT ![job.cmd.who] = "err"]
  BY DEF IoError, Ack, callVars
<1>4. /\ answer' \in [Barriers -> {"none", "waiting", "ok", "err"}]
      /\ \A b \in Barriers : answer[b] # "none" => answer'[b] # "none"
  BY <1>0, <1>2, <1>3 DEF Types
<1>5. /\ file' \in Seq(Items \cup {Meta} \cup Rests)
      /\ PendingInOrder' /\ AddsInOrder' /\ NoneMissing' /\ CallsCovered' /\ Kept'
      /\ \A i : InFile(i) => InFile(i)'
      /\ \A n \in DOMAIN file' :
           file'[n] \in Rests \/ (n \in DOMAIN file /\ file'[n] = file[n])
  BY <1>1, <1>4, LeftInv
<1>6. \/ job' = Idle
      \/ /\ job' \in Jobs /\ job' # Idle /\ job'.cmd = job.cmd /\ job'.step = "open"
         /\ UNCHANGED answer
  BY <1>0, <1>2, <1>3, GoesOn
<1>7. Types'
  <2>1. faults' \in 0..MaxFaults
    BY <1>0, <1>1, WriterAssumption DEF Types
  <2> QED BY <1>0, <1>1, <1>4, <1>5, <1>6, <2>1 DEF Types
<1>8. JobCovered'
  BY <1>1, <1>2, <1>5, <1>6 DEF Inv, JobCovered, InPending
<1>9. HeaderFirst'
  <2>1. job'.step # "items"
    BY <1>6 DEF Idle
  <2> QED BY <1>1, <1>5, <2>1 DEF Inv, HeaderFirst
<1> QED BY <1>5, <1>7, <1>8, <1>9 DEF Inv

(* The writer goes away: what is not in the file is lost, and nothing that was *)
(* promised is among it.                                                       *)
LEMMA GoneInv ==
    ASSUME Inv, Gone, file' \in Left
    PROVE  Inv'
<1>0. Types
  BY DEF Inv
<1>1. /\ task' = "gone" /\ job' = Idle /\ chan' = <<>> /\ pending' = <<>>
      /\ handle' = FALSE /\ deferred' = FALSE /\ meta' = FALSE /\ lost' = recorded
      /\ answer' = [b \in Barriers |-> Abandoned(b)]
      /\ UNCHANGED <<recorded, exists, covers, promised, faults, restarts>>
  BY DEF Gone, boundVars
<1>2. /\ file' \in Seq(Items \cup {Meta} \cup Rests)
      /\ \A i : InFile(i) => InFile(i)'
      /\ \A n \in DOMAIN file' :
           file'[n] \in Rests \/ (n \in DOMAIN file /\ file'[n] = file[n])
  <2>1. CASE UNCHANGED file
    BY <1>0, <2>1 DEF Types, InFile
  <2>2. ASSUME NEW x \in Rests, file' = Append(file, x)
        PROVE  /\ file' \in Seq(Items \cup {Meta} \cup Rests)
               /\ \A i : InFile(i) => InFile(i)'
               /\ \A n \in DOMAIN file' :
                    file'[n] \in Rests \/ (n \in DOMAIN file /\ file'[n] = file[n])
    <3>1. x \in Items \cup {Meta} \cup Rests
      OBVIOUS
    <3>2. /\ file' \in Seq(Items \cup {Meta} \cup Rests) /\ DOMAIN file = 1..Len(file)
          /\ DOMAIN file' = 1..(Len(file) + 1) /\ Len(file) \in Nat
          /\ \A n \in DOMAIN file : file'[n] = file[n]
          /\ file'[Len(file) + 1] = x
      BY <1>0, <2>2, <3>1, Appended DEF Types
    <3> QED BY <3>2 DEF InFile
  <2> QED BY <2>1, <2>2 DEF Left
<1>3. Types'
  <2>1. answer' \in [Barriers -> {"none", "waiting", "ok", "err"}]
    BY <1>0, <1>1 DEF Types, Abandoned
  <2>2. lost' \in 0..recorded'
    BY <1>0, <1>1, Ranges
  <2>3. chan' \in Seq(Cmds) /\ pending' \in Seq(Items)
    BY <1>1
  <2> QED BY <1>0, <1>1, <1>2, <2>1, <2>2, <2>3 DEF Types
<1>4. DOMAIN chan' = {} /\ DOMAIN pending' = {}
  BY <1>1
<1>5. PendingInOrder' /\ AddsInOrder' /\ CallsCovered'
  BY <1>4 DEF PendingInOrder, AddsInOrder, CallsCovered
<1>6. NoneMissing'
  <2>1. (lost' + 1)..recorded' = {}
    BY <1>0, <1>1, Ranges
  <2> QED BY <2>1 DEF NoneMissing
<1>7. JobCovered' /\ HeaderFirst'
  BY <1>1 DEF JobCovered, HeaderFirst, Idle
<1>8. Kept'
  <2>1. \A x \in Rests : x <= recorded
    BY <1>0, Ranges DEF Rests, Fragment, Torn
  <2> QED BY <1>1, <1>2, <2>1 DEF Inv, Kept
<1> QED BY <1>3, <1>5, <1>6, <1>7, <1>8 DEF Inv

(* A resumed session finds the header that its file must have.                 *)
LEMMA ResumeInv ==
    ASSUME Inv, Resume
    PROVE  Inv'
<1>1. /\ task = "gone" /\ Meta \in Loaded /\ task' = "running" /\ handle' = TRUE
      /\ restarts < MaxRestarts /\ restarts' = restarts + 1
      /\ UNCHANGED <<recorded, chan, job, deferred, meta, pending, exists, file, answer, covers,
                     promised, lost, faults>>
  BY DEF Resume, fileVars, callVars
<1>2. InFile(Meta)
  BY <1>1 DEF Loaded, InFile
<1>3. job = Idle
  BY <1>1 DEF Inv, JobCovered
<1>4. Types'
  <2>1. restarts' \in 0..MaxRestarts
    BY <1>1, WriterAssumption DEF Inv, Types
  <2> QED BY <1>1, <2>1 DEF Inv, Types
<1>5. PendingInOrder' /\ AddsInOrder'
  BY <1>1 DEF Inv, PendingInOrder, AddsInOrder
<1>6. NoneMissing' /\ CallsCovered'
  BY <1>1 DEF Inv, NoneMissing, CallsCovered, InFile, InPending, InChan
<1>7. JobCovered' /\ HeaderFirst' /\ Kept'
  BY <1>1, <1>2, <1>3 DEF Inv, JobCovered, HeaderFirst, Kept, InFile
<1> QED BY <1>4, <1>5, <1>6, <1>7 DEF Inv

(* The invariant holds of a new session.                                       *)
LEMMA InitInv ==
    ASSUME Init
    PROVE  Inv
<1>1. /\ recorded = 0 /\ chan = <<>> /\ task = "running" /\ job = Idle
      /\ handle = FALSE /\ deferred = TRUE /\ meta = TRUE /\ pending = <<>>
      /\ exists = FALSE /\ file = <<>> /\ promised = {} /\ lost = 0 /\ faults = 0
      /\ restarts = 0
      /\ answer = [b \in Barriers |-> "none"] /\ covers = [b \in Barriers |-> {}]
  BY DEF Init
<1>2. Types
  <2>1. recorded \in 0..MaxItems /\ faults \in 0..MaxFaults /\ restarts \in 0..MaxRestarts
        /\ lost \in 0..recorded
    BY <1>1, WriterAssumption
  <2>2. chan \in Seq(Cmds) /\ pending \in Seq(Items)
        /\ file \in Seq(Items \cup {Meta} \cup Rests)
    BY <1>1
  <2> QED BY <1>1, <2>1, <2>2 DEF Types
<1>3. DOMAIN chan = {} /\ DOMAIN pending = {} /\ DOMAIN file = {}
  BY <1>1
<1>4. PendingInOrder /\ AddsInOrder /\ CallsCovered /\ JobCovered
  BY <1>1, <1>3 DEF PendingInOrder, AddsInOrder, CallsCovered, JobCovered
<1>5. NoneMissing
  <2>1. (lost + 1)..recorded = {}
    BY <1>1
  <2> QED BY <2>1 DEF NoneMissing
<1>6. HeaderFirst /\ Kept
  BY <1>1, <1>3 DEF HeaderFirst, Kept, Idle
<1> QED BY <1>2, <1>4, <1>5, <1>6 DEF Inv

(* Every step keeps the invariant.                                             *)
LEMMA StepInv ==
    ASSUME Inv, [Next]_vars
    PROVE  Inv'
<1>1. CASE \E n \in 1..2 : RecordItems(n)
  BY <1>1, RecordInv
<1>2. CASE \E b \in Barriers, op \in {"persist", "flush", "shutdown"} : Barrier(b, op)
  BY <1>2, BarrierInv
<1>3. CASE ReceiveAdd \/ ReceiveCall \/ OpenFile \/ WriteMeta \/ WriteItem \/ AttemptDone
  BY <1>3, ReceiveAddInv, ReceiveCallInv, OpenFileInv, WriteMetaInv, WriteItemInv,
     AttemptDoneInv
<1>4. CASE Stop \/ Crash
  BY <1>4, GoneInv DEF Stop, Crash, Left
<1>5. CASE IoError \/ Resume
  BY <1>5, IoErrorInv, ResumeInv
<1>6. CASE UNCHANGED vars
  <2>1. UNCHANGED <<recorded, chan, task, job, handle, deferred, meta, pending, exists, file,
                    answer, covers, promised, lost, faults, restarts>>
    BY <1>6 DEF vars, writerVars, fileVars, callVars, boundVars
  <2>2. Types' /\ PendingInOrder' /\ AddsInOrder' /\ HeaderFirst' /\ Kept'
    BY <2>1 DEF Inv, Types, PendingInOrder, AddsInOrder, HeaderFirst, Kept, InFile
  <2>3. NoneMissing' /\ CallsCovered' /\ JobCovered'
    BY <2>1 DEF Inv, NoneMissing, CallsCovered, JobCovered, InFile, InPending, InChan
  <2> QED BY <2>2, <2>3 DEF Inv
<1> QED BY <1>1, <1>2, <1>3, <1>4, <1>5, <1>6 DEF Next, WriterStep

(* Items move from the queue through the pending ones to the file in the order *)
(* in which they were recorded, and none goes missing while a writer lives.    *)
THEOREM Invariance == Spec => []Inv
  BY InitInv, StepInv, PTL DEF Spec

(* Every variable of the recorder keeps its type, whatever fails.              *)
THEOREM TypeCorrect == Spec => []TypeOK
<1>1. Inv => TypeOK
  <2> SUFFICES ASSUME Inv PROVE TypeOK
    OBVIOUS
  <2>1. Types
    BY DEF Inv
  <2>2. \A n \in DOMAIN pending : pending[n] \in Items
    BY <2>1, ElementOfSeq, LenProperties DEF Types
  <2>3. \A n \in DOMAIN file : file[n] \in Items \cup {Meta} \cup Rests
    BY <2>1, ElementOfSeq, LenProperties DEF Types
  <2> QED BY <2>1, <2>2, <2>3 DEF Types, TypeOK
<1> QED BY <1>1, Invariance, PTL

(* load_rollout_items gives back every item a barrier reported as Ok, except   *)
(* one glued to the beginning of a line that a failed write had left, as long  *)
(* as no such rest is cut inside a character: then it gives back nothing.      *)
THEOREM PromisedIsLoaded == Spec => []LostOnlyBehindFragment
<1>1. Inv => LostOnlyBehindFragment
  <2> SUFFICES ASSUME Inv, Readable, NEW i \in promised \ Loaded
               PROVE  \E n \in DOMAIN file : file[n] = i /\ n > 1 /\ file[n - 1] = Fragment
    BY DEF LostOnlyBehindFragment
  <2>1. PICK n \in DOMAIN file : file[n] = i
    BY DEF Inv, Kept, InFile
  <2>2. i \notin Rests /\ ~Parses(n)
    BY <2>1, Ranges DEF Inv, Types, Loaded, Rests, Fragment, Torn
  <2>3. n > 1 /\ file[n - 1] \in Rests
    BY <2>1, <2>2 DEF Parses
  <2>4. n - 1 \in DOMAIN file
    BY <2>3, Ranges DEF Inv
  <2> QED BY <2>1, <2>3, <2>4 DEF Readable, Rests
<1> QED BY <1>1, Invariance, PTL

----------------------------------------------------------------------------
(* The refinement: DurableLog's store is what lies at which place of the file.  *)

Headers == {n \in DOMAIN file : file[n] = Meta}
Places  == {n \in DOMAIN file : file[n] \in Items}
Written == [n \in Places |-> file[n]]

(* The store has an item when the file does.                                    *)
LEMMA StoreHas ==
    ASSUME NEW i \in Items
    PROVE  Log!Has(i) <=> InFile(i)
  BY DEF Log!Has, InFile

(* The rest of a line leaves the store as it is.                                *)
LEMMA FragmentUnseen ==
    ASSUME Inv, file' \in Left
    PROVE  UNCHANGED <<Headers, Written>>
<1>1. CASE UNCHANGED file
  BY <1>1 DEF Headers, Places, Written
<1>2. ASSUME NEW x \in Rests, file' = Append(file, x)
      PROVE  UNCHANGED <<Headers, Written>>
  <2>0. x \in Items \cup {Meta} \cup Rests
    OBVIOUS
  <2>1. /\ DOMAIN file = 1..Len(file) /\ DOMAIN file' = 1..(Len(file) + 1) /\ Len(file) \in Nat
        /\ \A n \in DOMAIN file : file'[n] = file[n]
        /\ file'[Len(file) + 1] = x
    BY <1>2, <2>0, Appended DEF Inv, Types
  <2>2. x # Meta /\ x \notin Items
    BY DEF Rests, Fragment, Torn, Meta, Items
  <2>3. Headers' = Headers /\ Places' = Places
    BY <2>1, <2>2 DEF Headers, Places
  <2>4. \A n \in Places : file'[n] = file[n]
    BY <2>1 DEF Places
  <2> QED BY <2>3, <2>4 DEF Written
<1> QED BY <1>1, <1>2 DEF Left

(* Steps that touch nothing of the log.                                         *)
LEMMA LogStutter ==
    ASSUME UNCHANGED <<recorded, Headers, Written, lost, promised>>
    PROVE  UNCHANGED Log!vars
  BY DEF Headers, Places, Written, Log!vars

(* The first line of a new file is the log's header.                            *)
LEMMA LogOpen ==
    ASSUME Inv, WriteMeta, meta
    PROVE  Log!Next
<1> DEFINE l == Len(file) + 1
<1>1. file' = Append(file, Meta) /\ UNCHANGED <<recorded, lost, promised>>
  BY DEF WriteMeta
<1>2. /\ DOMAIN file = 1..Len(file) /\ DOMAIN file' = 1..l /\ Len(file) \in Nat
      /\ \A n \in DOMAIN file : file'[n] = file[n]
      /\ file'[l] = Meta
  BY <1>1, Appended DEF Inv, Types
<1>3. \A n \in DOMAIN file : file[n] \in Rests
  BY DEF Inv, HeaderFirst
<1>4. /\ \A x \in Rests : x # Meta /\ x \notin Items
      /\ Meta \notin Items
  BY DEF Rests, Fragment, Torn, Meta, Items
<1>5. Headers = {} /\ Places = {} /\ Headers' = {l} /\ Places' = {}
  BY <1>2, <1>3, <1>4 DEF Headers, Places
<1>6. Written = [n \in {} |-> 0] /\ UNCHANGED Written
  BY <1>5 DEF Written
<1>7. PICK n : n = l
  OBVIOUS
<1>8. Log!Open(n) /\ n \in Headers'
  BY <1>1, <1>2, <1>5, <1>6, <1>7 DEF Log!Open, Headers, Places, Written
<1>9. \E m \in Headers' : Log!Open(m)
  BY <1>8
<1> QED BY <1>9 DEF Log!Next, Headers

(* The next line of the file is the log's next item.                            *)
LEMMA LogStore ==
    ASSUME Inv, WriteItem
    PROVE  Log!Next
<1> DEFINE l == Len(file) + 1
           x == pending[1]
<1>0. Types
  BY DEF Inv
<1>1. /\ task = "running" /\ job.step = "items" /\ pending # <<>>
      /\ file' = Append(file, Head(pending)) /\ UNCHANGED <<recorded, lost, promised>>
  BY DEF WriteItem, At
<1>2. Head(pending) = x /\ 1 \in DOMAIN pending /\ x \in Items
  BY <1>0, <1>1, Tailed DEF Types
<1>3. /\ lost < x /\ x <= recorded /\ x \in Int
      /\ \A n \in DOMAIN file : file[n] < x
      /\ \A k \in DOMAIN pending : x <= pending[k]
  <2>1. ASSUME NEW k \in DOMAIN pending
        PROVE  x <= pending[k]
    <3>1. k = 1 \/ 1 < k
      BY <1>0, Ranges
    <3>2. x \in Int /\ pending[k] \in Int
      BY <1>0, <1>2, Ranges
    <3>3. 1 < k => x < pending[k]
      BY <1>2 DEF Inv, PendingInOrder
    <3> QED BY <3>1, <3>2, <3>3
  <2> QED BY <1>0, <1>2, <2>1, Ranges DEF Inv, PendingInOrder
<1>4. \A k \in DOMAIN chan : chan[k].op = "add" => x < chan[k].from
  BY <1>2 DEF Inv, AddsInOrder
<1>5. ASSUME NEW j \in (lost + 1)..(x - 1)
      PROVE  Log!Has(j)
  <2>1. j \in (lost + 1)..recorded /\ j \in Items /\ j < x /\ j \in Int
    BY <1>0, <1>3, Ranges DEF Items
  <2>2. ~InPending(j)
    BY <1>0, <1>3, <2>1, Ranges DEF InPending
  <2>3. ASSUME NEW k \in DOMAIN chan, chan[k].op = "add"
        PROVE  j \notin chan[k].from..chan[k].to
    BY <1>0, <1>3, <1>4, <2>1, <2>3, CmdFields
  <2>4. InFile(j)
    BY <2>1, <2>2, <2>3 DEF Inv, NoneMissing, InChan
  <2> QED BY <2>1, <2>4, StoreHas
<1> HIDE DEF x
<1>6. /\ DOMAIN file = 1..Len(file) /\ DOMAIN file' = 1..l /\ Len(file) \in Nat
      /\ \A n \in DOMAIN file : file'[n] = file[n]
      /\ file'[l] = x
  <2>1. x \in Items \cup {Meta} \cup Rests
    BY <1>2
  <2> QED BY <1>0, <1>1, <1>2, <2>1, Appended DEF Types
<1>7. Headers # {}
  <2>1. job # Idle /\ ~meta /\ task # "gone"
    BY <1>0, <1>1, JobFields DEF Inv, HeaderFirst
  <2> QED BY <2>1 DEF Inv, HeaderFirst, InFile, Headers
<1>8. Meta \notin Items
  BY DEF Meta, Items
<1>9. Headers' = Headers /\ Places' = Places \cup {l}
  BY <1>2, <1>6, <1>8 DEF Headers, Places
<1>10. Written' = [m \in Places \cup {l} |-> IF m = l THEN x ELSE Written[m]]
  <2>1. \A m \in Places \cup {l} : file'[m] = IF m = l THEN x ELSE Written[m]
    BY <1>6 DEF Places, Written
  <2> QED BY <1>9, <2>1 DEF Written
<1>11. \A m \in Headers \cup Places : m < l
  BY <1>6 DEF Headers, Places
<1>12. \A m \in Places : Written[m] < x
  BY <1>3 DEF Places, Written
<1>13. x \in (lost + 1)..recorded /\ l \in Nat
  BY <1>0, <1>3, <1>6, Ranges
<1>14. l \in Places' /\ Written'[l] = x /\ DOMAIN Written = Places /\ DOMAIN Written' = Places'
  BY <1>9, <1>10 DEF Written
<1>15. PICK i, n : i = x /\ n = l
  OBVIOUS
<1>16. Log!Store(i, n) /\ n \in DOMAIN Written' /\ Written'[n] = i
  BY <1>1, <1>5, <1>7, <1>9, <1>10, <1>11, <1>12, <1>13, <1>14, <1>15
     DEF Log!Store, Log!AtEnd, Headers, Places, Written
<1>17. \E m \in DOMAIN Written' : Log!Store(Written'[m], m)
  BY <1>16
<1> QED BY <1>17 DEF Log!Next, Places, Written

(* What is reported is stored.                                                  *)
LEMMA LogPromise ==
    ASSUME Inv, Inv', UNCHANGED <<recorded, file, lost>>, promised \subseteq promised'
    PROVE  Log!Next
<1>1. promised' \subseteq Items
  BY WriterAssumption DEF Inv, Types, Items
<1>2. \A i \in promised' : InFile(i)
  BY DEF Inv, Kept, InFile
<1>3. \A i \in promised' : Log!Has(i)
  BY <1>1, <1>2, StoreHas
<1> QED BY <1>3 DEF Log!Next, Log!Promise

(* Each step of the recorder is a step of the log, or none.                     *)
LEMMA LogStep ==
    ASSUME Inv, Inv', [Next]_vars
    PROVE  [Log!Next]_Log!vars
<1>1. ASSUME NEW n \in 1..2, RecordItems(n) PROVE Log!Next
  <2>1. recorded' \in Nat /\ recorded' > recorded /\ UNCHANGED <<file, lost, promised>>
    BY <1>1, Ranges DEF Inv, RecordItems, fileVars
  <2> QED BY <2>1 DEF Log!Next, Log!Record
<1>2. ASSUME UNCHANGED <<recorded, file, lost, promised>> PROVE UNCHANGED Log!vars
  BY <1>2, LogStutter DEF Headers, Places, Written
<1>3. ASSUME NEW b \in Barriers, NEW op \in {"persist", "flush", "shutdown"}, Barrier(b, op)
      PROVE  UNCHANGED Log!vars
  BY <1>2, <1>3 DEF Barrier, fileVars
<1>4. ASSUME ReceiveAdd \/ OpenFile \/ Resume PROVE UNCHANGED Log!vars
  BY <1>2, <1>4 DEF ReceiveAdd, OpenFile, Resume, fileVars
<1>5. ASSUME ReceiveCall \/ AttemptDone PROVE Log!Next
  <2>1. UNCHANGED <<recorded, file, lost>> /\ promised \subseteq promised'
    BY <1>5 DEF ReceiveCall, AttemptDone, Ack, fileVars
  <2> QED BY <2>1, LogPromise
<1>6. ASSUME WriteMeta, ~meta PROVE UNCHANGED Log!vars
  BY <1>2, <1>6 DEF WriteMeta
<1>7. ASSUME IoError PROVE UNCHANGED Log!vars
  <2>1. file' \in Left /\ UNCHANGED <<recorded, lost, promised>>
    BY <1>7 DEF IoError, Ack
  <2> QED BY <2>1, FragmentUnseen, LogStutter
<1>8. ASSUME Stop \/ Crash PROVE Log!Next
  <2>1. file' \in Left /\ lost' = recorded /\ UNCHANGED <<recorded, promised>>
    BY <1>8 DEF Stop, Crash, Gone, Left
  <2>2. UNCHANGED <<Headers, Written>>
    BY <2>1, FragmentUnseen
  <2> QED BY <2>1, <2>2 DEF Log!Next, Log!Lose, Headers, Places, Written
<1>9. CASE UNCHANGED vars
  BY <1>2, <1>9 DEF vars, fileVars
<1>10. CASE Next
  BY <1>1, <1>3, <1>4, <1>5, <1>6, <1>7, <1>8, <1>10, LogOpen, LogStore DEF Next, WriterStep
<1> QED BY <1>9, <1>10

(* The rollout file is a durable log: one header before all items; each item    *)
(* stored once and in the order recorded, across write errors, retries, crashes *)
(* and resumes; nothing reported that is not stored; nothing skipped while a    *)
(* writer lives.                                                                *)
THEOREM Refinement == Spec => WritesLog
<1>1. Init => Log!Init
  <2> SUFFICES ASSUME Init PROVE Log!Init
    OBVIOUS
  <2>1. recorded = 0 /\ lost = 0 /\ promised = {} /\ DOMAIN file = {}
    BY DEF Init
  <2> QED BY <2>1 DEF Log!Init
<1>2. Inv /\ Inv' /\ [Next]_vars => [Log!Next]_Log!vars
  BY LogStep
<1> QED BY <1>1, <1>2, Invariance, PTL DEF Spec, WritesLog, Log!Spec

=============================================================================
