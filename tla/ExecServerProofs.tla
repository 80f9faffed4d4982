-------------------------- MODULE ExecServerProofs --------------------------
(***************************************************************************)
(* Proofs about the exec server.  For any commands, output and schedule    *)
(* the client publishes the history of each command in order and the       *)
(* reader misses nothing that was there when it asked (ExecEvents); for    *)
(* any connections and sessions nobody loses a session it serves and       *)
(* notifications go to nobody else (ExecSessions); and the second gives    *)
(* what the first assumes of its session.                                  *)
(***************************************************************************)
EXTENDS ExecEvents, ExecSessions, TLAPS, FiniteSetTheorems, WellFoundedInduction

\* The kinds of events, where a task can be, and what the client and the reader
\* keep of a command.
Kinds    == {"output", "exit", "closed"}
Steps    == {"off", "wait", "tell", "finish", "close", "tell_closed", "done"}
Followed == [route : BOOLEAN, seen : Nat, early : SUBSET Nat, published : Seq(Nat),
             failed : BOOLEAN, wake : BOOLEAN]
Readers  == [step : {"off", "ask", "wait", "closed", "failed", "hung"}, after : Nat,
             got : SUBSET Nat, due : SUBSET Nat]

\* The full types of the variables.
Typed ==
    /\ up \in BOOLEAN /\ gone \in BOOLEAN
    /\ entry \in [Procs -> {"absent", "starting", "running"}]
    /\ log \in [Procs -> Seq(Kinds)]
    /\ streams \in [Procs -> Nat]
    /\ task \in [Procs -> [Tasks -> [step : Steps, seq : Nat]]]
    /\ outgoing \in Seq([proc : Procs, seq : Nat])
    /\ client \in [Procs -> Followed]
    /\ reader \in [Procs -> Readers]

\* An output stream that has not been finished.
Open(p, t) == task[p][t].step \in {"wait", "tell", "finish"}

\* What open_streams counts.
OpenStreams(p) == (IF Open(p, "stdout") THEN 1 ELSE 0) + (IF Open(p, "stderr") THEN 1 ELSE 0)

\* No child was started for p, so it has no history and no tasks.
Unspawned(p) == log[p] = <<>> /\ \A t \in Tasks : task[p][t].step = "off"

\* A command that runs has its tasks, and open_streams counts the streams that
\* are not finished; one that does not run yet has no history.  The exit is told
\* by the task that waits for it, and after the close no stream is open.
TasksOf(p) ==
    /\ entry[p] = "running" =>
        streams[p] = OpenStreams(p) /\ \A t \in Tasks : task[p][t].step # "off"
    /\ entry[p] = "starting" \/ (entry[p] = "absent" /\ log[p] = <<>> /\ up) => Unspawned(p)
    /\ streams[p] <= 2
    /\ task[p]["exit"].step # "finish"
    /\ task[p]["exit"].step \in {"off", "wait"} => ~Logged(p, "exit")
    /\ Logged(p, "closed") =>
        /\ \A t \in Outputs : task[p][t].step \in {"close", "tell_closed", "done"}
        /\ Logged(p, "exit")

\* Every command's tasks are as its entry says.
TaskInv == \A p \in Procs : TasksOf(p)

\* The numbers that tasks and notifications carry were given out.
SeqInv ==
    /\ \A p \in Procs, t \in Tasks :
        /\ task[p][t].seq <= Len(log[p])
        /\ task[p][t].step \in {"tell", "tell_closed"} => task[p][t].seq > 0
    /\ \A n \in DOMAIN outgoing : outgoing[n].seq \in 1..Len(log[outgoing[n].proc])

\* The client has published the history up to a point, and holds back only
\* what lies beyond the gap that follows.
ClientInv ==
    \A p \in Procs :
        /\ client[p].seen <= Len(log[p])
        /\ client[p].published = [i \in 1..client[p].seen |-> i]
        /\ client[p].early \subseteq (client[p].seen + 2)..Len(log[p])

\* The reader has been given what lay in the buffer when it asked, and whatever
\* lies there now up to its after_seq.
ReaderInv ==
    \A p \in Procs :
        /\ reader[p].after <= Len(log[p])
        /\ reader[p].due \subseteq reader[p].got /\ reader[p].got \subseteq Chunks(p)
        /\ \A n \in RetainedOutput(p) : n <= reader[p].after => n \in reader[p].got

\* The inductive invariant of the events.
Inv == Typed /\ TaskInv /\ SeqInv /\ ClientInv /\ ReaderInv

----------------------------------------------------------------------------
(* Least and greatest numbers *)

\* A set of natural numbers that has a member has a least one.
LEMMA Least ==
    ASSUME NEW S \in SUBSET Nat, S # {}
    PROVE  \E n \in S : \A m \in S : n <= m
  <1>1. PICK n \in S : \A m \in S : ~(<<m, n>> \in OpToRel(<, Nat))
    BY NatLessThanWellFounded, WFMin, Zenon
  <1>2. ASSUME NEW m \in S PROVE n <= m
    <2>1. m \in Nat /\ n \in Nat
      OBVIOUS
    <2>2. m < n => <<m, n>> \in {ss \in Nat \X Nat : ss[1] < ss[2]}
      BY <2>1
    <2>3. {ss \in Nat \X Nat : ss[1] < ss[2]} = OpToRel(<, Nat)
      BY Zenon DEF OpToRel
    <2>4. ~(m < n)
      BY <1>1, <2>2, <2>3, Zenon
    <2> QED
      BY <2>1, <2>4
  <1> QED
    BY <1>2

\* One that is bounded has a greatest one.
LEMMA Greatest ==
    ASSUME NEW N \in Nat, NEW S \in SUBSET (0..N), S # {}
    PROVE  \E n \in S : \A m \in S : m <= n
  <1> DEFINE T == {N - m : m \in S}
  <1>1. T \in SUBSET Nat
    OBVIOUS
  <1>2. PICK s \in S : TRUE
    OBVIOUS
  <1>3. N - s \in T
    OBVIOUS
  <1>4. PICK k \in T : \A l \in T : k <= l
    BY <1>1, <1>3, Least
  <1>5. PICK n \in S : k = N - n
    BY <1>4
  <1>6. ASSUME NEW m \in S PROVE m <= n
    BY <1>4, <1>5
  <1> QED
    BY <1>6

\* Where the run of consecutive numbers from 1 on ends.
LEMMA RunEnds ==
    ASSUME NEW N \in Nat, NEW S \in SUBSET (1..N)
    PROVE  \E n \in 0..Cardinality(S) : 1..n \subseteq S /\ n + 1 \notin S
  <1> DEFINE T == {m \in Nat : m > 0 /\ m \notin S}
  <1>1. N + 1 \in T /\ T \in SUBSET Nat
    OBVIOUS
  <1>2. PICK k \in T : \A l \in T : k <= l
    BY <1>1, Least
  <1> DEFINE n == k - 1
  <1>3. n \in Nat /\ n + 1 \notin S /\ 1..n \subseteq S
    BY <1>2
  <1>4. IsFiniteSet(1..N)
    BY FS_Interval
  <1>5. IsFiniteSet(S)
    BY <1>4, FS_Subset
  <1>6. IsFiniteSet(S) /\ Cardinality(S) \in Nat
    BY <1>5, FS_CardinalityType
  <1>7. Cardinality(1..n) = n
    BY <1>3, FS_Interval
  <1>8. n <= Cardinality(S)
    BY <1>3, <1>6, <1>7, FS_Subset
  <1> QED
    BY <1>3, <1>6, <1>8

----------------------------------------------------------------------------
(* The server's tasks *)

\* The history of p has grown by the event e.
Grown(p, e) ==
    /\ log' \in [Procs -> Seq(Kinds)]
    /\ Len(log'[p]) = Len(log[p]) + 1
    /\ \A n \in 1..Len(log[p]) : log'[p][n] = log[p][n]
    /\ log'[p][Len(log[p]) + 1] = e
    /\ \A q \in Procs : q # p => log'[q] = log[q]

\* One task of p has moved.
Moved(p, t, step, k) ==
    /\ task' \in [Procs -> [Tasks -> [step : Steps, seq : Nat]]]
    /\ task'[p][t].step = step /\ task'[p][t].seq = k
    /\ \A q \in Procs, u \in Tasks : q # p \/ u # t => task'[q][u] = task[q][u]

\* The two forms in which a task is moved.
LEMMA MovedIs ==
    ASSUME Typed, NEW p \in Procs, NEW t \in Tasks, NEW step \in Steps, NEW k \in Nat,
           task' = [task EXCEPT ![p][t] = At(step, k)]
    PROVE  Moved(p, t, step, k)
  <1> DEFINE x == At(step, k)
  <1>1. x \in [step : Steps, seq : Nat] /\ x.step = step /\ x.seq = k
    BY DEF At
  <1>2. task' = [task EXCEPT ![p][t] = x]
    OBVIOUS
  <1> HIDE DEF x
  <1>3. task \in [Procs -> [Tasks -> [step : Steps, seq : Nat]]]
    BY DEF Typed
  <1>4. task'[p] = [task[p] EXCEPT ![t] = x] /\ \A q \in Procs : q # p => task'[q] = task[q]
    BY <1>2, <1>3
  <1>5. task' \in [Procs -> [Tasks -> [step : Steps, seq : Nat]]]
    BY <1>1, <1>2, <1>3
  <1>6. task'[p][t] = x /\ \A u \in Tasks : u # t => task'[p][u] = task[p][u]
    BY <1>3, <1>4
  <1> QED
    BY <1>1, <1>4, <1>5, <1>6 DEF Moved

\* What Publish and Become change.
LEMMA PublishIs ==
    ASSUME Typed, NEW p \in Procs, NEW t \in Tasks, NEW e \in Kinds, Publish(p, t, e)
    PROVE  /\ Grown(p, e)
           /\ Moved(p, t, IF e = "closed" THEN "tell_closed" ELSE "tell", Len(log[p]) + 1)
  <1>1. log \in [Procs -> Seq(Kinds)] /\ log[p] \in Seq(Kinds)
    BY DEF Typed
  <1>2. log' = [log EXCEPT ![p] = Append(log[p], e)]
    BY DEF Publish
  <1>3. Append(log[p], e) \in Seq(Kinds)
    BY <1>1
  <1>4. log'[p] = Append(log[p], e) /\ log' \in [Procs -> Seq(Kinds)]
        /\ \A q \in Procs : q # p => log'[q] = log[q]
    BY <1>1, <1>2, <1>3
  <1>5. Grown(p, e)
    BY <1>1, <1>4 DEF Grown
  <1>6. PICK step \in Steps : step = IF e = "closed" THEN "tell_closed" ELSE "tell"
    BY DEF Steps
  <1>7. PICK k \in Nat : k = Len(log[p]) + 1
    BY <1>1
  <1>8. task' = [task EXCEPT ![p][t] = At(step, k)]
    BY <1>6, <1>7 DEF Publish
  <1> QED
    BY <1>5, <1>6, <1>7, <1>8, MovedIs

LEMMA BecomeIs ==
    ASSUME Typed, NEW p \in Procs, NEW t \in Tasks, NEW step \in Steps, Become(p, t, step)
    PROVE  log' = log /\ Moved(p, t, step, 0)
  BY MovedIs DEF Become

\* What is known of a history that has grown.
LEMMA GrownFacts ==
    ASSUME Typed, NEW p \in Procs, NEW e \in Kinds, Grown(p, e)
    PROVE  /\ \A x : Logged(p, x)' <=> (Logged(p, x) \/ x = e)
           /\ \A q \in Procs : \A x : q # p => (Logged(q, x)' <=> Logged(q, x))
           /\ Chunks(p)' = Chunks(p) \cup (IF e = "output" THEN {Len(log[p]) + 1} ELSE {})
           /\ \A q \in Procs : q # p => Chunks(q)' = Chunks(q)
           /\ \A q \in Procs : Len(log[q]) \in Nat /\ Len(log'[q]) \in Nat
                               /\ Len(log[q]) <= Len(log'[q])
           /\ \A q \in Procs : \A n \in Chunks(q) : n \in 1..Len(log[q])
  <1>1. \A q \in Procs : log[q] \in Seq(Kinds) /\ log'[q] \in Seq(Kinds)
    BY DEF Typed, Grown
  <1>2. \A q \in Procs : /\ Len(log[q]) \in Nat /\ Len(log'[q]) \in Nat
                         /\ DOMAIN log[q] = 1..Len(log[q]) /\ DOMAIN log'[q] = 1..Len(log'[q])
    BY <1>1
  <1>3. \A x : Logged(p, x)' <=> (Logged(p, x) \/ x = e)
    BY <1>2 DEF Logged, Grown
  <1>4. \A q \in Procs : q # p => Chunks(q)' = Chunks(q) /\ \A x : Logged(q, x)' <=> Logged(q, x)
    BY DEF Logged, Chunks, Grown
  <1>5. Chunks(p)' = Chunks(p) \cup (IF e = "output" THEN {Len(log[p]) + 1} ELSE {})
    BY <1>2 DEF Chunks, Grown
  <1>6. \A q \in Procs : Len(log[q]) <= Len(log'[q])
    BY <1>2 DEF Grown
  <1>7. \A q \in Procs : \A n \in Chunks(q) : n \in 1..Len(log[q])
    BY <1>2 DEF Chunks
  <1> QED
    BY <1>2, <1>3, <1>4, <1>5, <1>6, <1>7

\* The types of the histories and of what is on its way.
LEMMA Lengths ==
    ASSUME Typed
    PROVE  \A q \in Procs : log[q] \in Seq(Kinds) /\ Len(log[q]) \in Nat
                            /\ DOMAIN log[q] = 1..Len(log[q])
  <1>1. log \in [Procs -> Seq(Kinds)]
    BY DEF Typed
  <1>2. \A q \in Procs : log[q] \in Seq(Kinds)
    BY <1>1
  <1> QED
    BY <1>2

LEMMA Underway ==
    ASSUME Typed
    PROVE  /\ DOMAIN outgoing = 1..Len(outgoing) /\ Len(outgoing) \in Nat
           /\ \A n \in DOMAIN outgoing : outgoing[n].proc \in Procs /\ outgoing[n].seq \in Nat
  <1> DEFINE R == [proc : Procs, seq : Nat]
  <1>1. outgoing \in Seq(R)
    BY DEF Typed
  <1>2. \A r \in R : r.proc \in Procs /\ r.seq \in Nat
    OBVIOUS
  <1> HIDE DEF R
  <1> QED
    BY <1>1, <1>2

\* What a history that grows leaves as it was.
LEMMA ClientGrows ==
    ASSUME Typed, ClientInv, NEW p \in Procs, NEW e \in Kinds, Grown(p, e), client' = client
    PROVE  ClientInv'
  <1>1. \A q \in Procs : Len(log[q]) \in Nat /\ Len(log'[q]) \in Nat /\ Len(log[q]) <= Len(log'[q])
    BY GrownFacts
  <1>2. ASSUME NEW q \in Procs
        PROVE  /\ client[q].seen <= Len(log'[q])
               /\ client[q].published = [i \in 1..client[q].seen |-> i]
               /\ client[q].early \subseteq (client[q].seen + 2)..Len(log'[q])
    <2>1. client[q].seen \in Nat /\ client[q].early \subseteq Nat
      BY DEF Typed, Followed
    <2> QED
      BY <1>1, <2>1 DEF ClientInv
  <1> QED
    BY <1>2 DEF ClientInv

\* A chunk that has left the buffer does not come back.
LEMMA RetainedGrows ==
    ASSUME Typed, NEW p \in Procs, NEW e \in Kinds, Grown(p, e), ~Logged(p, "closed"),
           NEW n \in RetainedOutput(p)', n <= Len(log[p])
    PROVE  n \in RetainedOutput(p)
  <1>1. /\ Chunks(p)' = Chunks(p) \cup (IF e = "output" THEN {Len(log[p]) + 1} ELSE {})
        /\ Len(log[p]) \in Nat /\ Len(log'[p]) \in Nat
    BY GrownFacts
  <1> DEFINE S == {m \in Chunks(p) : m > n}
             T == {m \in Chunks(p)' : m > n}
  <1>2. n \in Chunks(p) /\ Cardinality(T) < Retained
    BY <1>1 DEF RetainedOutput
  <1>3. IsFiniteSet(T)
    <2>1. T \subseteq 1..(Len(log[p]) + 1)
      <3>1. Chunks(p) \subseteq 1..Len(log[p])
        BY Lengths DEF Chunks
      <3> QED
        BY <1>1, <3>1
    <2>2. Len(log[p]) + 1 \in Int
      BY <1>1
    <2>3. IsFiniteSet(1..(Len(log[p]) + 1))
      BY <2>2, FS_Interval
    <2> QED
      BY <2>1, <2>3, FS_Subset
  <1>4. S \subseteq T
    BY <1>1
  <1>5. Cardinality(S) \in Nat /\ Cardinality(T) \in Nat /\ Cardinality(S) <= Cardinality(T)
    BY <1>3, <1>4, FS_Subset, FS_CardinalityType
  <1>6. Cardinality(S) < Retained
    BY <1>2, <1>5, EventsAssumption
  <1> QED
    BY <1>2, <1>6 DEF RetainedOutput

LEMMA ReaderGrows ==
    ASSUME Typed, ReaderInv, NEW p \in Procs, NEW e \in Kinds, Grown(p, e),
           ~Logged(p, "closed"), reader' = reader
    PROVE  ReaderInv'
  <1>1. /\ Chunks(p)' = Chunks(p) \cup (IF e = "output" THEN {Len(log[p]) + 1} ELSE {})
        /\ \A q \in Procs : q # p => Chunks(q)' = Chunks(q)
        /\ \A q \in Procs : Len(log[q]) \in Nat /\ Len(log'[q]) \in Nat
                            /\ Len(log[q]) <= Len(log'[q])
    BY GrownFacts
  <1>2. ASSUME NEW q \in Procs
        PROVE  /\ reader[q].after <= Len(log'[q])
               /\ reader[q].due \subseteq reader[q].got /\ reader[q].got \subseteq Chunks(q)'
               /\ \A n \in RetainedOutput(q)' : n <= reader[q].after => n \in reader[q].got
    <2>1. reader[q].after \in Nat
      BY DEF Typed, Readers
    <2>2. /\ reader[q].after <= Len(log[q])
          /\ reader[q].due \subseteq reader[q].got /\ reader[q].got \subseteq Chunks(q)
          /\ \A n \in RetainedOutput(q) : n <= reader[q].after => n \in reader[q].got
      BY DEF ReaderInv
    <2>3. CASE q # p
      <3>1. RetainedOutput(q)' = RetainedOutput(q)
        BY <1>1, <2>3 DEF RetainedOutput
      <3> QED
        BY <1>1, <2>1, <2>2, <2>3, <3>1
    <2>4. CASE q = p
      <3>1. ASSUME NEW n \in RetainedOutput(p)', n <= reader[p].after PROVE n \in reader[p].got
        <4>1. n \in Nat
          BY <1>1, Lengths DEF RetainedOutput, Chunks
        <4>2. n <= Len(log[p])
          BY <1>1, <2>1, <2>2, <2>4, <3>1, <4>1
        <4> QED
          BY <2>2, <2>4, <3>1, <4>2, RetainedGrows
      <3> QED
        BY <1>1, <2>1, <2>2, <2>4, <3>1
    <2> QED
      BY <2>3, <2>4
  <1> QED
    BY <1>2 DEF ReaderInv

LEMMA SeqGrows ==
    ASSUME Typed, SeqInv, NEW p \in Procs, NEW t \in Tasks, NEW e \in Kinds, NEW step \in Steps,
           Grown(p, e), NEW k, Moved(p, t, step, k), k = Len(log[p]) + 1, outgoing' = outgoing
    PROVE  SeqInv'
  <1>1. \A q \in Procs : Len(log[q]) \in Nat /\ Len(log'[q]) \in Nat /\ Len(log[q]) <= Len(log'[q])
    BY GrownFacts
  <1>2. \A q \in Procs, u \in Tasks : task[q][u].seq \in Nat
    BY DEF Typed
  <1>3. Len(log'[p]) = Len(log[p]) + 1
    BY DEF Grown
  <1>4. /\ task'[p][t].step = step /\ task'[p][t].seq = Len(log[p]) + 1
        /\ \A q \in Procs, u \in Tasks : q # p \/ u # t => task'[q][u] = task[q][u]
    BY Zenon DEF Moved
  <1>5. ASSUME NEW q \in Procs, NEW u \in Tasks
        PROVE  /\ task'[q][u].seq <= Len(log'[q])
               /\ task'[q][u].step \in {"tell", "tell_closed"} => task'[q][u].seq > 0
    <2>1. CASE q = p /\ u = t
      <3>1. Len(log[p]) + 1 <= Len(log'[p]) /\ Len(log[p]) + 1 > 0
        BY <1>1, <1>3
      <3> QED
        BY <1>4, <2>1, <3>1, Zenon
    <2>2. CASE q # p \/ u # t
      <3>1. task'[q][u] = task[q][u]
        BY <2>2, <1>4
      <3>2. /\ task[q][u].seq <= Len(log[q])
            /\ task[q][u].step \in {"tell", "tell_closed"} => task[q][u].seq > 0
        BY DEF SeqInv
      <3>3. task[q][u].seq <= Len(log'[q])
        <4>1. PICK m \in Nat : m = task[q][u].seq
          BY <1>2
        <4> QED
          BY <1>1, <3>2, <4>1
      <3> QED
        BY <3>1, <3>2, <3>3, Zenon
    <2> QED
      BY <2>1, <2>2
  <1>6. ASSUME NEW n \in DOMAIN outgoing
        PROVE  outgoing[n].seq \in 1..Len(log'[outgoing[n].proc])
    <2>1. outgoing[n].proc \in Procs /\ outgoing[n].seq \in Nat
      BY Underway
    <2>2. outgoing[n].seq \in 1..Len(log[outgoing[n].proc])
      BY DEF SeqInv
    <2> QED
      BY <1>1, <2>1, <2>2
  <1> QED
    BY <1>5, <1>6 DEF SeqInv

\* A task has told its event, or had none to tell.
LEMMA SeqMoves ==
    ASSUME Typed, SeqInv, NEW p \in Procs, NEW t \in Tasks,
           NEW step \in Steps \ {"tell", "tell_closed"},
           NEW k, Moved(p, t, step, k), k = 0, log' = log, outgoing' = outgoing
    PROVE  SeqInv'
  <1>1. Len(log[p]) \in Nat
    BY Lengths
  <1>2. /\ task'[p][t].step = step /\ task'[p][t].seq = 0
        /\ \A q \in Procs, u \in Tasks : q # p \/ u # t => task'[q][u] = task[q][u]
    BY Zenon DEF Moved
  <1>3. ASSUME NEW q \in Procs, NEW u \in Tasks
        PROVE  /\ task'[q][u].seq <= Len(log[q])
               /\ task'[q][u].step \in {"tell", "tell_closed"} => task'[q][u].seq > 0
    <2>1. CASE q = p /\ u = t
      <3>1. 0 <= Len(log[p])
        BY <1>1
      <3>2. step \notin {"tell", "tell_closed"}
        BY Zenon
      <3> QED
        BY <1>2, <2>1, <3>1, <3>2, Zenon
    <2>2. CASE q # p \/ u # t
      BY <1>2, <2>2 DEF SeqInv
    <2> QED
      BY <2>1, <2>2
  <1> QED
    BY <1>3 DEF SeqInv

\* The parts of the invariant where what they speak of stays.
LEMMA ClientStays ==
    ASSUME ClientInv, log' = log, client' = client
    PROVE  ClientInv'
  BY DEF ClientInv

LEMMA ReaderStays ==
    ASSUME ReaderInv, log' = log, reader' = reader
    PROVE  ReaderInv'
  BY DEF ReaderInv, RetainedOutput, Chunks

LEMMA SeqStays ==
    ASSUME SeqInv, log' = log, task' = task, outgoing' = outgoing
    PROVE  SeqInv'
  BY DEF SeqInv

LEMMA TaskStays ==
    ASSUME TaskInv, log' = log, task' = task, entry' = entry, streams' = streams,
           up' => up
    PROVE  TaskInv'
  BY DEF TaskInv, TasksOf, Logged, Unspawned, OpenStreams, Open

\* The type of a task.
LEMMA TaskTypes ==
    ASSUME Typed
    PROVE  \A q \in Procs, u \in Tasks : task[q][u].step \in Steps /\ task[q][u].seq \in Nat
  <1>1. task \in [Procs -> [Tasks -> [step : Steps, seq : Nat]]]
    BY DEF Typed
  <1> QED
    BY <1>1

\* The tasks of the other commands.
LEMMA OtherTasks ==
    ASSUME TaskInv, NEW q \in Procs, log'[q] = log[q], entry'[q] = entry[q], up' => up,
           streams'[q] = streams[q], \A u \in Tasks : task'[q][u] = task[q][u]
    PROVE  TasksOf(q)'
  <1>1. TasksOf(q)
    BY DEF TaskInv
  <1>2. "stdout" \in Tasks /\ "stderr" \in Tasks /\ "exit" \in Tasks /\ Outputs \subseteq Tasks
    BY DEF Tasks, Outputs
  <1>3. \A x : Logged(q, x)' <=> Logged(q, x)
    BY DEF Logged
  <1>4. OpenStreams(q)' = OpenStreams(q) /\ (Unspawned(q) => Unspawned(q)')
    BY <1>2 DEF OpenStreams, Open, Unspawned
  <1> QED
    BY <1>1, <1>2, <1>3, <1>4 DEF TasksOf

\* A task of p goes on without an event.
LEMMA TaskMoves ==
    ASSUME Typed, TaskInv, NEW p \in Procs, NEW t \in Tasks, NEW step \in Steps \ {"off"}, NEW k,
           Moved(p, t, step, k), task[p][t].step # "off",
           log' = log, entry' = entry, up' = up,
           \A q \in Procs : q # p => streams'[q] = streams[q],
           streams'[p] <= 2, entry[p] = "running" => streams'[p] = OpenStreams(p)',
           t = "exit" => step \notin {"wait", "finish"},
           t \in Outputs /\ ~Open(p, t) => step \in {"close", "tell_closed", "done"}
    PROVE  TaskInv'
  <1>1. /\ task'[p][t].step = step
        /\ \A q \in Procs, u \in Tasks : q # p \/ u # t => task'[q][u] = task[q][u]
    BY Zenon DEF Moved
  <1>2. ASSUME NEW q \in Procs, q # p PROVE TasksOf(q)'
    BY <1>1, <1>2, OtherTasks
  <1>3. TasksOf(p)'
    <2>1. TasksOf(p)
      BY DEF TaskInv
    <2>2. ~Unspawned(p)
      BY DEF Unspawned
    <2>3. \A x : Logged(p, x)' <=> Logged(p, x)
      BY DEF Logged
    <2>4. "exit" \in Tasks /\ Outputs \subseteq Tasks /\ step # "off"
      BY DEF Tasks
    <2>5. entry[p] = "running" => \A u \in Tasks : task'[p][u].step # "off"
      BY <1>1, <2>1, <2>4 DEF TasksOf
    <2>6. task'[p]["exit"].step # "finish"
      BY <1>1, <2>1, <2>4 DEF TasksOf
    <2>7. task'[p]["exit"].step \in {"off", "wait"} => ~Logged(p, "exit")
      BY <1>1, <2>1, <2>4 DEF TasksOf
    <2>8. Logged(p, "closed") =>
            /\ \A u \in Outputs : task'[p][u].step \in {"close", "tell_closed", "done"}
            /\ Logged(p, "exit")
      BY <1>1, <2>1, <2>4 DEF TasksOf, Open
    <2> QED
      BY <2>1, <2>2, <2>3, <2>5, <2>6, <2>7, <2>8 DEF TasksOf
  <1>4. \A q \in Procs : TasksOf(q)'
    BY <1>2, <1>3
  <1> QED
    BY <1>4, Zenon DEF TaskInv

\* A task of p has an event to tell.
LEMMA TaskGrows ==
    ASSUME Typed, TaskInv, NEW p \in Procs, NEW t \in Tasks, NEW e \in Kinds,
           NEW step \in {"tell", "tell_closed"}, NEW k, Grown(p, e), Moved(p, t, step, k),
           entry[p] = "running", ~Logged(p, "closed"), UNCHANGED <<entry, up, streams>>,
           e = "exit" <=> t = "exit" /\ step = "tell",
           e = "closed" => Logged(p, "exit") /\ \A u \in Outputs : ~Open(p, u) /\ ~Open(p, u)',
           t \in Outputs => (Open(p, t) <=> step = "tell")
    PROVE  TaskInv'
  <1>1. /\ task'[p][t].step = step
        /\ \A q \in Procs, u \in Tasks : q # p \/ u # t => task'[q][u] = task[q][u]
    BY Zenon DEF Moved
  <1>2. ASSUME NEW q \in Procs, q # p PROVE TasksOf(q)'
    <2>1. log'[q] = log[q]
      BY <1>2 DEF Grown
    <2> QED
      BY <1>1, <1>2, <2>1, OtherTasks
  <1>3. TasksOf(p)'
    <2>1. TasksOf(p)
      BY DEF TaskInv
    <2>2. \A x : Logged(p, x)' <=> (Logged(p, x) \/ x = e)
      BY GrownFacts
    <2>3. "exit" \in Tasks /\ "stdout" \in Outputs /\ "stderr" \in Outputs /\ Outputs \subseteq Tasks
          /\ "exit" \notin Outputs
      BY DEF Tasks, Outputs
    <2>4. \A u \in Tasks : task[p][u].step # "off" /\ task'[p][u].step # "off"
      BY <1>1, <2>1 DEF TasksOf
    <2>5. \A u \in Outputs : Open(p, u)' <=> Open(p, u)
      BY <1>1, <2>3 DEF Open
    <2>6. streams'[p] = OpenStreams(p)'
      BY <2>1, <2>3, <2>5 DEF TasksOf, OpenStreams
    <2>7. task'[p]["exit"].step # "finish"
      BY <1>1, <2>1, <2>3 DEF TasksOf
    <2>8. task'[p]["exit"].step \in {"off", "wait"} => ~Logged(p, "exit")'
      BY <1>1, <2>1, <2>2, <2>3 DEF TasksOf
    <2>9. ASSUME Logged(p, "closed")', NEW u \in Outputs
          PROVE  task'[p][u].step \in {"close", "tell_closed", "done"}
      <3>1. e = "closed" /\ ~Open(p, u)'
        BY <2>2, <2>9
      <3>2. task'[p][u].step \in Steps /\ task'[p][u].step # "off"
        <4>1. task' \in [Procs -> [Tasks -> [step : Steps, seq : Nat]]]
          BY Zenon DEF Moved
        <4> QED
          BY <2>3, <2>4, <4>1
      <3> QED
        BY <3>1, <3>2 DEF Open, Steps
    <2>10. Logged(p, "closed")' => Logged(p, "exit")'
      BY <2>2
    <2> QED
      BY <2>1, <2>4, <2>6, <2>7, <2>8, <2>9, <2>10 DEF TasksOf
  <1>4. \A q \in Procs : TasksOf(q)'
    BY <1>2, <1>3
  <1> QED
    BY <1>4, Zenon DEF TaskInv

----------------------------------------------------------------------------
(* The client *)

\* What has come of the events of p, with k.
Come(p, k) == 1..client[p].seen \cup client[p].early \cup {k}

\* Pulling out the events that are ready always works, and never skips one.
LEMMA LastIs ==
    ASSUME Typed, ClientInv, NEW p \in Procs, NEW k \in 1..Len(log[p])
    PROVE  /\ LastInOrder(p, k) \in client[p].seen..Len(log[p])
           /\ 1..LastInOrder(p, k) \subseteq Come(p, k)
           /\ LastInOrder(p, k) + 1 \notin Come(p, k)
  <1>1. Len(log[p]) \in Nat
    BY Lengths
  <1>2. /\ client[p].seen \in Nat /\ client[p].seen <= Len(log[p])
        /\ client[p].early \subseteq (client[p].seen + 2)..Len(log[p])
    BY DEF Typed, Followed, ClientInv
  <1>3. Come(p, k) \in SUBSET (1..Len(log[p]))
    BY <1>1, <1>2 DEF Come
  <1>4. \E n \in 0..Cardinality(Come(p, k)) : 1..n \subseteq Come(p, k) /\ n + 1 \notin Come(p, k)
    BY <1>1, <1>3, RunEnds
  <1>5. LastInOrder(p, k) =
          CHOOSE n \in 0..Cardinality(Come(p, k)) :
              1..n \subseteq Come(p, k) /\ n + 1 \notin Come(p, k)
    BY Zenon DEF LastInOrder, Come
  <1> DEFINE last == LastInOrder(p, k)
  <1>6. /\ last \in 0..Cardinality(Come(p, k))
        /\ 1..last \subseteq Come(p, k) /\ last + 1 \notin Come(p, k)
    BY <1>4, <1>5, Zenon
  <1>7. Cardinality(Come(p, k)) \in Nat
    <2>1. IsFiniteSet(1..Len(log[p]))
      BY <1>1, FS_Interval
    <2>2. IsFiniteSet(Come(p, k))
      BY <1>3, <2>1, FS_Subset
    <2> QED
      BY <2>2, FS_CardinalityType
  <1> HIDE DEF last
  <1>8. last \in Nat
    BY <1>6, <1>7
  <1>9. last >= client[p].seen
    <2>1. SUFFICES ASSUME last < client[p].seen PROVE FALSE
      BY <1>2, <1>8
    <2>2. last + 1 \in 1..client[p].seen
      BY <1>2, <1>8, <2>1
    <2> QED
      BY <1>6, <2>2 DEF Come
  <1>10. last <= Len(log[p])
    <2>1. SUFFICES ASSUME last > Len(log[p]) PROVE FALSE
      BY <1>1, <1>8
    <2>2. last \in 1..last
      BY <1>1, <1>8, <2>1
    <2>3. last \in 1..Len(log[p])
      BY <1>3, <1>6, <2>2
    <2> QED
      BY <1>1, <1>8, <2>1, <2>3
  <1>11. last \in client[p].seen..Len(log[p])
    BY <1>1, <1>2, <1>8, <1>9, <1>10
  <1> QED
    BY <1>6, <1>11 DEF last

\* What follows is put behind what was published.
LEMMA Extended ==
    ASSUME NEW seen \in Nat, NEW last \in Nat, seen <= last, NEW old, NEW now,
           old = [i \in 1..seen |-> i], now = [i \in 1..(last - seen) |-> seen + i]
    PROVE  /\ Len(now) = last - seen
           /\ old \o now = [i \in 1..last |-> i]
           /\ old \o now \in Seq(Nat)
  <1>1. old \in Seq(Nat) /\ Len(old) = seen /\ \A i \in 1..seen : old[i] = i
    OBVIOUS
  <1>2. now \in Seq(Nat) /\ Len(now) = last - seen /\ \A i \in 1..(last - seen) : now[i] = seen + i
    OBVIOUS
  <1>3. old \o now \in Seq(Nat) /\ Len(old \o now) = last
    BY <1>1, <1>2
  <1>4. ASSUME NEW i \in 1..last PROVE (old \o now)[i] = i
    <2>1. CASE i <= seen
      BY <1>1, <1>2, <2>1
    <2>2. CASE i > seen
      <3>1. i - seen \in 1..(last - seen)
        BY <2>2
      <3>2. (old \o now)[i] = now[i - seen]
        BY <1>1, <1>2, <2>2, <3>1
      <3> QED
        BY <1>2, <3>1, <3>2
    <2> QED
      BY <2>1, <2>2
  <1>5. old \o now = [i \in 1..last |-> (old \o now)[i]]
    BY <1>3
  <1> QED
    BY <1>2, <1>3, <1>4, <1>5

\* The client has shown the events up to last, and holds back what is beyond.
ShownUpTo(cl, p, last) ==
    /\ cl.seen = last
    /\ cl.published = [i \in 1..last |-> i]
    /\ cl.early \subseteq (last + 2)..Len(log[p])

\* A notification brings the client on, or changes nothing.
LEMMA ReceiveIs ==
    ASSUME Typed, SeqInv, ClientInv, Receive
    PROVE  \E p \in Procs :
               /\ client' \in [Procs -> Followed]
               /\ \A q \in Procs : q # p => client'[q] = client[q]
               /\ \/ client'[p] = client[p]
                  \/ \E last \in client[p].seen..Len(log[p]) : ShownUpTo(client'[p], p, last)
  <1> DEFINE p == Head(outgoing).proc
             k == Head(outgoing).seq
             now == Ready(p, k)
             last == client[p].seen + Len(now)
             open == \A i \in DOMAIN now : log[p][now[i]] # "closed"
             x == Published(p, k, now)
  <1>1. outgoing # <<>> /\ client' = [client EXCEPT ![p] = IF client[p].route THEN x ELSE client[p]]
    BY Zenon DEF Receive
  <1>2. 1 \in DOMAIN outgoing /\ Head(outgoing) = outgoing[1]
    BY <1>1, Underway DEF Typed
  <1>3. p \in Procs /\ k \in 1..Len(log[p])
    BY <1>2, Underway DEF SeqInv
  <1>4. Len(log[p]) \in Nat
    BY <1>3, Lengths
  <1>5. client[p] \in Followed /\ client \in [Procs -> Followed]
    BY <1>3 DEF Typed
  <1>6. /\ client[p].seen \in Nat /\ client[p].seen <= Len(log[p])
        /\ client[p].published = [i \in 1..client[p].seen |-> i]
        /\ client[p].early \subseteq (client[p].seen + 2)..Len(log[p])
        /\ client[p].early \subseteq Nat
    BY <1>3, <1>5 DEF Followed, ClientInv
  <1>7. PICK l : l = LastInOrder(p, k)
    OBVIOUS
  <1>8. l \in client[p].seen..Len(log[p]) /\ 1..l \subseteq Come(p, k) /\ l + 1 \notin Come(p, k)
    BY <1>3, <1>7, LastIs
  <1>9. now = [i \in 1..(l - client[p].seen) |-> client[p].seen + i]
    BY <1>7 DEF Ready
  <1>10. l \in Nat /\ client[p].seen <= l
    BY <1>4, <1>6, <1>8
  <1>11. /\ Len(now) = l - client[p].seen
         /\ client[p].published \o now = [i \in 1..l |-> i]
         /\ client[p].published \o now \in Seq(Nat)
    BY <1>6, <1>9, <1>10, Extended
  <1> HIDE DEF p, k, now
  <1>12. last = l
    BY <1>6, <1>10, <1>11
  <1>13. open \in BOOLEAN
    OBVIOUS
  <1>14. {n \in client[p].early \cup {k} : n > last} \in SUBSET Nat
    BY <1>3, <1>4, <1>6
  <1>15. /\ x \in Followed /\ x.seen = last /\ x.published = client[p].published \o now
         /\ x.early = {n \in client[p].early \cup {k} : n > last}
    BY <1>5, <1>10, <1>11, <1>12, <1>13, <1>14 DEF Followed, Published, last, open
  <1> HIDE DEF x
  <1>16. x.early \subseteq (l + 2)..Len(log[p])
    <2>1. ASSUME NEW n \in x.early PROVE n \in (l + 2)..Len(log[p])
      <3>1. n \in client[p].early \cup {k} /\ n > l
        BY <1>12, <1>15, <2>1
      <3>2. n \in Nat /\ n <= Len(log[p])
        BY <1>3, <1>4, <1>6, <3>1
      <3>3. n # l + 1
        BY <1>8, <3>1 DEF Come
      <3> QED
        BY <1>4, <1>10, <3>1, <3>2, <3>3
    <2> QED
      BY <2>1
  <1>17. ShownUpTo(x, p, l)
    BY <1>11, <1>12, <1>15, <1>16 DEF ShownUpTo
  <1>18. /\ client' \in [Procs -> Followed]
         /\ \A q \in Procs : q # p => client'[q] = client[q]
         /\ client'[p] = client[p] \/ client'[p] = x
    BY <1>1, <1>3, <1>5, <1>15
  <1> QED
    BY <1>3, <1>8, <1>17, <1>18

----------------------------------------------------------------------------
(* The reader *)

\* The number from which the next read goes on is not beyond the history.
LEMMA NextIs ==
    ASSUME Typed, NEW p \in Procs, NEW a \in Nat
    PROVE  AfterSeq(NextSeq(p, a)) \in 0..Len(log[p])
  <1>1. Len(log[p]) \in Nat /\ DOMAIN log[p] = 1..Len(log[p])
    BY Lengths
  <1> DEFINE S == ReadChunks(p, a)
  <1>2. S \in SUBSET (0..Len(log[p])) /\ \A n \in S : n \in 1..Len(log[p])
    BY <1>1 DEF ReadChunks, RetainedOutput, Chunks
  <1>3. NextSeq(p, a) = IF S = {} THEN Len(log[p]) + 1
                        ELSE (CHOOSE n \in S : \A m \in S : m <= n) + 1
    BY DEF NextSeq
  <1> HIDE DEF S
  <1>4. CASE S = {}
    BY <1>1, <1>3, <1>4 DEF AfterSeq
  <1>5. CASE S # {}
    <2>1. \E n \in S : \A m \in S : m <= n
      BY <1>1, <1>2, <1>5, Greatest
    <2>2. PICK n : n = CHOOSE i \in S : \A m \in S : m <= i
      OBVIOUS
    <2>3. n \in S
      BY <2>1, <2>2, Zenon
    <2>4. NextSeq(p, a) = n + 1
      BY <1>3, <1>5, <2>2, Zenon
    <2> QED
      BY <1>1, <1>2, <2>3, <2>4 DEF AfterSeq
  <1> QED
    BY <1>4, <1>5

\* A reader that has been answered has been given what lies in the buffer.
LEMMA AnsweredIs ==
    ASSUME Typed, ReaderInv, NEW p \in Procs
    PROVE  /\ Answered(p) \in Readers
           /\ Answered(p).after <= Len(log[p])
           /\ Answered(p).due \subseteq Answered(p).got /\ Answered(p).got \subseteq Chunks(p)
           /\ RetainedOutput(p) \subseteq Answered(p).got
  <1> DEFINE x == Answered(p)
  <1>1. Len(log[p]) \in Nat /\ DOMAIN log[p] = 1..Len(log[p])
    BY Lengths
  <1>2. reader[p].after \in Nat /\ reader[p].got \subseteq Nat /\ reader[p].due \subseteq Nat
    BY DEF Typed, Readers
  <1>3. /\ x.after = AfterSeq(NextSeq(p, reader[p].after))
        /\ x.step = IF Logged(p, "closed") THEN "closed" ELSE "wait"
        /\ x.got = reader[p].got \cup ReadChunks(p, reader[p].after)
        /\ x.due = reader[p].due \cup RetainedOutput(p)
        /\ x = [step |-> x.step, after |-> x.after, got |-> x.got, due |-> x.due]
    BY DEF Answered
  <1> HIDE DEF x
  <1>4. x.after \in 0..Len(log[p])
    BY <1>2, <1>3, NextIs
  <1>5. x.after \in Nat /\ x.after <= Len(log[p])
    BY <1>1, <1>4
  <1>6. RetainedOutput(p) \subseteq Chunks(p) /\ Chunks(p) \subseteq Nat
    BY <1>1 DEF RetainedOutput, Chunks
  <1>7. ReadChunks(p, reader[p].after) = {n \in RetainedOutput(p) : n > reader[p].after}
    BY DEF ReadChunks
  <1>8. /\ reader[p].due \subseteq reader[p].got /\ reader[p].got \subseteq Chunks(p)
        /\ \A n \in RetainedOutput(p) : n <= reader[p].after => n \in reader[p].got
    BY DEF ReaderInv
  <1>9. RetainedOutput(p) \subseteq x.got
    <2> SUFFICES ASSUME NEW n \in RetainedOutput(p) PROVE n \in x.got
      OBVIOUS
    <2>1. n \in Nat
      BY <1>6
    <2>2. CASE n <= reader[p].after
      BY <1>3, <1>8, <2>2
    <2>3. CASE n > reader[p].after
      BY <1>3, <1>7, <2>3
    <2> QED
      BY <1>2, <2>1, <2>2, <2>3
  <1>10. x.due \subseteq x.got /\ x.got \subseteq Chunks(p)
    BY <1>3, <1>6, <1>7, <1>8, <1>9
  <1>11. x.step \in {"off", "ask", "wait", "closed", "failed", "hung"}
    BY <1>3
  <1>12. x \in Readers
    <2>1. x.got \in SUBSET Nat /\ x.due \in SUBSET Nat
      BY <1>6, <1>10
    <2> QED
      BY <1>3, <1>5, <1>11, <2>1 DEF Readers
  <1> QED
    BY <1>5, <1>9, <1>10, <1>12 DEF x

----------------------------------------------------------------------------
(* Steps *)

\* A record of the client or of the reader is replaced.
LEMMA ClientSet ==
    ASSUME Typed, NEW p \in Procs, NEW x \in Followed, client' = [client EXCEPT ![p] = x]
    PROVE  /\ client' \in [Procs -> Followed] /\ client'[p] = x
           /\ \A q \in Procs : q # p => client'[q] = client[q]
  <1>1. client \in [Procs -> Followed]
    BY DEF Typed
  <1> QED
    BY <1>1

LEMMA ReaderSet ==
    ASSUME Typed, NEW p \in Procs, NEW x \in Readers, reader' = [reader EXCEPT ![p] = x]
    PROVE  /\ reader' \in [Procs -> Readers] /\ reader'[p] = x
           /\ \A q \in Procs : q # p => reader'[q] = reader[q]
  <1>1. reader \in [Procs -> Readers]
    BY DEF Typed
  <1> QED
    BY <1>1

\* Nothing that was published changes.
ClientKeeps ==
    /\ client' \in [Procs -> Followed]
    /\ \A q \in Procs : /\ client'[q].seen = client[q].seen
                        /\ client'[q].published = client[q].published
                        /\ client'[q].early \subseteq client[q].early

LEMMA ClientKept ==
    ASSUME ClientInv, log' = log, ClientKeeps
    PROVE  ClientInv'
  BY DEF ClientInv, ClientKeeps

\* The actions that change a record of the client, but for Receive.
LEMMA ClientMoves ==
    ASSUME Typed, NEW p \in Procs, ExecBegin(p) \/ ExecFailed(p) \/ ReadFails(p) \/ Wake(p)
    PROVE  ClientKeeps
  <1>1. client[p] \in Followed
    BY DEF Typed
  <1>2. PICK x \in Followed :
            /\ x.seen = client[p].seen /\ x.published = client[p].published
            /\ x.early = client[p].early /\ client' = [client EXCEPT ![p] = x]
    <2>1. CASE ExecBegin(p)
      <3>1. client' = [client EXCEPT ![p] = [client[p] EXCEPT !.route = TRUE]]
        BY <2>1 DEF ExecBegin
      <3> QED
        BY <1>1, <3>1 DEF Followed
    <2>2. CASE ExecFailed(p)
      <3>1. client' = [client EXCEPT ![p] = [client[p] EXCEPT !.route = FALSE]]
        BY <2>2 DEF ExecFailed
      <3> QED
        BY <1>1, <3>1 DEF Followed
    <2>3. CASE ReadFails(p)
      <3>1. client' = [client EXCEPT ![p] = [client[p] EXCEPT !.failed = TRUE, !.wake = TRUE]]
        BY <2>3 DEF ReadFails, SetFailure
      <3> QED
        BY <1>1, <3>1 DEF Followed
    <2>4. CASE Wake(p)
      <3>1. client' = [client EXCEPT ![p] = [client[p] EXCEPT !.wake = FALSE]]
        BY <2>4 DEF Wake
      <3> QED
        BY <1>1, <3>1 DEF Followed
    <2> QED
      BY <2>1, <2>2, <2>3, <2>4
  <1>3. /\ client' \in [Procs -> Followed] /\ client'[p] = x
        /\ \A q \in Procs : q # p => client'[q] = client[q]
    BY <1>2, ClientSet
  <1> QED
    BY <1>2, <1>3 DEF ClientKeeps

\* The disconnect fails the sessions and leaves what they published.
LEMMA ClientGone ==
    ASSUME Typed, NoticeDisconnect
    PROVE  ClientKeeps
  <1> DEFINE x(q) == IF client[q].route
                     THEN [SetFailure(client[q]) EXCEPT !.route = FALSE, !.early = {}]
                     ELSE client[q]
  <1>1. client' = [q \in Procs |-> x(q)]
    BY DEF NoticeDisconnect
  <1>2. ASSUME NEW q \in Procs
        PROVE  /\ x(q) \in Followed /\ x(q).seen = client[q].seen
               /\ x(q).published = client[q].published /\ x(q).early \subseteq client[q].early
    <2>1. client[q] \in Followed
      BY DEF Typed
    <2> QED
      BY <2>1 DEF Followed, SetFailure
  <1> HIDE DEF x
  <1> QED
    BY <1>1, <1>2 DEF ClientKeeps

\* The actions that change a reader's step only, and those that end it.
LEMMA ReaderMoves ==
    ASSUME Typed, ReaderInv, NEW p \in Procs, log' = log,
           \/ reader' = [reader EXCEPT ![p].step = "ask"]
           \/ reader' = [reader EXCEPT ![p] = Failed]
           \/ reader' = [reader EXCEPT ![p] = Answered(p)]
    PROVE  ReaderInv' /\ reader' \in [Procs -> Readers]
  <1>1. reader[p] \in Readers
    BY DEF Typed
  <1>2. Len(log[p]) \in Nat /\ Chunks(p) \subseteq 1..Len(log[p])
    BY Lengths DEF Chunks
  <1>3. PICK x \in Readers :
            /\ reader' = [reader EXCEPT ![p] = x]
            /\ x.after <= Len(log[p])
            /\ x.due \subseteq x.got /\ x.got \subseteq Chunks(p)
            /\ \A n \in RetainedOutput(p) : n <= x.after => n \in x.got
    <2>1. CASE reader' = [reader EXCEPT ![p].step = "ask"]
      <3> DEFINE x == [reader[p] EXCEPT !.step = "ask"]
      <3>1. reader' = [reader EXCEPT ![p] = x]
        BY <2>1
      <3>2. /\ x \in Readers /\ x.step = "ask" /\ x.after = reader[p].after
            /\ x.got = reader[p].got /\ x.due = reader[p].due
        BY <1>1 DEF Readers
      <3> HIDE DEF x
      <3> QED
        BY <3>1, <3>2 DEF ReaderInv
    <2>2. CASE reader' = [reader EXCEPT ![p] = Failed]
      <3>1. Failed \in Readers /\ Failed.after = 0 /\ Failed.got = {} /\ Failed.due = {}
        BY DEF Failed, NoReader, Readers
      <3>2. 0 <= Len(log[p]) /\ \A n \in RetainedOutput(p) : ~(n <= 0)
        BY <1>2 DEF RetainedOutput
      <3> QED
        BY <2>2, <3>1, <3>2, Zenon
    <2>3. CASE reader' = [reader EXCEPT ![p] = Answered(p)]
      BY <2>3, AnsweredIs
    <2> QED
      BY <2>1, <2>2, <2>3
  <1>4. /\ reader' \in [Procs -> Readers] /\ reader'[p] = x
        /\ \A q \in Procs : q # p => reader'[q] = reader[q]
    BY <1>3, ReaderSet
  <1>5. \A q \in Procs : Chunks(q)' = Chunks(q) /\ RetainedOutput(q)' = RetainedOutput(q)
    BY DEF RetainedOutput, Chunks
  <1> QED
    BY <1>3, <1>4, <1>5 DEF ReaderInv

\* The RPC reader breaks off and leaves some readers hanging.
LEMMA ReadersHang ==
    ASSUME Typed, ReaderInv, NEW late, ReaderBreaks(late)
    PROVE  ReaderInv' /\ reader' \in [Procs -> Readers]
  <1>1. log' = log /\ reader' = [p \in Procs |-> IF p \in late THEN Hung ELSE reader[p]]
    BY DEF ReaderBreaks, processVars
  <1>2. Hung \in Readers /\ Hung.after = 0 /\ Hung.got = {} /\ Hung.due = {}
    BY DEF Hung, NoReader, Readers
  <1>3. \A p \in Procs : reader[p] \in Readers
    BY DEF Typed
  <1>4. reader' \in [Procs -> Readers]
    BY <1>1, <1>2, <1>3
  <1>5. ASSUME NEW p \in Procs
        PROVE  /\ reader'[p].after <= Len(log'[p])
               /\ reader'[p].due \subseteq reader'[p].got /\ reader'[p].got \subseteq Chunks(p)'
               /\ \A n \in RetainedOutput(p)' : n <= reader'[p].after => n \in reader'[p].got
    <2>1. Chunks(p)' = Chunks(p) /\ RetainedOutput(p)' = RetainedOutput(p)
      BY <1>1 DEF RetainedOutput, Chunks
    <2>2. Len(log[p]) \in Nat /\ \A n \in RetainedOutput(p) : ~(n <= 0)
      BY Lengths DEF RetainedOutput, Chunks
    <2>3. CASE p \in late
      BY <1>1, <1>2, <2>1, <2>2, <2>3
    <2>4. CASE p \notin late
      BY <1>1, <2>1, <2>4 DEF ReaderInv
    <2> QED
      BY <2>3, <2>4
  <1> QED
    BY <1>4, <1>5 DEF ReaderInv

\* An event is published by a task of a command that has not closed.
LEMMA PublishStep ==
    ASSUME Inv, NEW p \in Procs, NEW t \in Tasks, NEW e \in Kinds, Publish(p, t, e),
           entry[p] = "running", ~Logged(p, "closed"),
           UNCHANGED <<up, entry, streams, outgoing, gone, client, reader>>,
           e = "exit" <=> t = "exit" /\ e # "closed",
           e = "closed" => Logged(p, "exit") /\ \A u \in Outputs : ~Open(p, u),
           t \in Outputs => (Open(p, t) <=> e # "closed")
    PROVE  Inv'
  <1> USE DEF Inv
  <1>1. PICK step \in {"tell", "tell_closed"},
             k \in {Len(log[p]) + 1} :
            step = (IF e = "closed" THEN "tell_closed" ELSE "tell") /\ k = Len(log[p]) + 1
    OBVIOUS
  <1>2. Grown(p, e) /\ Moved(p, t, step, k)
    BY <1>1, PublishIs, Zenon
  <1>3. step \in Steps /\ (step = "tell" <=> e # "closed")
    BY <1>1 DEF Steps
  <1>4. ASSUME e = "closed", NEW u \in Outputs PROVE ~Open(p, u)'
    <2>1. u \in Tasks
      BY DEF Tasks
    <2>2. /\ task'[p][t].step = step
          /\ \A q \in Procs, w \in Tasks : q # p \/ w # t => task'[q][w] = task[q][w]
      BY <1>2, Zenon DEF Moved
    <2>3. CASE u = t
      BY <1>1, <1>4, <2>2, <2>3 DEF Open
    <2>4. CASE u # t
      BY <1>4, <2>1, <2>2, <2>4 DEF Open
    <2> QED
      BY <2>3, <2>4
  <1>5. TaskInv'
    BY <1>2, <1>3, <1>4, TaskGrows
  <1>6. SeqInv'
    BY <1>1, <1>2, <1>3, SeqGrows
  <1>7. ClientInv' /\ ReaderInv'
    BY <1>2, ClientGrows, ReaderGrows
  <1>8. Typed'
    BY <1>2 DEF Typed, Grown, Moved
  <1> QED
    BY <1>5, <1>6, <1>7, <1>8

\* A task goes on without an event.
LEMMA BecomeStep ==
    ASSUME Inv, NEW p \in Procs, NEW t \in Tasks, NEW step \in {"wait", "finish", "close", "done"},
           Become(p, t, step), task[p][t].step # "off",
           UNCHANGED <<up, entry, gone, client, reader>>,
           streams' \in [Procs -> Nat], \A q \in Procs : q # p => streams'[q] = streams[q],
           streams'[p] <= 2, entry[p] = "running" => streams'[p] = OpenStreams(p)',
           t = "exit" => step \notin {"wait", "finish"},
           t \in Outputs /\ ~Open(p, t) => step \in {"close", "done"}
    PROVE  /\ Moved(p, t, step, 0) /\ log' = log
           /\ TaskInv' /\ ClientInv' /\ ReaderInv'
           /\ outgoing' = outgoing => Inv'
  <1> USE DEF Inv
  <1>1. PICK k : k = 0
    OBVIOUS
  <1>2. step \in Steps /\ step \in Steps \ {"off"} /\ step \in Steps \ {"tell", "tell_closed"}
    BY DEF Steps
  <1>3. Moved(p, t, step, k) /\ log' = log
    BY <1>1, <1>2, BecomeIs
  <1>4. TaskInv'
    BY <1>2, <1>3, TaskMoves
  <1>5. ClientInv' /\ ReaderInv'
    BY <1>3, ClientStays, ReaderStays
  <1>6. ASSUME outgoing' = outgoing PROVE Inv'
    <2>1. SeqInv'
      BY <1>1, <1>2, <1>3, <1>6, SeqMoves
    <2>2. Typed'
      BY <1>3, <1>6 DEF Typed, Moved
    <2> QED
      BY <1>4, <1>5, <2>1, <2>2
  <1> QED
    BY <1>1, <1>3, <1>4, <1>5, <1>6

\* What a task's move does to the number of open streams.
LEMMA StreamsSame ==
    ASSUME NEW p \in Procs, NEW t \in Tasks, NEW step, NEW k, Moved(p, t, step, k),
           t \in Outputs => (Open(p, t) <=> step \in {"wait", "tell", "finish"})
    PROVE  OpenStreams(p)' = OpenStreams(p)
  <1>1. "stdout" \in Outputs /\ "stderr" \in Outputs /\ Outputs \subseteq Tasks
    BY DEF Outputs, Tasks
  <1>2. /\ task'[p][t].step = step
        /\ \A q \in Procs, u \in Tasks : q # p \/ u # t => task'[q][u] = task[q][u]
    BY Zenon DEF Moved
  <1>3. \A u \in Outputs : Open(p, u)' <=> Open(p, u)
    BY <1>1, <1>2 DEF Open
  <1> QED
    BY <1>1, <1>3 DEF OpenStreams

LEMMA StreamsLess ==
    ASSUME NEW p \in Procs, NEW t \in Outputs, NEW step \in {"close", "done"}, NEW k,
           Moved(p, t, step, k), Open(p, t)
    PROVE  OpenStreams(p)' = OpenStreams(p) - 1 /\ OpenStreams(p) \in 1..2
  <1>1. Outputs = {"stdout", "stderr"} /\ Outputs \subseteq Tasks
    BY DEF Outputs, Tasks
  <1>2. /\ task'[p][t].step = step
        /\ \A q \in Procs, u \in Tasks : q # p \/ u # t => task'[q][u] = task[q][u]
    BY <1>1, Zenon DEF Moved
  <1>3. ~Open(p, t)' /\ \A u \in Outputs : u # t => (Open(p, u)' <=> Open(p, u))
    BY <1>1, <1>2 DEF Open
  <1> QED
    BY <1>1, <1>3 DEF OpenStreams

\* As BecomeStep, where open_streams stays and still counts what it counted.
LEMMA QuietStep ==
    ASSUME Inv, NEW p \in Procs, NEW t \in Tasks, NEW step \in {"wait", "finish", "close", "done"},
           Become(p, t, step), task[p][t].step # "off",
           UNCHANGED <<up, entry, streams, gone, client, reader>>,
           t = "exit" => step \notin {"wait", "finish"},
           t \in Outputs => \/ Open(p, t) <=> step \in {"wait", "finish"}
                            \/ Open(p, t) /\ entry[p] # "running"
    PROVE  /\ Moved(p, t, step, 0) /\ log' = log
           /\ TaskInv' /\ ClientInv' /\ ReaderInv'
           /\ outgoing' = outgoing => Inv'
  <1>1. PICK k : k = 0
    OBVIOUS
  <1>2. Typed /\ TasksOf(p) /\ step \in Steps
    BY DEF Inv, TaskInv, Steps
  <1>3. Moved(p, t, step, k)
    BY <1>1, <1>2, BecomeIs
  <1>4. streams' \in [Procs -> Nat] /\ streams'[p] <= 2
    BY <1>2 DEF Typed, TasksOf
  <1>5. ASSUME entry[p] = "running" PROVE streams'[p] = OpenStreams(p)'
    <2>1. t \in Outputs => (Open(p, t) <=> step \in {"wait", "tell", "finish"})
      BY <1>5
    <2>2. OpenStreams(p)' = OpenStreams(p)
      BY <1>3, <2>1, StreamsSame
    <2> QED
      BY <1>2, <1>5, <2>2 DEF TasksOf
  <1>6. t \in Outputs /\ ~Open(p, t) => step \in {"close", "done"}
    OBVIOUS
  <1> QED
    BY <1>4, <1>5, <1>6, BecomeStep

\* One lemma for each step of a command's tasks: stream_output, its end,
\* watch_exit, finish_output_stream, maybe_emit_closed and the notification.
LEMMA OutputStep ==
    ASSUME Inv, NEW p \in Procs, NEW t \in Outputs, Output(p, t)
    PROVE  Inv'
  <1>1. t \in Tasks /\ t # "exit"
    BY DEF Tasks, Outputs
  <1>2. TasksOf(p) /\ task[p][t].step = "wait" /\ Open(p, t)
    BY DEF Inv, TaskInv, Output, Open
  <1>3. UNCHANGED <<up, entry, streams, outgoing, gone, client, reader>>
    BY Zenon DEF Output
  <1>4. CASE entry[p] = "running"
    <2>1. Publish(p, t, "output")
      BY <1>4, Zenon DEF Output
    <2>2. ~Logged(p, "closed")
      BY <1>2 DEF TasksOf
    <2>3. PICK e \in Kinds : e = "output"
      BY DEF Kinds
    <2>4. Publish(p, t, e)
      BY <2>1, <2>3, Zenon
    <2> QED
      BY <1>1, <1>2, <1>3, <1>4, <2>2, <2>3, <2>4, PublishStep
  <1>5. CASE entry[p] # "running"
    <2>1. Become(p, t, "finish")
      BY <1>5, Zenon DEF Output
    <2>2. PICK step \in {"wait", "finish", "close", "done"} : step = "finish"
      OBVIOUS
    <2>3. Become(p, t, step)
      BY <2>1, <2>2, Zenon
    <2> QED
      BY <1>1, <1>2, <1>3, <2>2, <2>3, QuietStep
  <1> QED
    BY <1>4, <1>5

LEMMA StreamEndsStep ==
    ASSUME Inv, NEW p \in Procs, NEW t \in Outputs, StreamEnds(p, t)
    PROVE  Inv'
  <1>1. t \in Tasks /\ t # "exit"
    BY DEF Tasks, Outputs
  <1>2. task[p][t].step = "wait" /\ Open(p, t)
    BY DEF StreamEnds, Open
  <1>3. UNCHANGED <<up, entry, streams, outgoing, gone, client, reader>>
    BY Zenon DEF StreamEnds
  <1>4. PICK step \in {"wait", "finish", "close", "done"} : step = "finish"
    OBVIOUS
  <1>5. Become(p, t, step)
    BY <1>4, Zenon DEF StreamEnds
  <1> QED
    BY <1>1, <1>2, <1>3, <1>4, <1>5, QuietStep

LEMMA ExitStep ==
    ASSUME Inv, NEW p \in Procs, Exit(p)
    PROVE  Inv'
  <1>1. PICK t \in Tasks : t = "exit" /\ t \notin Outputs
    BY DEF Tasks, Outputs
  <1>2. TasksOf(p) /\ task[p][t].step = "wait"
    BY <1>1 DEF Inv, TaskInv, Exit
  <1>3. UNCHANGED <<up, entry, streams, outgoing, gone, client, reader>>
    BY Zenon DEF Exit
  <1>4. CASE entry[p] = "running"
    <2>1. PICK e \in Kinds : e = "exit"
      BY DEF Kinds
    <2>2. Publish(p, t, e)
      BY <1>1, <1>4, <2>1, Zenon DEF Exit
    <2>3. ~Logged(p, "closed")
      BY <1>1, <1>2 DEF TasksOf
    <2> QED
      BY <1>1, <1>3, <1>4, <2>1, <2>2, <2>3, PublishStep
  <1>5. CASE entry[p] # "running"
    <2>1. PICK step \in {"wait", "finish", "close", "done"} : step = "close"
      OBVIOUS
    <2>2. Become(p, t, step)
      BY <1>1, <1>5, <2>1, Zenon DEF Exit
    <2> QED
      BY <1>1, <1>2, <1>3, <2>1, <2>2, QuietStep
  <1> QED
    BY <1>4, <1>5

LEMMA FinishStreamStep ==
    ASSUME Inv, NEW p \in Procs, NEW t \in Outputs, FinishStream(p, t)
    PROVE  Inv'
  <1>1. t \in Tasks /\ t # "exit"
    BY DEF Tasks, Outputs
  <1>2. Typed /\ TasksOf(p) /\ task[p][t].step = "finish" /\ Open(p, t)
    BY DEF Inv, TaskInv, FinishStream, Open
  <1>3. UNCHANGED <<up, entry, outgoing, gone, client, reader>>
    BY Zenon DEF FinishStream
  <1>4. CASE entry[p] = "running"
    <2>1. Become(p, t, "close") /\ streams' = [streams EXCEPT ![p] = @ - 1]
      BY <1>4, Zenon DEF FinishStream
    <2>2. PICK step \in {"close", "done"}, k \in {0} : step = "close" /\ k = 0
      OBVIOUS
    <2>3. Become(p, t, step) /\ step \in Steps
      BY <2>1, <2>2 DEF Steps
    <2>4. Moved(p, t, step, k)
      BY <1>1, <1>2, <2>2, <2>3, BecomeIs
    <2>5. OpenStreams(p)' = OpenStreams(p) - 1 /\ OpenStreams(p) \in 1..2
      BY <1>2, <2>4, StreamsLess
    <2>6. streams[p] = OpenStreams(p) /\ streams \in [Procs -> Nat]
      BY <1>2, <1>4 DEF TasksOf, Typed
    <2>7. /\ streams' \in [Procs -> Nat] /\ streams'[p] <= 2 /\ streams'[p] = OpenStreams(p)'
          /\ \A q \in Procs : q # p => streams'[q] = streams[q]
      BY <2>1, <2>5, <2>6
    <2>8. step \in {"wait", "finish", "close", "done"} /\ step \notin {"wait", "finish"}
      OBVIOUS
    <2> QED
      BY <1>1, <1>2, <1>3, <2>3, <2>7, <2>8, BecomeStep
  <1>5. CASE entry[p] # "running"
    <2>1. PICK step \in {"wait", "finish", "close", "done"} : step = "done"
      OBVIOUS
    <2>2. Become(p, t, step) /\ streams' = streams
      BY <1>5, <2>1, Zenon DEF FinishStream
    <2> QED
      BY <1>1, <1>2, <1>3, <1>5, <2>1, <2>2, QuietStep
  <1> QED
    BY <1>4, <1>5

LEMMA MaybeEmitClosedStep ==
    ASSUME Inv, NEW p \in Procs, NEW t \in Tasks, MaybeEmitClosed(p, t)
    PROVE  Inv'
  <1>1. Typed /\ TasksOf(p) /\ task[p][t].step = "close" /\ ~Open(p, t)
    BY DEF Inv, TaskInv, MaybeEmitClosed, Open
  <1>2. UNCHANGED <<up, entry, streams, outgoing, gone, client, reader>>
    BY Zenon DEF MaybeEmitClosed
  <1>3. CASE Finished(p)
    <2>1. entry[p] = "running" /\ ~Logged(p, "closed") /\ streams[p] = 0 /\ Logged(p, "exit")
      BY <1>3, Zenon DEF Finished
    <2>2. PICK e \in Kinds : e = "closed"
      BY DEF Kinds
    <2>3. Publish(p, t, e)
      BY <1>3, <2>2, Zenon DEF MaybeEmitClosed
    <2>4. OpenStreams(p) = 0
      BY <1>1, <2>1 DEF TasksOf
    <2>5. ~Open(p, "stdout") /\ ~Open(p, "stderr")
      BY <2>4 DEF OpenStreams
    <2>6. \A u \in Outputs : ~Open(p, u)
      BY <2>5 DEF Outputs
    <2> QED
      BY <1>1, <1>2, <2>1, <2>2, <2>3, <2>6, PublishStep
  <1>4. CASE ~Finished(p)
    <2>1. PICK step \in {"wait", "finish", "close", "done"} : step = "done"
      OBVIOUS
    <2>2. Become(p, t, step)
      BY <1>4, <2>1, Zenon DEF MaybeEmitClosed
    <2> QED
      BY <1>1, <1>2, <2>1, <2>2, QuietStep
  <1> QED
    BY <1>3, <1>4

LEMMA TellStep ==
    ASSUME Inv, NEW p \in Procs, NEW t \in Tasks, Tell(p, t)
    PROVE  Inv'
  <1>1. Typed /\ SeqInv /\ task[p][t].step \in {"tell", "tell_closed"}
    BY DEF Inv, Tell
  <1>2. UNCHANGED <<up, entry, streams, gone, client, reader>>
    BY Zenon DEF Tell
  <1>3. PICK step \in {"wait", "finish", "close", "done"} :
            step = CASE task[p][t].step = "tell_closed" -> "done"
                     [] t = "exit" -> "close"
                     [] OTHER -> "wait"
    OBVIOUS
  <1>4. Become(p, t, step)
    BY <1>3, Zenon DEF Tell
  <1>5. t = "exit" => step \notin {"wait", "finish"}
    BY <1>3
  <1>6. t \in Outputs => (Open(p, t) <=> step \in {"wait", "finish"})
    BY <1>1, <1>3 DEF Open, Outputs
  <1>7. Moved(p, t, step, 0) /\ log' = log /\ TaskInv' /\ ClientInv' /\ ReaderInv'
    BY <1>1, <1>2, <1>4, <1>5, <1>6, QuietStep
  <1>8. PICK k : k = 0 /\ Moved(p, t, step, k)
    BY <1>7
  <1> DEFINE m == [proc |-> p, seq |-> task[p][t].seq]
  <1>9. m \in [proc : Procs, seq : Nat] /\ m.proc = p /\ m.seq = task[p][t].seq
    BY <1>1, TaskTypes
  <1>10. outgoing' = outgoing \/ outgoing' = Append(outgoing, m)
    BY DEF Tell
  <1> HIDE DEF m
  <1>11. m.seq \in 1..Len(log[p])
    <2>1. task[p][t].seq <= Len(log[p]) /\ task[p][t].seq > 0
      BY <1>1 DEF SeqInv
    <2>2. task[p][t].seq \in Nat /\ Len(log[p]) \in Nat
      BY <1>1, TaskTypes, Lengths
    <2> QED
      BY <1>9, <2>1, <2>2
  <1>12. outgoing \in Seq([proc : Procs, seq : Nat])
    BY <1>1 DEF Typed
  <1>13. outgoing' \in Seq([proc : Procs, seq : Nat])
    <2> DEFINE R == [proc : Procs, seq : Nat]
    <2>1. m \in R /\ outgoing \in Seq(R)
      BY <1>9, <1>12
    <2> HIDE DEF R
    <2>2. outgoing' \in Seq(R)
      BY <1>10, <2>1
    <2> QED
      BY <2>2 DEF R
  <1>14. \A n \in DOMAIN outgoing' : \/ n \in DOMAIN outgoing /\ outgoing'[n] = outgoing[n]
                                     \/ outgoing'[n] = m
    <2>1. CASE outgoing' = outgoing
      BY <2>1
    <2>2. CASE outgoing' = Append(outgoing, m)
      <3>1. Len(outgoing) \in Nat /\ DOMAIN outgoing = 1..Len(outgoing)
        BY <1>12
      <3>2. /\ DOMAIN outgoing' = 1..(Len(outgoing) + 1)
            /\ \A n \in 1..Len(outgoing) : outgoing'[n] = outgoing[n]
            /\ outgoing'[Len(outgoing) + 1] = m
        BY <1>9, <1>12, <2>2
      <3>3. \A n \in 1..(Len(outgoing) + 1) : n \in 1..Len(outgoing) \/ n = Len(outgoing) + 1
        BY <3>1
      <3> QED
        BY <3>1, <3>2, <3>3, Zenon
    <2> QED
      BY <1>10, <2>1, <2>2
  <1>15. step \in Steps \ {"tell", "tell_closed"}
    BY DEF Steps
  <1>16. \A q \in Procs, u \in Tasks :
             /\ task'[q][u].seq <= Len(log[q])
             /\ task'[q][u].step \in {"tell", "tell_closed"} => task'[q][u].seq > 0
    <2>1. /\ task'[p][t].step = step /\ task'[p][t].seq = 0
          /\ \A q \in Procs, u \in Tasks : q # p \/ u # t => task'[q][u] = task[q][u]
      BY <1>8, Zenon DEF Moved
    <2>2. 0 <= Len(log[p])
      BY <1>1, Lengths
    <2> QED
      BY <1>1, <1>15, <2>1, <2>2 DEF SeqInv
  <1>17. \A n \in DOMAIN outgoing' : outgoing'[n].seq \in 1..Len(log[outgoing'[n].proc])
    BY <1>1, <1>9, <1>11, <1>14, Zenon DEF SeqInv
  <1>18. SeqInv'
    BY <1>7, <1>16, <1>17, Zenon DEF SeqInv
  <1>19. Typed'
    BY <1>1, <1>2, <1>7, <1>8, <1>13 DEF Typed, Moved
  <1> QED
    BY <1>7, <1>18, <1>19 DEF Inv

\* A command is taken on, runs, fails or is forgotten.
LEMMA EntryStep ==
    ASSUME Inv, NEW p \in Procs, NEW x \in {"absent", "starting"},
           entry' = [entry EXCEPT ![p] = x], UNCHANGED <<up, log, streams, task>>,
           \/ x = "starting" /\ entry[p] = "absent" /\ log[p] = <<>> /\ up
           \/ x = "absent" /\ entry[p] = "starting"
           \/ x = "absent" /\ log[p] # <<>>
    PROVE  TaskInv' /\ entry' \in [Procs -> {"absent", "starting", "running"}]
  <1>1. entry \in [Procs -> {"absent", "starting", "running"}] /\ TaskInv
    BY DEF Inv, Typed
  <1>2. /\ entry' \in [Procs -> {"absent", "starting", "running"}]
        /\ entry'[p] = x /\ \A q \in Procs : q # p => entry'[q] = entry[q]
    BY <1>1
  <1>3. ASSUME NEW q \in Procs, q # p PROVE TasksOf(q)'
    BY <1>1, <1>2, <1>3, OtherTasks
  <1>4. TasksOf(p)'
    <2>1. TasksOf(p)
      BY <1>1 DEF TaskInv
    <2>2. \A y : Logged(p, y)' <=> Logged(p, y)
      BY DEF Logged
    <2>3. Unspawned(p) => Unspawned(p)'
      BY DEF Unspawned
    <2> QED
      BY <1>2, <2>1, <2>2, <2>3 DEF TasksOf
  <1>5. \A q \in Procs : TasksOf(q)'
    BY <1>3, <1>4
  <1> QED
    BY <1>2, <1>5, Zenon DEF TaskInv

\* start_process takes the id or fails, or the process is forgotten.
LEMMA ExecBeginStep ==
    ASSUME Inv, NEW p \in Procs, ExecBegin(p) \/ ExecFailed(p) \/ Cleanup(p)
    PROVE  Inv'
  <1>1. UNCHANGED <<up, log, streams, task, outgoing, gone, reader>>
    BY Zenon DEF ExecBegin, ExecFailed, Cleanup
  <1>2. TaskInv' /\ entry' \in [Procs -> {"absent", "starting", "running"}]
    <2>1. CASE ExecBegin(p)
      BY <1>1, <2>1, EntryStep DEF ExecBegin
    <2>2. CASE ExecFailed(p)
      BY <1>1, <2>2, EntryStep DEF ExecFailed
    <2>3. CASE Cleanup(p)
      <3>1. log[p] # <<>>
        BY <2>3 DEF Cleanup, Logged
      <3> QED
        BY <1>1, <2>3, <3>1, EntryStep DEF Cleanup
    <2> QED
      BY <2>1, <2>2, <2>3
  <1>3. ClientKeeps \/ client' = client
    BY ClientMoves DEF Inv, Cleanup
  <1>4. ClientInv' /\ client' \in [Procs -> Followed]
    BY <1>1, <1>3, ClientKept, ClientStays DEF Inv, ClientKeeps, Typed
  <1>5. SeqInv' /\ ReaderInv'
    BY <1>1, SeqStays, ReaderStays DEF Inv
  <1>6. Typed'
    BY <1>1, <1>2, <1>4 DEF Inv, Typed
  <1> QED
    BY <1>2, <1>4, <1>5, <1>6 DEF Inv

\* A command has two output streams.
LEMMA TwoOutputs == Cardinality(Outputs) = 2
  <1>1. Cardinality({"stdout"}) = 1 /\ IsFiniteSet({"stdout"})
    BY FS_Singleton
  <1>2. Outputs = {"stdout"} \cup {"stderr"} /\ "stderr" \notin {"stdout"}
    BY DEF Outputs
  <1> QED
    BY <1>1, <1>2, FS_AddElement

\* The child runs, with its three tasks.
LEMMA ExecSpawnedStep ==
    ASSUME Inv, NEW p \in Procs, ExecSpawned(p)
    PROVE  Inv'
  <1>1. Typed /\ TaskInv /\ SeqInv /\ ClientInv /\ ReaderInv
    BY DEF Inv
  <1>2. /\ up /\ entry[p] = "starting"
        /\ entry' = [entry EXCEPT ![p] = "running"]
        /\ streams' = [streams EXCEPT ![p] = Cardinality(Outputs)]
        /\ task' = [task EXCEPT ![p] = [t \in Tasks |-> At("wait", 0)]]
        /\ reader' = [reader EXCEPT ![p].step = "ask"]
        /\ UNCHANGED <<up, log, outgoing, gone, client>>
    BY Zenon DEF ExecSpawned
  <1>3. Cardinality(Outputs) = 2
    BY TwoOutputs
  <1>4. /\ entry' \in [Procs -> {"absent", "starting", "running"}]
        /\ entry'[p] = "running" /\ \A q \in Procs : q # p => entry'[q] = entry[q]
    BY <1>1, <1>2 DEF Typed
  <1>5. /\ streams' \in [Procs -> Nat] /\ streams'[p] = 2
        /\ \A q \in Procs : q # p => streams'[q] = streams[q]
    BY <1>1, <1>2, <1>3 DEF Typed
  <1> DEFINE w == [t \in Tasks |-> At("wait", 0)]
  <1>6. /\ w \in [Tasks -> [step : Steps, seq : Nat]]
        /\ \A t \in Tasks : w[t].step = "wait" /\ w[t].seq = 0
    BY DEF At, Steps
  <1>7. task' = [task EXCEPT ![p] = w]
    BY <1>2
  <1> HIDE DEF w
  <1>8. /\ task' \in [Procs -> [Tasks -> [step : Steps, seq : Nat]]]
        /\ \A t \in Tasks : task'[p][t].step = "wait" /\ task'[p][t].seq = 0
        /\ \A q \in Procs : q # p => task'[q] = task[q]
    <2>1. task \in [Procs -> [Tasks -> [step : Steps, seq : Nat]]]
      BY <1>1 DEF Typed
    <2>2. task' \in [Procs -> [Tasks -> [step : Steps, seq : Nat]]]
      BY <1>6, <1>7, <2>1
    <2>3. task'[p] = w /\ \A q \in Procs : q # p => task'[q] = task[q]
      BY <1>7, <2>1
    <2> QED
      BY <1>6, <2>2, <2>3
  <1>9. Unspawned(p)
    BY <1>1, <1>2 DEF TaskInv, TasksOf
  <1>10. TasksOf(p)'
    <2>1. \A x : ~Logged(p, x)'
      BY <1>2, <1>9 DEF Unspawned, Logged
    <2>2. "stdout" \in Tasks /\ "stderr" \in Tasks /\ "exit" \in Tasks
      BY DEF Tasks, Outputs
    <2>3. Open(p, "stdout")' /\ Open(p, "stderr")'
      BY <1>8, <2>2 DEF Open
    <2>4. OpenStreams(p)' = 2
      BY <2>3 DEF OpenStreams
    <2>5. \A t \in Tasks : task'[p][t].step # "off"
      BY <1>8
    <2>6. task'[p]["exit"].step # "finish"
      BY <1>8, <2>2
    <2> QED
      BY <1>4, <1>5, <2>1, <2>4, <2>5, <2>6 DEF TasksOf
  <1>11. ASSUME NEW q \in Procs, q # p PROVE TasksOf(q)'
    BY <1>1, <1>2, <1>4, <1>5, <1>8, <1>11, OtherTasks
  <1>12. TaskInv'
    BY <1>10, <1>11, Zenon DEF TaskInv
  <1>13. SeqInv'
    <2>1. 0 <= Len(log[p])
      BY <1>1, Lengths
    <2>2. \A q \in Procs, t \in Tasks :
              /\ task'[q][t].seq <= Len(log[q])
              /\ task'[q][t].step \in {"tell", "tell_closed"} => task'[q][t].seq > 0
      BY <1>1, <1>8, <2>1 DEF SeqInv
    <2> QED
      BY <1>1, <1>2, <2>2, Zenon DEF SeqInv
  <1>14. ClientInv'
    BY <1>1, <1>2, ClientStays
  <1>15. ReaderInv' /\ reader' \in [Procs -> Readers]
    BY <1>1, <1>2, ReaderMoves
  <1>16. Typed'
    BY <1>1, <1>2, <1>4, <1>5, <1>8, <1>15 DEF Typed
  <1> QED
    BY <1>12, <1>13, <1>14, <1>15, <1>16 DEF Inv

\* The process map is emptied.
LEMMA ShutdownStep ==
    ASSUME Inv, Shutdown
    PROVE  Inv'
  <1>1. Typed /\ TaskInv /\ SeqInv /\ ClientInv /\ ReaderInv
    BY DEF Inv
  <1>2. /\ ~up /\ entry' = [p \in Procs |-> "absent"]
        /\ UNCHANGED <<up, log, streams, task, outgoing, gone, client, reader>>
    BY Zenon DEF Shutdown
  <1>3. ASSUME NEW q \in Procs PROVE TasksOf(q)'
    <2>1. TasksOf(q) /\ entry'[q] = "absent" /\ ~up'
      BY <1>1, <1>2 DEF TaskInv
    <2>2. \A x : Logged(q, x)' <=> Logged(q, x)
      BY <1>2 DEF Logged
    <2> QED
      BY <1>2, <2>1, <2>2 DEF TasksOf
  <1>4. TaskInv'
    BY <1>3, Zenon DEF TaskInv
  <1>5. SeqInv' /\ ClientInv' /\ ReaderInv'
    BY <1>1, <1>2, SeqStays, ClientStays, ReaderStays
  <1>6. Typed'
    BY <1>1, <1>2 DEF Typed
  <1> QED
    BY <1>4, <1>5, <1>6 DEF Inv

\* The transport ends, and the client meets the disconnect.
LEMMA ConnectionStep ==
    ASSUME Inv, Disconnect \/ NoticeDisconnect
    PROVE  Inv'
  <1>1. Typed /\ TaskInv /\ SeqInv /\ ClientInv /\ ReaderInv
    BY DEF Inv
  <1>2. UNCHANGED <<entry, log, streams, task, reader>> /\ (up' => up) /\ up' \in BOOLEAN
        /\ gone' \in BOOLEAN
    <2>1. UNCHANGED <<entry, log, streams, task, reader>>
      BY DEF Disconnect, NoticeDisconnect, processVars
    <2>2. up \in BOOLEAN /\ gone \in BOOLEAN
      BY <1>1, Zenon DEF Typed
    <2>3. CASE Disconnect
      BY <2>1, <2>2, <2>3, Zenon DEF Disconnect
    <2>4. CASE NoticeDisconnect
      BY <2>1, <2>2, <2>4, Zenon DEF NoticeDisconnect
    <2> QED
      BY <2>3, <2>4
  <1>3. outgoing' = outgoing \/ outgoing' = <<>>
    BY DEF Disconnect, NoticeDisconnect
  <1>4. ClientKeeps \/ client' = client
    BY <1>1, ClientGone DEF Disconnect
  <1>5. ClientInv' /\ client' \in [Procs -> Followed]
    BY <1>1, <1>2, <1>4, ClientKept, ClientStays DEF ClientKeeps, Typed
  <1>6. TaskInv' /\ ReaderInv'
    BY <1>1, <1>2, TaskStays, ReaderStays
  <1>7. SeqInv'
    <2>1. CASE outgoing' = outgoing
      BY <1>1, <1>2, <2>1, SeqStays
    <2>2. CASE outgoing' = <<>>
      BY <1>1, <1>2, <2>2 DEF SeqInv
    <2> QED
      BY <1>3, <2>1, <2>2
  <1>8. outgoing' \in Seq([proc : Procs, seq : Nat])
    <2> DEFINE R == [proc : Procs, seq : Nat]
    <2>1. outgoing \in Seq(R)
      BY <1>1 DEF Typed
    <2> HIDE DEF R
    <2>2. outgoing' \in Seq(R)
      BY <1>3, <2>1, <<>> \in Seq(R), Zenon
    <2> QED
      BY <2>2 DEF R
  <1>9. Typed'
    BY <1>1, <1>2, <1>5, <1>8 DEF Typed
  <1> QED
    BY <1>5, <1>6, <1>7, <1>9 DEF Inv

\* A notification arrives.
LEMMA ReceiveStep ==
    ASSUME Inv, Receive
    PROVE  Inv'
  <1>1. Typed /\ TaskInv /\ SeqInv /\ ClientInv /\ ReaderInv
    BY DEF Inv
  <1>2. /\ outgoing # <<>> /\ outgoing' = Tail(outgoing)
        /\ UNCHANGED <<up, entry, log, streams, task, gone, reader>>
    BY DEF Receive, processVars
  <1>3. PICK p \in Procs :
            /\ client' \in [Procs -> Followed]
            /\ \A q \in Procs : q # p => client'[q] = client[q]
            /\ \/ client'[p] = client[p]
               \/ \E last \in client[p].seen..Len(log[p]) : ShownUpTo(client'[p], p, last)
    BY <1>1, ReceiveIs
  <1>4. ClientInv'
    <2>1. CASE client'[p] = client[p]
      BY <1>1, <1>2, <1>3, <2>1 DEF ClientInv
    <2>2. ASSUME NEW last \in client[p].seen..Len(log[p]), ShownUpTo(client'[p], p, last)
          PROVE  ClientInv'
      <3>1. last <= Len(log[p])
        <4>1. Len(log[p]) \in Nat /\ client[p].seen \in Nat
          BY <1>1, Lengths DEF Typed, Followed
        <4> QED
          BY <4>1
      <3> QED
        BY <1>1, <1>2, <1>3, <2>2, <3>1 DEF ClientInv, ShownUpTo
    <2> QED
      BY <1>3, <2>1, <2>2
  <1>5. TaskInv' /\ ReaderInv'
    BY <1>1, <1>2, TaskStays, ReaderStays
  <1>6. /\ outgoing' \in Seq([proc : Procs, seq : Nat])
        /\ \A n \in DOMAIN outgoing' : n + 1 \in DOMAIN outgoing /\ outgoing'[n] = outgoing[n + 1]
    <2> DEFINE R == [proc : Procs, seq : Nat]
    <2>1. outgoing \in Seq(R)
      BY <1>1 DEF Typed
    <2> HIDE DEF R
    <2>2. /\ outgoing' \in Seq(R)
          /\ \A n \in DOMAIN outgoing' : n + 1 \in DOMAIN outgoing /\ outgoing'[n] = outgoing[n + 1]
      BY <1>2, <2>1
    <2> QED
      BY <2>2 DEF R
  <1>7. SeqInv'
    <2>1. \A n \in DOMAIN outgoing' : outgoing'[n].seq \in 1..Len(log[outgoing'[n].proc])
      BY <1>1, <1>6, Zenon DEF SeqInv
    <2> QED
      BY <1>1, <1>2, <2>1, Zenon DEF SeqInv
  <1>8. Typed'
    BY <1>1, <1>2, <1>3, <1>6 DEF Typed
  <1> QED
    BY <1>4, <1>5, <1>7, <1>8 DEF Inv

\* The RPC reader ends before the transport.
LEMMA BreakStep ==
    ASSUME Inv, NEW late, ReaderBreaks(late)
    PROVE  Inv'
  <1>1. Typed /\ TaskInv /\ SeqInv /\ ClientInv /\ ReaderInv
    BY DEF Inv
  <1>2. UNCHANGED <<entry, log, streams, task, outgoing, gone, client>> /\ up' = FALSE
    BY DEF ReaderBreaks, processVars
  <1>3. ReaderInv' /\ reader' \in [Procs -> Readers]
    BY <1>1, ReadersHang
  <1>4. TaskInv' /\ SeqInv' /\ ClientInv'
    BY <1>1, <1>2, TaskStays, SeqStays, ClientStays
  <1>5. up' \in BOOLEAN
    BY <1>2, Zenon
  <1>6. Typed'
    BY <1>1, <1>2, <1>3, <1>5, Zenon DEF Typed
  <1> QED
    BY <1>3, <1>4, <1>6 DEF Inv

\* The reader asks, gives up or wakes.
LEMMA ReadStep ==
    ASSUME Inv, NEW p \in Procs, Read(p) \/ ReadFails(p) \/ Wake(p)
    PROVE  Inv'
  <1>1. Typed /\ TaskInv /\ SeqInv /\ ClientInv /\ ReaderInv
    BY DEF Inv
  <1>2. UNCHANGED <<up, entry, log, streams, task, outgoing, gone>>
    BY DEF Read, ReadFails, Wake, processVars
  <1>3. \/ reader' = [reader EXCEPT ![p].step = "ask"]
        \/ reader' = [reader EXCEPT ![p] = Failed]
        \/ reader' = [reader EXCEPT ![p] = Answered(p)]
    BY DEF Read, ReadFails, Wake
  <1>4. ReaderInv' /\ reader' \in [Procs -> Readers]
    BY <1>1, <1>2, <1>3, ReaderMoves
  <1>5. ClientKeeps \/ client' = client
    BY <1>1, ClientMoves DEF Read
  <1>6. ClientInv' /\ client' \in [Procs -> Followed]
    BY <1>1, <1>2, <1>5, ClientKept, ClientStays DEF ClientKeeps, Typed
  <1>7. TaskInv' /\ SeqInv'
    BY <1>1, <1>2, TaskStays, SeqStays
  <1>8. Typed'
    BY <1>1, <1>2, <1>4, <1>6 DEF Typed
  <1> QED
    BY <1>4, <1>6, <1>7, <1>8 DEF Inv

\* The initial states satisfy the invariant.
LEMMA InitInv == Init => Inv
  <1> SUFFICES ASSUME Init PROVE Inv
    OBVIOUS
  <1>1. up \in BOOLEAN /\ gone \in BOOLEAN
    BY Zenon DEF Init
  <1>2. entry \in [Procs -> {"absent", "starting", "running"}] /\ streams \in [Procs -> Nat]
    BY DEF Init
  <1>3. /\ \A p \in Procs : log[p] = <<>> /\ log[p] \in Seq(Kinds)
        /\ log \in [Procs -> Seq(Kinds)]
    BY DEF Init
  <1>4. /\ \A p \in Procs, t \in Tasks : task[p][t] = At("off", 0)
        /\ task \in [Procs -> [Tasks -> [step : Steps, seq : Nat]]]
    BY DEF Init, At, Steps
  <1>5. \A p \in Procs, t \in Tasks : task[p][t].step = "off" /\ task[p][t].seq = 0
    BY <1>4 DEF At
  <1>6. outgoing = <<>> /\ outgoing \in Seq([proc : Procs, seq : Nat])
    <2> DEFINE R == [proc : Procs, seq : Nat]
    <2> HIDE DEF R
    <2>1. outgoing = <<>> /\ outgoing \in Seq(R)
      BY DEF Init
    <2> QED
      BY <2>1 DEF R
  <1>7. /\ NoClient \in Followed /\ NoClient.seen = 0 /\ NoClient.published = <<>>
        /\ NoClient.early = {}
    BY DEF NoClient, Followed
  <1>8. client \in [Procs -> Followed] /\ \A p \in Procs : client[p] = NoClient
    BY <1>7 DEF Init
  <1>9. /\ NoReader \in Readers /\ NoReader.after = 0 /\ NoReader.got = {}
        /\ NoReader.due = {}
    BY DEF NoReader, Readers
  <1>10. reader \in [Procs -> Readers] /\ \A p \in Procs : reader[p] = NoReader
    BY <1>9 DEF Init
  <1>11. Typed
    BY <1>1, <1>2, <1>3, <1>4, <1>6, <1>8, <1>10, Zenon DEF Typed
  <1>12. TaskInv
    <2> SUFFICES ASSUME NEW p \in Procs PROVE TasksOf(p)
      BY DEF TaskInv
    <2>1. entry[p] = "absent" /\ streams[p] = 0 /\ \A e : ~Logged(p, e)
      BY <1>3 DEF Init, Logged
    <2>2. Unspawned(p)
      BY <1>3, <1>5 DEF Unspawned
    <2>3. "exit" \in Tasks
      BY DEF Tasks
    <2> QED
      BY <1>5, <2>1, <2>2, <2>3 DEF TasksOf
  <1>13. SeqInv
    <2>1. \A p \in Procs : Len(log[p]) = 0
      BY <1>3
    <2>2. \A n \in DOMAIN outgoing : FALSE
      BY <1>6
    <2> QED
      BY <1>5, <2>1, <2>2 DEF SeqInv
  <1>14. ClientInv
    <2> SUFFICES ASSUME NEW p \in Procs
                 PROVE  /\ client[p].seen <= Len(log[p])
                        /\ client[p].published = [i \in 1..client[p].seen |-> i]
                        /\ client[p].early \subseteq (client[p].seen + 2)..Len(log[p])
      BY Zenon DEF ClientInv
    <2>1. Len(log[p]) = 0
      BY <1>3
    <2>2. [i \in 1..0 |-> i] = <<>>
      OBVIOUS
    <2> QED
      BY <1>7, <1>8, <2>1, <2>2
  <1>15. ReaderInv
    <2>1. \A p \in Procs : Len(log[p]) = 0 /\ Chunks(p) = {} /\ RetainedOutput(p) = {}
      BY <1>3 DEF RetainedOutput, Chunks
    <2> QED
      BY <1>9, <1>10, <2>1 DEF ReaderInv
  <1> QED
    BY <1>11, <1>12, <1>13, <1>14, <1>15 DEF Inv

\* One step of the connection, of a command's task, of the client or of a
\* reader.
LEMMA StepInv ==
    ASSUME Inv, Next
    PROVE  Inv'
  <1>1. ASSUME NEW p \in Procs, ProcessStep(p) PROVE Inv'
    BY <1>1, ExecBeginStep, ExecSpawnedStep, ExitStep, OutputStep, StreamEndsStep, FinishStreamStep,
       MaybeEmitClosedStep, TellStep DEF ProcessStep
  <1> QED
    BY <1>1, ShutdownStep, ConnectionStep, BreakStep, ReceiveStep, ReadStep DEF Next, ReaderStep

\* A step in which nothing happens.
LEMMA StutterInv ==
    ASSUME Inv, UNCHANGED vars
    PROVE  Inv'
  <1>1. UNCHANGED <<up, entry, log, streams, task, outgoing, gone, client, reader>>
    BY Zenon DEF vars, processVars
  <1>2. Typed'
    BY <1>1, Zenon DEF Inv, Typed
  <1>3. TaskInv' /\ SeqInv' /\ ClientInv' /\ ReaderInv'
    BY <1>1, TaskStays, SeqStays, ClientStays, ReaderStays DEF Inv
  <1> QED
    BY <1>2, <1>3 DEF Inv

\* The invariant holds in every state of every behaviour, however much the
\* commands write, whenever the transport ends and in whatever order the
\* notifications come (local_process.rs, client.rs).
THEOREM Invariance == Spec => []Inv
  <1>1. Inv /\ [Next]_vars => Inv'
    BY StepInv, StutterInv
  <1> QED
    BY InitInv, <1>1, PTL DEF Spec

\* Every variable keeps its type, the numbers in flight were given out, and
\* what the client holds back lies beyond a gap (LocalProcess, SessionState).
THEOREM TypeCorrect == Spec => []TypeOK
  <1>1. ASSUME Inv PROVE TypeOK
    <2>1. Typed /\ TaskInv /\ SeqInv /\ ClientInv /\ ReaderInv
      BY <1>1 DEF Inv
    <2>2. {up, gone} \subseteq BOOLEAN
      BY <2>1, Zenon DEF Typed
    <2>3. entry \in [Procs -> {"absent", "starting", "running"}]
      BY <2>1 DEF Typed
    <2>4. \A p \in Procs : \A n \in DOMAIN log[p] : log[p][n] \in {"output", "exit", "closed"}
      BY <2>1 DEF Typed, Kinds
    <2>5. streams \in [Procs -> 0..Cardinality(Outputs)]
      BY <2>1, TwoOutputs DEF Typed, TaskInv, TasksOf
    <2>6. \A p \in Procs, t \in Tasks : task[p][t].seq \in 0..Len(log[p])
      BY <2>1, TaskTypes, Lengths DEF SeqInv
    <2>7. \A n \in DOMAIN outgoing : outgoing[n].seq \in 1..Len(log[outgoing[n].proc])
      BY <2>1, Zenon DEF SeqInv
    <2>8. \A p \in Procs : client[p].early \subseteq (client[p].seen + 2)..Len(log[p])
      BY <2>1, Zenon DEF ClientInv
    <2>9. \A p \in Procs : reader[p].got \subseteq Chunks(p) /\ reader[p].after \in Nat
      BY <2>1 DEF ReaderInv, Typed, Readers
    <2> QED
      BY <2>2, <2>3, <2>4, <2>5, <2>6, <2>7, <2>8, <2>9, Zenon DEF TypeOK
  <1> QED
    BY Invariance, <1>1, PTL

\* A reader has every chunk that lay in the server's buffer at one of its reads:
\* exec_read's next_seq and the reader's after_seq leave no hole, whatever is
\* written or dropped between two reads.
THEOREM ReaderIsComplete == Spec => []ReaderComplete
  <1>1. Inv => ReaderComplete
    BY DEF Inv, ReaderInv, ReaderComplete
  <1> QED
    BY Invariance, <1>1, PTL

----------------------------------------------------------------------------
(* EventStream *)

\* What the follower of EventStream has been shown.
Shown == [p \in Procs |-> client[p].published]

\* A task's event is one that may happen next.
LEMMA PublishHappens ==
    ASSUME NEW p \in Procs, NEW t \in Tasks, NEW e \in Kinds, Publish(p, t, e),
           ~Logged(p, "closed"), e = "exit" => ~Logged(p, "exit"),
           e = "closed" => Logged(p, "exit"), UNCHANGED <<client, gone>>
    PROVE  Stream!Next
  <1>1. log' = [log EXCEPT ![p] = Append(@, e)]
    BY Zenon DEF Publish
  <1>2. UNCHANGED <<Shown, gone>>
    BY DEF Shown
  <1>3. Stream!Happen(p, e)
    BY <1>1, <1>2, Zenon DEF Stream!Happen, Stream!Occurred, Logged, Shown
  <1> QED
    BY <1>3, Zenon DEF Stream!Next, Kinds

\* A task that goes on without an event is not seen.
LEMMA QuietHidden ==
    ASSUME log' = log, UNCHANGED <<client, gone>>
    PROVE  UNCHANGED Stream!vars
  BY Zenon DEF Stream!vars

\* A change of the client's state that publishes nothing is not seen either.
LEMMA KeptHidden ==
    ASSUME log' = log, gone' = gone, ClientKeeps
    PROVE  UNCHANGED Stream!vars
  <1>1. Shown' = Shown
    BY DEF Shown, ClientKeeps
  <1> QED
    BY <1>1, Zenon DEF Stream!vars, Shown

\* What a task of a command does is an event or is not seen.
LEMMA TaskRefines ==
    ASSUME Inv, NEW p \in Procs, ProcessStep(p)
    PROVE  [Stream!Next]_(Stream!vars)
  <1>1. Typed /\ TasksOf(p)
    BY DEF Inv, TaskInv
  <1>2. CASE ExecBegin(p) \/ ExecFailed(p)
    <2>1. ClientKeeps
      BY <1>1, <1>2, ClientMoves
    <2>2. log' = log /\ gone' = gone
      BY <1>2, Zenon DEF ExecBegin, ExecFailed
    <2> QED
      BY <2>1, <2>2, KeptHidden
  <1>3. CASE ExecSpawned(p) \/ Cleanup(p)
    <2>1. log' = log /\ UNCHANGED <<client, gone>>
      BY <1>3, Zenon DEF ExecSpawned, Cleanup
    <2> QED
      BY <2>1, QuietHidden
  <1>4. CASE Exit(p)
    <2>1. UNCHANGED <<client, gone>> /\ task[p]["exit"].step = "wait"
      BY <1>4, Zenon DEF Exit
    <2>2. CASE entry[p] = "running"
      <3>1. PICK t \in Tasks, e \in Kinds : t = "exit" /\ e = "exit"
        BY DEF Tasks, Kinds
      <3>2. Publish(p, t, e)
        BY <1>4, <2>2, <3>1, Zenon DEF Exit
      <3>3. ~Logged(p, "exit") /\ ~Logged(p, "closed")
        BY <1>1, <2>1 DEF TasksOf
      <3> QED
        BY <2>1, <3>1, <3>2, <3>3, PublishHappens
    <2>3. CASE entry[p] # "running"
      <3>1. log' = log
        BY <1>4, <2>3, Zenon DEF Exit, Become
      <3> QED
        BY <2>1, <3>1, QuietHidden
    <2> QED
      BY <2>2, <2>3
  <1>5. ASSUME NEW t \in Outputs, Output(p, t) \/ StreamEnds(p, t) \/ FinishStream(p, t)
        PROVE  [Stream!Next]_(Stream!vars)
    <2>1. UNCHANGED <<client, gone>>
      BY <1>5, Zenon DEF Output, StreamEnds, FinishStream
    <2>2. CASE Output(p, t) /\ entry[p] = "running"
      <3>1. PICK e \in Kinds : e = "output"
        BY DEF Kinds
      <3>2. Publish(p, t, e) /\ task[p][t].step = "wait"
        BY <2>2, <3>1, Zenon DEF Output
      <3>3. t \in Tasks
        BY DEF Tasks
      <3>4. ~Logged(p, "closed")
        BY <1>1, <3>2 DEF TasksOf
      <3> QED
        BY <2>1, <3>1, <3>2, <3>3, <3>4, PublishHappens
    <2>3. CASE ~(Output(p, t) /\ entry[p] = "running")
      <3>1. log' = log
        <4>1. CASE Output(p, t)
          BY <2>3, <4>1, Zenon DEF Output, Become
        <4>2. CASE StreamEnds(p, t)
          BY <4>2, Zenon DEF StreamEnds, Become
        <4>3. CASE FinishStream(p, t)
          BY <4>3, Zenon DEF FinishStream, Become
        <4> QED
          BY <1>5, <4>1, <4>2, <4>3
      <3> QED
        BY <2>1, <3>1, QuietHidden
    <2> QED
      BY <2>2, <2>3
  <1>6. ASSUME NEW t \in Tasks, MaybeEmitClosed(p, t)
        PROVE  [Stream!Next]_(Stream!vars)
    <2>1. UNCHANGED <<client, gone>>
      BY <1>6, Zenon DEF MaybeEmitClosed
    <2>2. CASE Finished(p)
      <3>1. PICK e \in Kinds : e = "closed"
        BY DEF Kinds
      <3>2. Publish(p, t, e)
        BY <1>6, <2>2, <3>1, Zenon DEF MaybeEmitClosed
      <3>3. ~Logged(p, "closed") /\ Logged(p, "exit")
        BY <2>2, Zenon DEF Finished
      <3> QED
        BY <2>1, <3>1, <3>2, <3>3, PublishHappens
    <2>3. CASE ~Finished(p)
      <3>1. log' = log
        BY <1>6, <2>3, Zenon DEF MaybeEmitClosed, Become
      <3> QED
        BY <2>1, <3>1, QuietHidden
    <2> QED
      BY <2>2, <2>3
  <1>7. ASSUME NEW t \in Tasks, Tell(p, t)
        PROVE  [Stream!Next]_(Stream!vars)
    <2>1. log' = log /\ UNCHANGED <<client, gone>>
      BY <1>7, Zenon DEF Tell, Become
    <2> QED
      BY <2>1, QuietHidden
  <1> QED
    BY <1>2, <1>3, <1>4, <1>5, <1>6, <1>7 DEF ProcessStep

\* A notification shows the follower some events, or is not seen.
LEMMA ReceiveRefines ==
    ASSUME Inv, Receive
    PROVE  [Stream!Next]_(Stream!vars)
  <1>1. Typed /\ SeqInv /\ ClientInv
    BY DEF Inv
  <1>2. ~gone /\ log' = log /\ gone' = gone
    BY Zenon DEF Receive, processVars
  <1>3. PICK p \in Procs :
            /\ client' \in [Procs -> Followed]
            /\ \A q \in Procs : q # p => client'[q] = client[q]
            /\ \/ client'[p] = client[p]
               \/ \E last \in client[p].seen..Len(log[p]) : ShownUpTo(client'[p], p, last)
    BY <1>1, ReceiveIs
  <1>4. \A q \in Procs : q # p => Shown'[q] = Shown[q]
    BY <1>3 DEF Shown
  <1>5. CASE client'[p].published = client[p].published
    <2>1. Shown' = Shown
      BY <1>3, <1>5 DEF Shown
    <2> QED
      BY <1>2, <2>1, Zenon DEF Stream!vars, Shown
  <1>6. CASE client'[p].published # client[p].published
    <2>1. PICK last \in client[p].seen..Len(log[p]) : ShownUpTo(client'[p], p, last)
      BY <1>3, <1>6
    <2>2. /\ client[p].published = [i \in 1..client[p].seen |-> i] /\ client[p].seen \in Nat
          /\ Len(log[p]) \in Nat
      BY <1>1, Lengths DEF ClientInv, Typed, Followed
    <2>3. client'[p].published = [i \in 1..last |-> i] /\ last # client[p].seen
      BY <1>6, <2>1, <2>2 DEF ShownUpTo
    <2>4. Len(Shown[p]) = client[p].seen
      BY <2>2 DEF Shown
    <2>5. last \in (Len(Shown[p]) + 1)..Len(log[p])
      BY <2>1, <2>2, <2>3, <2>4
    <2>6. Shown' = [Shown EXCEPT ![p] = [i \in 1..last |-> i]]
      BY <1>4, <2>3 DEF Shown
    <2>7. Stream!Show(p)
      BY <1>2, <2>5, <2>6, Zenon DEF Stream!Show, Shown
    <2> QED
      BY <2>7, Zenon DEF Stream!Next
  <1> QED
    BY <1>5, <1>6

\* Every step is a step of EventStream or is not seen there.
LEMMA StepRefines ==
    ASSUME Inv, Next
    PROVE  [Stream!Next]_(Stream!vars)
  <1>1. CASE Disconnect \/ Shutdown \/ \E late \in SUBSET Procs : ReaderBreaks(late)
    <2>1. log' = log /\ UNCHANGED <<client, gone>>
      BY <1>1, Zenon DEF Disconnect, Shutdown, ReaderBreaks, processVars
    <2> QED
      BY <2>1, QuietHidden
  <1>2. CASE NoticeDisconnect
    <2>1. log' = log /\ gone' = TRUE
      BY <1>2, Zenon DEF NoticeDisconnect, processVars
    <2>2. ClientKeeps
      BY <1>2, ClientGone DEF Inv
    <2>3. Shown' = Shown
      BY <2>2 DEF Shown, ClientKeeps
    <2>4. Stream!End
      BY <2>1, <2>3, Zenon DEF Stream!End, Shown
    <2> QED
      BY <2>4, Zenon DEF Stream!Next
  <1>3. ASSUME NEW p \in Procs, Read(p) \/ ReadFails(p) \/ Wake(p)
        PROVE  [Stream!Next]_(Stream!vars)
    <2>1. log' = log /\ gone' = gone
      BY <1>3, Zenon DEF Read, ReadFails, Wake, processVars
    <2>2. CASE Read(p)
      <3>1. client' = client
        BY <2>2, Zenon DEF Read
      <3> QED
        BY <2>1, <3>1, QuietHidden
    <2>3. CASE ReadFails(p) \/ Wake(p)
      BY <2>1, <2>3, ClientMoves, KeptHidden DEF Inv
    <2> QED
      BY <1>3, <2>2, <2>3
  <1> QED
    BY <1>1, <1>2, <1>3, TaskRefines, ReceiveRefines DEF Next, ReaderStep

\* The server's tasks and the client's event loop implement EventStream: what
\* the client publishes of a command is its history from the beginning, in
\* order and once, with one exit and nothing after the close, although every
\* notification leaves its task after the lock and may overtake the others.
THEOREM Refinement == Spec => FollowsHistory
  <1>1. Init => Stream!Init
    <2> SUFFICES ASSUME Init PROVE Stream!Init
      OBVIOUS
    <2>1. NoClient.published = <<>>
      BY DEF NoClient
    <2>2. Shown = [p \in Procs |-> <<>>]
      BY <2>1 DEF Init, Shown
    <2>3. log = [p \in Procs |-> <<>>] /\ gone = FALSE
      BY Zenon DEF Init
    <2> QED
      BY <2>2, <2>3, Zenon DEF Stream!Init, Shown
  <1>2. ASSUME Inv, [Next]_vars PROVE [Stream!Next]_(Stream!vars)
    <2>1. CASE UNCHANGED vars
      <3>1. log' = log /\ UNCHANGED <<client, gone>>
        BY <2>1, Zenon DEF vars, processVars
      <3> QED
        BY <3>1, QuietHidden
    <2> QED
      BY <1>2, <2>1, StepRefines
  <1> QED
    BY Invariance, <1>1, <1>2, PTL DEF Spec, FollowsHistory, Stream!Spec

-----------------------------------------------------------------------------
(* The sessions of the server *)

\* A connection that may still be given, or still has, its session.
Attached(c) == Serving(c) \/ at[c] = "stopping"

\* The owner of a session holds it and has not begun to leave it; the session
\* is registered.
OwnerHolds ==
    \A s \in Sessions : owner[s] # None =>
        held[owner[s]] = s /\ Attached(owner[s]) /\ s \in registry

\* The other way round: a connection that holds a session owns it until it
\* detaches.
HolderOwns ==
    \A c \in Conns :
        /\ Attached(c) /\ held[c] # None => owner[held[c]] = c
        /\ at[c] = "unborn" => held[c] = None
        /\ at[c] = "unsending" => held[c] # None
        /\ held[c] # None => held[c] \in used

\* Time runs only for a session without a connection, and only a session that
\* has left the registry is shut down.
ExpiryInv ==
    \A s \in Sessions :
        /\ detached[s] # None => owner[s] = None
        /\ due[s] => detached[s] # None
        /\ reapers[s] # {} => s \in used \ registry

\* The connection that opened a session hears from it, as long as no other has
\* had the session: only a detach takes the sender away.
OpenerHeard ==
    \A c \in Conns :
        Serving(c) /\ held[c] # None /\ (\A d \in Conns : held[d] = held[c] => d = c)
            => sender[held[c]] = c

\* The inductive invariant of the sessions.
SessionInv ==
    /\ SessionsTypeOK /\ OwnerHolds /\ HolderOwns /\ ExpiryInv
    /\ SenderIsCurrent /\ OpenerHeard

\* The initial states satisfy it.
LEMMA SessionInitInv ==
    ASSUME SessionsInit
    PROVE  SessionInv
  <1>1. SessionsTypeOK
    <2>1. /\ due \in [Sessions -> BOOLEAN]
          /\ link \in [Conns -> BOOLEAN] /\ ready \in [Conns -> BOOLEAN]
      BY Zenon DEF SessionsInit
    <2> QED
      BY <2>1 DEF SessionsInit, SessionsTypeOK, Phases
  <1>2. OwnerHolds /\ HolderOwns /\ SenderIsCurrent /\ OpenerHeard
    BY DEF SessionsInit, OwnerHolds, HolderOwns, SenderIsCurrent, OpenerHeard, Attached, Serving
  <1>3. ExpiryInv
    BY DEF SessionsInit, ExpiryInv
  <1> QED
    BY <1>1, <1>2, <1>3 DEF SessionInv

\* One step of a connection, of a session's clock or timer, or of a command.
LEMMA SessionStepInv ==
    ASSUME SessionInv, SessionsNext
    PROVE  SessionInv'
  <1> USE SessionsAssumption DEF SessionInv, SessionsTypeOK, OwnerHolds, HolderOwns, ExpiryInv,
          SenderIsCurrent, OpenerHeard, Attached, Serving, Phases, attachVars, connVars, reapVars
  <1>1. ASSUME NEW c \in Conns, Connect(c) PROVE SessionInv'
    BY <1>1 DEF Connect
  <1>2. ASSUME NEW c \in Conns, TransportEnds(c) PROVE SessionInv'
    BY <1>2 DEF TransportEnds
  <1>3. ASSUME NEW c \in Conns, LeaveLoop(c) PROVE SessionInv'
    BY <1>3 DEF LeaveLoop
  <1>4. ASSUME NEW c \in Conns, Detach(c) PROVE SessionInv'
    BY <1>4 DEF Detach
  <1>5. ASSUME NEW c \in Conns, StopSending(c) PROVE SessionInv'
    BY <1>5 DEF StopSending
  <1>6. ASSUME NEW c \in Conns, Finish(c) PROVE SessionInv'
    BY <1>6 DEF Finish
  <1>7. ASSUME NEW c \in Conns, Initialized(c) PROVE SessionInv'
    BY <1>7 DEF Initialized
  <1>8. ASSUME NEW c \in Conns, ExecReturns(c) PROVE SessionInv'
    BY <1>8 DEF ExecReturns, ExecEnd
  <1>9. ASSUME NEW s \in Sessions, Elapse(s) PROVE SessionInv'
    BY <1>9 DEF Elapse
  <1>10. ASSUME NEW s \in Sessions, TimerReaps(s) PROVE SessionInv'
    BY <1>10 DEF TimerReaps, ShutdownProcesses
  <1>11. ASSUME NEW s \in Sessions, Forget(s) PROVE SessionInv'
    BY <1>11 DEF Forget
  <1>12. ASSUME NEW c \in Conns, NEW s \in Sessions, InitializeNew(c, s) PROVE SessionInv'
    BY <1>12 DEF InitializeNew, Attach, MayInitialize
  <1>13. ASSUME NEW c \in Conns, NEW s \in Sessions, Resume(c, s) PROVE SessionInv'
    BY <1>13 DEF Resume, Attach, MayInitialize, HasActiveConnection, IsExpired
  <1>14. ASSUME NEW c \in Conns, NEW s \in Sessions, ResumeExpired(c, s) PROVE SessionInv'
    BY <1>14 DEF ResumeExpired, MayInitialize, IsExpired
  <1>15. ASSUME NEW c \in Conns, NEW s \in Sessions, ReapExpired(c, s) PROVE SessionInv'
    BY <1>15 DEF ReapExpired, ShutdownProcesses
  <1>16. ASSUME NEW c \in Conns, NEW s \in Sessions, StartProcess(c, s) PROVE SessionInv'
    BY <1>16 DEF StartProcess, Admitted
  <1>17. ASSUME NEW c \in Conns, NEW s \in Sessions, TimerFires(s, c) PROVE SessionInv'
    BY <1>17 DEF TimerFires, IsDetachedConnectionExpired
  <1> QED
    BY <1>1, <1>2, <1>3, <1>4, <1>5, <1>6, <1>7, <1>8, <1>9, <1>10, <1>11, <1>12, <1>13,
       <1>14, <1>15, <1>16, <1>17 DEF SessionsNext

\* The invariant holds in every state of every behaviour, whatever clients,
\* children and transports do (SessionRegistry and the handler's shutdown).
THEOREM SessionInvariance == SessionsSpec => []SessionInv
  <1>1. SessionsInit => SessionInv
    BY SessionInitInv
  <1>2. SessionInv /\ UNCHANGED sessionVars => SessionInv'
    BY DEF SessionInv, SessionsTypeOK, OwnerHolds, HolderOwns, ExpiryInv, SenderIsCurrent,
           OpenerHeard, Attached, Serving, sessionVars, attachVars, connVars, reapVars
  <1>3. SessionInv /\ [SessionsNext]_sessionVars => SessionInv'
    BY <1>2, SessionStepInv
  <1> QED
    BY <1>1, <1>3, PTL DEF SessionsSpec

\* Every variable of the session registry and of the connections keeps its
\* type (ExecServerHandler, SessionRegistry).
THEOREM SessionTypeCorrect == SessionsSpec => []SessionsTypeOK
  <1>1. SessionInv => SessionsTypeOK
    BY DEF SessionInv
  <1> QED
    BY SessionInvariance, <1>1, PTL

\* A connection keeps its session while it serves, so the eviction that
\* run_connection looks for never happens: whoever removes a session finds it
\* expired, only a detached one expires, and its owner is gone by then.
THEOREM HolderIsSafe == SessionsSpec => []HolderKeepsSession
  <1>1. SessionInv => HolderKeepsSession
    BY SessionsAssumption DEF SessionInv, SessionsTypeOK, OwnerHolds, HolderOwns, ExpiryInv,
           HolderKeepsSession, Attached
  <1> QED
    BY SessionInvariance, <1>1, PTL

\* No notification goes to a connection that has given the session up,
\* although detach clears the sender outside the registry's lock.
THEOREM SenderIsSafe == SessionsSpec => []SenderIsCurrent
  <1>1. SessionInv => SenderIsCurrent
    BY DEF SessionInv
  <1> QED
    BY SessionInvariance, <1>1, PTL

\* The commands of a session are shut down while no connection that holds it
\* still serves: the first half of what ExecEvents takes for granted, where
\* Shutdown comes only after the transport has ended.
ShutdownIsLast ==
    \A s \in Sessions, who \in Conns \cup {Timer} :
        ShutdownProcesses(s, who) => \A c \in Conns : Serving(c) => held[c] # s

\* What ExecEvents takes for granted of its session, for the connection that
\* opened it: its commands are not shut down under it (expire_if_detached and
\* attach of session_registry.rs), and what they tell goes to it for as long as
\* no other connection had the session (set_notification_sender).
THEOREM SessionServesOpener == SessionsSpec => [][ShutdownIsLast]_sessionVars /\ []OpenerHeard
  <1>1. SessionInv => HolderKeepsSession /\ OpenerHeard
    BY SessionsAssumption DEF SessionInv, SessionsTypeOK, OwnerHolds, HolderOwns, ExpiryInv,
           HolderKeepsSession, Attached
  <1>2. ASSUME HolderKeepsSession PROVE ShutdownIsLast
    <2> SUFFICES ASSUME NEW s \in Sessions, NEW who \in Conns \cup {Timer},
                        ShutdownProcesses(s, who),
                        NEW c \in Conns, Serving(c), held[c] = s
                 PROVE  FALSE
      BY Zenon DEF ShutdownIsLast
    <2>1. who \in reapers[s]
      BY Zenon DEF ShutdownProcesses
    <2>2. held[c] # None
      BY SessionsAssumption
    <2> QED
      BY <1>2, <2>1, <2>2 DEF HolderKeepsSession
  <1>3. SessionInv /\ [SessionsNext]_sessionVars => [ShutdownIsLast]_sessionVars
    BY <1>1, <1>2
  <1> QED
    BY SessionInvariance, <1>1, <1>3, PTL DEF SessionsSpec

=============================================================================
