------------------------- MODULE ProcessStoreProofs -------------------------
(***************************************************************************)
(* Proofs about ProcessStore: for any number of calls, polls, ids and      *)
(* runtimes and any capacity, the store keeps its bound, an end is         *)
(* reported once, a running command stays reachable, and ids are shared    *)
(* only when the code lets them.                                           *)
(***************************************************************************)
EXTENDS ProcessStore, FiniteSetTheorems, WellFoundedInduction, TLAPS

Ages == Injection(Calls, 0 .. Cardinality(Calls) - 1)

\* A call's locals, and who reports the end of its process: up to the moment
\* its watcher is spawned nobody has reported it; then the watcher will,
\* unless the process never was stored, and then the call will.
CallInv ==
    \A c \in Calls :
        /\ IF InCall(c) THEN id[c] \in Ids ELSE id[c] = None
        /\ victim[c] # None <=> at[c] = "prune"
        /\ at[c] \in {"new", "open"} => proc[c] = "none" /\ c \notin denial
        /\ c \in failed => proc[c] = "exited"
        /\ at[c] \in {"new", "open", "start"} => c \notin kept
        /\ at[c] \in {"store", "prune"} => c \in kept
        /\ \/ at[c] \in {"new", "open", "start", "store", "prune", "emit"}
           \/ at[c] = "collect" /\ c \notin kept
           => c \notin watched /\ ends[c] = 0
        /\ at[c] = "emit" => c \notin kept
        /\ at[c] \in {"emit", "release"} \/ (at[c] = "collect" /\ c \notin kept) => proc[c] = "exited"
        /\ at[c] = "release" => c \notin watched \/ c \in failed
        /\ c \in watched => ends[c] = 0
        /\ ends[c] <= 1

\* A poll has an id and a process, and of two users of one id both are shared.
PollInv == \A p \in Polls : poll[p] # Idle => poll[p].id \in Ids /\ poll[p].of \in Calls

SharedInv ==
    /\ \A c, d \in Calls : (InCall(c) /\ InCall(d) /\ c # d /\ id[c] = id[d]) => c \in shared
    /\ \A c \in Calls : (InCall(c) /\ store[id[c]] \notin {None, c}) =>
           {c, store[id[c]]} \subseteq shared
    /\ \A c \in Calls, p \in Polls :
           (InCall(c) /\ poll[p].id = id[c] /\ poll[p].of # c) =>
               {c, poll[p].of} \subseteq shared
    /\ \A p \in Polls : (poll[p].id \in Ids /\ store[poll[p].id] \notin {None, poll[p].of}) =>
           {poll[p].of, store[poll[p].id]} \subseteq shared

\* A running process that its watcher holds, or will, or that the task waiting
\* for a denial holds once the call is past storing it, is in the store or on
\* its way out.
WatchInv ==
    \A c \in Calls :
        (/\ c \in watched \/ at[c] = "prune" \/ (c \in denial /\ at[c] \notin {"start", "store"})
         /\ proc[c] = "live" /\ c \notin token) =>
        \/ \E i \in Ids : store[i] = c
        \/ c \in doomed \cup left \cup shared
        \/ \E d \in Calls : victim[d] = c

\* A call that has not stored its process yet has no entry.  Unless an id may
\* have come loose, no poll is under way beside a call.
SoleInv ==
    /\ \A c \in Calls : at[c] \in {"new", "open", "start", "store"} => \A i \in Ids : store[i] # c
    /\ ~loose => \A c \in Calls, p \in Polls : InCall(c) => poll[p] = Idle

\* Then what is in use is reserved, and nothing is shared.
ReservedInv ==
    ~loose =>
        /\ shared = {}
        /\ \A i \in Ids : store[i] # None => i \in reserved
        /\ \A c \in Calls : InCall(c) => id[c] \in reserved

Inv == TypeOK /\ CallInv /\ PollInv /\ SharedInv /\ WatchInv /\ SoleInv /\ ReservedInv

----------------------------------------------------------------------------
(* The order of use, and what is pruned *)

\* A set of naturals that is not empty and has a bound has a largest element:
\* take the least of its upper bounds.
LEMMA Largest ==
    ASSUME NEW T, T \subseteq Nat, T # {}, NEW b \in Nat, \A m \in T : m <= b
    PROVE  \E n \in T : \A m \in T : m <= n
  <1> DEFINE R == OpToRel(<, Nat)
             B == {n \in Nat : \A m \in T : m <= n}
  <1>1. \A n, m \in Nat : n < m => <<n, m>> \in R
    BY DEF OpToRel
  <1>2. IsWellFoundedOn(R, Nat)
    BY NatLessThanWellFounded
  <1>3. B \subseteq Nat /\ b \in B
    OBVIOUS
  <1> HIDE DEF R
  <1>4. PICK n \in B : \A m \in B : ~(<<m, n>> \in R)
    <2> HIDE DEF B
    <2> QED
      BY <1>2, <1>3, WFMin
  <1>5. n \in Nat /\ \A m \in T : m <= n
    OBVIOUS
  <1>6. ASSUME n \notin T PROVE FALSE
    <2>1. \A m \in T : m < n
      BY <1>5, <1>6
    <2>2. \E m \in T : m \in Nat /\ m < n
      BY <2>1
    <2>3. n - 1 \in Nat /\ n - 1 < n
      BY <2>2, <1>5
    <2>4. \A m \in T : m <= n - 1
      BY <2>1, <1>5
    <2> QED
      BY <1>1, <1>4, <1>5, <2>3, <2>4
  <1> QED
    BY <1>5, <1>6

\* Using a process makes it the youngest and keeps the order of the others.
LEMMA UseKeepsAges ==
    ASSUME age \in Ages, NEW c \in Calls, Use(c)
    PROVE  age' \in Ages
  <1>1. Cardinality(Calls) \in Nat
    BY StoreAssumption, FS_CardinalityType
  <1>2. /\ age \in [Calls -> 0 .. Cardinality(Calls) - 1]
        /\ \A d, e \in Calls : age[d] = age[e] => d = e
    BY DEF Ages, Injection, IsInjective
  <1>3. age' \in [Calls -> 0 .. Cardinality(Calls) - 1]
    BY <1>1, <1>2 DEF Use
  <1>4. \A d, e \in Calls : age'[d] = age'[e] => d = e
    BY <1>1, <1>2 DEF Use
  <1> QED
    BY <1>3, <1>4 DEF Ages, Injection, IsInjective

\* There is an order to begin with.
LEMMA FirstAges == (CHOOSE a \in Ages : TRUE) \in Ages
  <1> DEFINE n == Cardinality(Calls)
  <1>1. n \in Nat /\ ExistsBijection(1 .. n, Calls)
    BY StoreAssumption, FS_CardinalityType
  <1>2. PICK f : f \in Bijection(1 .. n, Calls)
    BY <1>1 DEF ExistsBijection
  <1>3. /\ f \in [1 .. n -> Calls]
        /\ \A c \in Calls : \E i \in 1 .. n : f[i] = c
    BY <1>2 DEF Bijection, Surjection, Injection
  <1> DEFINE a == [c \in Calls |-> (CHOOSE i \in 1 .. n : f[i] = c) - 1]
  <1>4. \A c \in Calls : /\ (CHOOSE i \in 1 .. n : f[i] = c) \in 1 .. n
                         /\ f[CHOOSE i \in 1 .. n : f[i] = c] = c
    BY <1>3
  <1> HIDE DEF n
  <1>5. a \in [Calls -> 0 .. n - 1]
    BY <1>1, <1>4
  <1>6. \A c, d \in Calls : a[c] = a[d] => c = d
    BY <1>1, <1>4
  <1>7. a \in Ages
    BY <1>5, <1>6 DEF Ages, Injection, IsInjective, n
  <1> QED
    BY <1>7

\* Of processes some are the oldest.
LEMMA Oldest ==
    ASSUME age \in Ages, NEW S \in SUBSET Calls, S # {}
    PROVE  \E c \in S : \A d \in S : age[d] <= age[c]
  <1> DEFINE T == {age[c] : c \in S}
  <1>1. Cardinality(Calls) \in Nat
    BY StoreAssumption, FS_CardinalityType
  <1>2. \A c \in Calls : age[c] \in Nat /\ age[c] <= Cardinality(Calls)
    BY <1>1 DEF Ages, Injection
  <1>3. T \subseteq Nat /\ T # {} /\ \A m \in T : m <= Cardinality(Calls)
    BY <1>2
  <1>4. \E n \in T : \A m \in T : m <= n
    <2> HIDE DEF T
    <2> QED
      BY <1>1, <1>3, Largest
  <1> QED
    BY <1>4

\* A full store has an entry to prune, as long as not all are protected.
LEMMA PrunesStored ==
    ASSUME TypeOK, ~(Cardinality(Stored) < MaxProcesses)
    PROVE  ToPrune \in Stored
  <1> DEFINE younger(c) == {d \in Stored : age[d] < age[c]}
             old  == {c \in Stored : Cardinality(younger(c)) >= Protected}
             gone == {c \in old : HasExited(c)}
             from == IF gone # {} THEN gone ELSE old
  <1>1. Stored \subseteq Calls /\ age \in Ages
    BY DEF Stored, TypeOK, Ages
  <1>2. IsFiniteSet(Stored) /\ Cardinality(Stored) \in Nat
    BY <1>1, StoreAssumption, FS_Subset, FS_CardinalityType
  <1>3. Stored # {}
    BY <1>2, StoreAssumption, FS_EmptySet
  <1>4. PICK m \in Stored : \A d \in Stored : age[d] <= age[m]
    BY <1>1, <1>3, Oldest
  <1>5. younger(m) = Stored \ {m}
    BY <1>1, <1>4 DEF Ages, Injection, IsInjective
  <1>6. Cardinality(Stored \ {m}) = Cardinality(Stored) - 1
    BY <1>2, FS_RemoveElement
  <1>7. m \in old
    <2>1. Cardinality(younger(m)) >= Protected
      <3> HIDE DEF younger
      <3> QED
        BY <1>2, <1>5, <1>6, StoreAssumption
    <2> QED
      BY <2>1
  <1>8. from \in SUBSET Calls /\ from # {} /\ from \subseteq Stored
    BY <1>1, <1>7
  <1>9. \E c \in from : \A d \in from : age[d] <= age[c]
    <2> HIDE DEF from
    <2> QED
      BY <1>1, <1>8, Oldest
  <1>10. ToPrune = CHOOSE c \in from : \A d \in from : age[d] <= age[c]
    BY DEF ToPrune
  <1> HIDE DEF from
  <1> QED
    BY <1>8, <1>9, <1>10

----------------------------------------------------------------------------
(* The invariant *)

\* The initial states satisfy the invariant.
LEMMA InitInv == Init => Inv
  <1> SUFFICES ASSUME Init PROVE Inv
    OBVIOUS
  <1> USE StoreAssumption
  <1>1. age \in Ages
    BY FirstAges DEF Init, Ages
  <1>2. Stored = {}
    BY DEF Init, Stored
  <1>3. Cardinality(Stored) <= MaxProcesses
    BY <1>2, FS_EmptySet
  <1>4. poll \in [Polls -> [id : Ids \cup {None}, of : Calls \cup {None}, looked : BOOLEAN]]
    BY DEF Init, Idle
  <1>5. TypeOK
    BY <1>1, <1>3, <1>4 DEF Init, TypeOK, Ages, Phases
  <1>6. CallInv /\ PollInv /\ WatchInv
    BY DEF Init, CallInv, PollInv, WatchInv, InCall
  <1>7. SharedInv /\ SoleInv /\ ReservedInv
    BY DEF Init, SharedInv, SoleInv, ReservedInv, InCall, Over
  <1> QED
    BY <1>5, <1>6, <1>7 DEF Inv

\* What TypeOK says but for the order and the bound.
Typed ==
    /\ at \in [Calls -> Phases]
    /\ id \in [Calls -> Ids \cup {None}]
    /\ proc \in [Calls -> {"none", "live", "exited"}]
    /\ failed \cup token \cup kept \cup watched \cup denial \cup doomed \subseteq Calls
    /\ left \cup shared \subseteq Calls /\ loose \in BOOLEAN
    /\ victim \in [Calls -> Calls \cup {None}]
    /\ ends \in [Calls -> Nat]
    /\ reserved \subseteq Ids
    /\ store \in [Ids -> Calls \cup {None}]
    /\ poll \in [Polls -> [id : Ids \cup {None}, of : Calls \cup {None}, looked : BOOLEAN]]

\* A poll that has looked into the store is the same poll.
LEMMA Looked ==
    ASSUME Typed, NEW p \in Polls, poll[p] # Idle, poll' = [poll EXCEPT ![p].looked = TRUE]
    PROVE  /\ poll' \in [Polls -> [id : Ids \cup {None}, of : Calls \cup {None}, looked : BOOLEAN]]
           /\ poll'[p] # Idle /\ poll'[p].id = poll[p].id /\ poll'[p].of = poll[p].of
           /\ \A q \in Polls : q # p => poll'[q] = poll[q]
  <1> DEFINE x == [poll[p] EXCEPT !.looked = TRUE]
  <1>1. poll[p] \in [id : Ids \cup {None}, of : Calls \cup {None}, looked : BOOLEAN]
    BY DEF Typed
  <1>2. /\ x \in [id : Ids \cup {None}, of : Calls \cup {None}, looked : BOOLEAN]
        /\ x.id = poll[p].id /\ x.of = poll[p].of /\ x.looked = TRUE
    BY <1>1
  <1>3. x # Idle
    BY <1>2 DEF Idle
  <1>4. poll' = [poll EXCEPT ![p] = x]
    OBVIOUS
  <1> HIDE DEF x
  <1>5. \A q \in Polls : poll'[q] = IF q = p THEN x ELSE poll[q]
    BY <1>4 DEF Typed
  <1>6. poll' \in [Polls -> [id : Ids \cup {None}, of : Calls \cup {None}, looked : BOOLEAN]]
    BY <1>2, <1>4 DEF Typed
  <1> QED
    BY <1>2, <1>3, <1>5, <1>6

\* What PollFindsExit does, in terms the provers can use.
LEMMA FindsExitIs ==
    ASSUME TypeOK, NEW p \in Polls, PollFindsExit(p)
    PROVE  /\ poll[p] # Idle /\ store[poll[p].id] # None /\ HasExited(store[poll[p].id])
           /\ Release(poll[p].id) /\ UNCHANGED <<callVars, procVars, age, doomed, historyVars>>
           /\ poll' \in [Polls -> [id : Ids \cup {None}, of : Calls \cup {None}, looked : BOOLEAN]]
           /\ poll'[p] # Idle /\ poll'[p].id = poll[p].id /\ poll'[p].of = poll[p].of
           /\ \A q \in Polls : q # p => poll'[q] = poll[q]
  <1>1. /\ poll[p] # Idle /\ poll' = [poll EXCEPT ![p].looked = TRUE]
        /\ store[poll[p].id] # None /\ HasExited(store[poll[p].id]) /\ Release(poll[p].id)
        /\ UNCHANGED <<callVars, procVars, age, doomed, historyVars>>
    BY Zenon DEF PollFindsExit
  <1>2. Typed
    BY DEF TypeOK, Typed
  <1>3. /\ poll' \in [Polls -> [id : Ids \cup {None}, of : Calls \cup {None}, looked : BOOLEAN]]
        /\ poll'[p] # Idle /\ poll'[p].id = poll[p].id /\ poll'[p].of = poll[p].of
        /\ \A q \in Polls : q # p => poll'[q] = poll[q]
    BY <1>1, <1>2, Looked
  <1> QED
    BY <1>1, <1>3, Zenon

\* What storing a process does when it pushes out the entry v, or none.
Stores(c, v) ==
    /\ store' \in [Ids -> Calls \cup {None}]
    /\ \A i \in Ids : store'[i] = IF i = id[c] THEN c ELSE IF store[i] = v THEN None ELSE store[i]
    /\ \A i \in Ids : i \in reserved' <=> i \in reserved /\ (v = None \/ store[i] # v)
    /\ reserved' \subseteq reserved
    /\ at' = [at EXCEPT ![c] = IF v = None THEN "collect" ELSE "prune"]
    /\ victim' = [victim EXCEPT ![c] = v]
    /\ watched' = IF v = None THEN watched \cup {c} ELSE watched
    /\ at[c] = "store" /\ id[c] \in Ids
    /\ loose' = (loose \/ (v # None /\ InCall(v)))
    /\ UNCHANGED <<id, kept, proc, failed, token, denial, ends, age, poll, doomed, left, shared>>

\* Store does that, with one victim at most.
LEMMA StoreIs ==
    ASSUME TypeOK, CallInv, NEW c \in Calls, Store(c)
    PROVE  \E v \in Calls \cup {None} : Stores(c, v)
  <1> USE StoreAssumption DEF Store, GoTo, historyVars
  <1>1. /\ store \in [Ids -> Calls \cup {None}] /\ victim \in [Calls -> Calls \cup {None}]
        /\ at[c] = "store" /\ id[c] \in Ids /\ victim[c] = None
    BY DEF TypeOK, CallInv, InCall, Over
  <1>2. CASE Pruned = {}
    <2>1. victim' = [victim EXCEPT ![c] = None]
      BY <1>1, <1>2
    <2>2. \A i \in Ids : store'[i] = IF i = id[c] THEN c ELSE store[i]
      BY <1>1, <1>2
    <2>3. store' \in [Ids -> Calls \cup {None}]
      BY <1>1, <1>2
    <2>4. loose' = (loose \/ FALSE)
      BY <1>2
    <2> QED
      BY <1>1, <1>2, <2>1, <2>2, <2>3, <2>4 DEF Stores
  <1>3. CASE Pruned # {}
    <2>1. Pruned = {ToPrune} /\ ToPrune \in Calls
      <3>1. ~(Cardinality(Stored) < MaxProcesses) /\ Pruned = {ToPrune}
        BY <1>3 DEF Pruned
      <3>2. ToPrune \in Stored
        BY <3>1, PrunesStored
      <3> QED
        BY <1>1, <3>1, <3>2 DEF Stored
    <2>2. ToPrune # None
      BY <2>1
    <2>3. /\ store' = [[i \in Ids |-> IF store[i] = ToPrune THEN None ELSE store[i]]
                           EXCEPT ![id[c]] = c]
          /\ reserved' = reserved \ {i \in Ids : store[i] = ToPrune}
          /\ at' = [at EXCEPT ![c] = "prune"] /\ victim' = [victim EXCEPT ![c] = ToPrune]
          /\ watched' = watched
      BY <2>1
    <2>4. /\ store' \in [Ids -> Calls \cup {None}]
          /\ \A i \in Ids : store'[i] = IF i = id[c] THEN c
                                      ELSE IF store[i] = ToPrune THEN None ELSE store[i]
      <3> DEFINE f == [i \in Ids |-> IF store[i] = ToPrune THEN None ELSE store[i]]
      <3>1. f \in [Ids -> Calls \cup {None}]
        BY <1>1
      <3>2. store' = [f EXCEPT ![id[c]] = c]
        BY <2>3
      <3>3. store' \in [Ids -> Calls \cup {None}] /\ \A i \in Ids : store'[i] = IF i = id[c] THEN c ELSE f[i]
        <4> HIDE DEF f
        <4> QED
          BY <1>1, <3>1, <3>2
      <3> QED
        BY <3>3
    <2>5. loose' = (loose \/ InCall(ToPrune))
      <3>1. loose' = (loose \/ {ToPrune} \cap Running # {})
        BY <2>1
      <3>2. {ToPrune} \cap Running # {} <=> InCall(ToPrune)
        BY <2>1 DEF Running
      <3> QED
        BY <3>1, <3>2
    <2> QED
      BY <1>1, <2>1, <2>2, <2>3, <2>4, <2>5 DEF Stores
  <1> QED
    BY <1>2, <1>3

\* Nothing but Use moves the order.
LEMMA AgesStep ==
    ASSUME TypeOK, [Next]_vars
    PROVE  age' \in Ages
  <1>1. age \in Ages /\ \A i \in Ids : store[i] # None => store[i] \in Calls
    BY DEF TypeOK, Ages
  <1>2. CASE UNCHANGED age
    BY <1>1, <1>2
  <1>3. CASE \E c \in Calls : Start(c)
    BY <1>1, <1>3, UseKeepsAges DEF Start
  <1>4. CASE \E p \in Polls, i \in Ids : PollBegins(p, i)
    BY <1>1, <1>4, UseKeepsAges DEF PollBegins
  <1> QED
    <2> USE DEF storeVars
    <2>1. ASSUME NEW c \in Calls, CallStep(c), ~Start(c) PROVE UNCHANGED age
      BY <2>1 DEF CallStep, Refuse, RefuseEarly, Open, Store, TerminateVictim, Collect, EmitEnd,
                  ReleaseId, Answer
    <2>2. ASSUME NEW c \in Calls, (\E i \in Ids : Allocate(c, i)) \/ Abort(c) \/ Exit(c)
                 \/ NoticeExit(c) \/ Fail(c) \/ DenialTaskEnds(c) \/ DropProcess(c)
               \/ Watch(c) \/ TerminateEntry(c)
          PROVE  UNCHANGED age
      BY <2>2 DEF Allocate, Abort, Exit, NoticeExit, Fail, DenialTaskEnds, DropProcess, Watch,
                  TerminateEntry
    <2>3. ASSUME NEW p \in Polls, PollFindsExit(p) \/ PollWriteFails(p) \/ PollEnds(p) \/ PollAborts(p)
          PROVE  UNCHANGED age
      BY <2>3 DEF PollFindsExit, PollWriteFails, PollEnds, PollAborts
    <2>4. TerminateAll => UNCHANGED age
      BY DEF TerminateAll
    <2>5. UNCHANGED vars => UNCHANGED age
      BY DEF vars
    <2> QED
      BY <1>2, <1>3, <1>4, <2>1, <2>2, <2>3, <2>4, <2>5 DEF Next

\* Types are kept: the victim is an entry of the store.
LEMMA TypedStep ==
    ASSUME TypeOK, CallInv, PollInv, Next
    PROVE  Typed'
  <1>0. Typed
    BY DEF TypeOK, Typed
  <1> USE <1>0, StoreAssumption DEF Typed, CallInv, PollInv, Running, Polling, InCall, Over, Phases, Idle, callVars, procVars,
          storeVars, historyVars
  <1>1. ASSUME NEW c \in Calls, NEW i \in Ids, Allocate(c, i) PROVE Typed'
    BY <1>1 DEF Allocate, GoTo, UsersOf
  <1>2. ASSUME NEW c \in Calls, Refuse(c) PROVE Typed'
    BY <1>2 DEF Refuse, Release, End, GoTo
  <1>3. ASSUME NEW c \in Calls, RefuseEarly(c) PROVE Typed'
    BY <1>3 DEF RefuseEarly, End, GoTo
  <1>4. ASSUME NEW c \in Calls, Open(c) PROVE Typed'
    BY <1>4 DEF Open, GoTo
  <1>5. ASSUME NEW c \in Calls, Start(c) PROVE Typed'
    BY <1>5 DEF Start, GoTo
  <1>6. ASSUME NEW c \in Calls, Store(c) PROVE Typed'
    <2>1. PICK v \in Calls \cup {None} : Stores(c, v)
      BY <1>6, StoreIs
    <2> QED
      BY <2>1 DEF Stores
  <1>7. ASSUME NEW c \in Calls, TerminateVictim(c) PROVE Typed'
    BY <1>7 DEF TerminateVictim, GoTo
  <1>8. ASSUME NEW c \in Calls, Collect(c) PROVE Typed'
    BY <1>8 DEF Collect, ReportsEnd, GoTo
  <1>9. ASSUME NEW c \in Calls, EmitEnd(c) PROVE Typed'
    BY <1>9 DEF EmitEnd, GoTo
  <1>10. ASSUME NEW c \in Calls, ReleaseId(c) PROVE Typed'
    BY <1>10 DEF ReleaseId, Release, End, GoTo
  <1>11. ASSUME NEW c \in Calls, Answer(c) PROVE Typed'
    BY <1>11 DEF Answer, Refresh, Release, ReportsEnd, End, GoTo
  <1>12. ASSUME NEW c \in Calls, Abort(c) PROVE Typed'
    BY <1>12 DEF Abort, Leaves, End, GoTo
  <1>13. ASSUME NEW c \in Calls, Exit(c) PROVE Typed'
    BY <1>13 DEF Exit
  <1>14. ASSUME NEW c \in Calls, NoticeExit(c) PROVE Typed'
    BY <1>14 DEF NoticeExit
  <1>15. ASSUME NEW c \in Calls, Fail(c) PROVE Typed'
    BY <1>15 DEF Fail
  <1>16. ASSUME NEW c \in Calls, DropProcess(c) PROVE Typed'
    BY <1>16 DEF DropProcess
  <1>17. ASSUME NEW c \in Calls, Watch(c) PROVE Typed'
    BY <1>17 DEF Watch
  <1>18. ASSUME NEW c \in Calls, TerminateEntry(c) PROVE Typed'
    BY <1>18 DEF TerminateEntry
  <1>19. ASSUME NEW p \in Polls, PollFindsExit(p) PROVE Typed'
    BY <1>19, FindsExitIs DEF Release
  <1>20. ASSUME NEW p \in Polls, PollWriteFails(p) PROVE Typed'
    BY <1>20 DEF PollWriteFails, Release
  <1>21. ASSUME NEW p \in Polls, PollEnds(p) PROVE Typed'
    BY <1>21 DEF PollEnds, Refresh, Release
  <1>22. ASSUME NEW p \in Polls, PollAborts(p) PROVE Typed'
    BY <1>22 DEF PollAborts
  <1>23. ASSUME NEW p \in Polls, NEW i \in Ids, PollBegins(p, i) PROVE Typed'
    BY <1>23 DEF PollBegins
  <1>24. ASSUME TerminateAll PROVE Typed'
    BY <1>24 DEF TerminateAll, Stored
  <1>25. ASSUME NEW c \in Calls, DenialTaskEnds(c) PROVE Typed'
    BY <1>25 DEF DenialTaskEnds
  <1> QED
    BY <1>1, <1>2, <1>3, <1>4, <1>5, <1>6, <1>7, <1>8, <1>9, <1>10, <1>11, <1>12, <1>13,
       <1>14, <1>15, <1>16, <1>17, <1>18, <1>19, <1>20, <1>21, <1>22, <1>23, <1>24, <1>25
       DEF Next, CallStep

\* Who reports the end of a process never changes once it is decided.
LEMMA CallInvStep ==
    ASSUME CallInv, TypeOK, PollInv, Next
    PROVE  CallInv' /\ PollInv'
  <1>0. Typed
    BY DEF TypeOK, Typed
  <1> USE <1>0, StoreAssumption DEF Typed, CallInv, InCall, Over, Phases, PollInv, Idle, callVars, procVars,
          storeVars, historyVars
  <1>1. ASSUME NEW c \in Calls, NEW i \in Ids, Allocate(c, i) PROVE CallInv' /\ PollInv'
    BY <1>1 DEF Allocate, GoTo, UsersOf
  <1>2. ASSUME NEW c \in Calls, Refuse(c) PROVE CallInv' /\ PollInv'
    BY <1>2 DEF Refuse, Release, End, GoTo
  <1>3. ASSUME NEW c \in Calls, RefuseEarly(c) PROVE CallInv' /\ PollInv'
    BY <1>3 DEF RefuseEarly, End, GoTo
  <1>4. ASSUME NEW c \in Calls, Open(c) PROVE CallInv' /\ PollInv'
    BY <1>4 DEF Open, GoTo
  <1>5. ASSUME NEW c \in Calls, Start(c) PROVE CallInv' /\ PollInv'
    BY <1>5 DEF Start, GoTo, HasExited
  <1>6. ASSUME NEW c \in Calls, Store(c) PROVE CallInv' /\ PollInv'
    <2>1. PICK v \in Calls \cup {None} : Stores(c, v)
      BY <1>6, StoreIs
    <2> QED
      BY <2>1 DEF Stores
  <1>7. ASSUME NEW c \in Calls, TerminateVictim(c) PROVE CallInv' /\ PollInv'
    BY <1>7 DEF TerminateVictim, GoTo
  <1>8. ASSUME NEW c \in Calls, Collect(c) PROVE CallInv' /\ PollInv'
    BY <1>8 DEF Collect, ReportsEnd, GoTo
  <1>9. ASSUME NEW c \in Calls, EmitEnd(c) PROVE CallInv' /\ PollInv'
    BY <1>9 DEF EmitEnd, GoTo
  <1>10. ASSUME NEW c \in Calls, ReleaseId(c) PROVE CallInv' /\ PollInv'
    BY <1>10 DEF ReleaseId, Release, End, GoTo
  <1>11. ASSUME NEW c \in Calls, Answer(c) PROVE CallInv' /\ PollInv'
    BY <1>11 DEF Answer, Refresh, Release, ReportsEnd, End, GoTo
  <1>12. ASSUME NEW c \in Calls, Abort(c) PROVE CallInv' /\ PollInv'
    BY <1>12 DEF Abort, Leaves, End, GoTo
  <1>13. ASSUME NEW c \in Calls, Exit(c) PROVE CallInv' /\ PollInv'
    BY <1>13 DEF Exit
  <1>14. ASSUME NEW c \in Calls, NoticeExit(c) PROVE CallInv' /\ PollInv'
    BY <1>14 DEF NoticeExit
  <1>15. ASSUME NEW c \in Calls, Fail(c) PROVE CallInv' /\ PollInv'
    BY <1>15 DEF Fail
  <1>16. ASSUME NEW c \in Calls, DropProcess(c) PROVE CallInv' /\ PollInv'
    BY <1>16 DEF DropProcess
  <1>17. ASSUME NEW c \in Calls, Watch(c) PROVE CallInv' /\ PollInv'
    BY <1>17 DEF Watch
  <1>18. ASSUME NEW c \in Calls, TerminateEntry(c) PROVE CallInv' /\ PollInv'
    BY <1>18 DEF TerminateEntry
  <1>19. ASSUME NEW p \in Polls, PollFindsExit(p) PROVE CallInv' /\ PollInv'
    <2>1. /\ UNCHANGED <<callVars, procVars, age, doomed, historyVars>>
          /\ poll[p] # Idle /\ poll'[p].id = poll[p].id /\ poll'[p].of = poll[p].of
          /\ \A q \in Polls : q # p => poll'[q] = poll[q]
      BY <1>19, FindsExitIs, Zenon
    <2>2. CallInv'
      BY <2>1, Zenon DEF CallInv, InCall, callVars, procVars
    <2>3. PollInv'
      BY <2>1
    <2> QED
      BY <2>2, <2>3
  <1>20. ASSUME NEW p \in Polls, PollWriteFails(p) PROVE CallInv' /\ PollInv'
    BY <1>20 DEF PollWriteFails, Release
  <1>21. ASSUME NEW p \in Polls, PollEnds(p) PROVE CallInv' /\ PollInv'
    BY <1>21 DEF PollEnds, Refresh, Release
  <1>22. ASSUME NEW p \in Polls, PollAborts(p) PROVE CallInv' /\ PollInv'
    BY <1>22 DEF PollAborts
  <1>23. ASSUME NEW p \in Polls, NEW i \in Ids, PollBegins(p, i) PROVE CallInv' /\ PollInv'
    BY <1>23 DEF PollBegins
  <1>24. ASSUME TerminateAll PROVE CallInv' /\ PollInv'
    BY <1>24 DEF TerminateAll, Stored
  <1>25. ASSUME NEW c \in Calls, DenialTaskEnds(c) PROVE CallInv' /\ PollInv'
    BY <1>25 DEF DenialTaskEnds
  <1> QED
    BY <1>1, <1>2, <1>3, <1>4, <1>5, <1>6, <1>7, <1>8, <1>9, <1>10, <1>11, <1>12, <1>13,
       <1>14, <1>15, <1>16, <1>17, <1>18, <1>19, <1>20, <1>21, <1>22, <1>23, <1>24, <1>25
       DEF Next, CallStep

\* Two users of one id know of it: an id is given out again only by Allocate,
\* which marks whoever uses it.
LEMMA SharedInvStep ==
    ASSUME CallInv, PollInv, SharedInv, TypeOK, Next
    PROVE  SharedInv'
  <1>0. Typed
    BY DEF TypeOK, Typed
  <1> USE <1>0, StoreAssumption DEF Typed, CallInv, PollInv, SharedInv, InCall, Over, Phases, Idle, callVars, procVars,
          storeVars, historyVars
  <1>1. ASSUME NEW c \in Calls, NEW i \in Ids, Allocate(c, i) PROVE SharedInv'
    BY <1>1 DEF Allocate, GoTo, UsersOf
  <1>2. ASSUME NEW c \in Calls, Refuse(c) PROVE SharedInv'
    BY <1>2 DEF Refuse, Release, End, GoTo
  <1>3. ASSUME NEW c \in Calls, RefuseEarly(c) PROVE SharedInv'
    BY <1>3 DEF RefuseEarly, End, GoTo
  <1>4. ASSUME NEW c \in Calls, Open(c) PROVE SharedInv'
    BY <1>4 DEF Open, GoTo
  <1>5. ASSUME NEW c \in Calls, Start(c) PROVE SharedInv'
    <2>1. PICK phase \in {"collect", "store"} :
              at' = [at EXCEPT ![c] = phase] /\ at[c] = "start" /\ UNCHANGED <<id, store, poll, shared>>
      BY <1>5 DEF Start, GoTo
    <2> QED
      BY <2>1
  <1>6. ASSUME NEW c \in Calls, Store(c) PROVE SharedInv'
    <2>1. PICK v \in Calls \cup {None} : Stores(c, v)
      BY <1>6, StoreIs
    <2> QED
      BY <2>1 DEF Stores
  <1>7. ASSUME NEW c \in Calls, TerminateVictim(c) PROVE SharedInv'
    BY <1>7 DEF TerminateVictim, GoTo
  <1>8. ASSUME NEW c \in Calls, Collect(c) PROVE SharedInv'
    BY <1>8 DEF Collect, ReportsEnd, GoTo
  <1>9. ASSUME NEW c \in Calls, EmitEnd(c) PROVE SharedInv'
    BY <1>9 DEF EmitEnd, GoTo
  <1>10. ASSUME NEW c \in Calls, ReleaseId(c) PROVE SharedInv'
    BY <1>10 DEF ReleaseId, Release, End, GoTo
  <1>11. ASSUME NEW c \in Calls, Answer(c) PROVE SharedInv'
    BY <1>11 DEF Answer, Refresh, Release, ReportsEnd, End, GoTo
  <1>12. ASSUME NEW c \in Calls, Abort(c) PROVE SharedInv'
    BY <1>12 DEF Abort, Leaves, End, GoTo
  <1>13. ASSUME NEW c \in Calls, Exit(c) PROVE SharedInv'
    BY <1>13 DEF Exit
  <1>14. ASSUME NEW c \in Calls, NoticeExit(c) PROVE SharedInv'
    BY <1>14 DEF NoticeExit
  <1>15. ASSUME NEW c \in Calls, Fail(c) PROVE SharedInv'
    BY <1>15 DEF Fail
  <1>16. ASSUME NEW c \in Calls, DropProcess(c) PROVE SharedInv'
    BY <1>16 DEF DropProcess
  <1>17. ASSUME NEW c \in Calls, Watch(c) PROVE SharedInv'
    BY <1>17 DEF Watch
  <1>18. ASSUME NEW c \in Calls, TerminateEntry(c) PROVE SharedInv'
    BY <1>18 DEF TerminateEntry
  <1>19. ASSUME NEW p \in Polls, PollFindsExit(p) PROVE SharedInv'
    <2>1. /\ poll[p].id \in Ids /\ Release(poll[p].id) /\ UNCHANGED <<at, id, shared>>
          /\ \A q \in Polls : poll'[q].id = poll[q].id /\ poll'[q].of = poll[q].of
      BY <1>19, FindsExitIs
    <2> QED
      BY <2>1 DEF Release
  <1>20. ASSUME NEW p \in Polls, PollWriteFails(p) PROVE SharedInv'
    BY <1>20 DEF PollWriteFails, Release
  <1>21. ASSUME NEW p \in Polls, PollEnds(p) PROVE SharedInv'
    <2>1. /\ Release(poll[p].id) \/ UNCHANGED <<reserved, store>>
          /\ poll[p] # Idle /\ poll' = [poll EXCEPT ![p] = Idle] /\ UNCHANGED <<at, id, shared>>
      BY <1>21 DEF PollEnds, Refresh
    <2>2. CASE Release(poll[p].id)
      BY <2>1, <2>2 DEF Release
    <2>3. CASE UNCHANGED store
      BY <2>1, <2>3
    <2> QED
      BY <2>1, <2>2, <2>3
  <1>22. ASSUME NEW p \in Polls, PollAborts(p) PROVE SharedInv'
    BY <1>22 DEF PollAborts
  <1>23. ASSUME NEW p \in Polls, NEW i \in Ids, PollBegins(p, i) PROVE SharedInv'
    BY <1>23 DEF PollBegins
  <1>24. ASSUME TerminateAll PROVE SharedInv'
    BY <1>24 DEF TerminateAll, Stored
  <1>25. ASSUME NEW c \in Calls, DenialTaskEnds(c) PROVE SharedInv'
    BY <1>25 DEF DenialTaskEnds
  <1> QED
    BY <1>1, <1>2, <1>3, <1>4, <1>5, <1>6, <1>7, <1>8, <1>9, <1>10, <1>11, <1>12, <1>13,
       <1>14, <1>15, <1>16, <1>17, <1>18, <1>19, <1>20, <1>21, <1>22, <1>23, <1>24, <1>25
       DEF Next, CallStep

\* An entry leaves the store because its process has ended, or goes where
\* it will be terminated, or its id is shared.
LEMMA WatchInvStep ==
    ASSUME CallInv, PollInv, SharedInv, WatchInv, TypeOK, Next
    PROVE  WatchInv'
  <1>0. Typed
    BY DEF TypeOK, Typed
  <1> USE <1>0, StoreAssumption DEF Typed, CallInv, PollInv, SharedInv, WatchInv, InCall, Over, Phases, Idle, HasExited, callVars, procVars,
          storeVars, historyVars
  <1>1. ASSUME NEW c \in Calls, NEW i \in Ids, Allocate(c, i) PROVE WatchInv'
    BY <1>1 DEF Allocate, GoTo, UsersOf
  <1>2. ASSUME NEW c \in Calls, Refuse(c) PROVE WatchInv'
    BY <1>2 DEF Refuse, Release, End, GoTo
  <1>3. ASSUME NEW c \in Calls, RefuseEarly(c) PROVE WatchInv'
    BY <1>3 DEF RefuseEarly, End, GoTo
  <1>4. ASSUME NEW c \in Calls, Open(c) PROVE WatchInv'
    BY <1>4 DEF Open, GoTo
  <1>5. ASSUME NEW c \in Calls, Start(c) PROVE WatchInv'
    BY <1>5 DEF Start, GoTo
  <1>6. ASSUME NEW c \in Calls, Store(c) PROVE WatchInv'
    <2>1. PICK v \in Calls \cup {None} : Stores(c, v)
      BY <1>6, StoreIs
    <2> QED
      BY <2>1 DEF Stores
  <1>7. ASSUME NEW c \in Calls, TerminateVictim(c) PROVE WatchInv'
    BY <1>7 DEF TerminateVictim, GoTo
  <1>8. ASSUME NEW c \in Calls, Collect(c) PROVE WatchInv'
    BY <1>8 DEF Collect, ReportsEnd, GoTo
  <1>9. ASSUME NEW c \in Calls, EmitEnd(c) PROVE WatchInv'
    BY <1>9 DEF EmitEnd, GoTo
  <1>10. ASSUME NEW c \in Calls, ReleaseId(c) PROVE WatchInv'
    BY <1>10 DEF ReleaseId, Release, End, GoTo
  <1>11. ASSUME NEW c \in Calls, Answer(c) PROVE WatchInv'
    BY <1>11 DEF Answer, Refresh, Release, ReportsEnd, End, GoTo
  <1>12. ASSUME NEW c \in Calls, Abort(c) PROVE WatchInv'
    BY <1>12 DEF Abort, Leaves, End, GoTo
  <1>13. ASSUME NEW c \in Calls, Exit(c) PROVE WatchInv'
    BY <1>13 DEF Exit
  <1>14. ASSUME NEW c \in Calls, NoticeExit(c) PROVE WatchInv'
    BY <1>14 DEF NoticeExit
  <1>15. ASSUME NEW c \in Calls, Fail(c) PROVE WatchInv'
    BY <1>15 DEF Fail
  <1>16. ASSUME NEW c \in Calls, DropProcess(c) PROVE WatchInv'
    BY <1>16 DEF DropProcess
  <1>17. ASSUME NEW c \in Calls, Watch(c) PROVE WatchInv'
    BY <1>17 DEF Watch
  <1>18. ASSUME NEW c \in Calls, TerminateEntry(c) PROVE WatchInv'
    BY <1>18 DEF TerminateEntry
  <1>19. ASSUME NEW p \in Polls, PollFindsExit(p) PROVE WatchInv'
    <2>1. /\ poll[p] # Idle /\ store[poll[p].id] # None /\ HasExited(store[poll[p].id])
          /\ Release(poll[p].id) /\ UNCHANGED <<callVars, procVars, age, doomed, historyVars>>
          /\ poll'[p] # Idle /\ poll'[p].id = poll[p].id /\ poll'[p].of = poll[p].of
          /\ \A q \in Polls : q # p => poll'[q] = poll[q]
      BY <1>19, FindsExitIs, Zenon
    <2> QED
      BY <2>1 DEF Release
  <1>20. ASSUME NEW p \in Polls, PollWriteFails(p) PROVE WatchInv'
    BY <1>20 DEF PollWriteFails, Release
  <1>21. ASSUME NEW p \in Polls, PollEnds(p) PROVE WatchInv'
    BY <1>21 DEF PollEnds, Refresh, Release
  <1>22. ASSUME NEW p \in Polls, PollAborts(p) PROVE WatchInv'
    BY <1>22 DEF PollAborts
  <1>23. ASSUME NEW p \in Polls, NEW i \in Ids, PollBegins(p, i) PROVE WatchInv'
    BY <1>23 DEF PollBegins
  <1>24. ASSUME TerminateAll PROVE WatchInv'
    BY <1>24 DEF TerminateAll, Stored
  <1>25. ASSUME NEW c \in Calls, DenialTaskEnds(c) PROVE WatchInv'
    BY <1>25 DEF DenialTaskEnds
  <1> QED
    BY <1>1, <1>2, <1>3, <1>4, <1>5, <1>6, <1>7, <1>8, <1>9, <1>10, <1>11, <1>12, <1>13,
       <1>14, <1>15, <1>16, <1>17, <1>18, <1>19, <1>20, <1>21, <1>22, <1>23, <1>24, <1>25
       DEF Next, CallStep

\* Only storing a process makes an entry, and a poll beside a call is recorded.
LEMMA SoleInvStep ==
    ASSUME SoleInv, CallInv, TypeOK, Next
    PROVE  SoleInv'
  <1>0. Typed
    BY DEF TypeOK, Typed
  <1> USE <1>0, StoreAssumption DEF Typed, SoleInv, InCall, Over, Phases, Idle, Running, Polling, callVars, procVars,
          storeVars, historyVars
  <1>1. ASSUME NEW c \in Calls, NEW i \in Ids, Allocate(c, i) PROVE SoleInv'
    BY <1>1 DEF Allocate, GoTo, UsersOf
  <1>2. ASSUME NEW c \in Calls, Refuse(c) PROVE SoleInv'
    BY <1>2 DEF Refuse, Release, End, GoTo
  <1>3. ASSUME NEW c \in Calls, RefuseEarly(c) PROVE SoleInv'
    BY <1>3 DEF RefuseEarly, End, GoTo
  <1>4. ASSUME NEW c \in Calls, Open(c) PROVE SoleInv'
    BY <1>4 DEF Open, GoTo
  <1>5. ASSUME NEW c \in Calls, Start(c) PROVE SoleInv'
    BY <1>5 DEF Start, GoTo
  <1>6. ASSUME NEW c \in Calls, Store(c) PROVE SoleInv'
    <2>1. PICK v \in Calls \cup {None} : Stores(c, v)
      BY <1>6, StoreIs
    <2> QED
      BY <2>1 DEF Stores
  <1>7. ASSUME NEW c \in Calls, TerminateVictim(c) PROVE SoleInv'
    BY <1>7 DEF TerminateVictim, GoTo
  <1>8. ASSUME NEW c \in Calls, Collect(c) PROVE SoleInv'
    BY <1>8 DEF Collect, ReportsEnd, GoTo
  <1>9. ASSUME NEW c \in Calls, EmitEnd(c) PROVE SoleInv'
    BY <1>9 DEF EmitEnd, GoTo
  <1>10. ASSUME NEW c \in Calls, ReleaseId(c) PROVE SoleInv'
    BY <1>10 DEF ReleaseId, Release, End, GoTo
  <1>11. ASSUME NEW c \in Calls, Answer(c) PROVE SoleInv'
    BY <1>11 DEF Answer, Refresh, Release, ReportsEnd, End, GoTo
  <1>12. ASSUME NEW c \in Calls, Abort(c) PROVE SoleInv'
    BY <1>12 DEF Abort, Leaves, End, GoTo
  <1>13. ASSUME NEW c \in Calls, Exit(c) PROVE SoleInv'
    BY <1>13 DEF Exit
  <1>14. ASSUME NEW c \in Calls, NoticeExit(c) PROVE SoleInv'
    BY <1>14 DEF NoticeExit
  <1>15. ASSUME NEW c \in Calls, Fail(c) PROVE SoleInv'
    BY <1>15 DEF Fail
  <1>16. ASSUME NEW c \in Calls, DropProcess(c) PROVE SoleInv'
    BY <1>16 DEF DropProcess
  <1>17. ASSUME NEW c \in Calls, Watch(c) PROVE SoleInv'
    BY <1>17 DEF Watch
  <1>18. ASSUME NEW c \in Calls, TerminateEntry(c) PROVE SoleInv'
    BY <1>18 DEF TerminateEntry
  <1>19. ASSUME NEW p \in Polls, PollFindsExit(p) PROVE SoleInv'
    <2>1. /\ poll[p] # Idle /\ store[poll[p].id] # None /\ HasExited(store[poll[p].id])
          /\ Release(poll[p].id) /\ UNCHANGED <<callVars, procVars, age, doomed, historyVars>>
          /\ poll'[p] # Idle /\ poll'[p].id = poll[p].id /\ poll'[p].of = poll[p].of
          /\ \A q \in Polls : q # p => poll'[q] = poll[q]
      BY <1>19, FindsExitIs, Zenon
    <2> QED
      BY <2>1 DEF Release
  <1>20. ASSUME NEW p \in Polls, PollWriteFails(p) PROVE SoleInv'
    BY <1>20 DEF PollWriteFails, Release
  <1>21. ASSUME NEW p \in Polls, PollEnds(p) PROVE SoleInv'
    BY <1>21 DEF PollEnds, Refresh, Release
  <1>22. ASSUME NEW p \in Polls, PollAborts(p) PROVE SoleInv'
    BY <1>22 DEF PollAborts
  <1>23. ASSUME NEW p \in Polls, NEW i \in Ids, PollBegins(p, i) PROVE SoleInv'
    BY <1>23 DEF PollBegins
  <1>24. ASSUME TerminateAll PROVE SoleInv'
    BY <1>24 DEF TerminateAll, Stored
  <1>25. ASSUME NEW c \in Calls, DenialTaskEnds(c) PROVE SoleInv'
    BY <1>25 DEF DenialTaskEnds
  <1> QED
    BY <1>1, <1>2, <1>3, <1>4, <1>5, <1>6, <1>7, <1>8, <1>9, <1>10, <1>11, <1>12, <1>13,
       <1>14, <1>15, <1>16, <1>17, <1>18, <1>19, <1>20, <1>21, <1>22, <1>23, <1>24, <1>25
       DEF Next, CallStep

\* An id is given back by the only one who uses it, or it is recorded.
LEMMA ReservedInvStep ==
    ASSUME ReservedInv, SoleInv, SharedInv, CallInv, PollInv, TypeOK, Next
    PROVE  ReservedInv'
  <1>0. Typed
    BY DEF TypeOK, Typed
  <1>99. ~loose => /\ \A c, d \in Calls : (InCall(c) /\ InCall(d) /\ c # d) => id[c] # id[d]
                   /\ \A c \in Calls : InCall(c) => store[id[c]] \in {None, c}
    BY DEF ReservedInv, SharedInv
  <1> USE <1>0, <1>99, StoreAssumption DEF Typed, ReservedInv, SoleInv, CallInv, PollInv, InCall, Over, Phases, Idle, Running, Polling, callVars, procVars,
          storeVars, historyVars
  <1>1. ASSUME NEW c \in Calls, NEW i \in Ids, Allocate(c, i) PROVE ReservedInv'
    <2> SUFFICES ASSUME ~loose' PROVE ReservedInv'
      OBVIOUS
    <2>1. ~loose /\ \A q \in Polls : poll[q] = Idle
      BY <1>1 DEF Allocate
    <2>2. i \notin reserved /\ store[i] = None
      BY <1>1, <2>1 DEF Allocate
    <2>3. \A d \in Calls : InCall(d) => id[d] # i
      BY <2>1, <2>2
    <2>4. \A q \in Polls : poll[q].id # i
      BY <2>1
    <2>5. UsersOf(i) = {}
      BY <2>2, <2>3, <2>4 DEF UsersOf
    <2>6. /\ shared' = shared /\ id' = [id EXCEPT ![c] = i] /\ reserved' = reserved \cup {i}
          /\ at' = [at EXCEPT ![c] = "open"] /\ store' = store
      BY <1>1, <2>5 DEF Allocate, GoTo
    <2> QED
      BY <2>1, <2>2, <2>6
  <1>2. ASSUME NEW c \in Calls, Refuse(c) PROVE ReservedInv'
    BY <1>2 DEF Refuse, Release, End, GoTo
  <1>3. ASSUME NEW c \in Calls, RefuseEarly(c) PROVE ReservedInv'
    BY <1>3 DEF RefuseEarly, End, GoTo
  <1>4. ASSUME NEW c \in Calls, Open(c) PROVE ReservedInv'
    BY <1>4 DEF Open, GoTo
  <1>5. ASSUME NEW c \in Calls, Start(c) PROVE ReservedInv'
    BY <1>5 DEF Start, GoTo
  <1>6. ASSUME NEW c \in Calls, Store(c) PROVE ReservedInv'
    <2>1. PICK v \in Calls \cup {None} : Stores(c, v)
      BY <1>6, StoreIs
    <2> SUFFICES ASSUME ~loose' PROVE ReservedInv'
      OBVIOUS
    <2>2. /\ ~loose /\ (v # None => ~InCall(v)) /\ at[c] = "store" /\ id[c] \in Ids
          /\ shared' = shared /\ id' = id
          /\ at' = [at EXCEPT ![c] = IF v = None THEN "collect" ELSE "prune"]
          /\ \A i \in Ids : store'[i] = IF i = id[c] THEN c ELSE IF store[i] = v THEN None ELSE store[i]
          /\ \A i \in Ids : i \in reserved' <=> i \in reserved /\ (v = None \/ store[i] # v)
      BY <2>1, Zenon DEF Stores
    <2>3. \A d \in Calls : InCall(d)' <=> InCall(d)
      BY <2>2
    <2>4. \A d \in Calls : InCall(d) => v = None \/ store[id[d]] # v
      BY <2>2
    <2>5. \A d \in Calls : InCall(d)' => id'[d] \in reserved'
      BY <2>2, <2>3, <2>4
    <2>6. \A i \in Ids : store'[i] # None => i \in reserved'
      BY <2>2, <2>4
    <2> QED
      BY <2>2, <2>5, <2>6
  <1>7. ASSUME NEW c \in Calls, TerminateVictim(c) PROVE ReservedInv'
    BY <1>7 DEF TerminateVictim, GoTo
  <1>8. ASSUME NEW c \in Calls, Collect(c) PROVE ReservedInv'
    BY <1>8 DEF Collect, ReportsEnd, GoTo
  <1>9. ASSUME NEW c \in Calls, EmitEnd(c) PROVE ReservedInv'
    BY <1>9 DEF EmitEnd, GoTo
  <1>10. ASSUME NEW c \in Calls, ReleaseId(c) PROVE ReservedInv'
    <2>1. /\ Release(id[c]) /\ at[c] = "release" /\ UNCHANGED <<shared, loose>>
          /\ at' = [at EXCEPT ![c] = "over"] /\ id' = [id EXCEPT ![c] = None]
      BY <1>10, Zenon DEF ReleaseId, End, GoTo
    <2> QED
      BY <2>1 DEF Release
  <1>11. ASSUME NEW c \in Calls, Answer(c) PROVE ReservedInv'
    <2>1. /\ Refresh(id[c]) /\ at[c] = "collect" /\ UNCHANGED <<shared, loose>>
          /\ at' = [at EXCEPT ![c] = "over"] /\ id' = [id EXCEPT ![c] = None]
      BY <1>11, Zenon DEF Answer, End, GoTo
    <2>2. CASE Release(id[c])
      BY <2>1, <2>2 DEF Release
    <2>3. CASE UNCHANGED <<reserved, store>>
      BY <2>1, <2>3
    <2> QED
      BY <2>1, <2>2, <2>3, Zenon DEF Refresh
  <1>12. ASSUME NEW c \in Calls, Abort(c) PROVE ReservedInv'
    BY <1>12 DEF Abort, Leaves, End, GoTo
  <1>13. ASSUME NEW c \in Calls, Exit(c) PROVE ReservedInv'
    BY <1>13 DEF Exit
  <1>14. ASSUME NEW c \in Calls, NoticeExit(c) PROVE ReservedInv'
    BY <1>14 DEF NoticeExit
  <1>15. ASSUME NEW c \in Calls, Fail(c) PROVE ReservedInv'
    BY <1>15 DEF Fail
  <1>16. ASSUME NEW c \in Calls, DropProcess(c) PROVE ReservedInv'
    BY <1>16 DEF DropProcess
  <1>17. ASSUME NEW c \in Calls, Watch(c) PROVE ReservedInv'
    BY <1>17 DEF Watch
  <1>18. ASSUME NEW c \in Calls, TerminateEntry(c) PROVE ReservedInv'
    BY <1>18 DEF TerminateEntry
  <1>19. ASSUME NEW p \in Polls, PollFindsExit(p) PROVE ReservedInv'
    <2>1. /\ poll[p] # Idle /\ poll[p].id \in Ids /\ Release(poll[p].id)
          /\ UNCHANGED <<at, id, shared, loose>>
      BY <1>19, FindsExitIs
    <2> QED
      BY <2>1 DEF Release
  <1>20. ASSUME NEW p \in Polls, PollWriteFails(p) PROVE ReservedInv'
    BY <1>20 DEF PollWriteFails, Release
  <1>21. ASSUME NEW p \in Polls, PollEnds(p) PROVE ReservedInv'
    BY <1>21 DEF PollEnds, Refresh, Release
  <1>22. ASSUME NEW p \in Polls, PollAborts(p) PROVE ReservedInv'
    BY <1>22 DEF PollAborts
  <1>23. ASSUME NEW p \in Polls, NEW i \in Ids, PollBegins(p, i) PROVE ReservedInv'
    BY <1>23 DEF PollBegins
  <1>24. ASSUME TerminateAll PROVE ReservedInv'
    <2>1. ~loose' => ~loose /\ \A c \in Calls : ~InCall(c)
      BY <1>24 DEF TerminateAll
    <2>2. store' = [i \in Ids |-> None] /\ UNCHANGED <<at, id, shared>>
      BY <1>24 DEF TerminateAll
    <2> QED
      BY <2>1, <2>2
  <1>25. ASSUME NEW c \in Calls, DenialTaskEnds(c) PROVE ReservedInv'
    BY <1>25 DEF DenialTaskEnds
  <1> QED
    BY <1>1, <1>2, <1>3, <1>4, <1>5, <1>6, <1>7, <1>8, <1>9, <1>10, <1>11, <1>12, <1>13,
       <1>14, <1>15, <1>16, <1>17, <1>18, <1>19, <1>20, <1>21, <1>22, <1>23, <1>24, <1>25
       DEF Next, CallStep

\* The store never holds more than MaxProcesses entries: a full store gives up
\* one before it takes another, under the same lock.
LEMMA BoundStep ==
    ASSUME TypeOK, CallInv, Next
    PROVE  (Cardinality(Stored) <= MaxProcesses)'
  <1>1. /\ Stored \subseteq Calls /\ IsFiniteSet(Stored) /\ Cardinality(Stored) \in Nat
        /\ Cardinality(Stored) <= MaxProcesses /\ MaxProcesses \in Nat
        /\ store \in [Ids -> Calls \cup {None}]
    <2>1. Stored \subseteq Calls
      BY DEF Stored, TypeOK
    <2> QED
      BY <2>1, StoreAssumption, FS_Subset, FS_CardinalityType DEF TypeOK
  <1>2. ASSUME Stored' \subseteq Stored PROVE Cardinality(Stored') <= MaxProcesses
    BY <1>1, <1>2, FS_Subset, FS_CardinalityType
  <1>3. ASSUME NEW c \in Calls, Store(c) PROVE Cardinality(Stored') <= MaxProcesses
    <2>1. Stored' \subseteq (Stored \ Pruned) \cup {c}
      <3> DEFINE f == [i \in Ids |-> IF store[i] \in Pruned THEN None ELSE store[i]]
      <3>1. store' = [f EXCEPT ![id[c]] = c]
        BY <1>3 DEF Store
      <3>2. \A i \in Ids : store'[i] = c \/ store'[i] = f[i]
        <4>1. DOMAIN f = Ids
          OBVIOUS
        <4> HIDE DEF f
        <4> QED
          BY <3>1, <4>1
      <3> QED
        BY <3>2 DEF Stored
    <2>2. \/ Pruned = {} /\ Cardinality(Stored) < MaxProcesses
          \/ Pruned = {ToPrune} /\ ToPrune \in Stored
      <3>1. CASE Cardinality(Stored) < MaxProcesses
        BY <3>1 DEF Pruned
      <3>2. CASE ~(Cardinality(Stored) < MaxProcesses)
        <4>1. ToPrune \in Stored
          BY <3>2, PrunesStored
        <4> QED
          BY <3>2, <4>1 DEF Pruned
      <3> QED
        BY <3>1, <3>2
    <2> DEFINE S == Stored \ Pruned
    <2>3. IsFiniteSet(S) /\ Cardinality(S) \in Nat /\ Cardinality(S) < MaxProcesses
      <3>1. CASE Pruned = {} /\ Cardinality(Stored) < MaxProcesses
        BY <1>1, <3>1
      <3>2. CASE Pruned = {ToPrune} /\ ToPrune \in Stored
        <4>1. IsFiniteSet(Stored \ {ToPrune}) /\ Cardinality(Stored \ {ToPrune}) = Cardinality(Stored) - 1
          BY <1>1, <3>2, FS_RemoveElement
        <4>2. Cardinality(Stored \ {ToPrune}) \in Nat
          BY <4>1, FS_CardinalityType
        <4> QED
          BY <1>1, <3>2, <4>1, <4>2
      <3> QED
        BY <2>2, <3>1, <3>2
    <2> HIDE DEF S
    <2>4. /\ IsFiniteSet(S \cup {c}) /\ Cardinality(S \cup {c}) \in Nat
          /\ Cardinality(S \cup {c}) <= Cardinality(S) + 1
      <3>1. /\ IsFiniteSet(S \cup {c})
            /\ Cardinality(S \cup {c}) = IF c \in S THEN Cardinality(S) ELSE Cardinality(S) + 1
        BY <2>3, FS_AddElement
      <3> QED
        BY <2>3, <3>1
    <2>5. IsFiniteSet(Stored') /\ Cardinality(Stored') \in Nat /\ Cardinality(Stored') <= Cardinality(S \cup {c})
      BY <2>1, <2>4, FS_Subset, FS_CardinalityType DEF S
    <2> QED
      BY <1>1, <2>3, <2>4, <2>5
  <1>4. ASSUME NEW i, Release(i) PROVE Stored' \subseteq Stored
    BY <1>1, <1>4 DEF Release, Stored
  <1>5. ASSUME UNCHANGED store PROVE Stored' \subseteq Stored
    BY <1>5 DEF Stored
  <1> USE DEF storeVars
  <1>6. ASSUME NEW c \in Calls, CallStep(c), ~Store(c)
        PROVE  (\E i : Release(i)) \/ UNCHANGED store
    BY <1>6 DEF CallStep, Refuse, RefuseEarly, Open, Start, TerminateVictim, Collect, EmitEnd,
                ReleaseId, Answer, Refresh
  <1>7. ASSUME NEW c \in Calls, (\E i \in Ids : Allocate(c, i)) \/ Abort(c) \/ Exit(c)
               \/ NoticeExit(c) \/ Fail(c) \/ DenialTaskEnds(c) \/ DropProcess(c)
               \/ Watch(c) \/ TerminateEntry(c)
        PROVE  UNCHANGED store
    BY <1>7 DEF Allocate, Abort, Exit, NoticeExit, Fail, DenialTaskEnds, DropProcess, Watch,
                  TerminateEntry
  <1>8. ASSUME NEW p \in Polls, (\E i \in Ids : PollBegins(p, i)) \/ PollFindsExit(p)
               \/ PollWriteFails(p) \/ PollEnds(p) \/ PollAborts(p)
        PROVE  (\E i : Release(i)) \/ UNCHANGED store
    <2>1. PollFindsExit(p) => \E i : Release(i)
      BY FindsExitIs
    <2> QED
      BY <1>8, <2>1 DEF PollBegins, PollWriteFails, PollEnds, PollAborts, Refresh
  <1>9. TerminateAll => Stored' \subseteq Stored
    BY DEF TerminateAll, Stored
  <1> QED
    BY <1>2, <1>3, <1>4, <1>5, <1>6, <1>7, <1>8, <1>9 DEF Next

\* Every step keeps the invariant.
LEMMA StepInv == Inv /\ [Next]_vars => Inv'
  <1> SUFFICES ASSUME Inv, [Next]_vars PROVE Inv'
    OBVIOUS
  <1>1. /\ TypeOK /\ CallInv /\ PollInv /\ SharedInv /\ WatchInv /\ SoleInv /\ ReservedInv
    BY DEF Inv
  <1>2. CASE Next
    <2>1. TypeOK'
      BY <1>1, <1>2, TypedStep, AgesStep, BoundStep DEF TypeOK, Typed, Ages
    <2> QED
      BY <1>1, <1>2, <2>1, CallInvStep, SharedInvStep, WatchInvStep, SoleInvStep, ReservedInvStep DEF Inv
  <1>3. CASE UNCHANGED vars
    BY <1>1, <1>3 DEF Inv, TypeOK, CallInv, PollInv, SharedInv, WatchInv, SoleInv, ReservedInv, vars,
                      callVars, procVars, storeVars, historyVars, Stored, InCall
  <1> QED
    BY <1>2, <1>3

----------------------------------------------------------------------------
(* Theorems *)

\* The invariant holds in every reachable state.
THEOREM Invariance == Spec => []Inv
  BY InitInv, StepInv, PTL DEF Spec

\* Every variable keeps its type, and the store holds at most MaxProcesses
\* processes (store_process prunes before it inserts).
THEOREM TypeCorrect == Spec => []TypeOK
  <1>1. Inv => TypeOK
    BY DEF Inv
  <1> QED
    BY <1>1, Invariance, PTL

\* The end of a command is reported at most once: process_started_alive is
\* looked up once, and decides between the watcher and the call.
THEOREM EndReportedOnce == Spec => []EndOnce
  <1>1. Inv => EndOnce
    BY DEF Inv, CallInv, EndOnce
  <1> QED
    BY <1>1, Invariance, PTL

\* A command that runs on when its call is over is in the store or on its way
\* out, unless its id was given out twice or an aborted call left it: as the
\* victim it had not terminated, or as its own process, not stored yet and
\* held by the task that waits for a network denial.
THEOREM LiveStaysReachable == Spec => []LiveIsReachable
  <1>1. Inv => LiveIsReachable
    BY DEF Inv, CallInv, WatchInv, LiveIsReachable, Held, Stored, InCall, Over
  <1> QED
    BY <1>1, Invariance, PTL

\* However many calls of exec_command run side by side, no id is given out
\* while it is in use, unless an entry is pruned during its call,
\* terminate_all_processes runs during a call, or a second runtime polls.
THEOREM IdsStayDistinct == Spec => []IdsDistinct
  <1>1. Inv => IdsDistinct
    BY DEF Inv, ReservedInv, IdsDistinct
  <1> QED
    BY <1>1, Invariance, PTL

=============================================================================
