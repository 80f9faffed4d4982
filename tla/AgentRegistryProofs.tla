------------------------ MODULE AgentRegistryProofs ------------------------
(***************************************************************************)
(* Proofs about AgentRegistry, for any number of calls, threads, paths and *)
(* nicknames and any limit.                                                *)
(***************************************************************************)
EXTENDS AgentRegistry, FiniteSetTheorems, TLAPS

(* TypeOK without the counter: decrementing the counter stays in Nat only   *)
(* because a slot that is being returned is still counted.                  *)
TypeRest ==
    /\ tree \in [Keys -> Ids \cup {Vacant, Reserved}]
    /\ usedNicks \subseteq Nicks
    /\ resetCount \in Nat
    /\ thread \in [Ids -> {"unused", "absent", "running", "dead"}]
    /\ nickOf \in [Ids -> Nicks \cup {NoNick}]
    /\ call \in [Calls -> Call]

(* A call that creates a thread has a nickname for it.                      *)
Named ==
    \A c \in Calls :
      call[c].pc \in {"named", "building", "created"} => call[c].nick \in Nicks

(* The slots in use are covered by the counter, the counter by the limit.   *)
SlotsCovered ==
    /\ totalCount \in Nat
    /\ SlotsUsed <= totalCount
    /\ totalCount <= MaxThreads

Inv == TypeRest /\ Named /\ SlotsCovered

----------------------------------------------------------------------------

(* The local state of a call, field by field. *)
LEMMA CallFields ==
    ASSUME TypeRest, NEW c \in Calls
    PROVE  /\ call[c] \in Call
           /\ call[c].pc \in PCs /\ call[c].kind \in {"spawn", "resume"}
           /\ call[c].cur \in Nat /\ call[c].tgt \in Ids
           /\ call[c].path \in Paths \cup {NoPath}
           /\ call[c].nick \in Nicks \cup {NoNick}
  BY DEF TypeRest, Call

(* The state of an idle call is one of a call's states. *)
LEMMA NoCallType == NoCall \in Call
  BY RegistryAssumption DEF NoCall, Call, PCs, Holding, Pathed

(* The program counters an action moves to. *)
LEMMA PCsFacts ==
    /\ Pathed \subseteq Holding /\ Holding \subseteq PCs
    /\ {"idle", "cas", "send", "remove", "release", "releaseCount"} \subseteq PCs
    /\ {"slot", "rooted", "dropCount"} \subseteq Holding
    /\ {"pathed", "named", "building", "created", "drop"} \subseteq Pathed
    /\ {"idle", "cas", "send", "remove", "release", "releaseCount"} \cap Holding = {}
    /\ {"slot", "rooted", "dropCount"} \cap Pathed = {}
  BY DEF PCs, Holding, Pathed

(* What Goto and Return do to the calls. *)
LEMMA Goes ==
    ASSUME TypeRest, NEW c \in Calls, NEW l \in PCs, Goto(c, l)
    PROVE  /\ call' \in [Calls -> Call]
           /\ call'[c].pc = l /\ call'[c].kind = call[c].kind
           /\ call'[c].tgt = call[c].tgt /\ call'[c].path = call[c].path
           /\ call'[c].nick = call[c].nick
           /\ \A d \in Calls \ {c} : call'[d] = call[d]
  BY DEF Goto, TypeRest, Call

(* A call that returns is idle again and disturbs no other. *)
LEMMA Returns ==
    ASSUME TypeRest, NEW c \in Calls, Return(c)
    PROVE  /\ call' \in [Calls -> Call]
           /\ call'[c] = NoCall
           /\ \A d \in Calls \ {c} : call'[d] = call[d]
  BY NoCallType DEF Return, TypeRest

(* What the other updates of a call do: its new fields, the others' calls. *)
LEMMA Begins ==
    ASSUME TypeRest, NEW c \in Calls, NEW l \in PCs, NEW n \in Nat,
           call' = [call EXCEPT ![c].pc = l, ![c].cur = n]
    PROVE  /\ call' \in [Calls -> Call]
           /\ call'[c].pc = l /\ call'[c].kind = call[c].kind
           /\ call'[c].tgt = call[c].tgt /\ call'[c].path = call[c].path
           /\ \A d \in Calls \ {c} : call'[d] = call[d]
  BY DEF TypeRest, Call

(* Setting the kind and the thread of a call keeps the type. *)
LEMMA SetKindTarget ==
    ASSUME NEW f \in [Calls -> Call], NEW c \in Calls, NEW i \in Ids,
           NEW k \in {"spawn", "resume"}
    PROVE  [f EXCEPT ![c].kind = k, ![c].tgt = i] \in [Calls -> Call]
  BY DEF Call

(* ResumeBegin also fixes the kind and the thread of the call. *)
LEMMA BeginsResume ==
    ASSUME TypeRest, NEW c \in Calls, NEW l \in PCs, NEW n \in Nat, NEW i \in Ids,
           NEW k \in {"spawn", "resume"},
           call' = [call EXCEPT ![c].pc = l, ![c].cur = n,
                                ![c].kind = k, ![c].tgt = i]
    PROVE  /\ call' \in [Calls -> Call]
           /\ call'[c].pc = l /\ call'[c].kind = k
           /\ call'[c].tgt = i /\ call'[c].path = call[c].path
           /\ \A d \in Calls \ {c} : call'[d] = call[d]
<1>1. [call EXCEPT ![c].pc = l, ![c].cur = n] \in [Calls -> Call]
  BY DEF TypeRest, Call
<1>2. call' \in [Calls -> Call]
  BY <1>1, SetKindTarget
<1>3. /\ call'[c].pc = l /\ call'[c].kind = k
      /\ call'[c].tgt = i /\ call'[c].path = call[c].path
      /\ \A d \in Calls \ {c} : call'[d] = call[d]
  BY DEF TypeRest, Call
<1> QED BY <1>2, <1>3

(* A lost compare-and-exchange reloads current and nothing else. *)
LEMMA Reloads ==
    ASSUME TypeRest, NEW c \in Calls, NEW n \in Nat,
           call' = [call EXCEPT ![c].cur = n]
    PROVE  /\ call' \in [Calls -> Call]
           /\ call'[c].pc = call[c].pc /\ call'[c].kind = call[c].kind
           /\ call'[c].tgt = call[c].tgt /\ call'[c].path = call[c].path
           /\ \A d \in Calls \ {c} : call'[d] = call[d]
  BY DEF TypeRest, Call

(* ReserveAgentPath fills in the path. *)
LEMMA TakesPath ==
    ASSUME TypeRest, NEW c \in Calls, NEW l \in PCs, NEW p \in Paths \cup {NoPath},
           call' = [call EXCEPT ![c].pc = l, ![c].path = p]
    PROVE  /\ call' \in [Calls -> Call]
           /\ call'[c].pc = l /\ call'[c].kind = call[c].kind
           /\ call'[c].tgt = call[c].tgt /\ call'[c].path = p
           /\ \A d \in Calls \ {c} : call'[d] = call[d]
  BY DEF TypeRest, Call

(* ReserveAgentNickname fills in the nickname. *)
LEMMA TakesNick ==
    ASSUME TypeRest, NEW c \in Calls, NEW l \in PCs, NEW x \in Nicks \cup {NoNick},
           call' = [call EXCEPT ![c].pc = l, ![c].nick = x]
    PROVE  /\ call' \in [Calls -> Call]
           /\ call'[c].pc = l /\ call'[c].kind = call[c].kind
           /\ call'[c].tgt = call[c].tgt /\ call'[c].path = call[c].path
           /\ call'[c].nick = x
           /\ \A d \in Calls \ {c} : call'[d] = call[d]
  BY DEF TypeRest, Call

(* CreateThread, SendBegin and ShutdownLiveAgent fix the thread. *)
LEMMA TakesTarget ==
    ASSUME TypeRest, NEW c \in Calls, NEW l \in PCs, NEW i \in Ids,
           call' = [call EXCEPT ![c].pc = l, ![c].tgt = i]
    PROVE  /\ call' \in [Calls -> Call]
           /\ call'[c].pc = l /\ call'[c].kind = call[c].kind
           /\ call'[c].tgt = i /\ call'[c].path = call[c].path
           /\ call'[c].nick = call[c].nick
           /\ \A d \in Calls \ {c} : call'[d] = call[d]
  BY DEF TypeRest, Call

(* Every step keeps everything but the counter in its type. *)
LEMMA TypeRestStep ==
    ASSUME TypeRest, Named, totalCount \in Nat, [Next]_vars
    PROVE  TypeRest'
<1> USE RegistryAssumption
<1>1. ASSUME NEW c \in Calls, SpawnBegin(c)
      PROVE  TypeRest'
  <2>1. call' \in [Calls -> Call]
    BY <1>1, Begins, PCsFacts DEF SpawnBegin
  <2> QED BY <1>1, <2>1 DEF SpawnBegin, TypeRest
<1>2. ASSUME NEW c \in Calls, NEW i \in Ids, ResumeBegin(c, i)
      PROVE  TypeRest'
  <2>1. call' \in [Calls -> Call]
    BY <1>2, BeginsResume, PCsFacts DEF ResumeBegin
  <2> QED BY <1>2, <2>1 DEF ResumeBegin, TypeRest
<1>3. ASSUME NEW c \in Calls, TryIncrementSpawned(c)
      PROVE  TypeRest'
  <2>1. call' \in [Calls -> Call]
    <3>1. CASE Return(c)
      BY <3>1, Returns
    <3>2. CASE Goto(c, "slot")
      BY <3>2, Goes, Returns, PCsFacts
    <3>3. CASE call' = [call EXCEPT ![c].cur = totalCount]
      BY <3>3, Reloads
    <3> QED BY <1>3, <3>1, <3>2, <3>3 DEF TryIncrementSpawned
  <2> QED BY <1>3, <2>1 DEF TryIncrementSpawned, TypeRest
<1>4. ASSUME NEW c \in Calls, RegisterRootThread(c)
      PROVE  TypeRest'
  <2>1. call' \in [Calls -> Call]
    BY <1>4, Goes, Returns, PCsFacts DEF RegisterRootThread
  <2>2. tree' \in [Keys -> Ids \cup {Vacant, Reserved}]
    BY <1>4 DEF RegisterRootThread, TypeRest
  <2> QED BY <1>4, <2>1, <2>2 DEF RegisterRootThread, TypeRest
<1>5. ASSUME NEW c \in Calls, NEW p \in Paths \cup {NoPath}, ReserveAgentPath(c, p)
      PROVE  TypeRest'
  <2>1. call' \in [Calls -> Call]
    <3>1. CASE Goto(c, "pathed") \/ Goto(c, "drop")
      BY <3>1, Goes, Returns, PCsFacts
    <3>2. CASE call' = [call EXCEPT ![c].pc = "pathed", ![c].path = p]
      BY <3>2, TakesPath, PCsFacts
    <3> QED BY <1>5, <3>1, <3>2 DEF ReserveAgentPath
  <2>2. tree' \in [Keys -> Ids \cup {Vacant, Reserved}]
    BY <1>5 DEF ReserveAgentPath, TypeRest, Keys
  <2> QED BY <1>5, <2>1, <2>2 DEF ReserveAgentPath, TypeRest
<1>6. ASSUME NEW c \in Calls, ReserveAgentNickname(c)
      PROVE  TypeRest'
  <2>1. ASSUME NEW x \in Nicks, NEW u \in SUBSET Nicks, NEW r \in Nat,
               HandOut(c, x, u, r)
        PROVE  /\ call' \in [Calls -> Call]
               /\ usedNicks' \subseteq Nicks
               /\ resetCount' \in Nat
    BY <2>1, TakesNick, PCsFacts DEF HandOut
  <2>2. \E x \in Nicks, u \in SUBSET Nicks, r \in Nat : HandOut(c, x, u, r)
    <3>1. CASE /\ nickOf[call[c].tgt] # NoNick
               /\ HandOut(c, nickOf[call[c].tgt], usedNicks, resetCount)
      BY <3>1, CallFields DEF TypeRest
    <3>2. CASE \E pool \in Pools : \E n \in Available(pool) :
                 HandOut(c, <<n, resetCount>>, usedNicks, resetCount)
      <4>1. PICK pool \in Pools : \E n \in Available(pool) :
                   HandOut(c, <<n, resetCount>>, usedNicks, resetCount)
        BY <3>2
      <4>2. PICK n \in Available(pool) :
                   HandOut(c, <<n, resetCount>>, usedNicks, resetCount)
        BY <4>1
      <4>3. <<n, resetCount>> \in Nicks
        BY DEF Available, Nicks, TypeRest
      <4> QED BY <4>2, <4>3 DEF TypeRest
    <3>3. CASE \E pool \in Pools : \E n \in pool :
                 HandOut(c, <<n, resetCount + 1>>, {}, resetCount + 1)
      <4>1. PICK pool \in Pools : \E n \in pool :
                   HandOut(c, <<n, resetCount + 1>>, {}, resetCount + 1)
        BY <3>3
      <4>2. PICK n \in pool : HandOut(c, <<n, resetCount + 1>>, {}, resetCount + 1)
        BY <4>1
      <4>3. resetCount + 1 \in Nat
        BY DEF TypeRest
      <4>4. <<n, resetCount + 1>> \in Nicks
        BY <4>3 DEF Nicks
      <4> QED BY <4>2, <4>3, <4>4
    <3> QED BY <1>6, <3>1, <3>2, <3>3 DEF ReserveAgentNickname
  <2> QED BY <1>6, <2>1, <2>2 DEF ReserveAgentNickname, TypeRest
<1>7. ASSUME NEW c \in Calls, CreateThread(c)
      PROVE  TypeRest'
  <2>1. PICK i \in Ids :
          /\ thread' = [thread EXCEPT ![i] = "running"]
          /\ nickOf' = [nickOf EXCEPT ![i] = call[c].nick]
          /\ call' = [call EXCEPT ![c].pc = "created", ![c].tgt = i]
    BY <1>7 DEF CreateThread
  <2>2. call' \in [Calls -> Call]
    BY <2>1, TakesTarget, PCsFacts
  <2>3. nickOf' \in [Ids -> Nicks \cup {NoNick}]
    BY <2>1, CallFields DEF TypeRest
  <2> QED BY <1>7, <2>1, <2>2, <2>3 DEF CreateThread, TypeRest
<1>8. ASSUME NEW c \in Calls, ResumeCheck(c)
      PROVE  TypeRest'
  <2>1. call' \in [Calls -> Call]
    BY <1>8, Goes, Returns, PCsFacts DEF ResumeCheck
  <2> QED BY <1>8, <2>1, CallFields DEF ResumeCheck, TypeRest
<1>9. ASSUME NEW c \in Calls, ResumeFinalize(c)
      PROVE  TypeRest'
  <2>1. call' \in [Calls -> Call]
    BY <1>9, Goes, Returns, PCsFacts DEF ResumeFinalize
  <2> QED BY <1>9, <2>1, CallFields DEF ResumeFinalize, TypeRest
<1>10. ASSUME NEW c \in Calls, SpawnFails(c)
       PROVE  TypeRest'
  <2>1. call' \in [Calls -> Call]
    BY <1>10, Goes, Returns, PCsFacts DEF SpawnFails
  <2> QED BY <1>10, <2>1 DEF SpawnFails, TypeRest
<1>11. ASSUME NEW c \in Calls, Commit(c)
       PROVE  TypeRest'
  <2>1. call' \in [Calls -> Call]
    BY <1>11, Goes, Returns, PCsFacts DEF Commit
  <2>2. tree' \in [Keys -> Ids \cup {Vacant, Reserved}]
    BY <1>11, CallFields DEF Commit, TypeRest, Key, Keys
  <2>3. usedNicks' \subseteq Nicks
    BY <1>11 DEF Commit, TypeRest, Named, pc
  <2> QED BY <1>11, <2>1, <2>2, <2>3 DEF Commit, TypeRest
<1>12. ASSUME NEW c \in Calls, DropPath(c)
       PROVE  TypeRest'
  <2>1. call' \in [Calls -> Call]
    BY <1>12, Goes, Returns, PCsFacts DEF DropPath
  <2> QED BY <1>12, <2>1 DEF DropPath, TypeRest
<1>13. ASSUME NEW c \in Calls, DropCount(c) \/ ReleaseCount(c) \/ CallDropped(c)
       PROVE  TypeRest'
  <2>1. call' \in [Calls -> Call]
    BY <1>13, Returns DEF DropCount, ReleaseCount, CallDropped
  <2> QED BY <1>13, <2>1 DEF DropCount, ReleaseCount, CallDropped, TypeRest
<1>14. ASSUME NEW c \in Calls, NEW i \in Ids, SendBegin(c, i) \/ ShutdownLiveAgent(c, i)
       PROVE  TypeRest'
  <2>1. call' \in [Calls -> Call]
    <3>1. \E l \in PCs :
            call' = [call EXCEPT ![c].pc = l, ![c].tgt = i]
      BY <1>14, PCsFacts DEF SendBegin, ShutdownLiveAgent
    <3> QED BY <3>1, TakesTarget
  <2> QED BY <1>14, <2>1 DEF SendBegin, ShutdownLiveAgent, TypeRest
<1>15. ASSUME NEW c \in Calls, SendOp(c)
       PROVE  TypeRest'
  <2>1. call' \in [Calls -> Call]
    BY <1>15, Goes, Returns, PCsFacts DEF SendOp
  <2> QED BY <1>15, <2>1 DEF SendOp, TypeRest
<1>16. ASSUME NEW c \in Calls, RemoveThread(c)
       PROVE  TypeRest'
  <2>1. call' \in [Calls -> Call]
    BY <1>16, Goes, Returns, PCsFacts DEF RemoveThread
  <2> QED BY <1>16, <2>1, CallFields DEF RemoveThread, TypeRest
<1>17. ASSUME NEW c \in Calls, ReleaseEntry(c)
       PROVE  TypeRest'
  <2>1. call' \in [Calls -> Call]
    BY <1>17, Goes, Returns, PCsFacts DEF ReleaseEntry
  <2>2. tree' \in [Keys -> Ids \cup {Vacant, Reserved}]
    BY <1>17 DEF ReleaseEntry, TypeRest
  <2> QED BY <1>17, <2>1, <2>2 DEF ReleaseEntry, TypeRest
<1>18. ASSUME NEW i \in Ids, ThreadEnds(i) \/ Unload(i)
       PROVE  TypeRest'
  BY <1>18 DEF ThreadEnds, Unload, TypeRest
<1>19. CASE UNCHANGED vars
  BY <1>19 DEF vars, TypeRest
<1> QED BY <1>1, <1>2, <1>3, <1>4, <1>5, <1>6, <1>7, <1>8, <1>9, <1>10, <1>11,
           <1>12, <1>13, <1>14, <1>15, <1>16, <1>17, <1>18, <1>19
        DEF Next, CallStep

----------------------------------------------------------------------------
(* Counting slots.  A call with a reservation, or one that has yet to       *)
(* return the slot of the entry it removed, weighs one.                     *)

Weight(l) == IF l \in Holding \cup {"releaseCount"} THEN 1 ELSE 0
Busy == {c \in Calls : pc(c) \in Holding \cup {"releaseCount"}}

(* A step moves the counter and the slots in use together.                  *)
Balanced == totalCount' - SlotsUsed' = totalCount - SlotsUsed

(* A commit overwrites the entry of a thread that is resumed again.         *)
Overwrite == \E c \in Calls : Commit(c) /\ tree[Key(c)] \in Ids

(* The sets the slot count is made of are finite. *)
LEMMA Finite ==
    /\ IsFiniteSet(LiveKeys) /\ IsFiniteSet(Busy)
    /\ IsFiniteSet(Reserving) /\ IsFiniteSet(Releasing)
<1>1. IsFiniteSet(Keys)
  BY RegistryAssumption, FS_Singleton, FS_Union DEF Keys
<1>2. LiveKeys \subseteq Keys
  BY DEF LiveKeys
<1>3. Busy \subseteq Calls /\ Reserving \subseteq Calls /\ Releasing \subseteq Calls
  BY DEF Busy, Reserving, Releasing
<1> QED BY <1>1, <1>2, <1>3, RegistryAssumption, FS_Subset

(* So their cardinalities are numbers. *)
LEMMA Cards ==
    /\ Cardinality(LiveKeys) \in Nat /\ Cardinality(Busy) \in Nat
    /\ Cardinality(Reserving) \in Nat /\ Cardinality(Releasing) \in Nat
  BY Finite, FS_CardinalityType

(* The two phases of a call that count are disjoint, whatever the calls are. *)
LEMMA PhasesAdd ==
    ASSUME NEW f
    PROVE  LET R == {c \in Calls : f[c].pc \in Holding}
               L == {c \in Calls : f[c].pc = "releaseCount"}
               B == {c \in Calls : f[c].pc \in Holding \cup {"releaseCount"}}
           IN  Cardinality(B) = Cardinality(R) + Cardinality(L)
<1> DEFINE R == {c \in Calls : f[c].pc \in Holding}
           L == {c \in Calls : f[c].pc = "releaseCount"}
           B == {c \in Calls : f[c].pc \in Holding \cup {"releaseCount"}}
<1>1. B = R \cup L /\ R \subseteq Calls /\ L \subseteq Calls
  OBVIOUS
<1>2. R \cap L = {}
  BY PCsFacts
<1> HIDE DEF B, R, L
<1>3. IsFiniteSet(R) /\ IsFiniteSet(L)
  BY <1>1, RegistryAssumption, FS_Subset
<1>4. Cardinality(R \cup L) = Cardinality(R) + Cardinality(L) - Cardinality(R \cap L)
  BY <1>3, FS_Union
<1>5. Cardinality(R \cap L) = 0
  BY <1>2, FS_EmptySet
<1>6. Cardinality(R) \in Nat /\ Cardinality(L) \in Nat
  BY <1>3, FS_CardinalityType
<1>7. Cardinality(B) = Cardinality(R) + Cardinality(L)
  BY <1>1, <1>4, <1>5, <1>6
<1> QED BY <1>7 DEF B, R, L

(* The slots in use, as agents plus calls that hold a slot. *)
LEMMA SlotsUsedBusy ==
    /\ SlotsUsed = Cardinality(LiveKeys) + Cardinality(Busy)
    /\ SlotsUsed' = Cardinality(LiveKeys)' + Cardinality(Busy)'
    /\ Cardinality(LiveKeys)' \in Nat /\ Cardinality(Busy)' \in Nat
<1>1. Cardinality(Busy) = Cardinality(Reserving) + Cardinality(Releasing)
  BY PhasesAdd DEF Busy, Reserving, Releasing, pc
<1>2. Cardinality(Busy)' = Cardinality(Reserving)' + Cardinality(Releasing)'
  BY PhasesAdd DEF Busy, Reserving, Releasing, pc
<1>3. LiveKeys' \subseteq Keys /\ Reserving' \subseteq Calls
      /\ Releasing' \subseteq Calls
  BY DEF LiveKeys, Reserving, Releasing
<1>4. IsFiniteSet(Keys)
  BY RegistryAssumption, FS_Singleton, FS_Union DEF Keys
<1>5. /\ Cardinality(LiveKeys)' \in Nat /\ Cardinality(Reserving)' \in Nat
      /\ Cardinality(Releasing)' \in Nat
  BY <1>3, <1>4, RegistryAssumption, FS_Subset, FS_CardinalityType
<1>6. SlotsUsed = Cardinality(LiveKeys) + Cardinality(Busy)
  BY <1>1, Cards DEF SlotsUsed
<1>7. SlotsUsed' = Cardinality(LiveKeys)' + Cardinality(Busy)'
  BY <1>2, <1>5 DEF SlotsUsed
<1> QED BY <1>2, <1>5, <1>6, <1>7

(* When one call moves, the weight of the calls changes by its own. *)
LEMMA BusyMove ==
    ASSUME NEW c \in Calls, \A d \in Calls \ {c} : call'[d] = call[d]
    PROVE  Cardinality(Busy)' = Cardinality(Busy) - Weight(pc(c)) + Weight(pc(c)')
<1>1. Busy' = IF Weight(pc(c)') = 1 THEN Busy \cup {c} ELSE Busy \ {c}
  BY DEF Busy, Weight, pc
<1>2. c \in Busy <=> Weight(pc(c)) = 1
  BY DEF Busy, Weight
<1>3. Weight(pc(c)) \in {0, 1} /\ Weight(pc(c)') \in {0, 1}
  BY DEF Weight
<1>4. Cardinality(Busy \cup {c}) = IF c \in Busy THEN Cardinality(Busy)
                                   ELSE Cardinality(Busy) + 1
  BY Finite, FS_AddElement
<1>5. Cardinality(Busy \ {c}) = IF c \in Busy THEN Cardinality(Busy) - 1
                                ELSE Cardinality(Busy)
  BY Finite, FS_RemoveElement
<1> QED BY <1>1, <1>2, <1>3, <1>4, <1>5, Cards

(* Which program counters hold a slot. *)
LEMMA Weights ==
    /\ \A l : Weight(l) \in {0, 1}
    /\ \A l \in Holding \cup {"releaseCount"} : Weight(l) = 1
    /\ \A l \in {"idle", "cas", "send", "remove", "release"} : Weight(l) = 0
  BY PCsFacts DEF Weight

(* A step of one call that leaves the registered agents alone. *)
LEMMA Move ==
    ASSUME NEW c \in Calls, \A d \in Calls \ {c} : call'[d] = call[d],
           LiveKeys' = LiveKeys
    PROVE  SlotsUsed' = SlotsUsed - Weight(call[c].pc) + Weight(call'[c].pc)
<1>1. Cardinality(Busy)'
        = Cardinality(Busy) - Weight(call[c].pc) + Weight(call'[c].pc)
  BY BusyMove DEF pc
<1>2. SlotsUsed' = Cardinality(LiveKeys)' + Cardinality(Busy)'
  BY SlotsUsedBusy
<1>3. Weight(call[c].pc) \in {0, 1} /\ Weight(call'[c].pc) \in {0, 1}
  BY Weights
<1> QED BY <1>1, <1>2, <1>3, SlotsUsedBusy, Cards

(* One that neither takes nor returns a slot either. *)
LEMMA Neutral ==
    ASSUME NEW c \in Calls, \A d \in Calls \ {c} : call'[d] = call[d],
           LiveKeys' = LiveKeys, UNCHANGED totalCount,
           Weight(call'[c].pc) = Weight(call[c].pc)
    PROVE  Balanced
<1>1. SlotsUsed' = SlotsUsed - Weight(call[c].pc) + Weight(call'[c].pc)
  BY Move
<1>2. SlotsUsed \in Nat /\ Weight(call[c].pc) \in {0, 1}
  BY Weights, SlotsUsedBusy, Cards
<1> QED BY <1>1, <1>2 DEF Balanced

(* Only the tree says which agents are registered. *)
LEMMA LiveSame == ASSUME UNCHANGED tree PROVE LiveKeys' = LiveKeys
  BY DEF LiveKeys

(* The counter and the slots in use move together, but for an overwrite. *)
LEMMA BalanceStep ==
    ASSUME Inv, [Next]_vars
    PROVE  Balanced \/ Overwrite
<1> USE DEF Inv
<1>0. /\ totalCount \in Nat /\ MaxThreads \in Nat /\ SlotsUsed \in Nat
      /\ SlotsUsed <= totalCount /\ totalCount <= MaxThreads
  BY RegistryAssumption, SlotsUsedBusy, Cards DEF SlotsCovered
<1>1. ASSUME NEW c \in Calls, SpawnBegin(c)
      PROVE  Balanced
  <2>1. /\ call'[c].pc = "cas" /\ call[c].pc = "idle"
        /\ \A d \in Calls \ {c} : call'[d] = call[d]
    BY <1>0, <1>1, Begins, PCsFacts DEF SpawnBegin, pc
  <2> QED BY <1>1, <2>1, Weights, LiveSame, Neutral DEF SpawnBegin
<1>2. ASSUME NEW c \in Calls, NEW i \in Ids, ResumeBegin(c, i)
      PROVE  Balanced
  <2>1. /\ call'[c].pc = "cas" /\ call[c].pc = "idle"
        /\ \A d \in Calls \ {c} : call'[d] = call[d]
    BY <1>0, <1>2, BeginsResume, PCsFacts DEF ResumeBegin, pc
  <2> QED BY <1>2, <2>1, Weights, LiveSame, Neutral DEF ResumeBegin
<1>3. ASSUME NEW c \in Calls, TryIncrementSpawned(c)
      PROVE  Balanced
  <2>1. call[c].pc = "cas" /\ LiveKeys' = LiveKeys
    BY <1>3, LiveSame DEF TryIncrementSpawned, pc
  <2>2. CASE Return(c) /\ UNCHANGED totalCount
    BY <2>1, <2>2, Returns, Weights, Neutral DEF NoCall
  <2>3. CASE /\ ~AtLimit(call[c].cur) /\ totalCount = call[c].cur
             /\ totalCount' = totalCount + 1 /\ Goto(c, "slot")
    <3>1. SlotsUsed' = SlotsUsed - Weight("cas") + Weight("slot")
      BY <2>1, <2>3, Goes, PCsFacts, Move
    <3>2. SlotsUsed' = SlotsUsed + 1
      BY <1>0, <3>1, PCsFacts, Weights
    <3> QED BY <1>0, <2>3, <3>2 DEF Balanced
  <2>4. CASE call' = [call EXCEPT ![c].cur = totalCount] /\ UNCHANGED totalCount
    BY <1>0, <2>1, <2>4, Reloads, Neutral
  <2> QED BY <1>3, <2>2, <2>3, <2>4 DEF TryIncrementSpawned
<1>4. ASSUME NEW c \in Calls, RegisterRootThread(c)
      PROVE  Balanced
  <2>1. /\ call'[c].pc = "rooted" /\ call[c].pc = "slot"
        /\ \A d \in Calls \ {c} : call'[d] = call[d]
    BY <1>4, Goes, PCsFacts DEF RegisterRootThread, pc
  <2>2. LiveKeys' = LiveKeys
    BY <1>4 DEF RegisterRootThread, LiveKeys, TypeRest
  <2> QED BY <1>4, <2>1, <2>2, PCsFacts, Weights, Neutral DEF RegisterRootThread
<1>5. ASSUME NEW c \in Calls, NEW p \in Paths \cup {NoPath}, ReserveAgentPath(c, p)
      PROVE  Balanced
  <2>1. /\ call'[c].pc \in {"pathed", "drop"} /\ call[c].pc = "rooted"
        /\ \A d \in Calls \ {c} : call'[d] = call[d]
    BY <1>5, Goes, TakesPath, PCsFacts DEF ReserveAgentPath, pc
  <2>2. LiveKeys' = LiveKeys
    BY <1>5, RegistryAssumption DEF ReserveAgentPath, PathFree, LiveKeys, TypeRest, Keys
  <2> QED BY <1>5, <2>1, <2>2, PCsFacts, Weights, Neutral DEF ReserveAgentPath
<1>6. ASSUME NEW c \in Calls, ReserveAgentNickname(c)
      PROVE  Balanced
  <2>1. \E x : call' = [call EXCEPT ![c].pc = "named", ![c].nick = x]
    BY <1>6 DEF ReserveAgentNickname, HandOut
  <2>2. /\ call'[c].pc = "named" /\ call[c].pc = "pathed"
        /\ \A d \in Calls \ {c} : call'[d] = call[d]
    BY <1>6, <2>1 DEF ReserveAgentNickname, pc, TypeRest, Call
  <2> QED BY <1>6, <2>2, PCsFacts, Weights, LiveSame, Neutral DEF ReserveAgentNickname
<1>7. ASSUME NEW c \in Calls, CreateThread(c)
      PROVE  Balanced
  <2>1. /\ call'[c].pc = "created" /\ call[c].pc = "named"
        /\ \A d \in Calls \ {c} : call'[d] = call[d]
    <3>1. PICK i \in Ids : call' = [call EXCEPT ![c].pc = "created", ![c].tgt = i]
      BY <1>7 DEF CreateThread
    <3> QED BY <1>7, <3>1, TakesTarget, PCsFacts DEF CreateThread, pc
  <2>2. UNCHANGED <<tree, totalCount>>
    BY <1>7 DEF CreateThread
  <2> QED BY <2>1, <2>2, PCsFacts, Weights, LiveSame, Neutral
<1>8. ASSUME NEW c \in Calls, ResumeCheck(c) \/ ResumeFinalize(c) \/ SpawnFails(c)
      PROVE  Balanced
  <2>1. /\ call'[c].pc \in {"created", "building", "drop"}
        /\ call[c].pc \in {"slot", "named", "building", "created"}
        /\ \A d \in Calls \ {c} : call'[d] = call[d]
    BY <1>8, Goes, PCsFacts DEF ResumeCheck, ResumeFinalize, SpawnFails, pc
  <2>2. Weight(call'[c].pc) = 1 /\ Weight(call[c].pc) = 1
    BY <2>1, PCsFacts, Weights
  <2>3. UNCHANGED <<tree, totalCount>>
    BY <1>8 DEF ResumeCheck, ResumeFinalize, SpawnFails
  <2> QED BY <2>1, <2>2, <2>3, LiveSame, Neutral
<1>9. ASSUME NEW c \in Calls, Commit(c), tree[Key(c)] \notin Ids
      PROVE  Balanced
  <2>1. /\ call'[c].pc \in {"send", "idle"} /\ call[c].pc = "created"
        /\ \A d \in Calls \ {c} : call'[d] = call[d]
    BY <1>9, Goes, Returns, PCsFacts DEF Commit, pc, NoCall
  <2>2. Cardinality(Busy)' = Cardinality(Busy) - Weight(call[c].pc) + Weight(call'[c].pc)
    BY <2>1, BusyMove DEF pc
  <2>3. Cardinality(Busy)' = Cardinality(Busy) - 1
    BY <2>1, <2>2, PCsFacts, Weights, Cards
  <2>4. Key(c) \in Keys \ {Root} /\ call[c].tgt \in Ids
    BY CallFields, RegistryAssumption DEF Key, Keys
  <2>5. Key(c) \notin LiveKeys /\ LiveKeys' = LiveKeys \cup {Key(c)}
    BY <1>9, <2>4 DEF Commit, LiveKeys, TypeRest
  <2>6. Cardinality(LiveKeys)' = Cardinality(LiveKeys) + 1
    BY <2>5, Finite, FS_AddElement
  <2>7. SlotsUsed' = SlotsUsed
    BY <2>3, <2>6, SlotsUsedBusy, Cards
  <2> QED BY <1>9, <2>7 DEF Commit, Balanced
<1>10. ASSUME NEW c \in Calls, DropPath(c)
       PROVE  Balanced
  <2>1. /\ call'[c].pc = "dropCount" /\ call[c].pc = "drop"
        /\ \A d \in Calls \ {c} : call'[d] = call[d]
    BY <1>10, Goes, PCsFacts DEF DropPath, pc
  <2>2. LiveKeys' = LiveKeys
    BY <1>10, RegistryAssumption DEF DropPath, LiveKeys, TypeRest
  <2> QED BY <1>10, <2>1, <2>2, PCsFacts, Weights, Neutral DEF DropPath
<1>11. ASSUME NEW c \in Calls, DropCount(c) \/ ReleaseCount(c)
       PROVE  Balanced
  <2>1. /\ call'[c].pc = "idle" /\ call[c].pc \in {"dropCount", "releaseCount"}
        /\ \A d \in Calls \ {c} : call'[d] = call[d]
    BY <1>11, Returns DEF DropCount, ReleaseCount, pc, NoCall
  <2>2. Weight(call[c].pc) = 1 /\ Weight(call'[c].pc) = 0
    BY <2>1, PCsFacts, Weights
  <2>3. LiveKeys' = LiveKeys
    BY <1>11, LiveSame DEF DropCount, ReleaseCount
  <2>4. SlotsUsed' = SlotsUsed - 1
    BY <1>0, <2>1, <2>2, <2>3, Move
  <2>5. totalCount' = totalCount - 1
    BY <1>11 DEF DropCount, ReturnSlot, ReleaseCount
  <2> QED BY <1>0, <2>4, <2>5 DEF Balanced
<1>12. ASSUME NEW c \in Calls, NEW i \in Ids, SendBegin(c, i) \/ ShutdownLiveAgent(c, i)
       PROVE  Balanced
  <2>1. /\ call'[c].pc \in {"send", "remove"} /\ call[c].pc = "idle"
        /\ \A d \in Calls \ {c} : call'[d] = call[d]
    BY <1>12, TakesTarget, PCsFacts DEF SendBegin, ShutdownLiveAgent, pc
  <2>2. UNCHANGED <<tree, totalCount>>
    BY <1>12 DEF SendBegin, ShutdownLiveAgent
  <2> QED BY <2>1, <2>2, Weights, LiveSame, Neutral
<1>13. ASSUME NEW c \in Calls, SendOp(c) \/ RemoveThread(c) \/ CallDropped(c)
       PROVE  Balanced
  <2>1. /\ call'[c].pc \in {"remove", "release", "idle"}
        /\ call[c].pc \in {"send", "remove"}
        /\ \A d \in Calls \ {c} : call'[d] = call[d]
    BY <1>13, Goes, Returns, PCsFacts DEF SendOp, RemoveThread, CallDropped, pc, NoCall
  <2>2. UNCHANGED <<tree, totalCount>>
    BY <1>13 DEF SendOp, RemoveThread, CallDropped
  <2> QED BY <2>1, <2>2, Weights, LiveSame, Neutral
<1>14. ASSUME NEW c \in Calls, ReleaseEntry(c)
       PROVE  Balanced
  <2>1. call[c].pc = "release" /\ UNCHANGED totalCount
    BY <1>14 DEF ReleaseEntry, pc
  <2>2. CASE Return(c) /\ LiveKeys' = LiveKeys
    BY <2>1, <2>2, Returns, Weights, Neutral DEF NoCall
  <2>3. ASSUME NEW k \in Keys \ {Root}, tree[k] = call[c].tgt,
               tree' = [tree EXCEPT ![k] = Vacant], Goto(c, "releaseCount")
        PROVE  Balanced
    <3>1. k \in LiveKeys
      BY <2>3, CallFields DEF LiveKeys
    <3>2. LiveKeys' = LiveKeys \ {k}
      BY <2>3, RegistryAssumption DEF LiveKeys, TypeRest
    <3>3. Cardinality(LiveKeys)' = Cardinality(LiveKeys) - 1
      BY <3>1, <3>2, Finite, FS_RemoveElement
    <3>4. /\ call'[c].pc = "releaseCount"
          /\ \A d \in Calls \ {c} : call'[d] = call[d]
      BY <2>3, Goes, PCsFacts
    <3>5. Cardinality(Busy)'
            = Cardinality(Busy) - Weight(call[c].pc) + Weight(call'[c].pc)
      BY <3>4, BusyMove DEF pc
    <3>6. Cardinality(Busy)' = Cardinality(Busy) + 1
      BY <2>1, <3>4, <3>5, Weights, Cards
    <3>7. SlotsUsed' = SlotsUsed
      BY <3>3, <3>6, SlotsUsedBusy, Cards
    <3> QED BY <2>1, <3>7 DEF Balanced
  <2>4. ASSUME NEW k \in Keys, tree' = [tree EXCEPT ![k] = Vacant], k = Root
        PROVE  LiveKeys' = LiveKeys
    BY <2>4 DEF LiveKeys, TypeRest
  <2> QED BY <1>14, <2>2, <2>3, <2>4, LiveSame DEF ReleaseEntry, Counted
<1>15. ASSUME NEW i \in Ids, ThreadEnds(i) \/ Unload(i)
       PROVE  Balanced
  BY <1>15 DEF ThreadEnds, Unload, Balanced, SlotsUsed, LiveKeys, Reserving,
               Releasing, pc
<1>16. CASE UNCHANGED vars
  BY <1>16 DEF vars, Balanced, SlotsUsed, LiveKeys, Reserving, Releasing, pc
<1> QED BY <1>1, <1>2, <1>3, <1>4, <1>5, <1>6, <1>7, <1>8, <1>9, <1>10, <1>11,
           <1>12, <1>13, <1>14, <1>15, <1>16
        DEF Next, CallStep, Overwrite

(* Every step keeps the slots in use covered by the counter, and the counter *)
(* by the limit: an overwrite only leaves a slot unused, and the one step    *)
(* that takes a slot compares the counter with the limit first.              *)
LEMMA SlotsStep ==
    ASSUME Inv, [Next]_vars
    PROVE  SlotsCovered'
<1> USE DEF Inv
<1>0. /\ totalCount \in Nat /\ MaxThreads \in Nat /\ SlotsUsed \in Nat
      /\ SlotsUsed <= totalCount /\ totalCount <= MaxThreads /\ SlotsUsed' \in Nat
  BY RegistryAssumption, SlotsUsedBusy, Cards DEF SlotsCovered
<1>1. /\ totalCount' \in {totalCount, totalCount + 1, totalCount - 1}
      /\ totalCount' = totalCount + 1 => totalCount < MaxThreads
  <2>1. ASSUME NEW c \in Calls, TryIncrementSpawned(c)
        PROVE  \/ totalCount' = totalCount
               \/ totalCount' = totalCount + 1 /\ totalCount < MaxThreads
    BY <1>0, <2>1 DEF TryIncrementSpawned, AtLimit
  <2>2. ASSUME NEW c \in Calls, DropCount(c) \/ ReleaseCount(c)
        PROVE  totalCount' = totalCount - 1
    BY <2>2 DEF DropCount, ReturnSlot, ReleaseCount
  <2>3. \/ totalCount' = totalCount
        \/ totalCount' = totalCount + 1 /\ totalCount < MaxThreads
        \/ totalCount' = totalCount - 1
    BY <2>1, <2>2
       DEF Next, CallStep, SpawnBegin, ResumeBegin, RegisterRootThread,
           ReserveAgentPath, ReserveAgentNickname, CreateThread, ResumeCheck,
           ResumeFinalize, SpawnFails, Commit, DropPath, SendBegin, SendOp,
           ShutdownLiveAgent, RemoveThread, ReleaseEntry, CallDropped,
           ThreadEnds, Unload, vars
  <2> QED BY <1>0, <2>3
<1>2. CASE Balanced
  <2>1. totalCount' \in Int /\ totalCount' <= MaxThreads
    BY <1>0, <1>1
  <2>2. totalCount' - SlotsUsed' = totalCount - SlotsUsed
    BY <1>2 DEF Balanced
  <2>3. SlotsUsed' <= totalCount'
    <3>1. \A a, b, m, n \in Int : a - b = m - n /\ n <= m => b <= a
      OBVIOUS
    <3>2. SlotsUsed' \in Int /\ SlotsUsed \in Int /\ totalCount \in Int
      BY <1>0
    <3> QED BY ONLY <1>0, <2>1, <2>2, <3>1, <3>2
  <2> QED BY <1>0, <2>1, <2>3 DEF SlotsCovered
<1>3. ASSUME NEW c \in Calls, Commit(c), tree[Key(c)] \in Ids
      PROVE  SlotsCovered'
  <2>1. /\ call'[c].pc \in {"send", "idle"} /\ call[c].pc = "created"
        /\ \A d \in Calls \ {c} : call'[d] = call[d]
    BY <1>3, Goes, Returns, PCsFacts DEF Commit, pc, NoCall
  <2>2. LiveKeys' = LiveKeys
    BY <1>3, CallFields DEF Commit, LiveKeys, TypeRest
  <2>3. SlotsUsed' = SlotsUsed - Weight(call[c].pc) + Weight(call'[c].pc)
    BY <2>1, <2>2, Move
  <2>4. SlotsUsed' = SlotsUsed - 1
    BY <1>0, <2>1, <2>3, PCsFacts, Weights
  <2>5. UNCHANGED totalCount
    BY <1>3 DEF Commit
  <2> QED BY <1>0, <2>4, <2>5 DEF SlotsCovered
<1> QED BY <1>2, <1>3, BalanceStep DEF Overwrite

----------------------------------------------------------------------------

(* A call keeps its nickname from ReserveAgentNickname to Commit. *)
LEMMA NamedStep ==
    ASSUME Inv, [Next]_vars
    PROVE  Named'
<1> USE DEF Inv
<1> SUFFICES ASSUME NEW d \in Calls, call'[d].pc \in {"named", "building", "created"}
             PROVE  call'[d].nick \in Nicks
  BY DEF Named
<1>0. ASSUME call'[d] = call[d] PROVE call'[d].nick \in Nicks
  BY <1>0 DEF Named
<1>1. ASSUME NEW c \in Calls, \A e \in Calls \ {c} : call'[e] = call[e],
             call'[c].pc \notin {"named", "building", "created"}
      PROVE  call'[d].nick \in Nicks
  BY <1>0, <1>1
<1>2. ASSUME NEW c \in Calls, \A e \in Calls \ {c} : call'[e] = call[e],
             call'[c].nick = call[c].nick,
             call[c].pc \in {"named", "building", "created"}
      PROVE  call'[d].nick \in Nicks
  BY <1>0, <1>2 DEF Named
<1>3. totalCount \in Nat
  BY DEF SlotsCovered
<1>4. ASSUME NEW c \in Calls, SpawnBegin(c) \/ TryIncrementSpawned(c)
                              \/ (\E i \in Ids : ResumeBegin(c, i))
      PROVE  call'[d].nick \in Nicks
  <2>1. CASE SpawnBegin(c)
    <3>1. call' = [call EXCEPT ![c].pc = "cas", ![c].cur = totalCount]
      BY <2>1 DEF SpawnBegin
    <3>2. call'[c].pc = "cas" /\ \A e \in Calls \ {c} : call'[e] = call[e]
      BY <1>3, <3>1, Begins, PCsFacts
    <3> QED BY <1>1, <3>2
  <2>2. CASE TryIncrementSpawned(c)
    BY <1>1, <1>3, <2>2, Goes, Returns, Reloads, PCsFacts
       DEF TryIncrementSpawned, pc, NoCall
  <2>3. CASE \E i \in Ids : ResumeBegin(c, i)
    <3>1. PICK i \in Ids : ResumeBegin(c, i)
      BY <2>3
    <3>2. call' = [call EXCEPT ![c].pc = "cas", ![c].cur = totalCount,
                               ![c].kind = "resume", ![c].tgt = i]
      BY <3>1 DEF ResumeBegin
    <3>3. call'[c].pc = "cas" /\ \A e \in Calls \ {c} : call'[e] = call[e]
      <4>1. TypeRest /\ "cas" \in PCs /\ "resume" \in {"spawn", "resume"}
        BY PCsFacts
      <4> HIDE DEF Inv
      <4> QED BY ONLY <1>3, <3>2, <4>1, BeginsResume
    <3> QED BY <1>1, <3>3
  <2> QED BY <1>4, <2>1, <2>2, <2>3
<1>5. ASSUME NEW c \in Calls, NEW p \in Paths \cup {NoPath}, ReserveAgentPath(c, p)
      PROVE  call'[d].nick \in Nicks
  BY <1>1, <1>5, Goes, TakesPath, PCsFacts DEF ReserveAgentPath
<1>6. ASSUME NEW c \in Calls, ReserveAgentNickname(c)
      PROVE  call'[d].nick \in Nicks
  <2>1. PICK x \in Nicks : call' = [call EXCEPT ![c].pc = "named", ![c].nick = x]
    <3>1. CASE /\ nickOf[call[c].tgt] # NoNick
               /\ HandOut(c, nickOf[call[c].tgt], usedNicks, resetCount)
      BY <3>1, CallFields DEF TypeRest, HandOut
    <3>2. CASE \E pool \in Pools : \E n \in Available(pool) :
                 HandOut(c, <<n, resetCount>>, usedNicks, resetCount)
      <4>1. PICK pool \in Pools : \E n \in Available(pool) :
                   HandOut(c, <<n, resetCount>>, usedNicks, resetCount)
        BY <3>2
      <4>2. PICK n \in Available(pool) :
                   HandOut(c, <<n, resetCount>>, usedNicks, resetCount)
        BY <4>1
      <4>3. <<n, resetCount>> \in Nicks
        BY RegistryAssumption DEF Available, Nicks, TypeRest
      <4> QED BY <4>2, <4>3 DEF HandOut
    <3>3. CASE \E pool \in Pools : \E n \in pool :
                 HandOut(c, <<n, resetCount + 1>>, {}, resetCount + 1)
      <4>1. PICK pool \in Pools : \E n \in pool :
                   HandOut(c, <<n, resetCount + 1>>, {}, resetCount + 1)
        BY <3>3
      <4>2. PICK n \in pool : HandOut(c, <<n, resetCount + 1>>, {}, resetCount + 1)
        BY <4>1
      <4>3. resetCount + 1 \in Nat
        BY DEF TypeRest
      <4>4. <<n, resetCount + 1>> \in Nicks
        BY <4>3, RegistryAssumption DEF Nicks
      <4> QED BY <4>2, <4>4 DEF HandOut
    <3> QED BY <1>6, <3>1, <3>2, <3>3 DEF ReserveAgentNickname
  <2>2. call'[c].nick = x /\ \A e \in Calls \ {c} : call'[e] = call[e]
    <3>1. call \in [Calls -> Call]
      BY DEF TypeRest
    <3>2. \A e \in Calls \ {c} : call'[e] = call[e]
      BY <2>1, <3>1
    <3>3. call'[c].nick = x
      BY <2>1, <3>1 DEF Call
    <3> QED BY <3>2, <3>3
  <2> QED BY <1>0, <2>2
<1>7. ASSUME NEW c \in Calls, CreateThread(c)
      PROVE  call'[d].nick \in Nicks
  <2>1. PICK i \in Ids : call' = [call EXCEPT ![c].pc = "created", ![c].tgt = i]
    BY <1>7 DEF CreateThread
  <2>2. /\ call'[c].nick = call[c].nick /\ call[c].pc = "named"
        /\ \A e \in Calls \ {c} : call'[e] = call[e]
    <3>1. call[c].pc = "named"
      BY <1>7 DEF CreateThread, pc
    <3>2. call'[c].nick = call[c].nick /\ \A e \in Calls \ {c} : call'[e] = call[e]
      BY <2>1, TakesTarget, PCsFacts
    <3> QED BY <3>1, <3>2
  <2> QED BY <1>2, <2>2
<1>8. ASSUME NEW c \in Calls, ResumeCheck(c) \/ ResumeFinalize(c)
      PROVE  call'[d].nick \in Nicks
  BY <1>2, <1>8, Goes, PCsFacts DEF ResumeCheck, ResumeFinalize, pc
<1>9. ASSUME NEW c \in Calls,
             RegisterRootThread(c) \/ SpawnFails(c) \/ Commit(c) \/ DropPath(c)
             \/ DropCount(c) \/ SendOp(c) \/ RemoveThread(c) \/ ReleaseEntry(c)
             \/ ReleaseCount(c) \/ CallDropped(c)
      PROVE  call'[d].nick \in Nicks
  <2>1. Return(c) \/ \E l \in PCs \ {"named", "building", "created"} : Goto(c, l)
    BY <1>9, PCsFacts DEF RegisterRootThread, SpawnFails, Commit, DropPath, DropCount,
       SendOp, RemoveThread, ReleaseEntry, ReleaseCount, CallDropped
  <2> QED BY <1>1, <2>1, Goes, Returns DEF NoCall
<1>10. ASSUME NEW c \in Calls, NEW i \in Ids, SendBegin(c, i) \/ ShutdownLiveAgent(c, i)
       PROVE  call'[d].nick \in Nicks
  BY <1>1, <1>10, TakesTarget, PCsFacts DEF SendBegin, ShutdownLiveAgent
<1>11. CASE UNCHANGED call
  BY <1>0, <1>11
<1> QED BY <1>4, <1>5, <1>6, <1>7, <1>8, <1>9, <1>10, <1>11
        DEF Next, CallStep, ThreadEnds, Unload, vars

(* The program's initial states satisfy the invariant. *)
LEMMA InitInv == Init => Inv
<1> SUFFICES ASSUME Init PROVE Inv
  OBVIOUS
<1>1. call = [c \in Calls |-> NoCall] /\ NoCall.pc = "idle"
  BY DEF Init, NoCall
<1>2. TypeRest
  <2>1. nickOf \in [Ids -> Nicks \cup {NoNick}]
    BY DEF Init, Nicks
  <2>2. call \in [Calls -> Call]
    BY <1>1, NoCallType
  <2>3. tree \in [Keys -> Ids \cup {Vacant, Reserved}]
    BY RegistryAssumption DEF Init
  <2>4. /\ usedNicks \subseteq Nicks /\ resetCount \in Nat
        /\ thread \in [Ids -> {"unused", "absent", "running", "dead"}]
    BY DEF Init
  <2> QED BY <2>1, <2>2, <2>3, <2>4 DEF TypeRest
<1>3. Named
  BY <1>1 DEF Named
<1>4. SlotsCovered
  <2>1. LiveKeys = {}
    BY RegistryAssumption DEF Init, LiveKeys
  <2>2. Busy = {}
    BY <1>1, PCsFacts DEF Busy, pc
  <2>3. SlotsUsed = 0
    BY <2>1, <2>2, SlotsUsedBusy, FS_EmptySet
  <2> QED BY <2>3, RegistryAssumption DEF Init, SlotsCovered
<1> QED BY <1>2, <1>3, <1>4 DEF Inv

(* Every interleaving of AgentControl calls keeps the inductive invariant:   *)
(* total_count is at most max_threads and covers each registered agent, each  *)
(* live SpawnReservation and each release that has yet to return its slot.    *)
THEOREM InvHolds == Spec => []Inv
<1>1. Inv /\ [Next]_vars => Inv'
  BY TypeRestStep, NamedStep, SlotsStep DEF Inv, SlotsCovered
<1> QED BY <1>1, InitInv, PTL DEF Spec

(* The registry's state keeps its type under every interleaving of spawns,  *)
(* resumes and closes: in particular total_count, an AtomicUsize, never     *)
(* wraps below zero.                                                        *)
THEOREM TypeCorrect == Spec => []TypeOK
<1>1. Inv => TypeOK
  BY DEF Inv, TypeRest, SlotsCovered, TypeOK
<1> QED BY <1>1, InvHolds, PTL

(* reserve_spawn_slot: registered sub-agents and spawns in progress together *)
(* never exceed max_threads, for any number of concurrent calls.             *)
THEOREM LimitIsHeld == Spec => []LimitHeld
<1>1. Inv => LimitHeld
  BY Cards, RegistryAssumption DEF Inv, SlotsCovered, SlotsUsed, LimitHeld
<1> QED BY <1>1, InvHolds, PTL

(* reserve_spawn_slot, commit, Drop and release_spawned_thread: every step    *)
(* moves total_count by as much as the slots in use, failed and interrupted   *)
(* calls included; the one exception is a commit over the entry of a thread   *)
(* that is resumed a second time.                                             *)
THEOREM NoOtherLeak == Spec => LeaksOnlyByOverwrite
<1>1. Inv /\ [Next]_vars
      => [\/ totalCount' - SlotsUsed' = totalCount - SlotsUsed
          \/ \E c \in Calls : Commit(c) /\ tree[Key(c)] \in Ids]_vars
  BY BalanceStep DEF Balanced, Overwrite
<1> QED BY <1>1, InvHolds, PTL DEF Spec, LeaksOnlyByOverwrite

----------------------------------------------------------------------------
(* A path of agent_tree belongs to one reservation and then to one agent.   *)

(* Before reserve_agent_path a call has no path.                            *)
Early == {"idle", "cas", "slot", "rooted"}

NoPathYet == \A c \in Calls : call[c].pc \in Early => call[c].path = NoPath

PathInv == NoPathYet /\ PathOwned

----------------------------------------------------------------------------

(* Early program counters are no others.                                    *)
LEMMA EarlyFacts == Early \subseteq PCs /\ Early \cap Pathed = {}
  BY DEF Early, PCs, Holding, Pathed

(* A step of one call that keeps every placeholder and takes no path.       *)
LEMMA PathsKept ==
    ASSUME TypeRest, PathInv, NEW c \in Calls,
           \A d \in Calls \ {c} : call'[d] = call[d],
           \A p \in Paths : tree[p] = Reserved => tree'[p] = Reserved,
           call'[c].path = call[c].path \/ call'[c].path = NoPath,
           call'[c].pc \in Pathed => call[c].pc \in Pathed \cup Early,
           call'[c].pc \in Early => call[c].pc \in Early \/ call'[c].path = NoPath
    PROVE  PathInv'
<1>1. NoPathYet'
  BY DEF PathInv, NoPathYet
<1>2. ASSUME NEW d \in Calls, call'[d].pc \in Pathed, call'[d].path # NoPath
      PROVE  call[d].pc \in Pathed /\ call'[d].path = call[d].path
  BY <1>2 DEF PathInv, NoPathYet
<1>3. ASSUME NEW d \in Calls, call'[d].pc \in Pathed, call'[d].path # NoPath
      PROVE  /\ tree'[call'[d].path] = Reserved
             /\ \A e \in Calls \ {d} :
                  ~(call'[e].pc \in Pathed /\ call'[e].path = call'[d].path)
  <2>1. /\ call[d].pc \in Pathed /\ call'[d].path = call[d].path
        /\ call[d].path \in Paths
    BY <1>2, <1>3, CallFields
  <2>2. tree'[call'[d].path] = Reserved
    BY <1>3, <2>1 DEF PathInv, PathOwned, pc
  <2>3. ASSUME NEW e \in Calls \ {d}, call'[e].pc \in Pathed,
               call'[e].path = call'[d].path
        PROVE  FALSE
    <3>1. call[e].pc \in Pathed /\ call[e].path = call[d].path
      BY <1>2, <1>3, <2>1, <2>3
    <3> QED BY <1>3, <2>1, <2>3, <3>1 DEF PathInv, PathOwned, pc
  <2> QED BY <2>2, <2>3
<1>4. PathOwned'
  BY <1>3 DEF PathOwned, pc
<1> QED BY <1>1, <1>4 DEF PathInv

(* The same for a call that only moves on.                                  *)
LEMMA PathsKeptGoto ==
    ASSUME TypeRest, PathInv, NEW c \in Calls, NEW l \in PCs, Goto(c, l),
           \A p \in Paths : tree[p] = Reserved => tree'[p] = Reserved,
           l \in Pathed => call[c].pc \in Pathed \cup Early,
           l \in Early => call[c].pc \in Early
    PROVE  PathInv'
<1>1. /\ call'[c].pc = l /\ call'[c].path = call[c].path
      /\ \A d \in Calls \ {c} : call'[d] = call[d]
  BY Goes
<1> QED BY <1>1, PathsKept

(* The same for a call that returns. *)
LEMMA PathsKeptReturn ==
    ASSUME TypeRest, PathInv, NEW c \in Calls, Return(c),
           \A p \in Paths : tree[p] = Reserved => tree'[p] = Reserved
    PROVE  PathInv'
<1>1. /\ call'[c].pc = "idle" /\ call'[c].path = NoPath
      /\ \A d \in Calls \ {c} : call'[d] = call[d]
  BY Returns DEF NoCall
<1> QED BY <1>1, PathsKept, EarlyFacts DEF Early

(* A call gives up its path: nobody else had it.                            *)
LEMMA PathLeft ==
    ASSUME TypeRest, PathInv, NEW c \in Calls,
           \A d \in Calls \ {c} : call'[d] = call[d],
           call[c].pc \in Pathed, call[c].path # NoPath,
           \A q \in Paths \ {call[c].path} : tree'[q] = tree[q],
           call'[c].pc \notin Pathed,
           call'[c].pc \in Early => call'[c].path = NoPath
    PROVE  PathInv'
<1>1. NoPathYet'
  BY DEF PathInv, NoPathYet
<1>2. ASSUME NEW d \in Calls, call'[d].pc \in Pathed, call'[d].path # NoPath
      PROVE  /\ tree'[call'[d].path] = Reserved
             /\ \A e \in Calls \ {d} :
                  ~(call'[e].pc \in Pathed /\ call'[e].path = call'[d].path)
  <2>1. d # c /\ call'[d] = call[d]
    BY <1>2
  <2>2. call[d].path \in Paths /\ call[d].path # call[c].path
    BY <1>2, <2>1, CallFields DEF PathInv, PathOwned, pc
  <2>3. tree'[call'[d].path] = Reserved
    BY <1>2, <2>1, <2>2 DEF PathInv, PathOwned, pc
  <2>4. ASSUME NEW e \in Calls \ {d}, call'[e].pc \in Pathed,
               call'[e].path = call'[d].path
        PROVE  FALSE
    <3>1. e # c /\ call'[e] = call[e]
      BY <2>4
    <3> QED BY <1>2, <2>1, <2>4, <3>1 DEF PathInv, PathOwned, pc
  <2> QED BY <2>3, <2>4
<1>3. PathOwned'
  BY <1>2 DEF PathOwned, pc
<1> QED BY <1>1, <1>3 DEF PathInv

(* A call takes a vacant path: nobody else has it.                          *)
LEMMA PathTaken ==
    ASSUME TypeRest, PathInv, NEW c \in Calls, NEW p \in Paths,
           \A d \in Calls \ {c} : call'[d] = call[d],
           tree[p] # Reserved, tree' = [tree EXCEPT ![p] = Reserved],
           call'[c].pc = "pathed", call'[c].path = p
    PROVE  PathInv'
<1>0. p # NoPath /\ p \in Keys /\ "pathed" \notin Early
  BY RegistryAssumption DEF Keys, Early
<1>1. NoPathYet'
  BY <1>0 DEF PathInv, NoPathYet
<1>2. tree'[p] = Reserved /\ \A q \in Paths \ {p} : tree'[q] = tree[q]
  BY <1>0 DEF TypeRest, Keys
<1>3. ASSUME NEW d \in Calls \ {c}, call'[d].pc \in Pathed, call'[d].path # NoPath
      PROVE  /\ call'[d].path \in Paths \ {p}
             /\ tree'[call'[d].path] = Reserved
             /\ \A e \in Calls \ {c, d} :
                  ~(call'[e].pc \in Pathed /\ call'[e].path = call'[d].path)
  <2>1. call'[d] = call[d]
    OBVIOUS
  <2>2. call[d].path \in Paths /\ tree[call[d].path] = Reserved
    BY <1>3, <2>1, CallFields DEF PathInv, PathOwned, pc
  <2>3. \A e \in Calls \ {c, d} :
          ~(call'[e].pc \in Pathed /\ call'[e].path = call'[d].path)
    BY <1>3, <2>1 DEF PathInv, PathOwned, pc
  <2> QED BY <1>2, <2>1, <2>2, <2>3
<1>4. ASSUME NEW d \in Calls, call'[d].pc \in Pathed, call'[d].path # NoPath,
             NEW e \in Calls \ {d}, call'[e].pc \in Pathed,
             call'[e].path = call'[d].path
      PROVE  FALSE
  <2>1. CASE d = c
    BY <1>3, <1>4, <2>1
  <2>2. CASE d # c
    BY <1>3, <1>4, <2>2
  <2> QED BY <2>1, <2>2
<1>5. ASSUME NEW d \in Calls, call'[d].pc \in Pathed, call'[d].path # NoPath
      PROVE  tree'[call'[d].path] = Reserved
  BY <1>2, <1>3, <1>5
<1>6. PathOwned'
  BY <1>4, <1>5 DEF PathOwned, pc
<1> QED BY <1>1, <1>6 DEF PathInv

----------------------------------------------------------------------------

(* Every step keeps a path with its reservation.                            *)
LEMMA PathStep ==
    ASSUME TypeRest, Named, totalCount \in Nat, PathInv, [Next]_vars
    PROVE  PathInv'
<1>0. ASSUME UNCHANGED tree
      PROVE  \A p \in Paths : tree[p] = Reserved => tree'[p] = Reserved
  BY <1>0
<1>1. ASSUME NEW c \in Calls, SpawnBegin(c)
      PROVE  PathInv'
  <2>1. /\ call[c].pc = "idle" /\ UNCHANGED tree
        /\ call' = [call EXCEPT ![c].pc = "cas", ![c].cur = totalCount]
    BY <1>1 DEF SpawnBegin, pc
  <2>2. /\ call'[c].pc = "cas" /\ call'[c].path = call[c].path
        /\ \A d \in Calls \ {c} : call'[d] = call[d]
    BY <2>1, Begins, PCsFacts
  <2> QED BY <1>0, <2>1, <2>2, PathsKept, EarlyFacts DEF Early
<1>2. ASSUME NEW c \in Calls, NEW i \in Ids, ResumeBegin(c, i)
      PROVE  PathInv'
  <2>1. /\ call[c].pc = "idle" /\ UNCHANGED tree
        /\ call' = [call EXCEPT ![c].pc = "cas", ![c].cur = totalCount,
                                ![c].kind = "resume", ![c].tgt = i]
    BY <1>2 DEF ResumeBegin, pc
  <2>2. /\ call'[c].pc = "cas" /\ call'[c].path = call[c].path
        /\ \A d \in Calls \ {c} : call'[d] = call[d]
    <3>1. "cas" \in PCs /\ "resume" \in {"spawn", "resume"}
      BY PCsFacts
    <3> QED BY <2>1, <3>1, BeginsResume
  <2> QED BY <1>0, <2>1, <2>2, PathsKept, EarlyFacts DEF Early
<1>3. ASSUME NEW c \in Calls, TryIncrementSpawned(c)
      PROVE  PathInv'
  <2>1. call[c].pc = "cas" /\ UNCHANGED tree
    BY <1>3 DEF TryIncrementSpawned, pc
  <2>2. CASE Return(c)
    BY <1>0, <2>1, <2>2, PathsKeptReturn
  <2>3. CASE Goto(c, "slot")
    BY <1>0, <2>1, <2>3, PathsKeptGoto, EarlyFacts, PCsFacts DEF Early
  <2>4. CASE call' = [call EXCEPT ![c].cur = totalCount]
    <3>1. /\ call'[c].pc = call[c].pc /\ call'[c].path = call[c].path
          /\ \A d \in Calls \ {c} : call'[d] = call[d]
      BY <2>4, Reloads
    <3> QED BY <1>0, <2>1, <3>1, PathsKept, EarlyFacts DEF Early
  <2> QED BY <1>3, <2>2, <2>3, <2>4 DEF TryIncrementSpawned
<1>4. ASSUME NEW c \in Calls, RegisterRootThread(c)
      PROVE  PathInv'
  <2>1. call[c].pc = "slot" /\ Goto(c, "rooted")
    BY <1>4 DEF RegisterRootThread, pc
  <2>2. tree' = tree \/ tree' = [tree EXCEPT ![Root] = RootId]
    BY <1>4 DEF RegisterRootThread
  <2>3. \A p \in Paths : tree'[p] = tree[p]
    BY <2>2, RegistryAssumption DEF TypeRest, Keys
  <2> QED BY <2>1, <2>3, PathsKeptGoto, EarlyFacts, PCsFacts DEF Early
<1>5. ASSUME NEW c \in Calls, NEW p \in Paths \cup {NoPath}, ReserveAgentPath(c, p)
      PROVE  PathInv'
  <2>1. call[c].pc = "rooted" /\ "rooted" \in Early
    BY <1>5 DEF ReserveAgentPath, pc, Early
  <2>2. CASE UNCHANGED tree /\ (Goto(c, "pathed") \/ Goto(c, "drop"))
    BY <1>0, <2>1, <2>2, PathsKeptGoto, EarlyFacts, PCsFacts DEF Early
  <2>3. CASE /\ p # NoPath /\ PathFree(p)
             /\ tree' = [tree EXCEPT ![p] = Reserved]
             /\ call' = [call EXCEPT ![c].pc = "pathed", ![c].path = p]
    <3>1. /\ call'[c].pc = "pathed" /\ call'[c].path = p
          /\ \A d \in Calls \ {c} : call'[d] = call[d]
      BY <2>3 DEF TypeRest, Call
    <3>2. p \in Paths /\ tree[p] # Reserved
      BY <2>3, RegistryAssumption DEF PathFree
    <3> QED BY <2>3, <3>1, <3>2, PathTaken
  <2> QED BY <1>5, <2>2, <2>3 DEF ReserveAgentPath
<1>6. ASSUME NEW c \in Calls, ReserveAgentNickname(c)
      PROVE  PathInv'
  <2>1. call[c].pc = "pathed" /\ UNCHANGED tree
    BY <1>6 DEF ReserveAgentNickname, pc
  <2>2. PICK x : call' = [call EXCEPT ![c].pc = "named", ![c].nick = x]
    BY <1>6 DEF ReserveAgentNickname, HandOut
  <2>3. /\ call'[c].pc = "named" /\ call'[c].path = call[c].path
        /\ \A d \in Calls \ {c} : call'[d] = call[d]
    BY <2>2 DEF TypeRest, Call
  <2> QED BY <1>0, <2>1, <2>3, PathsKept, EarlyFacts, PCsFacts DEF Early
<1>7. ASSUME NEW c \in Calls, CreateThread(c)
      PROVE  PathInv'
  <2>1. PICK i \in Ids : call' = [call EXCEPT ![c].pc = "created", ![c].tgt = i]
    BY <1>7 DEF CreateThread
  <2>2. call[c].pc = "named" /\ UNCHANGED tree
    BY <1>7 DEF CreateThread, pc
  <2>3. /\ call'[c].pc = "created" /\ call'[c].path = call[c].path
        /\ \A d \in Calls \ {c} : call'[d] = call[d]
    BY <2>1, TakesTarget, PCsFacts
  <2> QED BY <1>0, <2>2, <2>3, PathsKept, EarlyFacts, PCsFacts DEF Early
<1>8. ASSUME NEW c \in Calls, ResumeCheck(c) \/ ResumeFinalize(c)
      PROVE  PathInv'
  <2>1. call[c].pc \in Pathed /\ UNCHANGED tree
    BY <1>8, PCsFacts DEF ResumeCheck, ResumeFinalize, pc
  <2>2. PICK l \in Pathed : Goto(c, l)
    BY <1>8, PCsFacts DEF ResumeCheck, ResumeFinalize
  <2> QED BY <1>0, <2>1, <2>2, PathsKeptGoto, EarlyFacts, PCsFacts
<1>9. ASSUME NEW c \in Calls, SpawnFails(c)
      PROVE  PathInv'
  <2>1. call[c].pc \in Pathed \cup Early /\ UNCHANGED tree /\ Goto(c, "drop")
    BY <1>9, PCsFacts DEF SpawnFails, pc, Early
  <2> QED BY <1>0, <2>1, PathsKeptGoto, EarlyFacts, PCsFacts
<1>10. ASSUME NEW c \in Calls, Commit(c)
       PROVE  PathInv'
  <2>1. /\ call[c].pc = "created" /\ "created" \in Pathed
        /\ tree' = [tree EXCEPT ![Key(c)] = call[c].tgt]
        /\ Goto(c, "send") \/ Return(c)
    BY <1>10, PCsFacts DEF Commit, pc
  <2>2. CASE call[c].path = NoPath
    <3>1. Key(c) \in Ids /\ Key(c) \notin Paths
      BY <2>2, CallFields, RegistryAssumption DEF Key
    <3>2. \A p \in Paths : tree'[p] = tree[p]
      BY <2>1, <3>1 DEF TypeRest, Keys
    <3>3. "send" \in PCs /\ "send" \notin Pathed /\ "send" \notin Early
      BY PCsFacts DEF Early
    <3> QED BY <2>1, <3>2, <3>3, PathsKeptGoto, PathsKeptReturn
  <2>3. CASE call[c].path # NoPath
    <3>1. Key(c) = call[c].path
      BY <2>3 DEF Key
    <3>2. \A q \in Paths \ {call[c].path} : tree'[q] = tree[q]
      BY <2>1, <3>1 DEF TypeRest, Keys
    <3>3. /\ \A d \in Calls \ {c} : call'[d] = call[d]
          /\ call'[c].pc \notin Pathed
          /\ call'[c].pc \in Early => call'[c].path = NoPath
      BY <2>1, Goes, Returns, PCsFacts, EarlyFacts DEF NoCall, Early
    <3> QED BY <2>1, <2>3, <3>2, <3>3, PathLeft
  <2> QED BY <2>2, <2>3
<1>11. ASSUME NEW c \in Calls, DropPath(c)
       PROVE  PathInv'
  <2>1. /\ call[c].pc = "drop" /\ "drop" \in Pathed /\ Goto(c, "dropCount")
        /\ "dropCount" \in PCs /\ "dropCount" \notin Pathed /\ "dropCount" \notin Early
    BY <1>11, PCsFacts DEF DropPath, pc, Early
  <2>2. CASE UNCHANGED tree
    BY <1>0, <2>1, <2>2, PathsKeptGoto
  <2>3. CASE call[c].path # NoPath /\ tree' = [tree EXCEPT ![call[c].path] = Vacant]
    <3>1. \A q \in Paths \ {call[c].path} : tree'[q] = tree[q]
      BY <2>3 DEF TypeRest, Keys
    <3>2. call'[c].pc = "dropCount" /\ \A d \in Calls \ {c} : call'[d] = call[d]
      BY <2>1, Goes
    <3> QED BY <2>1, <2>3, <3>1, <3>2, PathLeft
  <2> QED BY <1>11, <2>2, <2>3 DEF DropPath
<1>12. ASSUME NEW c \in Calls, DropCount(c) \/ SendOp(c) \/ RemoveThread(c)
                               \/ ReleaseCount(c) \/ CallDropped(c)
       PROVE  PathInv'
  <2>1. UNCHANGED tree /\ (Return(c) \/ \E l \in {"remove", "release"} : Goto(c, l))
    BY <1>12 DEF DropCount, SendOp, RemoveThread, ReleaseCount, CallDropped
  <2>2. ASSUME NEW l \in {"remove", "release"}
        PROVE  l \in PCs /\ l \notin Pathed /\ l \notin Early
    BY <2>2, PCsFacts DEF Early
  <2> QED BY <1>0, <2>1, <2>2, PathsKeptGoto, PathsKeptReturn
<1>13. ASSUME NEW c \in Calls, ReleaseEntry(c)
       PROVE  PathInv'
  <2>1. Return(c) \/ Goto(c, "releaseCount")
    BY <1>13 DEF ReleaseEntry
  <2>2. \A p \in Paths : tree[p] = Reserved => tree'[p] = Reserved
    <3>1. CASE UNCHANGED tree
      BY <1>0, <3>1
    <3>2. ASSUME NEW k \in Keys, tree[k] = call[c].tgt,
                 tree' = [tree EXCEPT ![k] = Vacant]
          PROVE  \A p \in Paths : tree[p] = Reserved => tree'[p] = Reserved
      BY <3>2, CallFields, RegistryAssumption DEF TypeRest, Keys
    <3> QED BY <1>13, <3>1, <3>2 DEF ReleaseEntry
  <2>3. /\ "releaseCount" \in PCs /\ "releaseCount" \notin Pathed
        /\ "releaseCount" \notin Early
    BY PCsFacts DEF Early
  <2> QED BY <2>1, <2>2, <2>3, PathsKeptGoto, PathsKeptReturn
<1>14. ASSUME NEW c \in Calls, NEW i \in Ids, SendBegin(c, i) \/ ShutdownLiveAgent(c, i)
       PROVE  PathInv'
  <2>1. PICK l \in {"send", "remove"} :
          UNCHANGED tree /\ call' = [call EXCEPT ![c].pc = l, ![c].tgt = i]
    BY <1>14 DEF SendBegin, ShutdownLiveAgent
  <2>2. l \in PCs /\ l \notin Pathed /\ l \notin Early
    BY PCsFacts DEF Early
  <2>3. /\ call'[c].pc = l /\ call'[c].path = call[c].path
        /\ \A d \in Calls \ {c} : call'[d] = call[d]
    BY <2>1, <2>2, TakesTarget
  <2> QED BY <1>0, <2>1, <2>2, <2>3, PathsKept
<1>15. CASE UNCHANGED <<tree, call>>
  BY <1>15 DEF PathInv, NoPathYet, PathOwned, pc
<1> QED BY <1>1, <1>2, <1>3, <1>4, <1>5, <1>6, <1>7, <1>8, <1>9, <1>10, <1>11,
           <1>12, <1>13, <1>14, <1>15
        DEF Next, CallStep, ThreadEnds, Unload, vars

(* The initial states have every path free.                                 *)
LEMMA InitPaths == Init => PathInv
<1> SUFFICES ASSUME Init PROVE PathInv
  OBVIOUS
<1>1. \A c \in Calls : call[c].pc = "idle" /\ call[c].path = NoPath
  BY DEF Init, NoCall
<1> QED BY <1>1 DEF PathInv, NoPathYet, PathOwned, pc

(* The two invariants together.                                             *)
LEMMA PathInvHolds == Spec => [](Inv /\ PathInv)
<1>1. Inv /\ PathInv /\ [Next]_vars => PathInv'
  BY PathStep DEF Inv, SlotsCovered
<1> QED BY <1>1, InvHolds, InitPaths, PTL DEF Spec

(* reserve_agent_path: the placeholder of a live SpawnReservation stays     *)
(* under its path, and no second call gets that path, however spawns,       *)
(* failures, closes and resumes of any number of calls interleave.          *)
THEOREM PathIsOwned == Spec => []PathOwned
<1>1. PathInv => PathOwned
  BY DEF PathInv
<1> QED BY <1>1, PathInvHolds, PTL

(* commit and release_spawned_thread: an agent found under a path keeps it  *)
(* until it is released; no commit and no drop replaces it.                 *)
THEOREM PathIsNotStolen == Spec => PathNotStolen
<1>1. ASSUME Inv, PathInv, [Next]_vars, NEW p \in Paths, tree[p] \in Ids,
             tree'[p] # tree[p]
      PROVE  tree'[p] = Vacant
  <2>0. p # Root /\ p \in Keys /\ tree[p] # Reserved /\ tree[p] # Vacant
    BY <1>1, RegistryAssumption DEF Keys
  <2>1. \A c \in Calls : ~RegisterRootThread(c)
    BY <1>1, <2>0 DEF RegisterRootThread, Inv, TypeRest
  <2>2. ASSUME NEW c \in Calls, NEW q \in Paths \cup {NoPath}, ReserveAgentPath(c, q)
        PROVE  FALSE
    BY <1>1, <2>0, <2>2, RegistryAssumption
       DEF ReserveAgentPath, PathFree, Inv, TypeRest, Keys
  <2>3. ASSUME NEW c \in Calls, Commit(c)
        PROVE  FALSE
    <3>1. /\ tree' = [tree EXCEPT ![Key(c)] = call[c].tgt]
          /\ call[c].pc \in Pathed
      BY <2>3, PCsFacts DEF Commit, pc
    <3>2. Key(c) = p
      BY <1>1, <2>0, <3>1 DEF Inv, TypeRest
    <3>3. call[c].path # NoPath /\ call[c].path = p
      BY <3>2, <1>1, CallFields, RegistryAssumption DEF Key, Inv
    <3> QED BY <1>1, <2>0, <3>1, <3>3 DEF PathInv, PathOwned, pc
  <2>4. ASSUME NEW c \in Calls, DropPath(c)
        PROVE  tree'[p] = Vacant
    BY <1>1, <2>0, <2>4 DEF DropPath, Inv, TypeRest
  <2>5. ASSUME NEW c \in Calls, ReleaseEntry(c)
        PROVE  tree'[p] = Vacant
    BY <1>1, <2>0, <2>5 DEF ReleaseEntry, Inv, TypeRest
  <2>6. ~UNCHANGED tree
    BY <1>1
  <2> QED BY <1>1, <2>1, <2>2, <2>3, <2>4, <2>5, <2>6
          DEF Next, CallStep, SpawnBegin, ResumeBegin, TryIncrementSpawned,
              ReserveAgentNickname, CreateThread, ResumeCheck, ResumeFinalize,
              SpawnFails, DropCount, SendBegin, SendOp, ShutdownLiveAgent,
              RemoveThread, ReleaseCount, CallDropped, ThreadEnds, Unload, vars
<1>2. Inv /\ PathInv /\ [Next]_vars
      => [\A p \in Paths : tree[p] \in Ids /\ tree'[p] # tree[p]
                             => tree'[p] = Vacant]_vars
  BY <1>1
<1> QED BY <1>2, PathInvHolds, PTL DEF Spec, PathNotStolen

----------------------------------------------------------------------------
(* Nicknames.  Threads found in the state database at the start bring a      *)
(* nickname this process never handed out, and are left out.                 *)

(* A nickname is spent: it will not be handed out again.                     *)
Spent(x) == x[2] < resetCount \/ (x[2] = resetCount /\ x \in usedNicks)

(* The call will give its nickname to a thread of this process.              *)
Giving(c) == /\ call[c].pc \in {"named", "building"}
             /\ call[c].kind = "resume" => call[c].tgt \notin Stored

(* Two calls, or a call and a thread, share a nickname only where the call   *)
(* resumes the thread whose nickname it is.                                  *)
GivenOnce ==
    /\ \A c \in Calls, i \in Ids \ Stored :
         Giving(c) /\ call[c].nick = nickOf[i]
           => call[c].kind = "resume" /\ call[c].tgt = i
    /\ \A c, d \in Calls :
         c # d /\ Giving(c) /\ Giving(d) /\ call[c].nick = call[d].nick
           => /\ call[c].kind = "resume" /\ call[d].kind = "resume"
              /\ call[c].tgt = call[d].tgt

NickInv ==
    /\ \A c \in Calls : call[c].pc = "building" => call[c].kind = "resume"
    /\ \A i \in Ids \ Stored : nickOf[i] # NoNick => Spent(nickOf[i])
    /\ \A c \in Calls : Giving(c) => Spent(call[c].nick)
    /\ GivenOnce
    /\ NicknamesDistinct

(* Calls that give a nickname still hold the one they had.                   *)
Passed(c) ==
    /\ Giving(c) /\ call'[c].nick = call[c].nick
    /\ call'[c].kind = call[c].kind /\ call'[c].tgt = call[c].tgt

(* Spent nicknames stay spent as long as the pool only grows.                *)
LEMMA StillSpent ==
    ASSUME resetCount' = resetCount, usedNicks \subseteq usedNicks', NEW x, Spent(x)
    PROVE  Spent(x)'
  BY DEF Spent

(* A step that hands out no nickname and records none.                       *)
LEMMA NicksKept ==
    ASSUME NickInv, resetCount' = resetCount, usedNicks \subseteq usedNicks',
           nickOf' = nickOf,
           \A c \in Calls : Giving(c)' => Passed(c),
           \A c \in Calls : call'[c].pc = "building" => call'[c].kind = "resume"
    PROVE  NickInv'
<1>1. \A i \in Ids \ Stored : nickOf'[i] # NoNick => Spent(nickOf[i])'
  BY StillSpent DEF NickInv
<1>2. \A c \in Calls : Giving(c)' => Spent(call[c].nick)'
  BY StillSpent DEF NickInv, Passed
<1>3. GivenOnce'
  BY DEF NickInv, GivenOnce, Passed
<1>4. NicknamesDistinct'
  BY DEF NickInv, NicknamesDistinct
<1> QED BY <1>1, <1>2, <1>3, <1>4 DEF NickInv

(* The same for a step of one call that leaves the calls that give a          *)
(* nickname, or keeps its own.                                                *)
LEMMA NicksKeptMove ==
    ASSUME NickInv, resetCount' = resetCount, usedNicks \subseteq usedNicks',
           nickOf' = nickOf, NEW c \in Calls,
           \A d \in Calls \ {c} : call'[d] = call[d],
           \/ call'[c].pc \notin {"named", "building"}
           \/ /\ call[c].pc \in {"named", "building"} /\ call[c].kind = "resume"
              /\ call'[c].nick = call[c].nick
              /\ call'[c].kind = call[c].kind /\ call'[c].tgt = call[c].tgt
    PROVE  NickInv'
<1>1. \A d \in Calls : Giving(d)' => Passed(d)
  BY DEF Giving, Passed
<1>2. \A d \in Calls : call'[d].pc = "building" => call'[d].kind = "resume"
  BY DEF NickInv
<1> QED BY <1>1, <1>2, NicksKept

(* A call that moves on hands out nothing, unless it resumes a thread.        *)
LEMMA NicksKeptGoto ==
    ASSUME TypeRest, NickInv, resetCount' = resetCount,
           usedNicks \subseteq usedNicks', nickOf' = nickOf, NEW c \in Calls,
           \/ Return(c)
           \/ \E l \in PCs : /\ Goto(c, l)
                             /\ \/ l \notin {"named", "building"}
                                \/ /\ call[c].pc \in {"named", "building"}
                                   /\ call[c].kind = "resume"
    PROVE  NickInv'
<1>1. CASE Return(c)
  BY <1>1, Returns, NicksKeptMove DEF NoCall
<1>2. ASSUME NEW l \in PCs, Goto(c, l),
             \/ l \notin {"named", "building"}
             \/ call[c].pc \in {"named", "building"} /\ call[c].kind = "resume"
      PROVE  NickInv'
  BY <1>2, Goes, NicksKeptMove
<1> QED BY <1>1, <1>2

(* reserve_agent_nickname gives out a nickname that was not spent.            *)
LEMMA NickFresh ==
    ASSUME TypeRest, NickInv, NEW c \in Calls, call[c].pc = "pathed",
           NEW x \in Nicks, ~Spent(x), Spent(x)', nickOf' = nickOf,
           \A y \in Nicks : Spent(y) => Spent(y)',
           call'[c].pc = "named", call'[c].nick = x,
           \A d \in Calls \ {c} : call'[d] = call[d],
           \A d \in Calls : Giving(d) => call[d].nick \in Nicks
    PROVE  NickInv'
<1>1. \A i \in Ids \ Stored : nickOf[i] # NoNick => Spent(nickOf[i]) /\ nickOf[i] \in Nicks
  BY DEF NickInv, TypeRest
<1>2. \A d \in Calls \ {c} : Giving(d)' => /\ Giving(d) /\ Spent(call[d].nick)
                                           /\ call[d].nick \in Nicks
  BY DEF NickInv, Giving
<1>3. x # NoNick
  BY RegistryAssumption
<1>4. \A i \in Ids \ Stored : nickOf'[i] # NoNick => Spent(nickOf[i])'
  BY <1>1
<1>5. \A d \in Calls : Giving(d)' => Spent(call[d].nick)'
  BY <1>2
<1>6. GivenOnce'
  <2>1. \A i \in Ids \ Stored : nickOf[i] # x
    BY <1>1, <1>3
  <2>2. \A d \in Calls \ {c} : Giving(d)' => call[d].nick # x
    BY <1>2
  <2>3. \A d \in Calls, i \in Ids \ Stored :
          Giving(d)' /\ call'[d].nick = nickOf'[i]
            => call'[d].kind = "resume" /\ call'[d].tgt = i
    BY <1>2, <2>1 DEF NickInv, GivenOnce
  <2>4. \A d, e \in Calls :
          d # e /\ Giving(d)' /\ Giving(e)' /\ call'[d].nick = call'[e].nick
            => /\ call'[d].kind = "resume" /\ call'[e].kind = "resume"
               /\ call'[d].tgt = call'[e].tgt
    BY <1>2, <2>2 DEF NickInv, GivenOnce
  <2> QED BY <2>3, <2>4 DEF GivenOnce
<1>7. NicknamesDistinct'
  BY DEF NickInv, NicknamesDistinct
<1>8. \A d \in Calls : call'[d].pc = "building" => call'[d].kind = "resume"
  BY DEF NickInv
<1> QED BY <1>4, <1>5, <1>6, <1>7, <1>8 DEF NickInv

(* A call gives its nickname to a thread: no other thread has it.             *)
LEMMA NickRecorded ==
    ASSUME TypeRest, NickInv, Named, NEW c \in Calls, NEW i \in Ids,
           UNCHANGED <<usedNicks, resetCount>>,
           nickOf' = [nickOf EXCEPT ![i] = call[c].nick],
           call[c].pc \in {"named", "building"},
           call[c].kind = "resume" => call[c].tgt = i,
           call'[c].pc = "created",
           \A d \in Calls \ {c} : call'[d] = call[d]
    PROVE  NickInv'
<1>1. i \notin Stored => Giving(c)
  BY DEF Giving
<1>2. /\ nickOf'[i] = call[c].nick
      /\ \A j \in Ids \ {i} : nickOf'[j] = nickOf[j]
  BY DEF TypeRest
<1>3. ~Giving(c)' /\ \A d \in Calls \ {c} : Giving(d)' => Giving(d)
  BY DEF Giving
<1>4. \A j \in Ids \ Stored : nickOf'[j] # NoNick => Spent(nickOf[j])'
  BY <1>1, <1>2 DEF NickInv, Spent
<1>5. \A d \in Calls : Giving(d)' => Spent(call[d].nick)'
  BY <1>3 DEF NickInv, Spent
<1>6. GivenOnce'
  <2>1. \A d \in Calls \ {c}, j \in Ids \ Stored :
          Giving(d) /\ call[d].nick = nickOf'[j]
            => call[d].kind = "resume" /\ call[d].tgt = j
    BY <1>1, <1>2 DEF NickInv, GivenOnce
  <2>2. \A d, e \in Calls \ {c} :
          d # e /\ Giving(d) /\ Giving(e) /\ call[d].nick = call[e].nick
            => /\ call[d].kind = "resume" /\ call[e].kind = "resume"
               /\ call[d].tgt = call[e].tgt
    BY DEF NickInv, GivenOnce
  <2> QED BY <1>3, <2>1, <2>2 DEF GivenOnce
<1>7. NicknamesDistinct'
  <2>1. \A j \in Ids \ Stored : j # i /\ i \notin Stored => nickOf[j] # call[c].nick
    BY <1>1 DEF NickInv, GivenOnce
  <2> QED BY <1>2, <2>1 DEF NickInv, NicknamesDistinct
<1>8. \A d \in Calls : call'[d].pc = "building" => call'[d].kind = "resume"
  BY DEF NickInv
<1> QED BY <1>4, <1>5, <1>6, <1>7, <1>8 DEF NickInv

(* Every step keeps nicknames apart.                                          *)
LEMMA NickStep ==
    ASSUME Inv, NickInv, [Next]_vars
    PROVE  NickInv'
<1>0. TypeRest /\ Named /\ totalCount \in Nat
  BY DEF Inv, SlotsCovered
<1>1. ASSUME NEW c \in Calls, SpawnBegin(c)
      PROVE  NickInv'
  <2>1. call'[c].pc = "cas" /\ \A d \in Calls \ {c} : call'[d] = call[d]
    BY <1>0, <1>1, Begins, PCsFacts DEF SpawnBegin
  <2> QED BY <1>1, <2>1, NicksKeptMove DEF SpawnBegin
<1>2. ASSUME NEW c \in Calls, NEW i \in Ids, ResumeBegin(c, i)
      PROVE  NickInv'
  <2>1. call'[c].pc = "cas" /\ \A d \in Calls \ {c} : call'[d] = call[d]
    BY <1>0, <1>2, BeginsResume, PCsFacts DEF ResumeBegin
  <2> QED BY <1>2, <2>1, NicksKeptMove DEF ResumeBegin
<1>3. ASSUME NEW c \in Calls, TryIncrementSpawned(c)
      PROVE  NickInv'
  <2>1. UNCHANGED <<usedNicks, resetCount, nickOf>> /\ call[c].pc = "cas"
    BY <1>3 DEF TryIncrementSpawned, pc
  <2>2. CASE Return(c) \/ Goto(c, "slot")
    BY <1>0, <2>1, <2>2, PCsFacts, NicksKeptGoto
  <2>3. CASE call' = [call EXCEPT ![c].cur = totalCount]
    <3>1. call'[c].pc = "cas" /\ \A d \in Calls \ {c} : call'[d] = call[d]
      BY <1>0, <2>1, <2>3, Reloads
    <3> QED BY <2>1, <3>1, NicksKeptMove
  <2> QED BY <1>3, <2>2, <2>3 DEF TryIncrementSpawned
<1>4. ASSUME NEW c \in Calls, NEW p \in Paths \cup {NoPath}, ReserveAgentPath(c, p)
      PROVE  NickInv'
  <2>1. UNCHANGED <<usedNicks, resetCount, nickOf>>
    BY <1>4 DEF ReserveAgentPath
  <2>2. /\ call'[c].pc \in {"pathed", "drop"}
        /\ \A d \in Calls \ {c} : call'[d] = call[d]
    BY <1>0, <1>4, Goes, TakesPath, PCsFacts DEF ReserveAgentPath
  <2> QED BY <2>1, <2>2, NicksKeptMove
<1>5. ASSUME NEW c \in Calls, ReserveAgentNickname(c)
      PROVE  NickInv'
  <2>1. call[c].pc = "pathed" /\ UNCHANGED nickOf
    BY <1>5 DEF ReserveAgentNickname, pc
  <2>2. \A d \in Calls : Giving(d) => call[d].nick \in Nicks
    BY <1>0 DEF Named, Giving
  <2>3. ASSUME NEW x \in Nicks, NEW u, NEW r, HandOut(c, x, u, r)
        PROVE  /\ call'[c].pc = "named" /\ call'[c].nick = x
               /\ call'[c].kind = call[c].kind /\ call'[c].tgt = call[c].tgt
               /\ \A d \in Calls \ {c} : call'[d] = call[d]
               /\ usedNicks' = u \cup {x} /\ resetCount' = r
    <3>1. /\ call' = [call EXCEPT ![c].pc = "named", ![c].nick = x]
          /\ usedNicks' = u \cup {x} /\ resetCount' = r
      BY <2>3 DEF HandOut
    <3>2. call \in [Calls -> Call]
      BY <1>0 DEF TypeRest
    <3>3. /\ call'[c].pc = "named" /\ call'[c].nick = x
          /\ call'[c].kind = call[c].kind /\ call'[c].tgt = call[c].tgt
      BY <3>1, <3>2 DEF Call
    <3>4. \A d \in Calls \ {c} : call'[d] = call[d]
      BY <3>1, <3>2
    <3> QED BY <3>1, <3>3, <3>4
  <2>4. CASE /\ call[c].kind = "resume" /\ nickOf[call[c].tgt] # NoNick
             /\ HandOut(c, nickOf[call[c].tgt], usedNicks, resetCount)
    <3> DEFINE i == call[c].tgt
               x == nickOf[i]
    <3>1. i \in Ids /\ x \in Nicks
      BY <1>0, <2>4, CallFields DEF TypeRest
    <3>2. /\ call'[c].pc = "named" /\ call'[c].nick = x
          /\ call'[c].kind = "resume" /\ call'[c].tgt = i
          /\ \A d \in Calls \ {c} : call'[d] = call[d]
          /\ usedNicks' = usedNicks \cup {x} /\ resetCount' = resetCount
      BY <2>3, <2>4, <3>1
    <3> HIDE DEF i, x
    <3>3. nickOf[i] = x /\ x # NoNick
      BY <2>4 DEF i, x
    <3>4. Giving(c)' => i \notin Stored /\ Spent(x)
      BY <3>1, <3>2, <3>3 DEF Giving, NickInv
    <3>5. \A d \in Calls \ {c} : Giving(d)' => Giving(d)
      BY <3>2 DEF Giving
    <3>6. \A j \in Ids \ Stored : nickOf'[j] # NoNick => Spent(nickOf[j])'
      BY <2>1, <3>2 DEF NickInv, Spent
    <3>7. \A d \in Calls : Giving(d)' => Spent(call[d].nick)'
      BY <3>2, <3>4, <3>5 DEF NickInv, Spent
    <3>8. \A d \in Calls, j \in Ids \ Stored :
            Giving(d)' /\ call'[d].nick = nickOf'[j]
              => call'[d].kind = "resume" /\ call'[d].tgt = j
      <4>1. \A j \in Ids \ Stored : i \notin Stored /\ nickOf[j] = x => j = i
        BY <3>1, <3>3 DEF NickInv, NicknamesDistinct
      <4> QED BY <2>1, <3>2, <3>4, <3>5, <4>1 DEF NickInv, GivenOnce
    <3>9. \A d \in Calls \ {c} :
            Giving(c)' /\ Giving(d)' /\ call'[d].nick = x
              => call'[d].kind = "resume" /\ call'[d].tgt = i
      BY <3>1, <3>2, <3>3, <3>4, <3>5 DEF NickInv, GivenOnce
    <3>10. \A d, e \in Calls :
            d # e /\ Giving(d)' /\ Giving(e)' /\ call'[d].nick = call'[e].nick
              => /\ call'[d].kind = "resume" /\ call'[e].kind = "resume"
                 /\ call'[d].tgt = call'[e].tgt
      BY <3>2, <3>5, <3>9 DEF NickInv, GivenOnce
    <3>11. GivenOnce'
      BY <3>8, <3>10 DEF GivenOnce
    <3>12. NicknamesDistinct'
      BY <2>1 DEF NickInv, NicknamesDistinct
    <3>13. \A d \in Calls : call'[d].pc = "building" => call'[d].kind = "resume"
      BY <3>2 DEF NickInv
    <3> QED BY <3>6, <3>7, <3>11, <3>12, <3>13 DEF NickInv
  <2>5. ASSUME NEW pool \in Pools, NEW n \in Available(pool),
               HandOut(c, <<n, resetCount>>, usedNicks, resetCount)
        PROVE  NickInv'
    <3>0. n \in Names /\ resetCount \in Nat /\ <<n, resetCount>> \notin usedNicks
      BY <1>0, RegistryAssumption DEF Available, TypeRest
    <3>1. PICK x \in Nicks : x = <<n, resetCount>>
      BY <3>0 DEF Nicks
    <3>2. x[2] = resetCount /\ x \notin usedNicks
      BY <3>0, <3>1
    <3>3. HandOut(c, x, usedNicks, resetCount)
      BY <2>5, <3>1
    <3>4. /\ call'[c].pc = "named" /\ call'[c].nick = x
          /\ \A d \in Calls \ {c} : call'[d] = call[d]
          /\ usedNicks' = usedNicks \cup {x} /\ resetCount' = resetCount
      BY <2>3, <3>2, <3>3
    <3>5. /\ ~Spent(x) /\ Spent(x)'
          /\ \A y \in Nicks : Spent(y) => Spent(y)'
      BY <3>0, <3>2, <3>4 DEF Spent
    <3> QED BY <1>0, <2>1, <2>2, <3>2, <3>4, <3>5, NickFresh
  <2>6. ASSUME NEW pool \in Pools, NEW n \in pool,
               HandOut(c, <<n, resetCount + 1>>, {}, resetCount + 1)
        PROVE  NickInv'
    <3>0. n \in Names /\ resetCount \in Nat
      BY <1>0, RegistryAssumption DEF TypeRest
    <3>1. PICK x \in Nicks : x = <<n, resetCount + 1>>
      <4>1. <<n, resetCount + 1>> \in Nicks
        BY <3>0 DEF Nicks
      <4> QED BY <4>1
    <3>2. x[2] = resetCount + 1
      BY <3>0, <3>1
    <3>3. HandOut(c, x, {}, resetCount + 1)
      BY <2>6, <3>1
    <3>4. /\ call'[c].pc = "named" /\ call'[c].nick = x
          /\ \A d \in Calls \ {c} : call'[d] = call[d]
          /\ usedNicks' = {} \cup {x} /\ resetCount' = resetCount + 1
      BY <2>3, <3>2, <3>3
    <3>5. \A y \in Nicks : y[2] \in Nat
      BY DEF Nicks
    <3>6. /\ ~Spent(x) /\ Spent(x)'
          /\ \A y \in Nicks : Spent(y) => Spent(y)'
      BY <3>0, <3>2, <3>4, <3>5 DEF Spent
    <3> QED BY <1>0, <2>1, <2>2, <3>2, <3>4, <3>6, NickFresh
  <2> QED BY <1>5, <2>4, <2>5, <2>6 DEF ReserveAgentNickname
<1>6. ASSUME NEW c \in Calls, CreateThread(c)
      PROVE  NickInv'
  <2>1. PICK i \in Ids :
          /\ nickOf' = [nickOf EXCEPT ![i] = call[c].nick]
          /\ call' = [call EXCEPT ![c].pc = "created", ![c].tgt = i]
    BY <1>6 DEF CreateThread
  <2>2. /\ call[c].pc = "named" /\ call[c].kind # "resume"
        /\ UNCHANGED <<usedNicks, resetCount>>
    BY <1>6 DEF CreateThread, pc
  <2>3. call'[c].pc = "created" /\ \A d \in Calls \ {c} : call'[d] = call[d]
    BY <1>0, <2>1, TakesTarget, PCsFacts
  <2> QED BY <1>0, <2>1, <2>2, <2>3, NickRecorded
<1>7. ASSUME NEW c \in Calls, ResumeCheck(c)
      PROVE  NickInv'
  BY <1>0, <1>7, PCsFacts, NicksKeptGoto DEF ResumeCheck, pc
<1>8. ASSUME NEW c \in Calls, ResumeFinalize(c)
      PROVE  NickInv'
  <2>1. call[c].pc = "building" /\ call[c].kind = "resume" /\ call[c].tgt \in Ids
    BY <1>0, <1>8, CallFields DEF ResumeFinalize, pc, NickInv
  <2>2. CASE UNCHANGED nickOf
    BY <1>0, <1>8, <2>1, <2>2, PCsFacts, NicksKeptGoto DEF ResumeFinalize
  <2>3. CASE /\ Goto(c, "created")
             /\ nickOf' = [nickOf EXCEPT ![call[c].tgt] = call[c].nick]
    <3>1. call'[c].pc = "created" /\ \A d \in Calls \ {c} : call'[d] = call[d]
      BY <1>0, <2>3, Goes, PCsFacts
    <3> QED BY <1>0, <1>8, <2>1, <2>3, <3>1, NickRecorded DEF ResumeFinalize
  <2> QED BY <1>8, <2>2, <2>3 DEF ResumeFinalize
<1>9. ASSUME NEW c \in Calls,
             RegisterRootThread(c) \/ SpawnFails(c) \/ Commit(c) \/ DropPath(c)
             \/ DropCount(c) \/ SendOp(c) \/ RemoveThread(c) \/ ReleaseEntry(c)
             \/ ReleaseCount(c) \/ CallDropped(c)
      PROVE  NickInv'
  <2>1. Return(c) \/ \E l \in PCs \ {"named", "building"} : Goto(c, l)
    BY <1>9, PCsFacts DEF RegisterRootThread, SpawnFails, Commit, DropPath, DropCount,
       SendOp, RemoveThread, ReleaseEntry, ReleaseCount, CallDropped
  <2>2. /\ UNCHANGED <<resetCount, nickOf>> /\ usedNicks \subseteq usedNicks'
    BY <1>9 DEF RegisterRootThread, SpawnFails, Commit, DropPath, DropCount,
       SendOp, RemoveThread, ReleaseEntry, ReleaseCount, CallDropped
  <2> QED BY <1>0, <2>1, <2>2, NicksKeptGoto
<1>10. ASSUME NEW c \in Calls, NEW i \in Ids, SendBegin(c, i) \/ ShutdownLiveAgent(c, i)
       PROVE  NickInv'
  <2>1. /\ call'[c].pc \in {"send", "remove"}
        /\ \A d \in Calls \ {c} : call'[d] = call[d]
    BY <1>0, <1>10, TakesTarget, PCsFacts DEF SendBegin, ShutdownLiveAgent
  <2>2. UNCHANGED <<usedNicks, resetCount, nickOf>>
    BY <1>10 DEF SendBegin, ShutdownLiveAgent
  <2> QED BY <2>1, <2>2, NicksKeptMove
<1>11. CASE UNCHANGED <<usedNicks, resetCount, nickOf, call>>
  BY <1>11 DEF NickInv, GivenOnce, NicknamesDistinct, Giving, Spent
<1> QED BY <1>1, <1>2, <1>3, <1>4, <1>5, <1>6, <1>7, <1>8, <1>9, <1>10, <1>11
        DEF Next, CallStep, ThreadEnds, Unload, vars

(* At the start only stored threads have a nickname.                          *)
LEMMA InitNicks == Init => NickInv
<1> SUFFICES ASSUME Init PROVE NickInv
  OBVIOUS
<1>1. \A c \in Calls : call[c].pc = "idle"
  BY DEF Init, NoCall
<1>2. \A i \in Ids \ Stored : nickOf[i] = NoNick
  BY DEF Init
<1> QED BY <1>1, <1>2 DEF NickInv, Giving, GivenOnce, NicknamesDistinct

(* reserve_agent_nickname: no two agents spawned by this process ever carry   *)
(* the same nickname, across failed spawns, releases, resumes and resets of   *)
(* the pool, however many calls take nicknames at once.                       *)
THEOREM NicknamesStayDistinct == Spec => []NicknamesDistinct
<1>1. Inv /\ NickInv /\ [Next]_vars => NickInv'
  BY NickStep
<1>2. NickInv => NicknamesDistinct
  BY DEF NickInv
<1> QED BY <1>1, <1>2, InvHolds, InitNicks, PTL DEF Spec

============================================================================
