--------------------------- MODULE AgentRegistry ---------------------------
(***************************************************************************)
(* The registry of sub-agents that every agent of one session tree shares  *)
(* (codex-rs/core/src/agent/registry.rs) together with the AgentControl    *)
(* calls that use it (agent/control.rs, control/spawn.rs,                  *)
(* control/legacy.rs) and the part of the thread manager those calls touch *)
(* (thread_manager.rs).                                                    *)
(*                                                                         *)
(* The registry keeps an atomic counter, total_count, beside a map behind  *)
(* a mutex.  The two are updated in separate steps, calls of several       *)
(* agents interleave between them, and the thread manager is a third piece *)
(* of state with a lock of its own.  One step of a call here is one atomic *)
(* access or one critical section there.                                   *)
(***************************************************************************)
EXTENDS Integers, FiniteSets

CONSTANTS
    Calls,       \* concurrent AgentControl calls
    Ids,         \* thread ids, RootId among them
    RootId,      \* id of the session's root thread
    Stored,      \* threads with a rollout written by an earlier process
    Paths,       \* agent paths below the root, keys of agent_tree
    Root,        \* AgentPath::ROOT, the root's key
    Names,       \* nicknames
    Pools,       \* the candidate nicknames of each agent role
    MaxThreads,  \* effective_agent_max_threads
    MaxResets,   \* bound: no new spawn after so many resets of the pool
    Vacant,      \* no entry under a key of agent_tree
    Reserved,    \* an entry whose agent_id is None
    NoPath,      \* agent_path is None
    NoNick       \* no nickname

\* An agent without a path is keyed by "thread:<id>"; the id stands for it.
Keys == {Root} \cup Paths \cup Ids

\* format_agent_nickname gives <<name, nickname_reset_count>> one spelling
\* ("Plato", "Plato the 2nd", ...), and different pairs different spellings.
Nicks == Names \X Nat

ASSUME RegistryAssumption ==
    /\ IsFiniteSet(Calls) /\ IsFiniteSet(Ids) /\ IsFiniteSet(Paths)
    /\ RootId \in Ids /\ Stored \subseteq Ids \ {RootId}
    /\ Root \notin Paths \cup Ids /\ Paths \cap Ids = {}
    /\ MaxThreads \in Nat /\ MaxResets \in Nat
    /\ Pools \subseteq (SUBSET Names) \ {{}}
    /\ Vacant \notin Ids /\ Reserved \notin Ids /\ Vacant # Reserved
    /\ NoPath \notin Paths /\ NoNick \notin Nicks

VARIABLES
    totalCount,   \* AgentRegistry.total_count
    tree,         \* ActiveAgents.agent_tree
    usedNicks,    \* ActiveAgents.used_agent_nicknames
    resetCount,   \* ActiveAgents.nickname_reset_count
    thread,       \* ThreadManagerState.threads and is_running of each thread
    nickOf,       \* nickname recorded for a thread in the state database
    call          \* the local state of each call, see Call

vars == <<totalCount, tree, usedNicks, resetCount, thread, nickOf, call>>

\* Program counters at which a call owns a live SpawnReservation, and those at
\* which the reservation's path, if it has one, is already taken.
Pathed  == {"pathed", "named", "building", "created", "drop"}
Holding == {"slot", "rooted", "dropCount"} \cup Pathed
PCs     == Holding \cup {"idle", "cas", "send", "remove", "release", "releaseCount"}

\* The locals of a call: cur is current in try_increment_spawned, tgt the
\* thread the call is about, path and nick the AgentMetadata it has built.
Call == [pc : PCs, kind : {"spawn", "resume"}, cur : Nat, tgt : Ids,
         path : Paths \cup {NoPath}, nick : Nicks \cup {NoNick}]

NoCall == [pc |-> "idle", kind |-> "spawn", cur |-> 0, tgt |-> RootId,
           path |-> NoPath, nick |-> NoNick]

pc(c) == call[c].pc

Goto(c, l) == call' = [call EXCEPT ![c].pc = l]
Return(c)  == call' = [call EXCEPT ![c] = NoCall]

----------------------------------------------------------------------------

Init ==
    /\ totalCount = 0
    /\ tree = [k \in Keys |-> IF k = Root THEN RootId ELSE Vacant]
    /\ usedNicks = {}
    /\ resetCount = 0
    /\ thread = [i \in Ids |-> IF i = RootId THEN "running"
                               ELSE IF i \in Stored THEN "absent" ELSE "unused"]
    /\ nickOf \in [Ids -> (Names \X {0}) \cup {NoNick}]
    /\ \A i \in Ids : nickOf[i] # NoNick <=> i \in Stored
    /\ call = [c \in Calls |-> NoCall]

----------------------------------------------------------------------------
(* reserve_spawn_slot *)

\* spawn_agent_internal up to the load of total_count.
SpawnBegin(c) ==
    /\ pc(c) = "idle"
    /\ resetCount < MaxResets
    /\ call' = [call EXCEPT ![c].pc = "cas", ![c].cur = totalCount]
    /\ UNCHANGED <<totalCount, tree, usedNicks, resetCount, thread, nickOf>>

\* resume_agent: the tool handler (or the walk over stored children) finds
\* no such thread in the manager, then resume_single_agent_from_rollout.
ResumeBegin(c, i) ==
    /\ pc(c) = "idle"
    /\ resetCount < MaxResets
    /\ thread[i] = "absent"
    /\ call' = [call EXCEPT ![c].pc = "cas", ![c].cur = totalCount,
                            ![c].kind = "resume", ![c].tgt = i]
    /\ UNCHANGED <<totalCount, tree, usedNicks, resetCount, thread, nickOf>>

\* Fault: off by one at the limit.
AtLimitOffByOne(n) == n > MaxThreads

AtLimit(n) == n >= MaxThreads

\* One round of the compare-and-exchange loop.
TryIncrementSpawned(c) ==
    /\ pc(c) = "cas"
    /\ \/ /\ AtLimit(call[c].cur)          \* AgentLimitReached
          /\ Return(c)
          /\ UNCHANGED totalCount
       \/ /\ ~AtLimit(call[c].cur)
          /\ totalCount = call[c].cur
          /\ totalCount' = totalCount + 1
          /\ Goto(c, "slot")
       \/ /\ ~AtLimit(call[c].cur)
          /\ totalCount # call[c].cur
          /\ call' = [call EXCEPT ![c].cur = totalCount]
          /\ UNCHANGED totalCount
    /\ UNCHANGED <<tree, usedNicks, resetCount, thread, nickOf>>

----------------------------------------------------------------------------
(* prepare_thread_spawn *)

\* A child of the root (depth 1) registers the root first.
RegisterRootThread(c) ==
    /\ pc(c) = "slot"
    /\ \E depth \in {1, 2} :
         tree' = IF depth = 1 /\ tree[Root] = Vacant
                 THEN [tree EXCEPT ![Root] = RootId] ELSE tree
    /\ Goto(c, "rooted")
    /\ UNCHANGED <<totalCount, usedNicks, resetCount, thread, nickOf>>

\* Fault: only registered agents count, not placeholders.
PathFreeIfUnregistered(p) == tree[p] \notin Ids

\* Fault: only placeholders count, not registered agents.
PathFreeIfRegistered(p) == tree[p] # Reserved

\* Entry::Vacant in reserve_agent_path.
PathFree(p) == tree[p] = Vacant

\* An occupied path fails the call, which drops its reservation.  Resumed
\* agents are registered without a path.
ReserveAgentPath(c, p) ==
    /\ pc(c) = "rooted"
    /\ call[c].kind = "resume" => p = NoPath
    /\ \/ /\ p = NoPath
          /\ Goto(c, "pathed")
          /\ UNCHANGED tree
       \/ /\ p # NoPath
          /\ PathFree(p)
          /\ tree' = [tree EXCEPT ![p] = Reserved]
          /\ call' = [call EXCEPT ![c].pc = "pathed", ![c].path = p]
       \/ /\ p # NoPath
          /\ ~PathFree(p)
          /\ Goto(c, "drop")
          /\ UNCHANGED tree
    /\ UNCHANGED <<totalCount, usedNicks, resetCount, thread, nickOf>>

\* Fault: used nicknames are not left out.
AvailableAll(pool) == pool

Available(pool) == {n \in pool : <<n, resetCount>> \notin usedNicks}

\* The call is given nickname x; the pool becomes used plus x, numbered r.
HandOut(c, x, used, r) ==
    /\ call' = [call EXCEPT ![c].pc = "named", ![c].nick = x]
    /\ usedNicks' = used \cup {x}
    /\ resetCount' = r

\* A resumed agent keeps the nickname the state database has for it, if the
\* read succeeds; any other takes one that is free for its role.  When none
\* is, every nickname is free again, under the next ordinal.
ReserveAgentNickname(c) ==
    /\ pc(c) = "pathed"
    /\ \/ /\ call[c].kind = "resume"
          /\ nickOf[call[c].tgt] # NoNick
          /\ HandOut(c, nickOf[call[c].tgt], usedNicks, resetCount)
       \/ \E pool \in Pools : \E n \in Available(pool) :
            HandOut(c, <<n, resetCount>>, usedNicks, resetCount)
       \/ \E pool \in Pools :
            /\ Available(pool) = {}
            /\ \E n \in pool : HandOut(c, <<n, resetCount + 1>>, {}, resetCount + 1)
    /\ UNCHANGED <<totalCount, tree, thread, nickOf>>

----------------------------------------------------------------------------
(* Creating the thread *)

\* spawn_new_thread_with_source or fork_thread_with_source: a fresh id.
CreateThread(c) ==
    /\ pc(c) = "named"
    /\ call[c].kind = "spawn"
    /\ \E i \in Ids :
         /\ thread[i] = "unused"
         /\ thread' = [thread EXCEPT ![i] = "running"]
         /\ nickOf' = [nickOf EXCEPT ![i] = call[c].nick]
         /\ call' = [call EXCEPT ![c].pc = "created", ![c].tgt = i]
    /\ UNCHANGED <<totalCount, tree, usedNicks, resetCount>>

\* spawn_thread_with_source for a resumed history: a running thread with this
\* id is returned as it is, a terminated one is dropped from the manager.
ResumeCheck(c) ==
    /\ pc(c) = "named"
    /\ call[c].kind = "resume"
    /\ IF thread[call[c].tgt] = "running"
       THEN Goto(c, "created") /\ UNCHANGED thread
       ELSE /\ Goto(c, "building")
            /\ thread' = [thread EXCEPT ![call[c].tgt] = "absent"]
    /\ UNCHANGED <<totalCount, tree, usedNicks, resetCount, nickOf>>

\* finalize_thread_spawn: the id may have been taken since ResumeCheck.
ResumeFinalize(c) ==
    /\ pc(c) = "building"
    /\ IF thread[call[c].tgt] = "absent"
       THEN /\ Goto(c, "created")
            /\ thread' = [thread EXCEPT ![call[c].tgt] = "running"]
            /\ nickOf' = [nickOf EXCEPT ![call[c].tgt] = call[c].nick]
       ELSE Goto(c, "drop") /\ UNCHANGED <<thread, nickOf>>
    /\ UNCHANGED <<totalCount, tree, usedNicks, resetCount>>

\* The call fails while the thread is being created, or the turn that made it
\* is interrupted and its future dropped at an await: either way the
\* reservation goes with it.  A resumed thread is already in the manager while
\* its resume lifecycle event is awaited.
SpawnFails(c) ==
    /\ \/ pc(c) \in {"slot", "named", "building"}
       \/ pc(c) = "created" /\ call[c].kind = "resume"
    /\ Goto(c, "drop")
    /\ UNCHANGED <<totalCount, tree, usedNicks, resetCount, thread, nickOf>>

----------------------------------------------------------------------------
(* SpawnReservation: commit and drop *)

Key(c) == IF call[c].path = NoPath THEN call[c].tgt ELSE call[c].path

\* commit and register_spawned_thread; a spawn then sends its first input.
Commit(c) ==
    /\ pc(c) = "created"
    /\ tree' = [tree EXCEPT ![Key(c)] = call[c].tgt]
    /\ usedNicks' = usedNicks \cup {call[c].nick}
    /\ IF call[c].kind = "spawn" THEN Goto(c, "send") ELSE Return(c)
    /\ UNCHANGED <<totalCount, resetCount, thread, nickOf>>

\* Drop for SpawnReservation, first half: release_reserved_agent_path.
DropPath(c) ==
    /\ pc(c) = "drop"
    /\ tree' = IF call[c].path # NoPath /\ tree[call[c].path] = Reserved
               THEN [tree EXCEPT ![call[c].path] = Vacant] ELSE tree
    /\ Goto(c, "dropCount")
    /\ UNCHANGED <<totalCount, usedNicks, resetCount, thread, nickOf>>

\* Fault: a failed spawn keeps its slot.
ReturnSlotForgotten == UNCHANGED totalCount

\* fetch_sub of the dropped reservation.
ReturnSlot == totalCount' = totalCount - 1

\* Second half: the slot.
DropCount(c) ==
    /\ pc(c) = "dropCount"
    /\ ReturnSlot
    /\ Return(c)
    /\ UNCHANGED <<tree, usedNicks, resetCount, thread, nickOf>>

----------------------------------------------------------------------------
(* send_input, shutdown_live_agent, release_spawned_thread *)

\* A message to an existing agent.
SendBegin(c, i) ==
    /\ pc(c) = "idle"
    /\ call' = [call EXCEPT ![c].pc = "send", ![c].tgt = i]
    /\ UNCHANGED <<totalCount, tree, usedNicks, resetCount, thread, nickOf>>

\* handle_thread_request_result: a thread whose loop has ended
\* (InternalAgentDied) is removed and released; an unknown one is only an
\* error.
SendOp(c) ==
    /\ pc(c) = "send"
    /\ IF thread[call[c].tgt] = "dead" THEN Goto(c, "remove") ELSE Return(c)
    /\ UNCHANGED <<totalCount, tree, usedNicks, resetCount, thread, nickOf>>

\* shutdown_live_agent up to wait_until_terminated.
ShutdownLiveAgent(c, i) ==
    /\ pc(c) = "idle"
    /\ thread' = IF thread[i] = "running" THEN [thread EXCEPT ![i] = "dead"]
                                          ELSE thread
    /\ call' = [call EXCEPT ![c].pc = "remove", ![c].tgt = i]
    /\ UNCHANGED <<totalCount, tree, usedNicks, resetCount, nickOf>>

\* ThreadManagerState::remove_thread, whatever now runs under that id.
RemoveThread(c) ==
    /\ pc(c) = "remove"
    /\ thread' = IF thread[call[c].tgt] = "unused" THEN thread
                 ELSE [thread EXCEPT ![call[c].tgt] = "absent"]
    /\ Goto(c, "release")
    /\ UNCHANGED <<totalCount, tree, usedNicks, resetCount, nickOf>>

\* Fault: releasing the root gives back a slot that was never taken.
CountedAlways(k) == TRUE

\* Whether the entry took a slot.
Counted(k) == k # Root

\* release_spawned_thread, the critical section: the map yields any one
\* entry with this id, and the root's entry was never counted.
ReleaseEntry(c) ==
    /\ pc(c) = "release"
    /\ \/ \E k \in Keys :
            /\ tree[k] = call[c].tgt
            /\ tree' = [tree EXCEPT ![k] = Vacant]
            /\ IF Counted(k) THEN Goto(c, "releaseCount") ELSE Return(c)
       \/ /\ \A k \in Keys : tree[k] # call[c].tgt
          /\ Return(c)
          /\ UNCHANGED tree
    /\ UNCHANGED <<totalCount, usedNicks, resetCount, thread, nickOf>>

\* The rest of it, after the lock.
ReleaseCount(c) ==
    /\ pc(c) = "releaseCount"
    /\ totalCount' = totalCount - 1
    /\ Return(c)
    /\ UNCHANGED <<tree, usedNicks, resetCount, thread, nickOf>>

\* The turn that made the call is interrupted while it waits for the thread
\* manager's lock or for the thread to end.
CallDropped(c) ==
    /\ pc(c) \in {"send", "remove"}
    /\ Return(c)
    /\ UNCHANGED <<totalCount, tree, usedNicks, resetCount, thread, nickOf>>

----------------------------------------------------------------------------
(* The threads themselves *)

\* A session loop ends by itself.
ThreadEnds(i) ==
    /\ thread[i] = "running"
    /\ thread' = [thread EXCEPT ![i] = "dead"]
    /\ UNCHANGED <<totalCount, tree, usedNicks, resetCount, nickOf, call>>

\* ThreadManager::remove_thread and shutdown_all_threads_bounded, called by
\* the app server when it unloads a thread.  The registry is not told.
Unload(i) ==
    /\ thread[i] = "dead"
    /\ thread' = [thread EXCEPT ![i] = "absent"]
    /\ UNCHANGED <<totalCount, tree, usedNicks, resetCount, nickOf, call>>

----------------------------------------------------------------------------

CallStep(c) ==
    \/ TryIncrementSpawned(c)
    \/ RegisterRootThread(c)
    \/ \E p \in Paths \cup {NoPath} : ReserveAgentPath(c, p)
    \/ ReserveAgentNickname(c)
    \/ CreateThread(c) \/ ResumeCheck(c) \/ ResumeFinalize(c) \/ SpawnFails(c)
    \/ Commit(c) \/ DropPath(c) \/ DropCount(c)
    \/ SendOp(c) \/ RemoveThread(c) \/ ReleaseEntry(c) \/ ReleaseCount(c)
    \/ CallDropped(c)

Next ==
    \/ \E c \in Calls : SpawnBegin(c) \/ CallStep(c)
    \/ \E c \in Calls, i \in Ids :
         SendBegin(c, i) \/ ShutdownLiveAgent(c, i) \/ ResumeBegin(c, i)
    \/ \E i \in Ids : ThreadEnds(i) \/ Unload(i)

Spec == Init /\ [][Next]_vars

----------------------------------------------------------------------------
(* Properties *)

\* The registry's state keeps its type; total_count, an AtomicUsize, is never
\* decremented below zero by a release and a drop of the same slot.
TypeOK ==
    /\ totalCount \in Nat
    /\ tree \in [Keys -> Ids \cup {Vacant, Reserved}]
    /\ usedNicks \subseteq Nicks
    /\ resetCount \in Nat
    /\ thread \in [Ids -> {"unused", "absent", "running", "dead"}]
    /\ nickOf \in [Ids -> Nicks \cup {NoNick}]
    /\ call \in [Calls -> Call]

\* Registered sub-agents, calls with a reservation, and calls that have
\* removed an entry and not yet returned its slot.
LiveKeys  == {k \in Keys \ {Root} : tree[k] \in Ids}
Reserving == {c \in Calls : pc(c) \in Holding}
Releasing == {c \in Calls : pc(c) = "releaseCount"}

SlotsUsed == Cardinality(LiveKeys) + Cardinality(Reserving)
             + Cardinality(Releasing)

\* The registry "limits total number of sub-agents (i.e. threads) per user
\* session": registered agents and agents being spawned together never exceed
\* max_threads, although the count and the map are updated apart.
LimitHeld == Cardinality(LiveKeys) + Cardinality(Reserving) <= MaxThreads

\* The counter and the slots in use move together at every step, failed and
\* interrupted calls included, except when a commit overwrites the entry of a
\* thread that is resumed a second time: that is the only leak.
LeaksOnlyByOverwrite ==
    [][\/ totalCount' - SlotsUsed' = totalCount - SlotsUsed
       \/ \E c \in Calls : Commit(c) /\ tree[Key(c)] \in Ids]_vars

\* A reservation's placeholder stays under its path until that reservation
\* commits or is dropped, and no other call has the same path.
PathOwned ==
    \A c \in Calls :
      pc(c) \in Pathed /\ call[c].path # NoPath
        => /\ tree[call[c].path] = Reserved
           /\ \A d \in Calls \ {c} :
                ~(pc(d) \in Pathed /\ call[d].path = call[c].path)

\* No two agents spawned by this process ever carry the same nickname, across
\* failed spawns, releases, resumes and resets of the pool.
NicknamesDistinct ==
    \A i, j \in Ids \ Stored :
      i # j /\ nickOf[i] # NoNick => nickOf[i] # nickOf[j]

\* An agent found under a path stays the agent of that path until it is
\* released: a step never hands a taken path to another thread.
PathNotStolen ==
    [][\A p \in Paths : tree[p] \in Ids /\ tree'[p] # tree[p]
                          => tree'[p] = Vacant]_vars

=============================================================================
