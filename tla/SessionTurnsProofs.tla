------------------------- MODULE SessionTurnsProofs -------------------------
(***************************************************************************)
(* Proofs about SessionTurns, with any number of turns, messages and       *)
(* operations.  For sessions driven by their client alone (no goal to      *)
(* continue, no guardian, no realtime conversation): a task finds no other *)
(* one in its way, is never forgotten and ends once, the slot always has   *)
(* an owner, and no accepted input is lost.  For every session: input is   *)
(* delivered at most once, and the variables keep their types.             *)
(***************************************************************************)
EXTENDS SessionTurns, FiniteSetTheorems, TLAPS

ActorStages == Aborting \cup Starting \cup Idling \cup {"rest", "stopped"}
TaskStages  == Running \cup Finishing \cup {"none", "ended"}
Kinds       == {"regular"} \cup AuxKinds
Slots       == TurnStates \cup {NoTS}

----------------------------------------------------------------------------
(* What a step does to the records, field by field *)

\* Actor a becomes this, and the others stay what they are.
Acts(a, pc, turn, kind, input, victim, replace, ts, items) ==
    /\ actor' \in [Actors -> Actor]
    /\ \A b \in Actors : b # a => actor'[b] = actor[b]
    /\ actor'[a].pc = pc /\ actor'[a].turn = turn /\ actor'[a].kind = kind
    /\ actor'[a].input = input /\ actor'[a].victim = victim /\ actor'[a].replace = replace
    /\ actor'[a].ts = ts /\ actor'[a].items = items

\* It goes to another stage.
LEMMA ActsGoto ==
    ASSUME actor \in [Actors -> Actor], NEW a \in Actors, NEW l \in ActorStages,
           actor' = [actor EXCEPT ![a].pc = l]
    PROVE  Acts(a, l, actor[a].turn, actor[a].kind, actor[a].input,
                actor[a].victim, actor[a].replace, actor[a].ts, actor[a].items)
  <1> DEFINE x == [actor[a] EXCEPT !.pc = l]
  <1>1. x \in Actor
    BY SessionAssumption DEF Actor, ActorStages, Kinds, Slots
  <1>2. /\ x.pc = l /\ x.turn = actor[a].turn /\ x.kind = actor[a].kind /\ x.input = actor[a].input
        /\ x.victim = actor[a].victim /\ x.replace = actor[a].replace /\ x.ts = actor[a].ts /\ x.items = actor[a].items
    BY SessionAssumption DEF Actor, ActorStages, Kinds, Slots
  <1>3. actor' = [actor EXCEPT ![a] = x]
    OBVIOUS
  <1> HIDE DEF x
  <1> QED
    BY <1>1, <1>2, <1>3 DEF Acts

\* It goes there with other items.
LEMMA ActsItems ==
    ASSUME actor \in [Actors -> Actor], NEW a \in Actors, NEW l \in ActorStages, NEW S \in SUBSET Items,
           actor' = [actor EXCEPT ![a] = [@ EXCEPT !.pc = l, !.items = S]]
    PROVE  Acts(a, l, actor[a].turn, actor[a].kind, actor[a].input,
                actor[a].victim, actor[a].replace, actor[a].ts, S)
  <1> DEFINE x == [actor[a] EXCEPT !.pc = l, !.items = S]
  <1>1. x \in Actor
    BY SessionAssumption DEF Actor, ActorStages, Kinds, Slots
  <1>2. /\ x.pc = l /\ x.turn = actor[a].turn /\ x.kind = actor[a].kind /\ x.input = actor[a].input
        /\ x.victim = actor[a].victim /\ x.replace = actor[a].replace /\ x.ts = actor[a].ts /\ x.items = S
    BY SessionAssumption DEF Actor, ActorStages, Kinds, Slots
  <1>3. actor' = [actor EXCEPT ![a] = x]
    OBVIOUS
  <1> HIDE DEF x
  <1> QED
    BY <1>1, <1>2, <1>3 DEF Acts

\* It goes there with another TurnState.
LEMMA ActsState ==
    ASSUME actor \in [Actors -> Actor], NEW a \in Actors, NEW l \in ActorStages, NEW s \in Slots,
           actor' = [actor EXCEPT ![a] = [@ EXCEPT !.pc = l, !.ts = s]]
    PROVE  Acts(a, l, actor[a].turn, actor[a].kind, actor[a].input,
                actor[a].victim, actor[a].replace, s, actor[a].items)
  <1> DEFINE x == [actor[a] EXCEPT !.pc = l, !.ts = s]
  <1>1. x \in Actor
    BY SessionAssumption DEF Actor, ActorStages, Kinds, Slots
  <1>2. /\ x.pc = l /\ x.turn = actor[a].turn /\ x.kind = actor[a].kind /\ x.input = actor[a].input
        /\ x.victim = actor[a].victim /\ x.replace = actor[a].replace /\ x.ts = s /\ x.items = actor[a].items
    BY SessionAssumption DEF Actor, ActorStages, Kinds, Slots
  <1>3. actor' = [actor EXCEPT ![a] = x]
    OBVIOUS
  <1> HIDE DEF x
  <1> QED
    BY <1>1, <1>2, <1>3 DEF Acts

\* It goes there with another turn.
LEMMA ActsTurn ==
    ASSUME actor \in [Actors -> Actor], NEW a \in Actors, NEW l \in ActorStages,
           NEW t \in Turns \cup {0},
           actor' = [actor EXCEPT ![a] = [@ EXCEPT !.pc = l, !.turn = t]]
    PROVE  Acts(a, l, t, actor[a].kind, actor[a].input,
                actor[a].victim, actor[a].replace, actor[a].ts, actor[a].items)
  <1> DEFINE x == [actor[a] EXCEPT !.pc = l, !.turn = t]
  <1>1. x \in Actor
    BY SessionAssumption DEF Actor, ActorStages, Kinds, Slots
  <1>2. /\ x.pc = l /\ x.turn = t /\ x.kind = actor[a].kind /\ x.input = actor[a].input
        /\ x.victim = actor[a].victim /\ x.replace = actor[a].replace /\ x.ts = actor[a].ts /\ x.items = actor[a].items
    BY SessionAssumption DEF Actor, ActorStages, Kinds, Slots
  <1>3. actor' = [actor EXCEPT ![a] = x]
    OBVIOUS
  <1> HIDE DEF x
  <1> QED
    BY <1>1, <1>2, <1>3 DEF Acts

\* It goes there with another victim and its TurnState.
LEMMA ActsVictim ==
    ASSUME actor \in [Actors -> Actor], NEW a \in Actors, NEW l \in ActorStages,
           NEW v \in Turns \cup {0}, NEW s \in Slots,
           actor' = [actor EXCEPT ![a] = [@ EXCEPT !.pc = l, !.victim = v, !.ts = s]]
    PROVE  Acts(a, l, actor[a].turn, actor[a].kind, actor[a].input,
                v, actor[a].replace, s, actor[a].items)
  <1> DEFINE x == [actor[a] EXCEPT !.pc = l, !.victim = v, !.ts = s]
  <1>1. x \in Actor
    BY SessionAssumption DEF Actor, ActorStages, Kinds, Slots
  <1>2. /\ x.pc = l /\ x.turn = actor[a].turn /\ x.kind = actor[a].kind /\ x.input = actor[a].input
        /\ x.victim = v /\ x.replace = actor[a].replace /\ x.ts = s /\ x.items = actor[a].items
    BY SessionAssumption DEF Actor, ActorStages, Kinds, Slots
  <1>3. actor' = [actor EXCEPT ![a] = x]
    OBVIOUS
  <1> HIDE DEF x
  <1> QED
    BY <1>1, <1>2, <1>3 DEF Acts

\* It rests.
LEMMA ActsRest ==
    ASSUME actor \in [Actors -> Actor], NEW a \in Actors,
           actor' = [actor EXCEPT ![a] = Rest]
    PROVE  Acts(a, "rest", 0, "regular", {}, 0, FALSE, NoTS, {})
  <1> DEFINE x == Rest
  <1>1. x \in Actor
    BY SessionAssumption DEF Actor, ActorStages, Kinds, Slots, Rest
  <1>2. /\ x.pc = "rest" /\ x.turn = 0 /\ x.kind = "regular" /\ x.input = {}
        /\ x.victim = 0 /\ x.replace = FALSE /\ x.ts = NoTS /\ x.items = {}
    BY SessionAssumption DEF Actor, ActorStages, Kinds, Slots, Rest
  <1>3. actor' = [actor EXCEPT ![a] = x]
    OBVIOUS
  <1> HIDE DEF x
  <1> QED
    BY <1>1, <1>2, <1>3 DEF Acts

\* It begins at a stage.
LEMMA ActsFresh ==
    ASSUME actor \in [Actors -> Actor], NEW a \in Actors, NEW l \in ActorStages,
           actor' = [actor EXCEPT ![a] = [Rest EXCEPT !.pc = l]]
    PROVE  Acts(a, l, 0, "regular", {}, 0, FALSE, NoTS, {})
  <1> DEFINE x == [Rest EXCEPT !.pc = l]
  <1>1. x \in Actor
    BY SessionAssumption DEF Actor, ActorStages, Kinds, Slots, Rest
  <1>2. /\ x.pc = l /\ x.turn = 0 /\ x.kind = "regular" /\ x.input = {}
        /\ x.victim = 0 /\ x.replace = FALSE /\ x.ts = NoTS /\ x.items = {}
    BY SessionAssumption DEF Actor, ActorStages, Kinds, Slots, Rest
  <1>3. actor' = [actor EXCEPT ![a] = x]
    OBVIOUS
  <1> HIDE DEF x
  <1> QED
    BY <1>1, <1>2, <1>3 DEF Acts

\* It begins to start a turn with input.
LEMMA ActsInput ==
    ASSUME actor \in [Actors -> Actor], NEW a \in Actors, NEW l \in ActorStages, NEW r \in BOOLEAN,
           NEW t \in Turns \cup {0}, NEW S \in SUBSET Items,
           actor' = [actor EXCEPT ![a] = [Rest EXCEPT !.pc = l, !.replace = r, !.turn = t, !.input = S]]
    PROVE  Acts(a, l, t, "regular", S, 0, r, NoTS, {})
  <1> DEFINE x == [Rest EXCEPT !.pc = l, !.replace = r, !.turn = t, !.input = S]
  <1>1. x \in Actor
    BY SessionAssumption DEF Actor, ActorStages, Kinds, Slots, Rest
  <1>2. /\ x.pc = l /\ x.turn = t /\ x.kind = "regular" /\ x.input = S
        /\ x.victim = 0 /\ x.replace = r /\ x.ts = NoTS /\ x.items = {}
    BY SessionAssumption DEF Actor, ActorStages, Kinds, Slots, Rest
  <1>3. actor' = [actor EXCEPT ![a] = x]
    OBVIOUS
  <1> HIDE DEF x
  <1> QED
    BY <1>1, <1>2, <1>3 DEF Acts

\* It begins to start a turn of a kind.
LEMMA ActsKind ==
    ASSUME actor \in [Actors -> Actor], NEW a \in Actors, NEW l \in ActorStages, NEW r \in BOOLEAN,
           NEW t \in Turns \cup {0}, NEW k \in Kinds,
           actor' = [actor EXCEPT ![a] = [Rest EXCEPT !.pc = l, !.replace = r, !.turn = t, !.kind = k]]
    PROVE  Acts(a, l, t, k, {}, 0, r, NoTS, {})
  <1> DEFINE x == [Rest EXCEPT !.pc = l, !.replace = r, !.turn = t, !.kind = k]
  <1>1. x \in Actor
    BY SessionAssumption DEF Actor, ActorStages, Kinds, Slots, Rest
  <1>2. /\ x.pc = l /\ x.turn = t /\ x.kind = k /\ x.input = {}
        /\ x.victim = 0 /\ x.replace = r /\ x.ts = NoTS /\ x.items = {}
    BY SessionAssumption DEF Actor, ActorStages, Kinds, Slots, Rest
  <1>3. actor' = [actor EXCEPT ![a] = x]
    OBVIOUS
  <1> HIDE DEF x
  <1> QED
    BY <1>1, <1>2, <1>3 DEF Acts

\* The task of turn t becomes this, and the others stay what they are.
Runs(t, pc, kind, cancelled, input, ts) ==
    /\ task' \in [Turns -> Task]
    /\ \A u \in Turns : u # t => task'[u] = task[u]
    /\ task'[t].pc = pc /\ task'[t].kind = kind /\ task'[t].cancelled = cancelled
    /\ task'[t].input = input /\ task'[t].ts = ts

\* Before it is spawned, a task is one.
LEMMA NoTaskTyped == NoTask \in Task
  <1>1. MaxFollowUps \in 0..MaxFollowUps
    BY SessionAssumption
  <1> QED
    BY <1>1 DEF NoTask, Task

\* It goes to another stage.
LEMMA RunsGoto ==
    ASSUME task \in [Turns -> Task], NEW t \in Turns, NEW l \in TaskStages,
           task' = [task EXCEPT ![t].pc = l]
    PROVE  Runs(t, l, task[t].kind, task[t].cancelled, task[t].input, task[t].ts)
  <1> DEFINE x == [task[t] EXCEPT !.pc = l]
  <1>1. x \in Task
    BY SessionAssumption DEF Task, TaskStages, Kinds, Slots
  <1>2. /\ x.pc = l /\ x.kind = task[t].kind /\ x.cancelled = task[t].cancelled
        /\ x.input = task[t].input /\ x.ts = task[t].ts
    BY SessionAssumption DEF Task, TaskStages, Kinds, Slots
  <1>3. task' = [task EXCEPT ![t] = x]
    OBVIOUS
  <1> HIDE DEF x
  <1> QED
    BY <1>1, <1>2, <1>3 DEF Runs

\* Its token is cancelled.
LEMMA RunsCancelled ==
    ASSUME task \in [Turns -> Task], NEW t \in Turns, NEW c \in BOOLEAN,
           task' = [task EXCEPT ![t].cancelled = c]
    PROVE  Runs(t, task[t].pc, task[t].kind, c, task[t].input, task[t].ts)
  <1> DEFINE x == [task[t] EXCEPT !.cancelled = c]
  <1>1. x \in Task
    BY SessionAssumption DEF Task, TaskStages, Kinds, Slots
  <1>2. /\ x.pc = task[t].pc /\ x.kind = task[t].kind /\ x.cancelled = c
        /\ x.input = task[t].input /\ x.ts = task[t].ts
    BY SessionAssumption DEF Task, TaskStages, Kinds, Slots
  <1>3. task' = [task EXCEPT ![t] = x]
    OBVIOUS
  <1> HIDE DEF x
  <1> QED
    BY <1>1, <1>2, <1>3 DEF Runs

\* It goes there with other input.
LEMMA RunsInput ==
    ASSUME task \in [Turns -> Task], NEW t \in Turns, NEW S \in SUBSET Items, NEW l \in TaskStages,
           task' = [task EXCEPT ![t] = [@ EXCEPT !.input = S, !.pc = l]]
    PROVE  Runs(t, l, task[t].kind, task[t].cancelled, S, task[t].ts)
  <1> DEFINE x == [task[t] EXCEPT !.input = S, !.pc = l]
  <1>1. x \in Task
    BY SessionAssumption DEF Task, TaskStages, Kinds, Slots
  <1>2. /\ x.pc = l /\ x.kind = task[t].kind /\ x.cancelled = task[t].cancelled
        /\ x.input = S /\ x.ts = task[t].ts
    BY SessionAssumption DEF Task, TaskStages, Kinds, Slots
  <1>3. task' = [task EXCEPT ![t] = x]
    OBVIOUS
  <1> HIDE DEF x
  <1> QED
    BY <1>1, <1>2, <1>3 DEF Runs

\* It has an answer.
LEMMA RunsFollow ==
    ASSUME task \in [Turns -> Task], NEW t \in Turns, NEW l \in TaskStages, NEW f \in BOOLEAN,
           task' = [task EXCEPT ![t] = [@ EXCEPT !.pc = l, !.follow = f]]
    PROVE  Runs(t, l, task[t].kind, task[t].cancelled, task[t].input, task[t].ts)
  <1> DEFINE x == [task[t] EXCEPT !.pc = l, !.follow = f]
  <1>1. x \in Task
    BY SessionAssumption DEF Task, TaskStages, Kinds, Slots
  <1>2. /\ x.pc = l /\ x.kind = task[t].kind /\ x.cancelled = task[t].cancelled
        /\ x.input = task[t].input /\ x.ts = task[t].ts
    BY SessionAssumption DEF Task, TaskStages, Kinds, Slots
  <1>3. task' = [task EXCEPT ![t] = x]
    OBVIOUS
  <1> HIDE DEF x
  <1> QED
    BY <1>1, <1>2, <1>3 DEF Runs

\* It has an answer that calls tools.
LEMMA RunsFollowLeft ==
    ASSUME task \in [Turns -> Task], NEW t \in Turns, NEW l \in TaskStages,
           NEW f \in BOOLEAN, NEW n \in 0..MaxFollowUps,
           task' = [task EXCEPT ![t] = [@ EXCEPT !.pc = l, !.follow = f, !.left = n]]
    PROVE  Runs(t, l, task[t].kind, task[t].cancelled, task[t].input, task[t].ts)
  <1> DEFINE x == [task[t] EXCEPT !.pc = l, !.follow = f, !.left = n]
  <1>1. x \in Task
    BY SessionAssumption DEF Task, TaskStages, Kinds, Slots
  <1>2. /\ x.pc = l /\ x.kind = task[t].kind /\ x.cancelled = task[t].cancelled
        /\ x.input = task[t].input /\ x.ts = task[t].ts
    BY SessionAssumption DEF Task, TaskStages, Kinds, Slots
  <1>3. task' = [task EXCEPT ![t] = x]
    OBVIOUS
  <1> HIDE DEF x
  <1> QED
    BY <1>1, <1>2, <1>3 DEF Runs

\* It is made to go on.
LEMMA RunsLeft ==
    ASSUME task \in [Turns -> Task], NEW t \in Turns, NEW l \in TaskStages, NEW n \in 0..MaxFollowUps,
           task' = [task EXCEPT ![t] = [@ EXCEPT !.pc = l, !.left = n]]
    PROVE  Runs(t, l, task[t].kind, task[t].cancelled, task[t].input, task[t].ts)
  <1> DEFINE x == [task[t] EXCEPT !.pc = l, !.left = n]
  <1>1. x \in Task
    BY SessionAssumption DEF Task, TaskStages, Kinds, Slots
  <1>2. /\ x.pc = l /\ x.kind = task[t].kind /\ x.cancelled = task[t].cancelled
        /\ x.input = task[t].input /\ x.ts = task[t].ts
    BY SessionAssumption DEF Task, TaskStages, Kinds, Slots
  <1>3. task' = [task EXCEPT ![t] = x]
    OBVIOUS
  <1> HIDE DEF x
  <1> QED
    BY <1>1, <1>2, <1>3 DEF Runs

\* It has taken a TurnState.
LEMMA RunsState ==
    ASSUME task \in [Turns -> Task], NEW t \in Turns, NEW l \in TaskStages, NEW s \in Slots,
           task' = [task EXCEPT ![t] = [@ EXCEPT !.pc = l, !.ts = s]]
    PROVE  Runs(t, l, task[t].kind, task[t].cancelled, task[t].input, s)
  <1> DEFINE x == [task[t] EXCEPT !.pc = l, !.ts = s]
  <1>1. x \in Task
    BY SessionAssumption DEF Task, TaskStages, Kinds, Slots
  <1>2. /\ x.pc = l /\ x.kind = task[t].kind /\ x.cancelled = task[t].cancelled
        /\ x.input = task[t].input /\ x.ts = s
    BY SessionAssumption DEF Task, TaskStages, Kinds, Slots
  <1>3. task' = [task EXCEPT ![t] = x]
    OBVIOUS
  <1> HIDE DEF x
  <1> QED
    BY <1>1, <1>2, <1>3 DEF Runs

\* It is over.
LEMMA RunsEnded ==
    ASSUME task \in [Turns -> Task], NEW t \in Turns,
           task' = [task EXCEPT ![t] = Ended]
    PROVE  Runs(t, "ended", "regular", FALSE, {}, NoTS)
  <1> DEFINE x == Ended
  <1>1. x \in Task
    BY NoTaskTyped DEF Task, TaskStages, Kinds, Slots, Ended
  <1>2. x.pc = "ended" /\ x.kind = "regular" /\ x.cancelled = FALSE /\ x.input = {} /\ x.ts = NoTS
    BY SessionAssumption DEF Task, TaskStages, Kinds, Slots, NoTask, Ended
  <1>3. task' = [task EXCEPT ![t] = x]
    OBVIOUS
  <1> HIDE DEF x
  <1> QED
    BY <1>1, <1>2, <1>3 DEF Runs

\* It drops all but its kind.
LEMMA RunsKind ==
    ASSUME task \in [Turns -> Task], NEW t \in Turns, NEW l \in TaskStages, NEW k \in Kinds,
           task' = [task EXCEPT ![t] = [NoTask EXCEPT !.pc = l, !.kind = k]]
    PROVE  Runs(t, l, k, FALSE, {}, NoTS)
  <1> DEFINE x == [NoTask EXCEPT !.pc = l, !.kind = k]
  <1>1. x \in Task
    BY NoTaskTyped DEF Task, TaskStages, Kinds, Slots
  <1>2. x.pc = l /\ x.kind = k /\ x.cancelled = FALSE /\ x.input = {} /\ x.ts = NoTS
    BY SessionAssumption DEF Task, TaskStages, Kinds, Slots, NoTask
  <1>3. task' = [task EXCEPT ![t] = x]
    OBVIOUS
  <1> HIDE DEF x
  <1> QED
    BY <1>1, <1>2, <1>3 DEF Runs

----------------------------------------------------------------------------
(* The invariant *)

Types ==
    /\ active \in [task : Turns \cup {0}, ts : TurnStates, next : BOOLEAN] \cup {NoTurn}
    /\ pend \in [TurnStates -> SUBSET Items]
    /\ mailbox \subseteq Mails
    /\ task \in [Turns -> Task]
    /\ actor \in [Actors -> Actor]
    /\ turnCount \in 0..MaxTurns
    /\ terminal \in [Turns -> Nat]

Stopping == {"abCancel", "abKill", "abClear"}
Readying == {"stDrain", "stReserve", "stExtend", "stInstall"}
Alive    == Running \cup {"flush", "finTake"}
Ending   == {"finRecord", "finClear"}

\* The submission loop is the only actor that starts or aborts a turn.
LoopAlone ==
    /\ actor[Loop].pc \in {"rest", "msCheck", "msReserve", "abTake"} \cup Stopping \cup Readying
    /\ \A a \in Actors \ {Loop} : actor[a].pc \in {"rest", "idle", "stopped"}

\* The loop has a turn to start.
Claims == \/ actor[Loop].pc \in Readying
          \/ actor[Loop].pc \in Stopping \cup {"abTake"} /\ actor[Loop].replace

\* Where the loop is in a turn, the slot is free or reserved for that turn,
\* and the turn's task is not there yet.
LoopInv ==
    /\ Claims => actor[Loop].turn \in 1..turnCount /\ task[actor[Loop].turn].pc = "none"
    /\ actor[Loop].pc \in {"stDrain", "stReserve"} =>
           active.task = 0 /\ active.ts \in {NoTS, <<actor[Loop].turn, 1>>}
    /\ actor[Loop].pc \in {"stExtend", "stInstall"} =>
           active.task = 0 /\ active.ts = <<actor[Loop].turn, 1>> /\ actor[Loop].ts = active.ts
    /\ actor[Loop].pc \in Stopping =>
           active.ts = NoTS /\ actor[Loop].victim \in Turns /\ actor[Loop].ts = <<actor[Loop].victim, 1>>
    /\ actor[Loop].pc \in {"abCancel", "abKill"} =>
           task[actor[Loop].victim].pc \in Alive \cup {"ended"} /\ terminal[actor[Loop].victim] = 0

\* The slot's task is alive and was not cancelled; one that is alive is in the
\* slot or being aborted.
TaskInv ==
    \A t \in Turns :
        /\ t > turnCount => task[t].pc = "none"
        /\ active.task = t => task[t].pc \in Alive /\ active.ts = <<t, 1>>
        /\ task[t].cancelled => actor[Loop].pc = "abKill" /\ actor[Loop].victim = t
        /\ task[t].pc \in Alive =>
               \/ active.task = t
               \/ actor[Loop].pc \in {"abCancel", "abKill"} /\ actor[Loop].victim = t
        /\ actor[Loop].pc = "abKill" /\ actor[Loop].victim = t => task[t].cancelled \/ task[t].pc = "ended"
        /\ task[t].pc \in Ending => task[t].ts = <<t, 1>>
        /\ terminal[t] <= 1
        /\ task[t].pc \in {"none", "finRecord"} \cup Alive => terminal[t] = 0

\* A reservation without a task belongs to the loop or to a task that ends.
SlotInv ==
    active.task = 0 /\ active.ts # NoTS =>
        \/ actor[Loop].pc \in Readying
        \/ \E t \in Turns : task[t].pc \in Ending /\ active.ts = <<t, 1>>

\* Only on these stages input travels with the loop or with a task.
CarryInv ==
    /\ actor[Loop].pc \notin {"stReserve", "stExtend"} => actor[Loop].items = {}
    /\ actor[Loop].input # {} => Claims /\ actor[Loop].kind = "regular"
    /\ \A t \in Turns : task[t].input # {} =>
           task[t].pc \in {"top", "record"} \/ (task[t].pc = "spawned" /\ task[t].kind = "regular")

Inv == Types /\ LoopAlone /\ LoopInv /\ TaskInv /\ SlotInv /\ CarryInv

\* Input is pending only where somebody will look for it.
PendInv ==
    \A s \in TurnStates : pend[s] # {} =>
        \/ active.ts = s /\ ~\E t \in Turns : task[t].pc = "finClear" /\ s = <<t, 1>>
        \/ actor[Loop].pc \in Stopping /\ actor[Loop].ts = s
        \/ \E t \in Turns : task[t].pc = "finRecord" /\ s = <<t, 1>>

\* Input that was accepted is somewhere.
KeptInv ==
    \A i \in sent :
        \/ i \in history \cup discarded \cup mailbox \cup actor[Loop].items \cup actor[Loop].input
        \/ \E t \in Turns : i \in task[t].input
        \/ \E s \in TurnStates : i \in pend[s]

InputInv == PendInv /\ KeptInv

----------------------------------------------------------------------------
(* What each action does, field by field *)

\* The constants as the provers see them.
LEMMA Sets ==
    /\ Loop \in Actors /\ AppServer \in Actors /\ Turns \subseteq Actors
    /\ Loop # AppServer /\ Loop \notin Turns /\ 0 \notin Turns /\ Turns \subseteq Nat
    /\ NoTS \notin TurnStates
    /\ \A t \in Turns : <<t, 1>> \in TurnStates /\ <<t, 1>> # NoTS
    /\ \A t, u \in Turns : <<t, 1>> = <<u, 1>> => t = u
    /\ UserMsgs \cup Injected \cup Mails \cup GoalItems \cup Routed \subseteq Items
  BY SessionAssumption DEF Actors, Loop, AppServer, Turns, TurnStates, NoTS, Items

\* The fan-out task of a conversation is another actor.
LEMMA RealtimeApart == Realtime \in Actors /\ Realtime # Loop /\ Realtime \notin Turns
  BY SessionAssumption DEF Actors, Loop, Realtime, Turns

\* A turn is begun only while there are some left.
LEMMA FreshIsTurn ==
    ASSUME turnCount \in 0..MaxTurns, CanBegin
    PROVE  FreshTurn \in Turns /\ FreshTurn = turnCount + 1
  BY SessionAssumption DEF CanBegin, FreshTurn, Turns

\* What the slot becomes.
Slot(t, s) ==
    /\ active' \in [task : Turns \cup {0}, ts : TurnStates, next : BOOLEAN] \cup {NoTurn}
    /\ active'.task = t /\ active'.ts = s

\* The slot's fields.
LEMMA SlotFields ==
    ASSUME Types
    PROVE  /\ active.task \in Turns \cup {0} /\ active.ts \in Slots
           /\ active = NoTurn <=> active.ts = NoTS
           /\ active.task # 0 => active.ts \in TurnStates
  BY Sets DEF Types, Slots, NoTurn

\* The slot after a step that does not touch it.
LEMMA SlotSame ==
    ASSUME Types, active' = active
    PROVE  Slot(active.task, active.ts)
  BY DEF Types, Slot

\* The slot once it was cleared.
LEMMA SlotFreed ==
    ASSUME active' = NoTurn
    PROVE  Slot(0, NoTS)
  BY DEF Slot, NoTurn

\* The slot with a reservation and no task.
LEMMA SlotReserved ==
    ASSUME NEW t \in Turns, Reserve(t)
    PROVE  Slot(0, <<t, 1>>)
  BY Sets DEF Slot, NoTurn, Reserve

\* The slot with another task, or with none.
LEMMA SlotTaken ==
    ASSUME Types, active.ts # NoTS, NEW t \in Turns \cup {0}, active' = [active EXCEPT !.task = t]
    PROVE  Slot(t, active.ts)
  BY DEF Types, Slot, NoTurn

\* The slot whose mail now waits for the next turn.
LEMMA SlotNext ==
    ASSUME Types, active.ts # NoTS, NEW b \in BOOLEAN, active' = [active EXCEPT !.next = b]
    PROVE  Slot(active.task, active.ts)
  BY DEF Types, Slot, NoTurn

\* A turn that was begun is one.
LEMMA Begun ==
    ASSUME Types
    PROVE  1..turnCount \subseteq Turns
  BY SessionAssumption DEF Types, Turns

\* Turn t's input becomes S: it keeps what it has, takes what is pending, or
\* hands it to the history or to what is discarded.
Hands(t, S) ==
    \/ UNCHANGED <<pend, mailbox, history, discarded>> /\ S = task[t].input
    \/ UNCHANGED <<history, discarded>> /\ DrainInput /\ S = Drainable
    \/ /\ UNCHANGED <<pend, mailbox>> /\ S = {}
       /\ \E B \in SUBSET task[t].input :
            history' = history \cup (task[t].input \ B) /\ discarded' = discarded \cup B

\* A task that runs goes to another stage with this input; nothing is lost
\* on the way.
Works(t, l, S) ==
    /\ task[t].pc \in Running /\ l \in Running \cup {"flush"} /\ S \in SUBSET Items
    /\ Runs(t, l, task[t].kind, task[t].cancelled, S, task[t].ts)
    /\ Slot(active.task, active.ts)
    /\ UNCHANGED <<actor, turnCount, sent, terminal>>
    /\ history \subseteq history' /\ discarded \subseteq discarded'
    /\ \/ UNCHANGED <<pend, mailbox>> /\ task[t].input \subseteq S \cup history' \cup discarded'
       \/ DrainInput /\ S = Drainable /\ task[t].pc = "drain"
    /\ CarryInv /\ S # {} => l \in {"top", "record"}
    /\ Hands(t, S)

\* The steps of a task up to its end.
Work(t) ==
    \/ TaskStart(t) \/ TaskWork(t) \/ TurnTop(t) \/ PreSamplingFails(t)
    \/ DrainPending(t) \/ RecordInputs(t)
    \/ SampleAnswer(t) \/ SampleToolCall(t) \/ SampleFails(t)
    \/ CheckFollowUp(t) \/ CheckPendingInput(t) \/ ObserveCancel(t)

\* A step of a task, field by field.
LEMMA WorkIs ==
    ASSUME Types, NEW t \in Turns, Work(t)
    PROVE  \E l, S : Works(t, l, S)
  <1>1. /\ task \in [Turns -> Task] /\ task[t].input \in SUBSET Items /\ task[t].left \in 0..MaxFollowUps
        /\ CarryInv /\ task[t].input # {} =>
               task[t].pc \in {"top", "record"} \/ (task[t].pc = "spawned" /\ task[t].kind = "regular")
    <2>1. task[t] \in Task
      BY DEF Types
    <2> QED
      BY <2>1 DEF Types, Task, CarryInv
  <1>2. Slot(active.task, active.ts) \/ active' # active
    BY SlotSame
  <1> USE <1>1, <1>2 DEF sessionVars, boundVars, itemVars, eventVars, TaskStages, Running, Finishing
  <1>3. CASE TaskStart(t)
    <2> DEFINE l == IF task[t].kind = "regular" THEN "top" ELSE "work"
    <2>1. Runs(t, l, task[t].kind, task[t].cancelled, task[t].input, task[t].ts)
      BY <1>3, RunsGoto DEF TaskStart, TaskGoto
    <2>2. Works(t, l, task[t].input)
      BY <1>3, <2>1 DEF TaskStart, Works, Hands
    <2> QED
      BY <2>2
  <1>4. CASE TaskWork(t)
    <2>1. Runs(t, "flush", task[t].kind, task[t].cancelled, task[t].input, task[t].ts)
      BY <1>4, RunsGoto DEF TaskWork, TaskGoto
    <2>2. Works(t, "flush", task[t].input)
      BY <1>4, <2>1 DEF TaskWork, Works, Hands
    <2> QED
      BY <2>2
  <1>5. CASE TurnTop(t)
    <2> DEFINE l == IF task[t].input = {} THEN "drain" ELSE "record"
    <2>1. Runs(t, l, task[t].kind, task[t].cancelled, task[t].input, task[t].ts)
      BY <1>5, RunsGoto DEF TurnTop, TaskGoto
    <2>2. Works(t, l, task[t].input)
      BY <1>5, <2>1 DEF TurnTop, Works, Hands
    <2> QED
      BY <2>2
  <1>6. CASE PreSamplingFails(t)
    <2>1. Runs(t, "again", task[t].kind, task[t].cancelled, {}, task[t].ts)
      BY <1>6, RunsInput DEF PreSamplingFails
    <2>2. Works(t, "again", {})
      BY <1>6, <2>1 DEF PreSamplingFails, Works, Hands
    <2> QED
      BY <2>2
  <1>7. CASE DrainPending(t)
    <2>0. Drainable \in SUBSET Items
      BY SlotFields, Sets DEF Drainable, Types, TakesMail, Slots
    <2>1. Runs(t, "record", task[t].kind, task[t].cancelled, Drainable, task[t].ts)
      BY <1>7, <2>0, RunsInput DEF DrainPending
    <2>2. Works(t, "record", Drainable)
      BY <1>7, <2>0, <2>1 DEF DrainPending, Works, Hands
    <2> QED
      BY <2>2
  <1>8. CASE RecordInputs(t)
    <2>0. PICK blocked \in {{}, task[t].input \cap Prompts} :
              /\ history' = history \cup (task[t].input \ blocked)
              /\ discarded' = discarded \cup blocked
              /\ task' = [task EXCEPT ![t] =
                      [@ EXCEPT !.input = {}, !.pc = IF blocked = {} THEN "sample" ELSE "again"]]
      BY <1>8, Zenon DEF RecordInputs
    <2> DEFINE l == IF blocked = {} THEN "sample" ELSE "again"
    <2>1. Runs(t, l, task[t].kind, task[t].cancelled, {}, task[t].ts)
      BY <2>0, RunsInput
    <2>2. /\ task[t].pc = "record"
          /\ UNCHANGED <<active, pend, mailbox, actor, turnCount, sent, terminal>>
      BY <1>8, Zenon DEF RecordInputs
    <2>3. Works(t, l, {})
      BY <2>0, <2>1, <2>2 DEF Works, Hands
    <2> QED
      BY <2>3
  <1>9. CASE SampleAnswer(t) \/ SampleToolCall(t)
    <2>1. Runs(t, "sampled", task[t].kind, task[t].cancelled, task[t].input, task[t].ts)
      <3>1. CASE SampleAnswer(t)
        BY <3>1, RunsFollow DEF SampleAnswer
      <3>2. CASE SampleToolCall(t)
        <4> DEFINE n == task[t].left - 1
        <4>1. /\ n \in 0..MaxFollowUps
              /\ task' = [task EXCEPT ![t] = [@ EXCEPT !.pc = "sampled", !.follow = TRUE, !.left = n]]
          BY <3>2, SessionAssumption DEF SampleToolCall
        <4> HIDE DEF n
        <4> QED
          BY <4>1, RunsFollowLeft
      <3> QED
        BY <1>9, <3>1, <3>2
    <2>2. \/ active' = active
          \/ active.task = t /\ active' = [active EXCEPT !.next = TRUE]
          \/ active.task = t /\ active' = [active EXCEPT !.next = FALSE]
      BY <1>9, Zenon DEF SampleAnswer, SampleToolCall
    <2>3. Slot(active.task, active.ts)
      BY <2>2, SlotNext, SlotFields, Sets
    <2>4. Works(t, "sampled", task[t].input)
      BY <1>9, <2>1, <2>3 DEF SampleAnswer, SampleToolCall, Works, Hands
    <2> QED
      BY <2>4
  <1>10. CASE SampleFails(t)
    <2>1. Runs(t, "again", task[t].kind, task[t].cancelled, task[t].input, task[t].ts)
      BY <1>10, RunsGoto DEF SampleFails, TaskGoto
    <2>2. Works(t, "again", task[t].input)
      BY <1>10, <2>1 DEF SampleFails, Works, Hands
    <2> QED
      BY <2>2
  <1>11. CASE CheckFollowUp(t)
    <2>1. \E l \in {"drain", "again", "sample"} :
              Runs(t, l, task[t].kind, task[t].cancelled, task[t].input, task[t].ts)
      <3>1. CASE \E l \in {"drain", "again", "sample"} : TaskGoto(t, l)
        BY <3>1, RunsGoto DEF TaskGoto
      <3>2. CASE /\ task[t].left > 0
                 /\ task' = [task EXCEPT ![t] = [@ EXCEPT !.pc = "drain", !.left = task[t].left - 1]]
        <4> DEFINE n == task[t].left - 1
        <4>1. n \in 0..MaxFollowUps /\ task' = [task EXCEPT ![t] = [@ EXCEPT !.pc = "drain", !.left = n]]
          BY <3>2, SessionAssumption
        <4> HIDE DEF n
        <4> QED
          BY <4>1, RunsLeft
      <3> QED
        BY <1>11, <3>1, <3>2 DEF CheckFollowUp
    <2>2. \E l \in {"drain", "again", "sample"} : Works(t, l, task[t].input)
      BY <1>11, <2>1 DEF CheckFollowUp, Works, Hands
    <2> QED
      BY <2>2
  <1>12. CASE CheckPendingInput(t)
    <2> DEFINE l == IF HasPending THEN "top" ELSE "flush"
    <2>1. Runs(t, l, task[t].kind, task[t].cancelled, task[t].input, task[t].ts)
      BY <1>12, RunsGoto DEF CheckPendingInput, TaskGoto
    <2>2. Works(t, l, task[t].input)
      BY <1>12, <2>1 DEF CheckPendingInput, Works, Hands
    <2> QED
      BY <2>2
  <1>13. CASE ObserveCancel(t)
    <2>1. Runs(t, "flush", task[t].kind, task[t].cancelled, {}, task[t].ts)
      BY <1>13, RunsInput DEF ObserveCancel
    <2>2. Works(t, "flush", {})
      BY <1>13, <2>1 DEF ObserveCancel, Works, Hands
    <2> QED
      BY <2>2
  <1> QED
    BY <1>3, <1>4, <1>5, <1>6, <1>7, <1>8, <1>9, <1>10, <1>11, <1>12, <1>13 DEF Work

----------------------------------------------------------------------------
(* The invariant: the steps of tasks *)

\* A new session satisfies the invariant.
LEMMA InvInit == Init => Inv
  <1> SUFFICES ASSUME Init PROVE Inv
    OBVIOUS
  <1>1. Rest \in Actor /\ Rest.pc = "rest" /\ Rest.items = {} /\ Rest.input = {}
    BY DEF Rest, Actor
  <1>2. NoTask.pc = "none" /\ NoTask.cancelled = FALSE /\ NoTask.input = {}
    BY DEF NoTask
  <1>3. NoTurn.task = 0 /\ NoTurn.ts = NoTS
    BY DEF NoTurn
  <1>4. Types
    BY <1>1, NoTaskTyped, SessionAssumption DEF Init, Types
  <1>5. LoopAlone /\ LoopInv /\ SlotInv /\ CarryInv
    BY <1>1, <1>2, <1>3, Sets DEF Init, LoopAlone, LoopInv, SlotInv, CarryInv, Claims, Stopping, Readying
  <1>6. TaskInv
    BY <1>1, <1>2, <1>3, Sets DEF Init, TaskInv, Ending, Alive, Running
  <1> QED
    BY <1>4, <1>5, <1>6 DEF Inv

\* Draining keeps the types.
LEMMA DrainTyped ==
    ASSUME Types, DrainInput
    PROVE  pend' \in [TurnStates -> SUBSET Items] /\ mailbox' \subseteq Mails
  BY DEF Types, DrainInput

\* While a task moves on, where the loop is in its turn stays so.
LEMMA TasksMove ==
    ASSUME Types, LoopInv, UNCHANGED <<actor, turnCount, terminal>>,
           active'.task = active.task, active'.ts = active.ts,
           \A u \in Turns : task[u].pc = "none" => task'[u].pc = "none",
           \A u \in Turns : task[u].pc \in Alive \cup {"ended"} => task'[u].pc \in Alive \cup {"ended"}
    PROVE  LoopInv'
  <1>1. 1..turnCount \subseteq Turns
    BY Begun
  <1>2. Claims' => actor'[Loop].turn \in 1..turnCount' /\ task'[actor'[Loop].turn].pc = "none"
    <2> SUFFICES ASSUME Claims PROVE actor[Loop].turn \in 1..turnCount /\ task'[actor[Loop].turn].pc = "none"
      BY DEF Claims
    <2>1. actor[Loop].turn \in 1..turnCount /\ task[actor[Loop].turn].pc = "none"
      BY DEF LoopInv
    <2> QED
      BY <1>1, <2>1
  <1>3. actor'[Loop].pc \in {"abCancel", "abKill"} =>
            task'[actor'[Loop].victim].pc \in Alive \cup {"ended"} /\ terminal'[actor'[Loop].victim] = 0
    BY DEF LoopInv, Stopping
  <1> QED
    BY <1>2, <1>3 DEF LoopInv

\* A task that goes on where the slot stays keeps the invariant.
LEMMA WorksInv ==
    ASSUME Inv, NEW t \in Turns, NEW l, NEW S, Works(t, l, S)
    PROVE  Inv' /\ (InputInv => InputInv')
  <1>1. Types /\ LoopAlone /\ LoopInv /\ TaskInv /\ SlotInv /\ CarryInv
    BY DEF Inv
  <1>2. /\ Runs(t, l, task[t].kind, task[t].cancelled, S, task[t].ts)
        /\ Slot(active.task, active.ts) /\ UNCHANGED <<actor, turnCount, terminal>>
        /\ task[t].pc \in Running /\ l \in Running \cup {"flush"}
        /\ S # {} => l \in {"top", "record"}
    BY <1>1 DEF Works
  <1>3. pend' \in [TurnStates -> SUBSET Items] /\ mailbox' \subseteq Mails
    BY <1>1, DrainTyped DEF Works, Types
  <1>4. Types'
    BY <1>1, <1>2, <1>3 DEF Types, Runs, Slot
  <1>5. /\ active'.task = active.task /\ active'.ts = active.ts
        /\ \A u \in Turns : u # t => task'[u] = task[u]
        /\ task'[t].pc = l /\ task'[t].cancelled = task[t].cancelled /\ task'[t].input = S
        /\ task'[t].ts = task[t].ts /\ UNCHANGED <<actor, turnCount, terminal>>
    BY <1>2 DEF Runs, Slot
  <1>6. task[t].pc \in Alive \ Ending /\ l \in Alive \ Ending /\ task[t].pc # "none" /\ l # "none"
    BY <1>2 DEF Alive, Running, Ending
  <1>7. LoopAlone' /\ CarryInv'
    BY <1>1, <1>2, <1>5 DEF LoopAlone, CarryInv, Claims
  <1>8. LoopInv'
    BY <1>1, <1>5, <1>6, TasksMove
  <1>9. TaskInv'
    <2>1. task[t].pc # "ended" /\ l \notin {"ended", "finRecord"} /\ task[t].pc \in Alive /\ l \in Alive /\ l \notin Ending
      BY <1>2, <1>6 DEF Alive, Running, Ending
    <2> QED
      BY <1>1, <1>5, <1>6, <2>1, Sets DEF TaskInv
  <1>10. SlotInv'
    BY <1>1, <1>5, <1>6, Sets DEF SlotInv
  <1>11. InputInv => PendInv'
    <2>1. \A s \in TurnStates : pend'[s] # {} => pend[s] # {}
      BY <1>1 DEF Works, DrainInput, Types
    <2> QED
      BY <1>2, <1>5, <2>1, Sets DEF InputInv, PendInv, Running
  <1>12. InputInv => KeptInv'
    <2>1. \A i \in sent : i \in history \cup discarded => i \in history' \cup discarded'
      BY DEF Works
    <2>2. \A i \in mailbox : i \in mailbox' \/ i \in task'[t].input
      BY <1>5 DEF Works, DrainInput, Drainable
    <2>3. \A s \in TurnStates : \A i \in pend[s] : i \in pend'[s] \/ i \in task'[t].input
      <3>1. active = NoTurn \/ active.ts \in TurnStates
        BY <1>1, SlotFields DEF Slots
      <3> QED
        BY <1>1, <1>5, <3>1 DEF Works, DrainInput, Drainable, Types
    <2>4. \A i \in task[t].input : i \in task'[t].input \cup history' \cup discarded'
      BY <1>1, <1>5 DEF Works, CarryInv
    <2> QED
      BY <1>5, <2>1, <2>2, <2>3, <2>4 DEF InputInv, KeptInv, Works
  <1> QED
    BY <1>4, <1>7, <1>8, <1>9, <1>10, <1>11, <1>12 DEF Inv, InputInv

\* The task looks at its token.
LEMMA CheckInv ==
    ASSUME Inv, NEW t \in Turns, FinishCheck(t)
    PROVE  Inv' /\ (InputInv => InputInv')
  <1>1. Types /\ LoopAlone /\ LoopInv /\ TaskInv /\ SlotInv /\ CarryInv
    BY DEF Inv
  <1>2. /\ task[t].pc = "flush" /\ task \in [Turns -> Task] /\ task[t].kind \in Kinds
        /\ UNCHANGED <<active, pend, mailbox, actor, turnCount, terminal, sent, history, discarded>>
    BY <1>1 DEF FinishCheck, Types, Task, Kinds, sessionVars, boundVars, itemVars, eventVars
  <1>3. PICK l \in {"ended", "finTake"} :
            /\ \E k : Runs(t, l, k, FALSE, {}, NoTS)
            /\ l = "ended" <=> task[t].cancelled
    <2>1. CASE task[t].cancelled
      BY <1>2, <2>1, RunsEnded DEF FinishCheck
    <2>2. CASE ~task[t].cancelled
      <3>1. task' = [task EXCEPT ![t] = [NoTask EXCEPT !.pc = "finTake", !.kind = task[t].kind]]
        BY <2>2, Zenon DEF FinishCheck
      <3>2. Runs(t, "finTake", task[t].kind, FALSE, {}, NoTS)
        BY <1>2, <3>1, RunsKind DEF TaskStages, Finishing
      <3> QED
        BY <2>2, <3>2
    <2> QED
      BY <2>1, <2>2
  <1>4. /\ task' \in [Turns -> Task]
        /\ \A u \in Turns : u # t => task'[u] = task[u]
        /\ task'[t].pc = l /\ task'[t].cancelled = FALSE /\ task'[t].input = {} /\ task'[t].ts = NoTS
    BY <1>3 DEF Runs
  <1>5. Types'
    BY <1>1, <1>2, <1>4 DEF Types
  <1>6. /\ task[t].pc \in Alive \ Ending /\ task[t].pc # "none"
        /\ l \in Alive \cup {"ended"} /\ l \notin Ending \cup {"none"}
        /\ l \notin Alive => l = "ended"
    BY <1>2 DEF Alive, Ending, Running
  <1>7. l \notin Alive => active.task # t /\ active.ts = NoTS
    <2>1. l \notin Alive => task[t].cancelled
      BY <1>3, <1>6
    <2>2. task[t].cancelled => actor[Loop].pc = "abKill"
      BY <1>1 DEF TaskInv
    <2>3. actor[Loop].pc = "abKill" => active.ts = NoTS
      BY <1>1 DEF LoopInv, Stopping
    <2>4. active.task = t => active.ts = <<t, 1>>
      BY <1>1 DEF TaskInv
    <2> QED
      BY <2>1, <2>2, <2>3, <2>4, Sets
  <1>8. LoopAlone' /\ CarryInv'
    BY <1>1, <1>2, <1>4 DEF LoopAlone, CarryInv, Claims
  <1>9. LoopInv'
    BY <1>1, <1>2, <1>4, <1>6 , TasksMove
  <1>10. TaskInv'
    <2>1. l \in {"none", "finRecord"} \cup Alive => l \in Alive
      BY <1>6 DEF Alive, Ending
    <2>2. task[t].pc # "ended" /\ task[t].pc \in Alive
      BY <1>2, <1>6
    <2> QED
      BY <1>1, <1>2, <1>3, <1>4, <1>6, <1>7, <2>1, <2>2, Sets DEF TaskInv
  <1>11. SlotInv'
    BY <1>1, <1>2, <1>4, <1>6, Sets DEF SlotInv
  <1>12. InputInv => PendInv'
    BY <1>2, <1>4 DEF InputInv, PendInv
  <1>13. InputInv => KeptInv'
    <2>1. task[t].input = {}
      BY <1>1, <1>2 DEF CarryInv
    <2> QED
      BY <1>2, <1>4, <2>1 DEF InputInv, KeptInv
  <1> QED
    BY <1>5, <1>8, <1>9, <1>10, <1>11, <1>12, <1>13 DEF Inv, InputInv


\* It takes what the slot holds, which is itself.
LEMMA TakeInv ==
    ASSUME Inv, NEW t \in Turns, FinishTake(t)
    PROVE  Inv' /\ (InputInv => InputInv')
  <1>1. Types /\ LoopAlone /\ LoopInv /\ TaskInv /\ SlotInv /\ CarryInv
    BY DEF Inv
  <1>2. /\ task[t].pc = "finTake" /\ task \in [Turns -> Task]
        /\ UNCHANGED <<pend, mailbox, actor, turnCount, terminal>>
    BY <1>1 DEF FinishTake, Types, boundVars, itemVars, eventVars
  <1>3. /\ task[t].pc \in Alive \ Ending /\ task[t].pc # "none" /\ task[t].pc \notin {"top", "record", "spawned"}
        /\ "ended" \notin Alive \cup Ending /\ "finRecord" \notin Alive /\ "finRecord" \in Ending
    BY <1>2 DEF Alive, Ending, Running
  <1>4. task[t].input = {}
    BY <1>1, <1>3 DEF CarryInv
  <1>5. UNCHANGED <<sent, history, discarded>>
    BY DEF FinishTake, itemVars
  <1>6. CASE active.task = 0
    <2>1. Runs(t, "ended", "regular", FALSE, {}, NoTS) /\ active' = active
      BY <1>2, <1>6, RunsEnded DEF FinishTake
    <2>2. /\ task' \in [Turns -> Task] /\ active' = active
          /\ \A u \in Turns : u # t => task'[u] = task[u]
          /\ task'[t].pc = "ended" /\ task'[t].cancelled = FALSE /\ task'[t].input = {}
      BY <2>1 DEF Runs
    <2>3. Types'
      BY <1>1, <1>2, <2>2 DEF Types
    <2>4. LoopAlone' /\ CarryInv'
      BY <1>1, <1>2, <2>2 DEF LoopAlone, CarryInv, Claims
    <2>5. LoopInv'
      BY <1>1, <1>2, <1>3, <2>2, TasksMove
    <2>6. TaskInv'
      <3>1. "ended" \notin {"none", "finRecord"} \cup Alive \cup Ending /\ active'.task # t /\ t <= turnCount
        BY <1>1, <1>2, <1>3, <1>6, <2>2, Sets DEF TaskInv, Types
      <3>2. UNCHANGED <<active, actor, turnCount, terminal>> /\ turnCount \in Nat /\ t \in Nat /\ terminal[t] <= 1
        BY <1>1, <1>2, <2>2, Sets DEF TaskInv, Types
      <3> QED
        BY <1>1, <2>2, <3>1, <3>2 DEF TaskInv
    <2>7. SlotInv'
      BY <1>1, <1>2, <1>3, <2>2, Sets DEF SlotInv
    <2>8. InputInv => PendInv' /\ KeptInv'
      BY <1>2, <1>4, <1>5, <2>2 DEF InputInv, PendInv, KeptInv
    <2> QED
      BY <2>3, <2>4, <2>5, <2>6, <2>7, <2>8 DEF Inv, InputInv
  <1>7. CASE active.task # 0
    <2>1. active.ts # NoTS
      BY <1>1, <1>7, SlotFields, Sets
    <2>2. actor[Loop].pc \notin Stopping \cup Readying
      BY <1>1, <1>7, <2>1 DEF LoopInv, Readying
    <2>3. active.task = t /\ active.ts = <<t, 1>> /\ task[t].cancelled = FALSE
      <3>1. active.task = t /\ active.ts = <<t, 1>>
        BY <1>1, <1>3, <2>2 DEF TaskInv, Stopping
      <3>2. ~task[t].cancelled /\ task[t] \in Task
        BY <1>1, <1>2, <2>2 DEF TaskInv, Stopping
      <3> QED
        BY <3>1, <3>2 DEF Task
    <2>4. /\ task' = [task EXCEPT ![t] = [@ EXCEPT !.pc = "finRecord", !.ts = active.ts]]
          /\ active' = [active EXCEPT !.task = 0]
      BY <1>7, Zenon DEF FinishTake, TakeTask
    <2>5. Runs(t, "finRecord", task[t].kind, task[t].cancelled, task[t].input, active.ts)
      BY <1>1, <1>2, <2>4, SlotFields, RunsState DEF TaskStages, Finishing
    <2>6. Slot(0, active.ts)
      BY <1>1, <2>1, <2>4, SlotTaken
    <2>7. /\ task' \in [Turns -> Task]
          /\ \A u \in Turns : u # t => task'[u] = task[u]
          /\ task'[t].pc = "finRecord" /\ task'[t].cancelled = FALSE /\ task'[t].input = {}
          /\ task'[t].ts = <<t, 1>> /\ active'.task = 0 /\ active'.ts = <<t, 1>>
      BY <1>4, <2>3, <2>5, <2>6 DEF Runs, Slot
    <2>8. Types'
      BY <1>1, <1>2, <2>6, <2>7 DEF Types, Slot
    <2>9. LoopAlone' /\ CarryInv'
      BY <1>1, <1>2, <2>7 DEF LoopAlone, CarryInv, Claims
    <2>10. LoopInv'
      <3>1. Claims' => actor'[Loop].turn \in 1..turnCount' /\ task'[actor'[Loop].turn].pc = "none"
        <4>1. Claims' => Claims
          BY <1>2 DEF Claims
        <4>2. Claims => actor[Loop].turn \in 1..turnCount /\ task[actor[Loop].turn].pc = "none"
          BY <1>1 DEF LoopInv
        <4> QED
          BY <1>1, <1>2, <1>3, <2>7, <4>1, <4>2, Begun
      <3> QED
        BY <1>2, <2>2, <3>1 DEF LoopInv, Stopping, Readying
    <2>11. TaskInv'
      BY <1>1, <1>2, <1>3, <2>3, <2>7, Sets DEF TaskInv
    <2>12. SlotInv'
      BY <1>3, <2>7 DEF SlotInv
    <2>13. InputInv => PendInv'
      BY <1>2, <2>3, <2>7 DEF InputInv, PendInv
    <2>14. InputInv => KeptInv'
      BY <1>2, <1>4, <1>5, <2>7 DEF InputInv, KeptInv
    <2> QED
      BY <2>8, <2>9, <2>10, <2>11, <2>12, <2>13, <2>14 DEF Inv, InputInv
  <1> QED
    BY <1>6, <1>7

\* It records what is left and announces its end.
LEMMA RecordInv ==
    ASSUME Inv, NEW t \in Turns, FinishRecord(t)
    PROVE  Inv' /\ (InputInv => InputInv')
  <1>1. Types /\ LoopAlone /\ LoopInv /\ TaskInv /\ SlotInv /\ CarryInv
    BY DEF Inv
  <1>2. /\ task[t].pc = "finRecord" /\ task \in [Turns -> Task] /\ task' = [task EXCEPT ![t].pc = "finClear"]
        /\ pend' = [pend EXCEPT ![task[t].ts] = {}] /\ terminal' = [terminal EXCEPT ![t] = @ + 1]
        /\ UNCHANGED <<active, mailbox, actor, turnCount, sent>>
    BY <1>1 DEF FinishRecord, TaskGoto, Types, boundVars
  <1>3. Runs(t, "finClear", task[t].kind, task[t].cancelled, task[t].input, task[t].ts)
    BY <1>2, RunsGoto DEF TaskStages, Finishing
  <1>4. /\ task' \in [Turns -> Task]
        /\ \A u \in Turns : u # t => task'[u] = task[u]
        /\ task'[t].pc = "finClear" /\ task'[t].cancelled = task[t].cancelled
        /\ task'[t].input = task[t].input /\ task'[t].ts = task[t].ts
    BY <1>3 DEF Runs
  <1>5. /\ task[t].pc \notin Alive \cup {"ended", "none"} /\ task[t].pc \in Ending
        /\ "finClear" \notin Alive \cup {"ended", "none"} /\ "finClear" \in Ending
    BY <1>2 DEF Alive, Ending, Running
  <1>6. terminal[t] = 0 /\ terminal'[t] = 1 /\ \A u \in Turns : u # t => terminal'[u] = terminal[u]
    BY <1>1, <1>2 DEF TaskInv, Types
  <1>7. Types'
    <2>1. pend' \in [TurnStates -> SUBSET Items]
      BY <1>1, <1>2 DEF Types
    <2>2. terminal' \in [Turns -> Nat]
      BY <1>1, <1>2 DEF Types
    <2> QED
      BY <1>1, <1>2, <1>4, <2>1, <2>2 DEF Types
  <1>8. LoopAlone' /\ CarryInv'
    BY <1>1, <1>2, <1>4 DEF LoopAlone, CarryInv, Claims
  <1>9. LoopInv'
    <2>1. Claims' => actor'[Loop].turn \in 1..turnCount' /\ task'[actor'[Loop].turn].pc = "none"
      <3>1. Claims' => Claims
        BY <1>2 DEF Claims
      <3>2. Claims => actor[Loop].turn \in 1..turnCount /\ task[actor[Loop].turn].pc = "none"
        BY <1>1 DEF LoopInv
      <3> QED
        BY <1>1, <1>2, <1>4, <1>5, <3>1, <3>2, Begun
    <2>2. actor'[Loop].pc \in {"abCancel", "abKill"} =>
              task'[actor'[Loop].victim].pc \in Alive \cup {"ended"} /\ terminal'[actor'[Loop].victim] = 0
      BY <1>1, <1>2, <1>4, <1>5, <1>6 DEF LoopInv, Stopping
    <2> QED
      BY <1>1, <1>2, <2>1, <2>2 DEF LoopInv
  <1>10. TaskInv'
    BY <1>1, <1>2, <1>4, <1>5, <1>6, Sets DEF TaskInv
  <1>11. SlotInv'
    BY <1>1, <1>2, <1>4, <1>5 DEF SlotInv
  <1>12. task[t].ts = <<t, 1>> /\ <<t, 1>> \in TurnStates
    BY <1>1, <1>5, Sets DEF TaskInv
  <1>13. pend'[<<t, 1>>] = {} /\ \A s \in TurnStates : s # <<t, 1>> => pend'[s] = pend[s]
    BY <1>1, <1>2, <1>12 DEF Types
  <1>14. InputInv => PendInv'
    BY <1>2, <1>4, <1>13, Sets DEF InputInv, PendInv
  <1>15. InputInv => KeptInv'
    <2>1. history \subseteq history' /\ discarded \subseteq discarded' /\ pend[<<t, 1>>] \subseteq history' \cup discarded'
      BY <1>12 DEF FinishRecord, Leftover
    <2>2. \A u \in Turns : task'[u].input = task[u].input
      BY <1>4
    <2> QED
      BY <1>2, <1>12, <1>13, <2>1, <2>2 DEF InputInv, KeptInv
  <1> QED
    BY <1>7, <1>8, <1>9, <1>10, <1>11, <1>14, <1>15 DEF Inv, InputInv

\* It gives the slot back if that is still its reservation.
LEMMA ClearInv ==
    ASSUME Inv, NEW t \in Turns, FinishClear(t)
    PROVE  Inv' /\ (InputInv => InputInv')
  <1>1. Types /\ LoopAlone /\ LoopInv /\ TaskInv /\ SlotInv /\ CarryInv
    BY DEF Inv
  <1>2. /\ task[t].pc = "finClear" /\ task \in [Turns -> Task] /\ task' = [task EXCEPT ![t] = Ended]
        /\ UNCHANGED <<pend, mailbox, turnCount, terminal, sent, history, discarded>>
    BY <1>1 DEF FinishClear, Types, boundVars, itemVars, eventVars
  <1>3. Runs(t, "ended", "regular", FALSE, {}, NoTS)
    BY <1>2, RunsEnded
  <1>4. /\ task' \in [Turns -> Task]
        /\ \A u \in Turns : u # t => task'[u] = task[u]
        /\ task'[t].pc = "ended" /\ task'[t].cancelled = FALSE /\ task'[t].input = {}
    BY <1>3 DEF Runs
  <1>5. /\ task[t].pc \notin Alive \cup {"ended", "none"} /\ "ended" \notin Alive \cup Ending \cup {"none", "finRecord"}
        /\ task[t].pc \in Ending
    BY <1>2 DEF Alive, Ending, Running
  <1>6. /\ active' \in [task : Turns \cup {0}, ts : TurnStates, next : BOOLEAN] \cup {NoTurn}
        /\ \/ active.task = 0 /\ active.ts = <<t, 1>> /\ active'.task = 0 /\ active'.ts = NoTS
           \/ active'.task = active.task /\ active'.ts = active.ts /\ active.ts # <<t, 1>>
    <2>1. task[t].ts = <<t, 1>> /\ active.task # t
      BY <1>1, <1>5 DEF TaskInv
    <2>2. CASE StillReserved(task[t].ts)
      BY <2>1, <2>2, SlotFreed DEF FinishClear, StillReserved, Slot
    <2>3. CASE ~StillReserved(task[t].ts)
      <3>1. active.ts = <<t, 1>> => active.task = t
        <4>1. \A u \in Turns : active.task = u => active.ts = <<u, 1>>
          BY <1>1 DEF TaskInv
        <4>2. active.task \in Turns \cup {0}
          BY <1>1, SlotFields
        <4> QED
          BY <2>1, <2>3, <4>1, <4>2, Sets DEF StillReserved
      <3> QED
        BY <1>1, <2>1, <2>3, <3>1, SlotSame DEF FinishClear, Slot
    <2> QED
      BY <2>2, <2>3
  <1>7. /\ actor' \in [Actors -> Actor] /\ actor'[Loop] = actor[Loop]
        /\ \A a \in Actors \ {Loop} : actor'[a].pc \in {"rest", "idle", "stopped"}
    <2>1. t \in Actors \ {Loop}
      BY Sets
    <2>2. CASE StillReserved(task[t].ts)
      <3>1. Acts(t, "idle", actor[t].turn, actor[t].kind, actor[t].input, actor[t].victim, actor[t].replace, actor[t].ts, actor[t].items)
        BY <1>1, <2>1, <2>2, ActsGoto DEF FinishClear, Goto, Types, ActorStages, Idling
      <3> QED
        BY <1>1, <2>1, <3>1, Sets DEF Acts, LoopAlone
    <2>3. CASE ~StillReserved(task[t].ts)
      BY <1>1, <2>3, Sets DEF FinishClear, LoopAlone, Types
    <2> QED
      BY <2>2, <2>3
  <1>8. Types'
    BY <1>1, <1>2, <1>4, <1>6, <1>7 DEF Types
  <1>9. LoopAlone' /\ CarryInv'
    BY <1>1, <1>2, <1>4, <1>7 DEF LoopAlone, CarryInv, Claims
  <1>10. LoopInv'
    <2>1. Claims' => actor'[Loop].turn \in 1..turnCount' /\ task'[actor'[Loop].turn].pc = "none" /\ actor[Loop].turn # t
      <3>1. Claims' => Claims
        BY <1>7 DEF Claims
      <3>2. Claims => actor[Loop].turn \in 1..turnCount /\ task[actor[Loop].turn].pc = "none"
        BY <1>1 DEF LoopInv
      <3> QED
        BY <1>1, <1>2, <1>4, <1>5, <1>7, <3>1, <3>2, Begun
    <2>2. actor'[Loop].pc \in {"abCancel", "abKill"} =>
              task'[actor'[Loop].victim].pc \in Alive \cup {"ended"} /\ terminal'[actor'[Loop].victim] = 0
      BY <1>1, <1>2, <1>4, <1>5, <1>7 DEF LoopInv, Stopping
    <2>3. Claims => actor[Loop].turn \in Turns
      BY <1>1, Begun DEF LoopInv
    <2> QED
      BY <1>1, <1>2, <1>6, <1>7, <2>1, <2>2, <2>3, Sets DEF LoopInv, Claims, Readying, Stopping
  <1>11. TaskInv'
    BY <1>1, <1>2, <1>4, <1>5, <1>6, <1>7, Sets DEF TaskInv
  <1>12. SlotInv'
    BY <1>1, <1>2, <1>4, <1>5, <1>6, <1>7, Sets DEF SlotInv
  <1>13. InputInv => PendInv'
    BY <1>2, <1>4, <1>6, <1>7, Sets DEF InputInv, PendInv
  <1>14. InputInv => KeptInv'
    <2>1. task[t].input = {}
      BY <1>1, <1>2 DEF CarryInv
    <2> QED
      BY <1>2, <1>4, <1>7, <2>1 DEF InputInv, KeptInv
  <1> QED
    BY <1>8, <1>9, <1>10, <1>11, <1>12, <1>13, <1>14 DEF Inv, InputInv

----------------------------------------------------------------------------
(* The invariant: the steps of the client and of the loop *)

\* What was only handed over, queued or recorded disturbs nothing.
LEMMA QuietInv ==
    ASSUME Inv, Slot(active.task, active.ts), UNCHANGED <<task, turnCount, terminal>>,
           pend' \in [TurnStates -> SUBSET Items], mailbox' \subseteq Mails, actor' \in [Actors -> Actor],
           actor'[Loop] = actor[Loop], \A a \in Actors \ {Loop} : actor'[a].pc \in {"rest", "idle", "stopped"}
    PROVE  Inv'
  <1>1. Types'
    BY DEF Inv, Types, Slot
  <1>2. LoopAlone' /\ CarryInv' /\ SlotInv' /\ TaskInv'
    BY DEF Inv, LoopAlone, CarryInv, Claims, SlotInv, TaskInv, Slot
  <1>3. LoopInv'
    BY DEF Inv, LoopInv, Claims, Slot
  <1> QED
    BY <1>1, <1>2, <1>3 DEF Inv

\* The loop sets off with a new turn, to an abort first.
LEMMA BeginInv ==
    ASSUME Inv, LoopReady, CanBegin, UNCHANGED <<active, pend, mailbox, task, terminal>>,
           NEW k, NEW S, k = "regular" \/ S = {}, turnCount' = FreshTurn,
           Acts(Loop, "abTake", FreshTurn, k, S, 0, TRUE, NoTS, {})
    PROVE  Inv'
  <1>1. Types /\ LoopAlone /\ LoopInv /\ TaskInv /\ SlotInv /\ CarryInv
    BY DEF Inv
  <1>2. actor[Loop].pc = "rest"
    BY DEF LoopReady
  <1>3. FreshTurn \in Turns /\ FreshTurn = turnCount + 1 /\ turnCount \in Nat
    BY <1>1, FreshIsTurn DEF Types
  <1>4. Types'
    BY <1>1, <1>3, SessionAssumption DEF Types, Acts, Turns
  <1>5. LoopAlone'
    BY <1>1 DEF LoopAlone, Acts
  <1>6. CarryInv'
    BY <1>1 DEF CarryInv, Acts, Claims
  <1>7. LoopInv'
    <2>1. task[FreshTurn].pc = "none" /\ FreshTurn \in 1..turnCount'
      BY <1>1, <1>3 DEF TaskInv
    <2> QED
      BY <2>1 DEF LoopInv, Acts, Stopping, Readying
  <1>8. TaskInv'
    <2>1. 0 \notin Turns /\ Turns \subseteq Nat
      BY Sets
    <2>2. actor'[Loop].pc = "abTake" /\ TaskInv
      BY <1>1 DEF Acts
    <2>3. \A t \in Turns : t > turnCount' => t > turnCount
      BY <1>3, <2>1
    <2>4. UNCHANGED <<active, task, terminal>>
      OBVIOUS
    <2> QED
      BY <1>2, <2>2, <2>3, <2>4, Zenon DEF TaskInv
  <1>9. SlotInv'
    BY <1>1, <1>2 DEF SlotInv, Readying
  <1> QED
    BY <1>4, <1>5, <1>6, <1>7, <1>8, <1>9 DEF Inv

\* The loop goes to a stage on which it holds nothing.
LEMMA IdleInv ==
    ASSUME Inv, actor[Loop].pc \in {"rest", "msCheck", "msReserve"},
           UNCHANGED <<active, pend, task, turnCount, terminal>>,
           mailbox' \subseteq Mails, NEW l \in {"rest", "msCheck", "msReserve", "abTake"}, NEW r \in BOOLEAN,
           NEW n, NEW k, NEW s, NEW v,
           l = "abTake" => r = FALSE, Acts(Loop, l, n, k, {}, v, r, s, {})
    PROVE  Inv'
  <1>1. Types /\ LoopAlone /\ LoopInv /\ TaskInv /\ SlotInv /\ CarryInv
    BY DEF Inv
  <1>2. actor[Loop].pc \notin Stopping \cup Readying
    BY DEF Stopping, Readying
  <1>3. l \notin Stopping \cup Readying
    BY DEF Stopping, Readying
  <1>4. Types'
    BY <1>1 DEF Types, Acts
  <1>5. LoopAlone'
    BY <1>1 DEF LoopAlone, Acts
  <1>6. CarryInv'
    BY <1>1 DEF CarryInv, Acts
  <1>7. LoopInv'
    BY <1>3 DEF LoopInv, Acts, Claims, Stopping, Readying
  <1>8. TaskInv'
    BY <1>1, <1>2, <1>3 DEF TaskInv, Acts, Stopping
  <1>9. SlotInv'
    BY <1>1, <1>2 DEF SlotInv
  <1> QED
    BY <1>4, <1>5, <1>6, <1>7, <1>8, <1>9 DEF Inv

\* The loop takes the task out of the slot, or goes on without one.
LEMMA AbortTakeInv ==
    ASSUME Inv, AbortTake(Loop)
    PROVE  Inv' /\ (InputInv => InputInv')
  <1>1. Types /\ LoopAlone /\ LoopInv /\ TaskInv /\ SlotInv /\ CarryInv
    BY DEF Inv
  <1>2. /\ actor[Loop].pc = "abTake" /\ actor \in [Actors -> Actor] /\ active' = NoTurn
        /\ UNCHANGED <<pend, mailbox, task, turnCount, terminal>>
    BY <1>1, Zenon DEF AbortTake, TakeVictim, Types, boundVars, eventVars
  <1>3. Slot(0, NoTS)
    BY <1>2, SlotFreed
  <1>4. /\ actor[Loop].pc \notin Stopping \cup Readying /\ actor[Loop].items = {}
        /\ actor[Loop].replace => Claims
        /\ actor[Loop].input # {} => actor[Loop].replace /\ actor[Loop].kind = "regular"
    BY <1>1, <1>2 DEF CarryInv, Claims, Stopping, Readying
  <1>5. UNCHANGED <<sent, history, discarded>>
    BY DEF AbortTake, itemVars
  <1>6. active.task = 0 /\ InputInv => PendInv'
    <2> SUFFICES ASSUME active.task = 0, PendInv, NEW s \in TurnStates, pend[s] # {}
                 PROVE  \E t \in Turns : task[t].pc = "finRecord" /\ s = <<t, 1>>
      BY <1>2 DEF InputInv, PendInv
    <2>1. CASE active.ts = s /\ ~\E t \in Turns : task[t].pc = "finClear" /\ s = <<t, 1>>
      BY <1>1, <1>4, <2>1, Sets DEF SlotInv, Ending
    <2> QED
      BY <1>4, <2>1 DEF PendInv
  <1>7. CASE active.task # 0
    <2>1. actor' = [actor EXCEPT ![Loop] = [@ EXCEPT !.pc = "abCancel", !.victim = active.task, !.ts = active.ts]]
      BY <1>7, Zenon DEF AbortTake, TakeVictim
    <2>2. active.task \in Turns /\ active.ts \in Slots
      BY <1>1, <1>7, SlotFields
    <2>3. Acts(Loop, "abCancel", actor[Loop].turn, actor[Loop].kind, actor[Loop].input, active.task,
               actor[Loop].replace, active.ts, actor[Loop].items)
      BY <1>2, <2>1, <2>2, Sets, ActsVictim DEF ActorStages, Aborting
    <2>4. active.ts = <<active.task, 1>> /\ task[active.task].pc \in Alive /\ terminal[active.task] = 0
      BY <1>1, <2>2 DEF TaskInv
    <2>5. Types'
      BY <1>1, <1>2, <1>3, <2>3 DEF Types, Acts, Slot
    <2>6. LoopAlone'
      BY <1>1, <2>3 DEF LoopAlone, Acts, Stopping
    <2>7. CarryInv'
      BY <1>1, <1>2, <1>4, <2>3 DEF CarryInv, Acts, Claims, Stopping
    <2>8. LoopInv'
      BY <1>1, <1>2, <1>3, <1>4, <2>2, <2>3, <2>4 DEF LoopInv, Acts, Slot, Claims, Stopping, Readying
    <2>9. TaskInv'
      <3>1. 0 \notin Turns /\ active'.task = 0
        BY <1>3, Sets DEF Slot
      <3>2. actor'[Loop].pc = "abCancel" /\ actor'[Loop].victim = active.task /\ TaskInv
        BY <1>1, <2>3 DEF Acts
      <3> QED
        BY <1>2, <2>2, <3>1, <3>2 DEF TaskInv
    <2>10. SlotInv'
      BY <1>3 DEF SlotInv, Slot
    <2>11. InputInv => PendInv'
      BY <1>2, <1>4, <2>3, Sets DEF InputInv, PendInv, Acts, Stopping
    <2>12. InputInv => KeptInv'
      BY <1>2, <1>5, <2>3 DEF InputInv, KeptInv, Acts
    <2> QED
      BY <2>5, <2>6, <2>7, <2>8, <2>9, <2>10, <2>11, <2>12 DEF Inv, InputInv
  <1>8. CASE active.task = 0 /\ actor[Loop].replace
    <2>1. actor' = [actor EXCEPT ![Loop].pc = "stDrain"]
      BY <1>8, Zenon DEF AbortTake, Goto
    <2>2. Acts(Loop, "stDrain", actor[Loop].turn, actor[Loop].kind, actor[Loop].input, actor[Loop].victim,
               actor[Loop].replace, actor[Loop].ts, actor[Loop].items)
      BY <1>2, <2>1, Sets, ActsGoto DEF ActorStages, Starting
    <2>3. Types'
      BY <1>1, <1>2, <1>3, <2>2 DEF Types, Acts, Slot
    <2>4. LoopAlone'
      BY <1>1, <2>2 DEF LoopAlone, Acts, Readying
    <2>5. CarryInv'
      BY <1>1, <1>2, <1>4, <2>2 DEF CarryInv, Acts, Claims, Readying
    <2>6. LoopInv'
      BY <1>1, <1>2, <1>3, <1>4, <1>8, <2>2 DEF LoopInv, Acts, Slot, Claims, Stopping, Readying
    <2>7. TaskInv'
      <3>1. 0 \notin Turns /\ active'.task = 0
        BY <1>3, Sets DEF Slot
      <3>2. actor'[Loop].pc = "stDrain" /\ TaskInv
        BY <1>1, <2>2 DEF Acts
      <3> QED
        BY <1>2, <1>8, <3>1, <3>2 DEF TaskInv
    <2>8. SlotInv'
      BY <1>3 DEF SlotInv, Slot
    <2>9. InputInv => KeptInv'
      BY <1>2, <1>5, <2>2 DEF InputInv, KeptInv, Acts
    <2> QED
      BY <1>8, <1>6, <2>3, <2>4, <2>5, <2>6, <2>7, <2>8, <2>9 DEF Inv, InputInv
  <1>9. CASE active.task = 0 /\ ~actor[Loop].replace
    <2>1. actor' = [actor EXCEPT ![Loop] = Rest]
      BY <1>9, Zenon DEF AbortTake, Done
    <2>2. Acts(Loop, "rest", 0, "regular", {}, 0, FALSE, NoTS, {})
      BY <1>2, <2>1, Sets, ActsRest
    <2>3. Types'
      BY <1>1, <1>2, <1>3, <2>2 DEF Types, Acts, Slot
    <2>4. LoopAlone'
      BY <1>1, <2>2 DEF LoopAlone, Acts
    <2>5. CarryInv'
      BY <1>1, <1>2, <2>2 DEF CarryInv, Acts
    <2>6. LoopInv'
      BY <2>2 DEF LoopInv, Acts, Claims, Stopping, Readying
    <2>7. TaskInv'
      BY <1>1, <1>2, <1>3, <1>9, <2>2, Sets DEF TaskInv, Acts, Slot
    <2>8. SlotInv'
      BY <1>3 DEF SlotInv, Slot
    <2>9. InputInv => KeptInv'
      BY <1>2, <1>4, <1>9, <1>5, <2>2 DEF InputInv, KeptInv, Acts
    <2> QED
      BY <1>9, <1>6, <2>3, <2>4, <2>5, <2>6, <2>7, <2>8, <2>9 DEF Inv, InputInv
  <1> QED
    BY <1>7, <1>8, <1>9

\* The victim is never cancelled twice, and its token is cancelled now.
LEMMA AbortCancelInv ==
    ASSUME Inv, AbortCancel(Loop)
    PROVE  Inv' /\ (InputInv => InputInv')
  <1>1. Types /\ LoopAlone /\ LoopInv /\ TaskInv /\ SlotInv /\ CarryInv
    BY DEF Inv
  <1> DEFINE v == actor[Loop].victim
  <1>2. /\ actor[Loop].pc = "abCancel" /\ actor \in [Actors -> Actor] /\ task \in [Turns -> Task]
        /\ task' = [task EXCEPT ![v].cancelled = TRUE]
        /\ UNCHANGED <<active, pend, mailbox, turnCount, terminal>>
    BY <1>1, Zenon DEF AbortCancel, CancelToken, Types, sessionVars, boundVars, eventVars
  <1>3. v \in Turns /\ active.ts = NoTS /\ actor[Loop].ts = <<v, 1>> /\ actor[Loop].pc \in Stopping
    BY <1>1, <1>2 DEF LoopInv, Stopping
  <1>4. ~task[v].cancelled
    BY <1>1, <1>2, <1>3 DEF TaskInv
  <1>5. actor' = [actor EXCEPT ![Loop].pc = "abKill"]
    BY <1>4, Zenon DEF AbortCancel, AlreadyCancelled, Goto
  <1>6. Acts(Loop, "abKill", actor[Loop].turn, actor[Loop].kind, actor[Loop].input, actor[Loop].victim,
             actor[Loop].replace, actor[Loop].ts, actor[Loop].items)
    BY <1>2, <1>5, Sets, ActsGoto DEF ActorStages, Aborting
  <1> HIDE DEF v
  <1>7. Runs(v, task[v].pc, task[v].kind, TRUE, task[v].input, task[v].ts)
    BY <1>2, <1>3, RunsCancelled
  <1>8. active.task = 0 /\ active = NoTurn
    BY <1>1, <1>3, SlotFields, Sets
  <1>9. v = actor[Loop].victim
    BY DEF v
  <1>10. Types'
    BY <1>1, <1>2, <1>6, <1>7 DEF Types, Acts, Runs
  <1>11. LoopAlone'
    BY <1>1, <1>6 DEF LoopAlone, Acts, Stopping
  <1>12. CarryInv'
    BY <1>1, <1>2, <1>6, <1>7 DEF CarryInv, Acts, Claims, Stopping, Readying, Runs
  <1>13. LoopInv'
    <2>1. \A u \in Turns : task'[u].pc = task[u].pc
      BY <1>7 DEF Runs
    <2>2. Claims' => actor'[Loop].turn \in 1..turnCount' /\ task'[actor'[Loop].turn].pc = "none"
      <3>1. Claims' => Claims
        BY <1>2, <1>6 DEF Claims, Acts, Stopping, Readying
      <3>2. Claims => actor[Loop].turn \in 1..turnCount /\ task[actor[Loop].turn].pc = "none"
        BY <1>1 DEF LoopInv
      <3> QED
        BY <1>1, <1>2, <1>6, <2>1, <3>1, <3>2, Begun DEF Acts
    <2>3. task[v].pc \in Alive \cup {"ended"} /\ terminal[v] = 0
      BY <1>1, <1>2, <1>9 DEF LoopInv
    <2>4. /\ actor'[Loop].pc = "abKill" /\ actor'[Loop].victim = v /\ actor'[Loop].ts = <<v, 1>>
          /\ active'.ts = NoTS /\ task'[v].pc \in Alive \cup {"ended"} /\ terminal'[v] = 0
      BY <1>2, <1>3, <1>6, <1>9, <2>1, <2>3 DEF Acts
    <2> QED
      BY <1>3, <2>2, <2>4 DEF LoopInv
  <1>14. TaskInv'
    BY <1>1, <1>2, <1>3, <1>6, <1>7, <1>8, <1>9, Sets DEF TaskInv, Acts, Runs
  <1>15. SlotInv'
    BY <1>2, <1>3 DEF SlotInv
  <1>16. InputInv => PendInv'
    BY <1>2, <1>3, <1>6, <1>7 DEF InputInv, PendInv, Acts, Runs, Stopping
  <1>17. InputInv => KeptInv'
    <2>1. UNCHANGED <<sent, history, discarded>>
      BY DEF AbortCancel, itemVars
    <2> QED
      BY <1>2, <1>6, <1>7, <2>1 DEF InputInv, KeptInv, Acts, Runs
  <1> QED
    BY <1>10, <1>11, <1>12, <1>13, <1>14, <1>15, <1>16, <1>17 DEF Inv, InputInv

\* The victim is over, and this is its only terminal event.
LEMMA AbortKillInv ==
    ASSUME Inv, AbortKill(Loop)
    PROVE  Inv' /\ (InputInv => InputInv')
  <1>1. Types /\ LoopAlone /\ LoopInv /\ TaskInv /\ SlotInv /\ CarryInv
    BY DEF Inv
  <1> DEFINE v == actor[Loop].victim
  <1>2. /\ actor[Loop].pc = "abKill" /\ actor \in [Actors -> Actor] /\ task \in [Turns -> Task]
        /\ task' = [task EXCEPT ![v] = Ended] /\ actor' = [actor EXCEPT ![Loop].pc = "abClear"]
        /\ terminal' = [terminal EXCEPT ![v] = @ + 1]
        /\ UNCHANGED <<active, pend, mailbox, turnCount>>
    BY <1>1, Zenon DEF AbortKill, Goto, Types, sessionVars, boundVars
  <1>3. /\ v \in Turns /\ active.ts = NoTS /\ actor[Loop].ts = <<v, 1>> /\ actor[Loop].pc \in Stopping
        /\ task[v].pc \in Alive \cup {"ended"} /\ terminal[v] = 0
    BY <1>1, <1>2 DEF LoopInv, Stopping
  <1>4. Acts(Loop, "abClear", actor[Loop].turn, actor[Loop].kind, actor[Loop].input, actor[Loop].victim,
             actor[Loop].replace, actor[Loop].ts, actor[Loop].items)
    BY <1>2, Sets, ActsGoto DEF ActorStages, Aborting
  <1> HIDE DEF v
  <1>5. Runs(v, "ended", "regular", FALSE, {}, NoTS)
    BY <1>2, <1>3, RunsEnded
  <1>6. /\ v = actor[Loop].victim /\ active.task = 0
        /\ "ended" \notin Alive \cup Ending \cup {"none", "finRecord"} /\ task[v].pc # "none"
    BY <1>1, <1>3, SlotFields, Sets DEF v, Alive, Ending, Running
  <1>7. terminal' \in [Turns -> Nat] /\ terminal'[v] = 1 /\ \A u \in Turns : u # v => terminal'[u] = terminal[u]
    BY <1>1, <1>2, <1>3 DEF Types
  <1>8. Types'
    BY <1>1, <1>2, <1>4, <1>5, <1>7 DEF Types, Acts, Runs
  <1>9. LoopAlone'
    BY <1>1, <1>4 DEF LoopAlone, Acts, Stopping
  <1>10. CarryInv'
    BY <1>1, <1>2, <1>4, <1>5 DEF CarryInv, Acts, Claims, Stopping, Readying, Runs
  <1>11. LoopInv'
    <2>1. Claims' => actor'[Loop].turn \in 1..turnCount' /\ task'[actor'[Loop].turn].pc = "none"
      <3>1. Claims' => Claims
        BY <1>2, <1>4 DEF Claims, Acts, Stopping, Readying
      <3>2. Claims => actor[Loop].turn \in 1..turnCount /\ task[actor[Loop].turn].pc = "none"
        BY <1>1 DEF LoopInv
      <3> QED
        BY <1>1, <1>2, <1>4, <1>5, <1>6, <3>1, <3>2, Begun DEF Acts, Runs
    <2>2. /\ actor'[Loop].pc = "abClear" /\ actor'[Loop].victim = v /\ actor'[Loop].ts = <<v, 1>> /\ active'.ts = NoTS
      BY <1>2, <1>3, <1>4, <1>6 DEF Acts
    <2> QED
      BY <1>3, <2>1, <2>2 DEF LoopInv
  <1>12. TaskInv'
    BY <1>1, <1>2, <1>3, <1>4, <1>5, <1>6, <1>7, Sets DEF TaskInv, Acts, Runs
  <1>13. SlotInv'
    BY <1>2, <1>3 DEF SlotInv
  <1>14. InputInv => PendInv'
    BY <1>2, <1>3, <1>4, <1>5, <1>6 DEF InputInv, PendInv, Acts, Runs, Stopping, Alive, Running
  <1>15. InputInv => KeptInv'
    <2>1. UNCHANGED <<sent, history>> /\ discarded' = discarded \cup task[v].input
      BY <1>6 DEF AbortKill
    <2> QED
      BY <1>2, <1>4, <1>5, <2>1 DEF InputInv, KeptInv, Acts, Runs
  <1> QED
    BY <1>8, <1>9, <1>10, <1>11, <1>12, <1>13, <1>14, <1>15 DEF Inv, InputInv

\* What the victim left is dropped; the loop goes on to the new turn, or
\* looks for work.
LEMMA AbortClearInv ==
    ASSUME Inv, AbortClear(Loop)
    PROVE  Inv' /\ (InputInv => InputInv')
  <1>1. Types /\ LoopAlone /\ LoopInv /\ TaskInv /\ SlotInv /\ CarryInv
    BY DEF Inv
  <1>2. PICK l : l = AfterAbort(Loop)
    OBVIOUS
  <1>3. /\ actor[Loop].pc = "abClear" /\ actor \in [Actors -> Actor]
        /\ pend' = [pend EXCEPT ![actor[Loop].ts] = {}]
        /\ actor' = [actor EXCEPT ![Loop] = [@ EXCEPT !.pc = l, !.victim = 0, !.ts = NoTS]]
        /\ UNCHANGED <<active, mailbox, task, turnCount, terminal>>
    BY <1>1, <1>2, Zenon DEF AbortClear, Types, boundVars, eventVars
  <1>4. active.ts = NoTS /\ active.task = 0 /\ actor[Loop].items = {}
    <2>1. active.ts = NoTS /\ actor[Loop].items = {}
      BY <1>1, <1>3 DEF LoopInv, Stopping, CarryInv
    <2> QED
      BY <1>1, <2>1, SlotFields, Sets
  <1>5. l \in {"stDrain", "msCheck"} /\ (l = "stDrain" <=> actor[Loop].replace)
    BY <1>2 DEF AfterAbort
  <1>6. Acts(Loop, l, actor[Loop].turn, actor[Loop].kind, actor[Loop].input, 0,
             actor[Loop].replace, NoTS, actor[Loop].items)
    BY <1>3, <1>5, Sets, ActsVictim DEF ActorStages, Starting, Slots
  <1>7. pend' \in [TurnStates -> SUBSET Items]
    BY <1>1, <1>3 DEF Types
  <1>8. Types'
    BY <1>1, <1>3, <1>6, <1>7 DEF Types, Acts
  <1>9. LoopAlone'
    BY <1>1, <1>5, <1>6 DEF LoopAlone, Acts, Readying
  <1>10. Claims' <=> Claims
    BY <1>3, <1>5, <1>6 DEF Claims, Acts, Stopping, Readying
  <1>11. CarryInv'
    BY <1>1, <1>3, <1>4, <1>5, <1>6, <1>10 DEF CarryInv, Acts
  <1>12. LoopInv'
    BY <1>1, <1>3, <1>4, <1>5, <1>6, <1>10 DEF LoopInv, Acts, Stopping
  <1>13. TaskInv'
    BY <1>1, <1>3, <1>4, <1>5, <1>6, Sets DEF TaskInv, Acts
  <1>14. SlotInv'
    BY <1>3, <1>4 DEF SlotInv
  <1>15. /\ UNCHANGED <<sent, history>> /\ discarded' = discarded \cup pend[actor[Loop].ts]
         /\ actor[Loop].ts \in TurnStates
    BY <1>1, <1>3, Sets DEF AbortClear, LoopInv, Stopping
  <1>16. pend'[actor[Loop].ts] = {} /\ \A s \in TurnStates : s # actor[Loop].ts => pend'[s] = pend[s]
    BY <1>1, <1>3, <1>15 DEF Types
  <1>17. InputInv => PendInv'
    BY <1>3, <1>4, <1>16, Sets DEF InputInv, PendInv
  <1>18. InputInv => KeptInv'
    BY <1>3, <1>6, <1>15, <1>16 DEF InputInv, KeptInv, Acts
  <1> QED
    BY <1>8, <1>9, <1>11, <1>12, <1>13, <1>14, <1>17, <1>18 DEF Inv, InputInv

\* The loop reserves the free slot for a turn that queued mail asks for.
LEMMA ReserveInv ==
    ASSUME Inv, PendingWorkReserve(Loop)
    PROVE  Inv' /\ (InputInv => InputInv')
  <1>1. Types /\ LoopAlone /\ LoopInv /\ TaskInv /\ SlotInv /\ CarryInv
    BY DEF Inv
  <1>2. /\ actor[Loop].pc = "msReserve" /\ actor \in [Actors -> Actor]
        /\ UNCHANGED <<pend, mailbox, task, terminal>>
    BY <1>1, Zenon DEF PendingWorkReserve, Types, eventVars
  <1>3. UNCHANGED <<sent, history, discarded>>
    BY DEF PendingWorkReserve, itemVars
  <1>4. actor[Loop].input = {} /\ actor[Loop].items = {}
    BY <1>1, <1>2 DEF CarryInv, Claims, Stopping, Readying
  <1>5. CASE active # NoTurn
    <2>1. actor' = [actor EXCEPT ![Loop] = Rest] /\ UNCHANGED <<active, turnCount>>
      BY <1>5, Zenon DEF PendingWorkReserve, Done
    <2>2. Acts(Loop, "rest", 0, "regular", {}, 0, FALSE, NoTS, {})
      BY <1>2, <2>1, Sets, ActsRest
    <2>3. mailbox' \subseteq Mails
      BY <1>1, <1>2 DEF Types
    <2>4. Inv'
      BY <1>2, <2>1, <2>2, <2>3, IdleInv
    <2>5. InputInv => PendInv' /\ KeptInv'
      BY <1>2, <1>3, <1>4, <2>1, <2>2 DEF InputInv, PendInv, KeptInv, Acts, Stopping
    <2> QED
      BY <2>4, <2>5 DEF InputInv
  <1>6. CASE active = NoTurn
    <2> DEFINE n == FreshTurn
    <2>1. CanBegin /\ Reserve(n) /\ turnCount' = n /\ actor' = [actor EXCEPT ![Loop] = [@ EXCEPT !.pc = "stDrain", !.turn = n]]
      BY <1>6, Zenon DEF PendingWorkReserve
    <2>2. n \in Turns /\ n = turnCount + 1 /\ turnCount \in Nat
      BY <1>1, <2>1, FreshIsTurn DEF Types
    <2> HIDE DEF n
    <2>3. Acts(Loop, "stDrain", n, actor[Loop].kind, actor[Loop].input, actor[Loop].victim,
               actor[Loop].replace, actor[Loop].ts, actor[Loop].items)
      BY <1>2, <2>1, <2>2, Sets, ActsTurn DEF ActorStages, Starting
    <2>4. Slot(0, <<n, 1>>)
      BY <2>1, <2>2, SlotReserved
    <2>5. actor[Loop].input = {} /\ actor[Loop].items = {} /\ active.task = 0 /\ active.ts = NoTS
      BY <1>6, <1>4 DEF NoTurn
    <2>6. Types'
      BY <1>1, <1>2, <2>1, <2>2, <2>3, <2>4, SessionAssumption DEF Types, Acts, Slot, Turns
    <2>7. LoopAlone'
      BY <1>1, <2>3 DEF LoopAlone, Acts, Readying
    <2>8. CarryInv'
      BY <1>1, <1>2, <2>3, <2>5 DEF CarryInv, Acts
    <2>9. LoopInv'
      <3>1. task[n].pc = "none" /\ n \in 1..turnCount'
        BY <1>1, <2>1, <2>2 DEF TaskInv
      <3> QED
        BY <1>2, <2>3, <2>4, <3>1 DEF LoopInv, Acts, Slot, Stopping
    <2>10. TaskInv'
      BY <1>1, <1>2, <2>1, <2>2, <2>3, <2>4, <2>5, Sets DEF TaskInv, Acts, Slot
    <2>11. SlotInv'
      BY <2>3 DEF SlotInv, Acts, Readying
    <2>12. InputInv => PendInv'
      BY <1>2, <2>5, Sets DEF InputInv, PendInv, Stopping
    <2>13. InputInv => KeptInv'
      BY <1>2, <1>3, <2>3 DEF InputInv, KeptInv, Acts
    <2> QED
      BY <2>6, <2>7, <2>8, <2>9, <2>10, <2>11, <2>12, <2>13 DEF Inv, InputInv
  <1> QED
    BY <1>5, <1>6

\* The loop on its way to the new task: with what it drained, into its
\* reservation.
LEMMA ReadyInv ==
    ASSUME Inv, UNCHANGED <<task, turnCount, terminal>>, pend' \in [TurnStates -> SUBSET Items],
           mailbox' \subseteq Mails, NEW l \in {"stReserve", "stExtend", "stInstall"}, NEW s, NEW S,
           actor[Loop].pc \in Readying, S # {} => l # "stInstall", NEW w, Slot(0, w),
           l = "stReserve" => w = active.ts /\ actor[Loop].pc = "stDrain",
           l # "stReserve" => w = <<actor[Loop].turn, 1>> /\ s = w,
           Acts(Loop, l, actor[Loop].turn, actor[Loop].kind, actor[Loop].input, actor[Loop].victim,
                actor[Loop].replace, s, S)
    PROVE  Inv'
  <1>1. Types /\ LoopAlone /\ LoopInv /\ TaskInv /\ SlotInv /\ CarryInv
    BY DEF Inv
  <1>2. /\ l \in Readying /\ l \notin Stopping /\ actor[Loop].pc \notin Stopping \cup {"abTake"}
        /\ l \notin {"abCancel", "abKill", "stDrain"}
    BY DEF Readying, Stopping
  <1>3. Claims /\ Claims'
    BY <1>2 DEF Claims, Acts
  <1>4. active.task = 0
    BY <1>1 DEF LoopInv, Readying
  <1>5. Types'
    BY <1>1 DEF Types, Acts, Slot
  <1>6. LoopAlone'
    BY <1>1, <1>2 DEF LoopAlone, Acts
  <1>7. CarryInv'
    BY <1>1, <1>3 DEF CarryInv, Acts
  <1>8. LoopInv'
    BY <1>1, <1>2, <1>3 DEF LoopInv, Acts, Slot
  <1>9. TaskInv'
    BY <1>1, <1>2, <1>4, Sets DEF TaskInv, Acts, Slot, Stopping
  <1>10. SlotInv'
    BY <1>2 DEF SlotInv, Acts
  <1> QED
    BY <1>5, <1>6, <1>7, <1>8, <1>9, <1>10 DEF Inv

\* start_task keeps the invariant up to the moment it installs the task.
LEMMA StartInv ==
    ASSUME Inv, StartDrain(Loop) \/ StartReserve(Loop) \/ StartExtend(Loop)
    PROVE  Inv' /\ (InputInv => InputInv')
  <1>1. Types /\ LoopInv /\ CarryInv /\ actor \in [Actors -> Actor]
    BY DEF Inv, Types
  <1>2. UNCHANGED <<sent, history, discarded>> /\ actor[Loop].pc \notin Stopping
    BY DEF StartDrain, StartReserve, StartExtend, itemVars, Stopping
  <1>3. CASE StartDrain(Loop)
    <2>1. /\ actor[Loop].pc = "stDrain" /\ DrainInput /\ UNCHANGED <<active, task, turnCount, terminal>>
          /\ actor' = [actor EXCEPT ![Loop] = [@ EXCEPT !.pc = "stReserve", !.items = Drainable]]
      BY <1>3, Zenon DEF StartDrain, boundVars, eventVars
    <2>2. Drainable \in SUBSET Items
      BY <1>1, SlotFields, Sets DEF Drainable, Types, TakesMail, Slots
    <2>3. Acts(Loop, "stReserve", actor[Loop].turn, actor[Loop].kind, actor[Loop].input, actor[Loop].victim,
               actor[Loop].replace, actor[Loop].ts, Drainable)
      BY <1>1, <2>1, <2>2, Sets, ActsItems DEF ActorStages, Starting
    <2>4. Slot(0, active.ts) /\ actor[Loop].pc \in Readying
      BY <1>1, <2>1, SlotSame DEF LoopInv, Readying
    <2>5. pend' \in [TurnStates -> SUBSET Items] /\ mailbox' \subseteq Mails
      BY <1>1, <2>1, DrainTyped
    <2>6. Inv'
      BY <2>1, <2>3, <2>4, <2>5, ReadyInv
    <2>7. /\ \A s \in TurnStates : pend'[s] \subseteq pend[s] /\ pend[s] \subseteq pend'[s] \cup Drainable
          /\ mailbox \subseteq mailbox' \cup Drainable
      <3>1. active = NoTurn \/ active.ts \in TurnStates
        BY <1>1, SlotFields DEF Slots
      <3> QED
        BY <1>1, <2>1, <3>1 DEF DrainInput, Drainable, Types
    <2>8. InputInv => PendInv'
      BY <1>2, <2>1, <2>7 DEF InputInv, PendInv
    <2>9. InputInv => KeptInv'
      <3>1. actor[Loop].items = {}
        BY <1>1, <2>1 DEF CarryInv
      <3> QED
        BY <1>2, <2>1, <2>3, <2>7, <3>1 DEF InputInv, KeptInv, Acts
    <2> QED
      BY <2>6, <2>8, <2>9 DEF InputInv
  <1>4. CASE StartReserve(Loop)
    <2> DEFINE w == <<actor[Loop].turn, 1>>
    <2>1. actor[Loop].pc = "stReserve" /\ UNCHANGED <<pend, mailbox, task, turnCount, terminal>>
      BY <1>4, Zenon DEF StartReserve, boundVars, eventVars
    <2>2. active.task = 0 /\ active.ts \in {NoTS, w} /\ actor[Loop].turn \in Turns /\ actor[Loop].pc \in Readying
      BY <1>1, <2>1, Begun DEF LoopInv, Claims, Readying
    <2>3. Slot(0, w) /\ w \in Slots
      <3>1. CASE active = NoTurn
        <4>1. Reserve(actor[Loop].turn)
          BY <1>4, <3>1, Zenon DEF StartReserve
        <4> QED
          BY <2>2, <4>1, SlotReserved, Sets DEF Slots
      <3>2. CASE active # NoTurn
        <4>1. active' = active
          BY <1>4, <3>2, Zenon DEF StartReserve
        <4> QED
          BY <1>1, <2>2, <3>2, <4>1, SlotSame, SlotFields
      <3> QED
        BY <3>1, <3>2
    <2>4. actor' = [actor EXCEPT ![Loop] = [@ EXCEPT !.pc = "stExtend", !.ts = w]]
      <3>1. actor' = [actor EXCEPT ![Loop] = [@ EXCEPT !.pc = "stExtend", !.ts = active'.ts]]
        BY <1>4, Zenon DEF StartReserve
      <3> QED
        BY <2>3, <3>1 DEF Slot
    <2> HIDE DEF w
    <2>5. Acts(Loop, "stExtend", actor[Loop].turn, actor[Loop].kind, actor[Loop].input, actor[Loop].victim,
               actor[Loop].replace, w, actor[Loop].items)
      BY <1>1, <2>3, <2>4, Sets, ActsState DEF ActorStages, Starting
    <2>6. pend' \in [TurnStates -> SUBSET Items] /\ mailbox' \subseteq Mails /\ w = <<actor[Loop].turn, 1>>
      BY <1>1, <2>1 DEF Types, w
    <2>7. Inv'
      BY <2>1, <2>2, <2>3, <2>5, <2>6, ReadyInv
    <2>8. InputInv => PendInv'
      BY <1>2, <2>1, <2>2, <2>3, Sets DEF InputInv, PendInv, Slot
    <2>9. InputInv => KeptInv'
      BY <1>2, <2>1, <2>5 DEF InputInv, KeptInv, Acts
    <2> QED
      BY <2>7, <2>8, <2>9 DEF InputInv
  <1>5. CASE StartExtend(Loop)
    <2>1. /\ actor[Loop].pc = "stExtend" /\ UNCHANGED <<active, mailbox, task, turnCount, terminal>>
          /\ pend' = [pend EXCEPT ![actor[Loop].ts] = @ \cup actor[Loop].items]
          /\ actor' = [actor EXCEPT ![Loop] = [@ EXCEPT !.pc = "stInstall", !.items = {}]]
      BY <1>5, Zenon DEF StartExtend, boundVars, eventVars
    <2>2. /\ active.task = 0 /\ active.ts = <<actor[Loop].turn, 1>> /\ actor[Loop].ts = active.ts
          /\ actor[Loop].pc \in Readying
      BY <1>1, <2>1 DEF LoopInv, Readying
    <2>3. Acts(Loop, "stInstall", actor[Loop].turn, actor[Loop].kind, actor[Loop].input, actor[Loop].victim,
               actor[Loop].replace, actor[Loop].ts, {})
      BY <1>1, <2>1, Sets, ActsItems DEF ActorStages, Starting
    <2>4. actor[Loop].items \in SUBSET Items
      <3>1. actor[Loop] \in Actor
        BY <1>1, Sets
      <3> QED
        BY <3>1 DEF Actor
    <2>5. pend' \in [TurnStates -> SUBSET Items] /\ mailbox' \subseteq Mails
      BY <1>1, <2>1, <2>4 DEF Types
    <2>6. Slot(0, active.ts)
      BY <1>1, <2>1, <2>2, SlotSame
    <2>7. Inv'
      BY <2>1, <2>2, <2>3, <2>5, <2>6, ReadyInv
    <2>8. actor[Loop].turn \in Turns /\ task[actor[Loop].turn].pc = "none"
      BY <1>1, <2>2, Begun DEF LoopInv, Claims
    <2>9. /\ active.ts \in TurnStates /\ pend'[active.ts] = pend[active.ts] \cup actor[Loop].items
          /\ \A s \in TurnStates : s # active.ts => pend'[s] = pend[s]
      BY <1>1, <2>1, <2>2, <2>8, Sets DEF Types
    <2>10. InputInv => PendInv'
      BY <1>2, <2>1, <2>2, <2>8, <2>9, Sets DEF InputInv, PendInv
    <2>11. InputInv => KeptInv'
      BY <1>2, <2>1, <2>3, <2>9 DEF InputInv, KeptInv, Acts
    <2> QED
      BY <2>7, <2>10, <2>11 DEF InputInv
  <1> QED
    BY <1>3, <1>4, <1>5

\* The task is installed in the loop's own reservation.
LEMMA InstallInv ==
    ASSUME Inv, StartInstall(Loop)
    PROVE  Inv' /\ (InputInv => InputInv')
  <1>1. Types /\ LoopAlone /\ LoopInv /\ TaskInv /\ SlotInv /\ CarryInv
    BY DEF Inv
  <1> DEFINE t == actor[Loop].turn
             new == [NoTask EXCEPT !.pc = "spawned", !.kind = actor[Loop].kind, !.input = actor[Loop].input]
  <1>2. /\ actor[Loop].pc = "stInstall" /\ actor' = [actor EXCEPT ![Loop] = Rest]
        /\ UNCHANGED <<pend, mailbox, turnCount, terminal>>
        /\ task' = [u \in Turns |-> IF u = t THEN new ELSE IF u = active.task THEN Ended ELSE task[u]]
    BY Zenon DEF StartInstall, Done, boundVars, eventVars
  <1>3. /\ t \in Turns /\ task[t].pc = "none" /\ t \in 1..turnCount
        /\ active.task = 0 /\ active.ts = <<t, 1>> /\ active # NoTurn
    <2>1. Claims
      BY <1>2 DEF Claims, Readying
    <2>2. active.task = 0 /\ active.ts = <<t, 1>> /\ t \in 1..turnCount /\ task[t].pc = "none"
      BY <1>1, <1>2, <2>1 DEF LoopInv
    <2>3. t \in Turns
      BY <1>1, <2>2, Begun
    <2> QED
      BY <1>1, <2>2, <2>3, SlotFields, Sets
  <1>4. active' = [active EXCEPT !.task = t]
    BY <1>3, Zenon DEF StartInstall
  <1>5. Slot(t, <<t, 1>>)
    BY <1>1, <1>3, <1>4, SlotTaken, Sets
  <1>6. /\ new \in Task /\ new.pc = "spawned" /\ new.cancelled = FALSE
        /\ new.kind = actor[Loop].kind /\ new.input = actor[Loop].input /\ new.ts = NoTS
    <2>1. actor[Loop] \in Actor
      BY <1>1, Sets DEF Types
    <2>2. actor[Loop].kind \in {"regular"} \cup AuxKinds /\ actor[Loop].input \in SUBSET Items
      BY <2>1 DEF Actor
    <2>3. new \in Task
      BY <2>2, NoTaskTyped DEF Task, Running
    <2> QED
      BY <2>3 DEF NoTask
  <1>7. Acts(Loop, "rest", 0, "regular", {}, 0, FALSE, NoTS, {})
    BY <1>1, <1>2, Sets, ActsRest DEF Types
  <1> HIDE DEF t, new
  <1>8. /\ task' \in [Turns -> Task] /\ \A u \in Turns : u # t => task'[u] = task[u]
        /\ task'[t] = new
    BY <1>1, <1>2, <1>3, <1>6, Sets DEF Types
  <1>9. Types'
    BY <1>1, <1>2, <1>5, <1>7, <1>8 DEF Types, Acts, Slot
  <1>10. LoopAlone'
    BY <1>1, <1>7 DEF LoopAlone, Acts
  <1>11. CarryInv'
    BY <1>1, <1>2, <1>3, <1>6, <1>7, <1>8 DEF CarryInv, Acts
  <1>12. LoopInv'
    BY <1>7 DEF LoopInv, Acts, Claims, Stopping, Readying
  <1>13. TaskInv'
    <2>1. "spawned" \in Alive /\ "spawned" \notin Ending /\ terminal[t] = 0 /\ t <= turnCount
      BY <1>1, <1>3 DEF TaskInv, Alive, Ending, Running
    <2>2. actor[Loop].pc = "stInstall" /\ active'.task = t /\ active'.ts = <<t, 1>>
      BY <1>2, <1>5 DEF Slot
    <2>3. /\ task'[t].pc = "spawned" /\ task'[t].cancelled = FALSE
          /\ \A u \in Turns : u # t => task'[u] = task[u]
          /\ UNCHANGED <<turnCount, terminal>>
      BY <1>2, <1>6, <1>8
    <2>4. \A u \in Turns : u # t => active.task # u /\ active'.task # u /\ task[u].pc \notin Alive /\ ~task[u].cancelled
      BY <1>1, <1>3, <2>2, Sets DEF TaskInv
    <2>5. t \in Nat /\ turnCount \in Nat
      BY <1>1, <1>3, Sets DEF Types
    <2>6. SUFFICES ASSUME NEW u \in Turns
                   PROVE  /\ u > turnCount => task'[u].pc = "none"
                          /\ active'.task = u => task'[u].pc \in Alive /\ active'.ts = <<u, 1>>
                          /\ ~task'[u].cancelled
                          /\ task'[u].pc \in Alive => active'.task = u
                          /\ task'[u].pc \in Ending => task'[u].ts = <<u, 1>>
                          /\ terminal[u] <= 1
                          /\ task'[u].pc \in {"none", "finRecord"} \cup Alive => terminal[u] = 0
      BY <1>7, <2>3 DEF TaskInv, Acts
    <2>7. CASE u = t
      BY <2>1, <2>2, <2>3, <2>5, <2>7
    <2>8. CASE u # t
      BY <1>1, <2>3, <2>4, <2>8 DEF TaskInv
    <2> QED
      BY <2>7, <2>8
  <1>14. SlotInv'
    BY <1>3, <1>5, Sets DEF SlotInv, Slot
  <1>15. InputInv => PendInv'
    BY <1>2, <1>3, <1>5, <1>6, <1>8, Sets DEF InputInv, PendInv, Slot, Stopping
  <1>16. InputInv => KeptInv'
    <2>1. UNCHANGED <<sent, history, discarded>> /\ actor[Loop].items = {} /\ task[t].input = {}
      BY <1>1, <1>2, <1>3 DEF StartInstall, itemVars, CarryInv
    <2> QED
      BY <1>2, <1>3, <1>6, <1>8, <2>1 DEF InputInv, KeptInv
  <1> QED
    BY <1>9, <1>10, <1>11, <1>12, <1>13, <1>14, <1>15, <1>16 DEF Inv, InputInv

\* What the client asks for keeps the invariant.
LEMMA ClientInv ==
    ASSUME Inv, ClientOnly, ClientOp
    PROVE  Inv'
  <1>1. Types /\ LoopAlone /\ LoopInv /\ TaskInv /\ CarryInv /\ actor \in [Actors -> Actor]
    BY DEF Inv, Types
  <1>2. Slot(active.task, active.ts) \/ active' # active
    BY <1>1, SlotSame
  <1>3. \A a \in Actors \ {Loop} : actor[a].pc \in {"rest", "idle", "stopped"}
    BY <1>1 DEF LoopAlone
  <1>4. actor[Loop].pc = "rest" => actor[Loop].input = {} /\ actor[Loop].items = {}
    BY <1>1 DEF CarryInv, Claims, Stopping, Readying
  <1>5. pend \in [TurnStates -> SUBSET Items] /\ mailbox \subseteq Mails
    BY <1>1 DEF Types
  <1>6. ASSUME NEW m \in Items, Steerable, Steer(m) PROVE Slot(active.task, active.ts) /\ pend' \in [TurnStates -> SUBSET Items]
    <2>1. active.ts # NoTS /\ active.ts \in TurnStates
      BY <1>1, <1>6, SlotFields, Sets DEF Steerable
    <2>2. Slot(active.task, active.ts)
      BY <1>1, <1>6, <2>1, SlotNext DEF Steer
    <2> QED
      BY <1>5, <1>6, <2>1, <2>2 DEF Steer
  <1>7. ASSUME NEW m \in UserMsgs, UserInput(m) PROVE Inv'
    <2>1. LoopReady /\ UNCHANGED <<mailbox, task, terminal>> /\ m \in Items
      BY <1>7, Sets DEF UserInput, UserInputOrTurn, eventVars
    <2>2. CASE Steerable /\ Steer(m) /\ UNCHANGED <<actor, turnCount, discarded>>
      BY <1>1, <1>3, <1>5, <1>6, <2>1, <2>2, QuietInv
    <2>3. CASE /\ CanBegin /\ turnCount' = FreshTurn
               /\ actor' = [actor EXCEPT ![Loop] = [Rest EXCEPT !.pc = SpawnTask, !.replace = TRUE,
                                                               !.turn = FreshTurn, !.input = {m}]]
               /\ UNCHANGED <<active, pend, discarded>>
      <3>1. FreshTurn \in Turns
        BY <1>1, <2>3, FreshIsTurn DEF Types
      <3>2. Acts(Loop, "abTake", FreshTurn, "regular", {m}, 0, TRUE, NoTS, {})
        BY <1>1, <2>1, <2>3, <3>1, ActsInput, Sets DEF SpawnTask, ActorStages, Aborting
      <3> QED
        BY <2>1, <2>3, <3>2, BeginInv
    <2>4. CASE UNCHANGED <<active, pend, actor, turnCount>>
      BY <1>1, <1>2, <1>3, <1>5, <2>1, <2>4, QuietInv
    <2> QED
      BY <1>7, <2>2, <2>3, <2>4, Zenon DEF UserInput, UserInputOrTurn
  <1>8. ASSUME NEW m \in UserMsgs, ExternalSteer(m) PROVE Inv'
    <2>1. Steerable /\ Steer(m) /\ UNCHANGED <<mailbox, task, actor, turnCount, terminal>> /\ m \in Items
      BY <1>8, Sets DEF ExternalSteer, boundVars, eventVars
    <2> QED
      BY <1>1, <1>3, <1>5, <1>6, <2>1, QuietInv
  <1>9. ASSUME NEW k \in AuxKinds, SpawnAux(k) PROVE Inv'
    <2>1. LoopReady /\ CanBegin /\ UNCHANGED <<active, pend, mailbox, task, terminal>>
      BY <1>9 DEF SpawnAux, sessionVars, eventVars
    <2>2. CASE UNCHANGED <<actor, turnCount>>
      BY <1>1, <1>2, <1>3, <1>5, <2>1, <2>2, QuietInv
    <2>3. CASE /\ actor' = [actor EXCEPT ![Loop] = [Rest EXCEPT !.pc = SpawnTask, !.replace = TRUE,
                                                               !.turn = FreshTurn, !.kind = k]]
               /\ turnCount' = FreshTurn
      <3>1. FreshTurn \in Turns
        BY <1>1, <2>1, FreshIsTurn DEF Types
      <3>2. Acts(Loop, "abTake", FreshTurn, k, {}, 0, TRUE, NoTS, {})
        BY <1>1, <1>9, <2>3, <3>1, ActsKind, Sets DEF SpawnTask, ActorStages, Aborting, Kinds
      <3> QED
        BY <2>1, <2>3, <3>2, BeginInv
    <2> QED
      BY <1>9, <2>2, <2>3, Zenon DEF SpawnAux
  <1>10. ASSUME Interrupt \/ Shutdown PROVE Inv'
    <2>1. /\ LoopReady /\ UNCHANGED <<active, pend, mailbox, task, turnCount, terminal>>
          /\ actor' = [actor EXCEPT ![Loop] = [Rest EXCEPT !.pc = "abTake"]]
      BY <1>10 DEF Interrupt, Shutdown, sessionVars, boundVars, eventVars
    <2>2. Acts(Loop, "abTake", 0, "regular", {}, 0, FALSE, NoTS, {})
      BY <1>1, <2>1, ActsFresh, Sets DEF ActorStages, Aborting
    <2> QED
      BY <1>5, <2>1, <2>2, IdleInv DEF LoopReady
  <1>11. ASSUME NEW m \in Mails, Mail(m) PROVE Inv'
    <2>1. /\ LoopReady /\ UNCHANGED <<active, pend, task, turnCount, terminal>>
          /\ mailbox' = mailbox \cup {m}
      BY <1>11 DEF Mail, boundVars, eventVars
    <2>2. CASE UNCHANGED actor
      BY <1>1, <1>2, <1>3, <1>5, <1>11, <2>1, <2>2, QuietInv
    <2>3. CASE actor' = [actor EXCEPT ![Loop].pc = "msCheck"]
      <3>1. Acts(Loop, "msCheck", actor[Loop].turn, actor[Loop].kind, actor[Loop].input, actor[Loop].victim,
                 actor[Loop].replace, actor[Loop].ts, actor[Loop].items)
        BY <1>1, <2>3, ActsGoto, Sets DEF ActorStages, Starting
      <3>2. actor[Loop].replace \in BOOLEAN
        <4>1. actor[Loop] \in Actor
          BY <1>1, Sets
        <4> QED
          BY <4>1 DEF Actor
      <3>3. Acts(Loop, "msCheck", actor[Loop].turn, actor[Loop].kind, {}, actor[Loop].victim,
                 actor[Loop].replace, actor[Loop].ts, {})
        BY <1>4, <2>1, <3>1 DEF LoopReady
      <3>4. mailbox' \subseteq Mails /\ actor[Loop].pc = "rest"
        BY <1>5, <1>11, <2>1 DEF LoopReady
      <3> QED
        BY <2>1, <3>2, <3>3, <3>4, IdleInv
    <2> QED
      BY <1>11, <2>2, <2>3, Zenon DEF Mail, Goto
  <1>12. ASSUME NEW i \in Injected, Inject(i) PROVE Inv'
    <2>1. /\ UNCHANGED <<active, mailbox, task, actor, turnCount, terminal>> /\ i \in Items
          /\ pend' = pend \/ pend' = [pend EXCEPT ![active.ts] = @ \cup {i}]
      BY <1>12, Sets DEF Inject, boundVars, eventVars
    <2>2. pend' \in [TurnStates -> SUBSET Items]
      BY <1>5, <2>1
    <2> QED
      BY <1>1, <1>2, <1>3, <1>5, <2>1, <2>2, QuietInv
  <1>13. ASSUME AppServerIdle PROVE Inv'
    <2>1. /\ UNCHANGED <<active, pend, mailbox, task, turnCount, terminal>>
          /\ actor' = [actor EXCEPT ![AppServer].pc = "idle"]
      BY <1>13 DEF AppServerIdle, Goto, sessionVars, boundVars, eventVars
    <2>2. Acts(AppServer, "idle", actor[AppServer].turn, actor[AppServer].kind, actor[AppServer].input,
               actor[AppServer].victim, actor[AppServer].replace, actor[AppServer].ts, actor[AppServer].items)
      BY <1>1, <2>1, ActsGoto, Sets DEF ActorStages, Idling
    <2>3. /\ actor' \in [Actors -> Actor] /\ actor'[Loop] = actor[Loop]
          /\ \A a \in Actors \ {Loop} : actor'[a].pc \in {"rest", "idle", "stopped"}
      BY <1>3, <2>2, Sets DEF Acts
    <2> QED
      BY <1>2, <1>5, <2>1, <2>3, QuietInv
  <1>14. ASSUME RealtimeStop PROVE Inv'
    <2>1. /\ UNCHANGED <<active, pend, mailbox, turnCount, terminal, sent, history>>
          /\ discarded \subseteq discarded'
      BY <1>14 DEF RealtimeStop, sessionVars, boundVars, eventVars
    <2>2. task' = task
      <3>1. actor[Realtime].pc \notin {"abCancel", "abKill"}
        BY <1>1, RealtimeApart DEF LoopAlone
      <3>2. task' = [t \in Turns |-> task[t]]
        BY <1>14, <3>1 DEF RealtimeStop
      <3> QED
        BY <1>1, <3>2 DEF Types
    <2>3. PICK l \in {"rest", "stopped"} : actor' = [actor EXCEPT ![Realtime] = [Rest EXCEPT !.pc = l]]
      BY <1>14 DEF RealtimeStop
    <2>4. Acts(Realtime, l, 0, "regular", {}, 0, FALSE, NoTS, {})
      BY <1>1, <2>3, ActsFresh, RealtimeApart DEF ActorStages
    <2>5. /\ actor' \in [Actors -> Actor] /\ actor'[Loop] = actor[Loop]
          /\ \A a \in Actors \ {Loop} : actor'[a].pc \in {"rest", "idle", "stopped"}
      BY <1>3, <2>4, Sets, RealtimeApart DEF Acts
    <2> QED
      BY <1>2, <1>5, <2>1, <2>2, <2>5, QuietInv
  <1>15. ~GuardianTrip /\ ~\E m \in Routed : RouteText(m)
    BY DEF GuardianTrip, ClientOnly
  <1> QED
    BY <1>7, <1>8, <1>9, <1>10, <1>11, <1>12, <1>13, <1>14, <1>15 DEF ClientOp

\* Everybody but the loop at most asks whether the thread is idle.
LEMMA OthersInv ==
    ASSUME Inv, ClientOnly, NEW a \in Actors, a # Loop, ActorStep(a)
    PROVE  Inv' /\ (InputInv => InputInv')
  <1>1. Types /\ LoopAlone
    BY DEF Inv
  <1>2. actor[a].pc \in {"rest", "idle", "stopped"} /\ actor \in [Actors -> Actor]
    BY <1>1 DEF LoopAlone, Types
  <1>3. Idle(a)
    BY <1>2, Zenon DEF ActorStep, AbortTake, AbortCancel, AbortKill, AbortClear, PendingWorkCheck,
       PendingWorkReserve, StartDrain, StartReserve, StartExtend, StartInstall, TryStartReserve,
       TryStartRecheck, TryStartClear, TryStartExtend
  <1>4. /\ actor' = [actor EXCEPT ![a] = Rest]
        /\ UNCHANGED <<active, pend, mailbox, task, turnCount, terminal, sent, history, discarded>>
    BY <1>3 DEF Idle, Done, ClientOnly, sessionVars, boundVars, itemVars, eventVars
  <1>5. Acts(a, "rest", 0, "regular", {}, 0, FALSE, NoTS, {})
    BY <1>2, <1>4, ActsRest
  <1>6. /\ actor' \in [Actors -> Actor] /\ actor'[Loop] = actor[Loop]
        /\ \A b \in Actors \ {Loop} : actor'[b].pc \in {"rest", "idle", "stopped"}
    BY <1>1, <1>5, Sets DEF Acts, LoopAlone
  <1>7. /\ Slot(active.task, active.ts) /\ pend' \in [TurnStates -> SUBSET Items]
        /\ mailbox' \subseteq Mails
    BY <1>1, <1>4, SlotSame DEF Types
  <1>8. Inv'
    BY <1>4, <1>6, <1>7, QuietInv
  <1>9. InputInv => InputInv'
    BY <1>4, <1>6 DEF InputInv, PendInv, KeptInv
  <1> QED
    BY <1>8, <1>9

\* A client's input is accepted only to be kept, and nothing of it is lost.
LEMMA ClientInput ==
    ASSUME Inv, InputInv, ClientOnly, Injected = {}, ClientOp
    PROVE  InputInv'
  <1>1. Types /\ LoopAlone /\ TaskInv /\ CarryInv /\ actor \in [Actors -> Actor]
    BY DEF Inv, Types
  <1>2. PendInv /\ KeptInv
    BY DEF InputInv
  <1>3. LoopReady => /\ actor[Loop].input = {} /\ actor[Loop].items = {} /\ actor[Loop].pc \notin Stopping
    BY <1>1 DEF LoopReady, CarryInv, Claims, Stopping, Readying
  <1>4. ASSUME NEW m \in Items, Steerable, Steer(m)
        PROVE  /\ active.ts \in TurnStates /\ active'.ts = active.ts
               /\ ~\E t \in Turns : task[t].pc = "finClear" /\ active.ts = <<t, 1>>
               /\ m \in pend'[active.ts] /\ pend[active.ts] \subseteq pend'[active.ts]
               /\ \A s \in TurnStates : s # active.ts => pend'[s] = pend[s]
    <2>1. active.task \in Turns /\ active.ts \in TurnStates /\ active.ts # NoTS
      BY <1>1, <1>4, SlotFields, Sets DEF Steerable
    <2>2. Slot(active.task, active.ts)
      BY <1>1, <1>4, <2>1, SlotNext DEF Steer
    <2>3. task[active.task].pc \in Alive /\ active.ts = <<active.task, 1>> /\ "finClear" \notin Alive
      BY <1>1, <2>1 DEF TaskInv, Alive, Running
    <2> QED
      BY <1>1, <1>4, <2>1, <2>2, <2>3, Sets DEF Steer, Slot, Types
  <1>5. ASSUME NEW m \in UserMsgs, UserInput(m) PROVE InputInv'
    <2>1. /\ LoopReady /\ UNCHANGED <<mailbox, task, history>> /\ m \in Items
          /\ sent' = sent \cup {m}
      BY <1>5, Sets DEF UserInput, UserInputOrTurn
    <2>2. CASE Steerable /\ Steer(m) /\ UNCHANGED <<actor, discarded>>
      <3>1. PendInv'
        BY <1>2, <1>4, <2>1, <2>2 DEF PendInv
      <3>2. KeptInv'
        BY <1>2, <1>4, <2>1, <2>2 DEF KeptInv
      <3> QED
        BY <3>1, <3>2 DEF InputInv
    <2>3. CASE /\ CanBegin /\ UNCHANGED <<active, pend, discarded>>
               /\ actor' = [actor EXCEPT ![Loop] = [Rest EXCEPT !.pc = SpawnTask, !.replace = TRUE,
                                                               !.turn = FreshTurn, !.input = {m}]]
      <3>1. FreshTurn \in Turns
        BY <1>1, <2>3, FreshIsTurn DEF Types
      <3>2. Acts(Loop, "abTake", FreshTurn, "regular", {m}, 0, TRUE, NoTS, {})
        BY <1>1, <2>1, <2>3, <3>1, ActsInput, Sets DEF SpawnTask, ActorStages, Aborting
      <3>3. PendInv'
        BY <1>2, <1>3, <2>1, <2>3 DEF PendInv
      <3>4. KeptInv'
        BY <1>2, <1>3, <2>1, <2>3, <3>2 DEF KeptInv, Acts
      <3> QED
        BY <3>3, <3>4 DEF InputInv
    <2>4. CASE UNCHANGED <<active, pend, actor>> /\ discarded' = discarded \cup {m}
      BY <1>2, <2>1, <2>4 DEF InputInv, PendInv, KeptInv
    <2> QED
      BY <1>5, <2>2, <2>3, <2>4, Zenon DEF UserInput, UserInputOrTurn
  <1>6. ASSUME NEW m \in UserMsgs, ExternalSteer(m) PROVE InputInv'
    <2>1. /\ Steerable /\ Steer(m) /\ UNCHANGED <<mailbox, task, actor, history, discarded>>
          /\ m \in Items /\ sent' = sent \cup {m}
      BY <1>6, Sets DEF ExternalSteer
    <2>2. PendInv'
      BY <1>2, <1>4, <2>1 DEF PendInv
    <2>3. KeptInv'
      BY <1>2, <1>4, <2>1 DEF KeptInv
    <2> QED
      BY <2>2, <2>3 DEF InputInv
  <1>7. ASSUME NEW k \in AuxKinds, SpawnAux(k) PROVE InputInv'
    <2>1. LoopReady /\ CanBegin /\ UNCHANGED <<active, pend, mailbox, task, sent, history, discarded>>
      BY <1>7 DEF SpawnAux, sessionVars, itemVars
    <2>2. actor'[Loop] = actor[Loop] \/ \E n : Acts(Loop, "abTake", n, k, {}, 0, TRUE, NoTS, {})
      <3>1. CASE actor' = [actor EXCEPT ![Loop] = [Rest EXCEPT !.pc = SpawnTask, !.replace = TRUE,
                                                               !.turn = FreshTurn, !.kind = k]]
        <4>1. FreshTurn \in Turns
          BY <1>1, <2>1, FreshIsTurn DEF Types
        <4> QED
          BY <1>1, <1>7, <3>1, <4>1, ActsKind, Sets DEF SpawnTask, ActorStages, Aborting, Kinds
      <3> QED
        BY <1>7, <3>1 DEF SpawnAux
    <2>3. PendInv'
      BY <1>2, <1>3, <2>1 DEF PendInv
    <2>4. KeptInv'
      BY <1>2, <1>3, <2>1, <2>2 DEF KeptInv, Acts
    <2> QED
      BY <2>3, <2>4 DEF InputInv
  <1>8. ASSUME Interrupt \/ Shutdown PROVE InputInv'
    <2>1. /\ LoopReady /\ UNCHANGED <<active, pend, mailbox, task, sent, history, discarded>>
      BY <1>8 DEF Interrupt, Shutdown, sessionVars, itemVars
    <2>2. PendInv' /\ KeptInv'
      BY <1>2, <1>3, <2>1 DEF PendInv, KeptInv
    <2> QED
      BY <2>2 DEF InputInv
  <1>9. ASSUME NEW m \in Mails, Mail(m) PROVE InputInv'
    <2>1. /\ LoopReady /\ UNCHANGED <<active, pend, task, history, discarded>>
          /\ mailbox' = mailbox \cup {m} /\ sent' = sent \cup {m}
      BY <1>9 DEF Mail
    <2>2. PendInv' /\ KeptInv'
      BY <1>2, <1>3, <2>1 DEF PendInv, KeptInv
    <2> QED
      BY <2>2 DEF InputInv
  <1>10. ASSUME AppServerIdle PROVE InputInv'
    <2>1. /\ UNCHANGED <<active, pend, mailbox, task, sent, history, discarded>>
          /\ actor' = [actor EXCEPT ![AppServer].pc = "idle"]
      BY <1>10 DEF AppServerIdle, Goto, sessionVars, itemVars
    <2>2. actor'[Loop] = actor[Loop]
      BY <1>1, <2>1, Sets
    <2> QED
      BY <1>2, <2>1, <2>2 DEF InputInv, PendInv, KeptInv
  <1>11. ASSUME RealtimeStop PROVE InputInv'
    <2>1. /\ UNCHANGED <<active, pend, mailbox, turnCount, terminal, sent, history>>
          /\ discarded \subseteq discarded'
      BY <1>11 DEF RealtimeStop, sessionVars, boundVars, eventVars
    <2>2. task' = task
      <3>1. actor[Realtime].pc \notin {"abCancel", "abKill"}
        BY <1>1, RealtimeApart DEF LoopAlone
      <3>2. task' = [t \in Turns |-> task[t]]
        BY <1>11, <3>1 DEF RealtimeStop
      <3> QED
        BY <1>1, <3>2 DEF Types
    <2>3. PICK l \in {"rest", "stopped"} : actor' = [actor EXCEPT ![Realtime] = [Rest EXCEPT !.pc = l]]
      BY <1>11 DEF RealtimeStop
    <2>4. Acts(Realtime, l, 0, "regular", {}, 0, FALSE, NoTS, {})
      BY <1>1, <2>3, ActsFresh, RealtimeApart DEF ActorStages
    <2>5. actor'[Loop] = actor[Loop]
      BY <2>4, Sets, RealtimeApart DEF Acts
    <2> QED
      BY <1>2, <2>1, <2>2, <2>5 DEF InputInv, PendInv, KeptInv
  <1>12. ~GuardianTrip /\ ~(\E i \in Injected : Inject(i)) /\ ~\E m \in Routed : RouteText(m)
    BY DEF GuardianTrip, ClientOnly
  <1> QED
    BY <1>5, <1>6, <1>7, <1>8, <1>9, <1>10, <1>11, <1>12 DEF ClientOp

\* The routine the submission loop is in keeps the invariant.
LEMMA LoopStepInv ==
    ASSUME Inv, ActorStep(Loop)
    PROVE  Inv' /\ (InputInv => InputInv')
  <1>1. actor[Loop].pc \in {"rest", "msCheck", "msReserve", "abTake"} \cup Stopping \cup Readying
    BY DEF Inv, LoopAlone
  <1>2. actor[Loop].pc \notin {"idle", "tsReserve", "tsRecheck", "tsClear", "tsExtend"}
    BY <1>1 DEF Stopping, Readying
  <1>3. ~(Idle(Loop) \/ TryStartReserve(Loop) \/ TryStartRecheck(Loop) \/ TryStartClear(Loop) \/ TryStartExtend(Loop))
    BY <1>2 DEF Idle, TryStartReserve, TryStartRecheck, TryStartClear, TryStartExtend
  <1>4. ASSUME PendingWorkCheck(Loop) PROVE Inv' /\ (InputInv => InputInv')
    <2>1. /\ actor[Loop].pc = "msCheck" /\ UNCHANGED <<active, pend, mailbox, task, turnCount, terminal>>
          /\ actor' = [actor EXCEPT ![Loop].pc = "msReserve"] \/ actor' = [actor EXCEPT ![Loop] = Rest]
      BY <1>4 DEF PendingWorkCheck, Goto, Done, sessionVars, boundVars, eventVars
    <2>2. /\ actor \in [Actors -> Actor] /\ mailbox' \subseteq Mails
          /\ actor[Loop].input = {} /\ actor[Loop].items = {}
      BY <2>1 DEF Inv, Types, CarryInv, Claims, Stopping, Readying
    <2>3. UNCHANGED <<sent, history, discarded>>
      BY <1>4 DEF PendingWorkCheck, itemVars
    <2>4. CASE actor' = [actor EXCEPT ![Loop].pc = "msReserve"]
      <3>1. Acts(Loop, "msReserve", actor[Loop].turn, actor[Loop].kind, actor[Loop].input, actor[Loop].victim,
                 actor[Loop].replace, actor[Loop].ts, actor[Loop].items)
        BY <2>2, <2>4, ActsGoto, Sets DEF ActorStages, Starting
      <3>2. actor[Loop].replace \in BOOLEAN
        <4>1. actor[Loop] \in Actor
          BY <2>2, Sets
        <4> QED
          BY <4>1 DEF Actor
      <3>3. Acts(Loop, "msReserve", actor[Loop].turn, actor[Loop].kind, {}, actor[Loop].victim,
                 actor[Loop].replace, actor[Loop].ts, {})
        BY <2>2, <3>1
      <3>4. Inv'
        BY <2>1, <2>2, <3>2, <3>3, IdleInv
      <3>5. InputInv => InputInv'
        BY <2>1, <2>2, <2>3, <3>3 DEF InputInv, PendInv, KeptInv, Acts, Stopping
      <3> QED
        BY <3>4, <3>5
    <2>5. CASE actor' = [actor EXCEPT ![Loop] = Rest]
      <3>1. Acts(Loop, "rest", 0, "regular", {}, 0, FALSE, NoTS, {})
        BY <2>2, <2>5, ActsRest, Sets
      <3>2. Inv'
        BY <2>1, <2>2, <3>1, IdleInv
      <3>3. InputInv => InputInv'
        BY <2>1, <2>2, <2>3, <3>1 DEF InputInv, PendInv, KeptInv, Acts, Stopping
      <3> QED
        BY <3>2, <3>3
    <2> QED
      BY <2>1, <2>4, <2>5
  <1> QED
    BY <1>3, <1>4, AbortTakeInv, AbortCancelInv, AbortKillInv, AbortClearInv, ReserveInv, StartInv, InstallInv
       DEF ActorStep

\* Every step keeps the invariant.
LEMMA StepInv ==
    ASSUME Inv, ClientOnly, [Next]_vars
    PROVE  Inv' /\ (Injected = {} /\ InputInv => InputInv')
  <1>1. CASE ClientOp
    BY <1>1, ClientInv, ClientInput
  <1>2. CASE GuardianTake
    <2>1. actor[GuardianId].pc = "gTake" /\ GuardianId \in Actors \ {Loop}
      BY <1>2 DEF GuardianTake, Actors, Loop, GuardianId
    <2> QED
      BY <2>1 DEF Inv, LoopAlone
  <1>3. ASSUME NEW a \in Actors, ActorStep(a) PROVE Inv' /\ (Injected = {} /\ InputInv => InputInv')
    BY <1>3, OthersInv, LoopStepInv
  <1>4. ASSUME NEW t \in Turns, TaskStep(t) PROVE Inv' /\ (Injected = {} /\ InputInv => InputInv')
    <2>1. CASE Work(t)
      BY <2>1, WorkIs, WorksInv DEF Inv
    <2>2. CASE FinishCheck(t) \/ FinishTake(t) \/ FinishRecord(t) \/ FinishClear(t)
      BY <2>2, CheckInv, TakeInv, RecordInv, ClearInv
    <2> QED
      BY <1>4, <2>1, <2>2, Zenon DEF TaskStep, Work
  <1>5. CASE UNCHANGED vars
    <2>1. UNCHANGED <<active, pend, mailbox, task, actor, turnCount, terminal>> /\ Types /\ LoopAlone
      BY <1>5 DEF vars, sessionVars, boundVars, eventVars, Inv
    <2>2. /\ Slot(active.task, active.ts) /\ pend' \in [TurnStates -> SUBSET Items]
          /\ mailbox' \subseteq Mails /\ actor' \in [Actors -> Actor]
          /\ \A a \in Actors \ {Loop} : actor'[a].pc \in {"rest", "idle", "stopped"}
      BY <2>1, SlotSame DEF Types, LoopAlone
    <2>3. Inv'
      BY <2>1, <2>2, QuietInv
    <2>4. InputInv => InputInv'
      BY <1>5 DEF InputInv, PendInv, KeptInv, vars, sessionVars, boundVars, itemVars
    <2> QED
      BY <2>3, <2>4
  <1> QED
    BY <1>1, <1>2, <1>3, <1>4, <1>5 DEF Next

----------------------------------------------------------------------------
(* The theorems *)

\* A new session has no input to lose.
LEMMA InputInit == Init => InputInv
  BY DEF Init, InputInv, PendInv, KeptInv

\* Whatever the client, the loop and the tasks do, and in whatever order: the
\* loop is the only one that starts or aborts turns, the slot holds a task
\* that is alive or a reservation that somebody owns, and every task is where
\* the loop expects it.
THEOREM Invariance ==
    ASSUME ClientOnly
    PROVE  Spec => []Inv
  <1>1. Inv /\ [Next]_vars => Inv'
    BY StepInv
  <1> QED
    BY <1>1, InvInit, PTL DEF Spec

\* Neither debug_assert!(turn.task.is_none()) of start_task can fail.
THEOREM StartIsFree ==
    ASSUME ClientOnly
    PROVE  Spec => []StartFindsNoTask
  <1>1. Inv => StartFindsNoTask
    <2> SUFFICES ASSUME Inv, NEW a \in Actors, actor[a].pc \in {"stReserve", "stInstall"}
                 PROVE  active.task = 0
      BY DEF StartFindsNoTask
    <2>1. a = Loop
      BY DEF Inv, LoopAlone
    <2> QED
      BY <2>1 DEF Inv, LoopInv
  <1> QED
    BY <1>1, Invariance, PTL

\* A task that was not cancelled is in the slot or about to be cancelled: an
\* interrupt always reaches it.
THEOREM TaskIsTracked ==
    ASSUME ClientOnly
    PROVE  Spec => []LiveTaskTracked
  <1>1. Inv => LiveTaskTracked
    <2> SUFFICES ASSUME Inv, NEW t \in Turns, task[t].pc \in Running \cup {"flush"}, ~task[t].cancelled
                 PROVE  \/ active.task = t
                        \/ \E a \in Actors : actor[a].pc = "abCancel" /\ actor[a].victim = t
      BY DEF LiveTaskTracked
    <2>1. task[t].pc \in Alive /\ task[t].pc # "ended"
      BY DEF Alive, Running
    <2> QED
      BY <2>1, Sets DEF Inv, TaskInv
  <1> QED
    BY <1>1, Invariance, PTL

\* Whatever is in the slot is somebody's to remove.
THEOREM SlotHasOwner ==
    ASSUME ClientOnly
    PROVE  Spec => []SlotOwned
  <1>1. Inv => SlotOwned
    <2> SUFFICES ASSUME Inv, active # NoTurn PROVE SlotOwned
      BY DEF SlotOwned
    <2>1. Types /\ LoopInv /\ TaskInv /\ SlotInv
      BY DEF Inv
    <2>2. active.ts # NoTS /\ active.task \in Turns \cup {0}
      BY <2>1, SlotFields
    <2>3. CASE active.task # 0
      <3>1. task[active.task].pc \in Alive
        BY <2>1, <2>2, <2>3 DEF TaskInv
      <3> QED
        BY <2>3, <3>1 DEF SlotOwned, Alive
    <2>4. CASE active.task = 0 /\ actor[Loop].pc \in Readying
      <3>1. \/ actor[Loop].pc \in {"stDrain", "stReserve"}
            \/ actor[Loop].pc # "rest" /\ actor[Loop].ts = active.ts
        BY <2>1, <2>4 DEF LoopInv, Readying
      <3> QED
        BY <2>4, <3>1, Sets DEF SlotOwned
    <2>5. CASE active.task = 0 /\ actor[Loop].pc \notin Readying
      <3>1. PICK t \in Turns : task[t].pc \in Ending /\ active.ts = <<t, 1>>
        BY <2>1, <2>2, <2>5 DEF SlotInv
      <3>2. task[t].ts = active.ts
        BY <2>1, <3>1 DEF TaskInv
      <3> QED
        BY <2>5, <3>2 DEF SlotOwned
    <2> QED
      BY <2>3, <2>4, <2>5
  <1> QED
    BY <1>1, Invariance, PTL

\* A turn's completion and its abort never both announce its end.
THEOREM EndsOnce ==
    ASSUME ClientOnly
    PROVE  Spec => []OneTerminalEvent
  <1>1. Inv => OneTerminalEvent
    BY DEF Inv, TaskInv, OneTerminalEvent
  <1> QED
    BY <1>1, Invariance, PTL

\* Where nothing is injected into a turn either, no interleaving drops a
\* message the session accepted.
THEOREM InputIsKept ==
    ASSUME ClientOnly, Injected = {}
    PROVE  Spec => []NoInputLost
  <1>1. Inv /\ InputInv /\ [Next]_vars => Inv' /\ InputInv'
    BY StepInv
  <1>2. Inv /\ InputInv => NoInputLost
    <2> SUFFICES ASSUME Inv, InputInv, NEW i \in sent
                 PROVE  \/ i \in history \cup discarded \cup mailbox \cup Carried
                        \/ \E s \in Referenced \ {NoTS} : i \in pend[s]
      BY DEF NoInputLost
    <2>1. CASE i \in actor[Loop].items \cup actor[Loop].input
      <3>1. i \in Carried
        BY <2>1, Sets DEF Carried
      <3> QED
        BY <3>1
    <2>2. ASSUME NEW t \in Turns, i \in task[t].input PROVE i \in Carried
      <3>1. task[t].pc # "ended"
        BY <2>2 DEF Inv, CarryInv
      <3> QED
        BY <2>2, <3>1 DEF Carried
    <2>3. ASSUME NEW s \in TurnStates, i \in pend[s] PROVE s \in Referenced \ {NoTS}
      <3>1. s # NoTS
        BY Sets
      <3>2. CASE active.ts = s
        BY <3>1, <3>2 DEF Referenced
      <3>3. CASE actor[Loop].ts = s
        BY <3>1, <3>3, Sets DEF Referenced
      <3>4. ASSUME NEW t \in Turns, task[t].pc = "finRecord", s = <<t, 1>> PROVE s \in Referenced
        <4>1. task[t].ts = s
          BY <3>4 DEF Inv, TaskInv, Ending
        <4> QED
          BY <4>1 DEF Referenced
      <3> QED
        BY <2>3, <3>1, <3>2, <3>3, <3>4 DEF InputInv, PendInv
    <2> QED
      BY <2>1, <2>2, <2>3 DEF InputInv, KeptInv
  <1> QED
    BY <1>1, <1>2, InvInit, InputInit, PTL DEF Spec

----------------------------------------------------------------------------
(* Input is delivered once, whoever starts and aborts turns: from here on    *)
(* goals, the guardian and the realtime conversation are included.           *)

\* An automatic turn is being decided on: its item is not handed in yet.
Deciding == {"tsReserve", "tsRecheck", "tsClear", "tsExtend"}

\* What actor a has at stage l: its turn, its victim, whether it replaces it,
\* and its TurnState.
FitsAt(a, l, t, v, r, s) ==
    /\ l \in Readying \cup {"tsRecheck", "tsExtend"} => t # 0
    /\ l \in Aborting /\ r => t # 0
    /\ l \in {"gTake", "abCancel", "abKill"} => v # 0
    /\ l \in Stopping \cup {"stExtend", "tsRecheck", "tsExtend"} => s # NoTS
    /\ l \in Idling => a \notin {Loop, GuardianId, Realtime}

Fit(a) == FitsAt(a, actor[a].pc, actor[a].turn, actor[a].victim, actor[a].replace, actor[a].ts)

\* The turn an actor is starting has no task yet and is nobody else's; the
\* one it aborts had one.
ActorFits ==
    \A a \in Actors :
        /\ Fit(a)
        /\ actor[a].turn # 0 => actor[a].turn <= turnCount /\ task[actor[a].turn].pc = "none"
        /\ actor[a].victim # 0 => task[actor[a].victim].pc # "none"

TurnsApart ==
    \A a, b \in Actors : a # b /\ actor[a].turn # 0 => actor[a].turn # actor[b].turn

\* Only a task that is over goes on as an actor.
TaskFits ==
    \A t \in Turns :
        /\ task[t].pc # "none" => t <= turnCount
        /\ active.task = t => task[t].pc # "none"
        /\ task[t].pc \in Ending => task[t].ts # NoTS
        /\ actor[t].pc # "rest" => task[t].pc = "ended"

Ctl == Types /\ ActorFits /\ TurnsApart /\ TaskFits

\* Item i lies in the pending input of x, among what actor x drained or in the
\* input of the task it starts, with task x, in the history, among what was
\* discarded or in the mailbox.
Lies(f, x, i) ==
    \/ f = "pend" /\ x \in TurnStates /\ i \in pend[x]
    \/ f = "items" /\ x \in Actors /\ i \in actor[x].items
    \/ f = "input" /\ x \in Actors /\ i \in actor[x].input
    \/ f = "task" /\ x \in Turns /\ i \in task[x].input
    \/ f = "history" /\ x = 0 /\ i \in history
    \/ f = "discarded" /\ x = 0 /\ i \in discarded
    \/ f = "mailbox" /\ x = 0 /\ i \in mailbox

\* It lies at one place.
OnceOf(i) == \A f, g, x, y : Lies(f, x, i) /\ Lies(g, y, i) => f = g /\ x = y

\* What was not handed in yet lies at most with the actor that decides on it.
UnsentOf(i) ==
    i \in sent
    \/ \A f, x : Lies(f, x, i) => f = "items" /\ i \in GoalItems /\ actor[x].pc \in Deciding

OnceInv == Ctl /\ \A i : OnceOf(i) /\ UnsentOf(i)

\* An actor takes a TurnState for its turn.
LEMMA ActsTurnState ==
    ASSUME actor \in [Actors -> Actor], NEW a \in Actors, NEW l \in ActorStages,
           NEW t \in Turns \cup {0}, NEW s \in Slots,
           actor' = [actor EXCEPT ![a] = [@ EXCEPT !.pc = l, !.turn = t, !.ts = s]]
    PROVE  Acts(a, l, t, actor[a].kind, actor[a].input,
                actor[a].victim, actor[a].replace, s, actor[a].items)
  <1> DEFINE x == [actor[a] EXCEPT !.pc = l, !.turn = t, !.ts = s]
  <1>1. x \in Actor
    BY SessionAssumption DEF Actor, ActorStages, Kinds, Slots
  <1>2. /\ x.pc = l /\ x.turn = t /\ x.kind = actor[a].kind /\ x.input = actor[a].input
        /\ x.victim = actor[a].victim /\ x.replace = actor[a].replace /\ x.ts = s /\ x.items = actor[a].items
    BY SessionAssumption DEF Actor, ActorStages, Kinds, Slots
  <1>3. actor' = [actor EXCEPT ![a] = x]
    OBVIOUS
  <1> HIDE DEF x
  <1> QED
    BY <1>1, <1>2, <1>3 DEF Acts

\* It begins to abort a turn.
LEMMA ActsHunt ==
    ASSUME actor \in [Actors -> Actor], NEW a \in Actors, NEW l \in ActorStages,
           NEW v \in Turns \cup {0},
           actor' = [actor EXCEPT ![a] = [Rest EXCEPT !.pc = l, !.victim = v]]
    PROVE  Acts(a, l, 0, "regular", {}, v, FALSE, NoTS, {})
  <1> DEFINE x == [Rest EXCEPT !.pc = l, !.victim = v]
  <1>1. x \in Actor
    BY SessionAssumption DEF Actor, ActorStages, Kinds, Slots, Rest
  <1>2. /\ x.pc = l /\ x.turn = 0 /\ x.kind = "regular" /\ x.input = {}
        /\ x.victim = v /\ x.replace = FALSE /\ x.ts = NoTS /\ x.items = {}
    BY SessionAssumption DEF Actor, ActorStages, Kinds, Slots, Rest
  <1>3. actor' = [actor EXCEPT ![a] = x]
    OBVIOUS
  <1> HIDE DEF x
  <1> QED
    BY <1>1, <1>2, <1>3 DEF Acts

\* An actor's fields.
LEMMA ActorFields ==
    ASSUME Types, NEW a \in Actors
    PROVE  /\ actor[a] \in Actor /\ actor[a].pc \in ActorStages
           /\ actor[a].turn \in Turns \cup {0} /\ actor[a].victim \in Turns \cup {0}
           /\ actor[a].kind \in Kinds /\ actor[a].replace \in BOOLEAN
           /\ actor[a].ts \in Slots
           /\ actor[a].input \in SUBSET Items /\ actor[a].items \in SUBSET Items
  <1>1. actor[a] \in Actor
    BY DEF Types
  <1> QED
    BY <1>1 DEF Actor, ActorStages, Kinds, Slots

\* A task's fields.
LEMMA TaskFields ==
    ASSUME Types, NEW t \in Turns
    PROVE  /\ task[t] \in Task /\ task[t].pc \in TaskStages /\ task[t].kind \in Kinds
           /\ task[t].input \in SUBSET Items /\ task[t].ts \in Slots
           /\ task[t].cancelled \in BOOLEAN
  <1>1. task[t] \in Task
    BY DEF Types
  <1> QED
    BY <1>1 DEF Task, TaskStages, Kinds, Slots

\* Steps of one actor, and of tasks that neither begin nor come back.
LEMMA CtlKept ==
    ASSUME Ctl, Types', NEW a \in Actors,
           \A b \in Actors : b # a => actor'[b] = actor[b],
           Fit(a)',
           \/ actor'[a].turn \in {0, actor[a].turn}
           \/ actor'[a].turn = turnCount + 1 /\ turnCount' = turnCount + 1,
           actor'[a].victim # 0 => task[actor'[a].victim].pc # "none",
           actor'[a].pc = "rest" \/ a \notin Turns \/ task'[a].pc = "ended",
           turnCount' \in {turnCount, turnCount + 1},
           active'.task \in {0, active.task},
           \A u \in Turns : /\ task'[u].pc = "none" <=> task[u].pc = "none"
                            /\ task[u].pc = "ended" => task'[u].pc = "ended"
                            /\ task'[u].pc \in Ending => task'[u].ts # NoTS
    PROVE  Ctl'
  <1>1. turnCount \in Nat /\ turnCount' \in Nat /\ turnCount <= turnCount'
    BY SessionAssumption DEF Ctl, Types
  <1>2. Turns \subseteq Nat \ {0} /\ Turns \subseteq Actors
    BY SessionAssumption DEF Turns, Actors
  <1>3. \A b \in Actors : /\ actor[b].turn \in Turns \cup {0} /\ actor'[b].turn \in Turns \cup {0}
                          /\ actor'[b].victim \in Turns \cup {0}
    <2>1. \A b \in Actors : actor'[b] \in Actor /\ actor[b] \in Actor
      BY DEF Ctl, Types
    <2> QED
      BY <2>1 DEF Actor
  <1>4. ActorFits'
    <2> SUFFICES ASSUME NEW b \in Actors
                 PROVE  /\ Fit(b)'
                        /\ actor'[b].turn # 0 => actor'[b].turn <= turnCount' /\ task'[actor'[b].turn].pc = "none"
                        /\ actor'[b].victim # 0 => task'[actor'[b].victim].pc # "none"
      BY DEF ActorFits
    <2>1. CASE b # a
      <3>1. Fit(b)'
        BY <2>1 DEF Ctl, ActorFits, Fit
      <3>2. PICK t \in Turns \cup {0}, v \in Turns \cup {0} :
                /\ actor[b].turn = t /\ actor[b].victim = v
                /\ actor'[b].turn = t /\ actor'[b].victim = v
        BY <1>3, <2>1
      <3>3. (t # 0 => t <= turnCount /\ task[t].pc = "none") /\ (v # 0 => task[v].pc # "none")
        BY <3>2 DEF Ctl, ActorFits
      <3>4. t # 0 => t <= turnCount'
        BY <1>1, <1>2, <3>3
      <3> QED
        BY <3>1, <3>2, <3>3, <3>4
    <2>2. CASE b = a
      <3>1. actor'[a].victim # 0 => task'[actor'[a].victim].pc # "none"
        BY <1>3
      <3>2. actor'[a].turn # 0 => actor'[a].turn <= turnCount' /\ task'[actor'[a].turn].pc = "none"
        <4>1. CASE actor'[a].turn = actor[a].turn
          <5>1. PICK t \in Turns \cup {0} : actor[a].turn = t
            BY <1>3
          <5>2. t # 0 => t <= turnCount /\ task[t].pc = "none"
            BY <5>1 DEF Ctl, ActorFits
          <5>3. t # 0 => t <= turnCount'
            BY <1>1, <1>2, <5>2
          <5> QED
            BY <4>1, <5>1, <5>2, <5>3
        <4>2. CASE actor'[a].turn = turnCount + 1 /\ turnCount' = turnCount + 1
          BY <1>1, <1>2, <1>3, <4>2 DEF Ctl, TaskFits
        <4> QED
          BY <4>1, <4>2
      <3> QED
        BY <2>2, <3>1, <3>2
    <2> QED
      BY <2>1, <2>2
  <1>5. TurnsApart'
    <2>1. \A b \in Actors : actor[b].turn <= turnCount
      BY <1>1, <1>3 DEF Ctl, ActorFits
    <2> QED
      BY <1>1, <1>2, <1>3, <2>1 DEF Ctl, TurnsApart
  <1>6. TaskFits'
    <2> SUFFICES ASSUME NEW u \in Turns
                 PROVE  /\ task'[u].pc # "none" => u <= turnCount'
                        /\ active'.task = u => task'[u].pc # "none"
                        /\ task'[u].pc \in Ending => task'[u].ts # NoTS
                        /\ actor'[u].pc # "rest" => task'[u].pc = "ended"
      BY DEF TaskFits
    <2>1. task'[u].pc # "none" => u <= turnCount'
      BY <1>1, <1>2 DEF Ctl, TaskFits
    <2>2. active'.task = u => task'[u].pc # "none"
      BY <1>2 DEF Ctl, TaskFits
    <2>3. actor'[u].pc # "rest" => task'[u].pc = "ended"
      BY <1>2 DEF Ctl, TaskFits
    <2> QED
      BY <2>1, <2>2, <2>3
  <1> QED
    BY <1>4, <1>5, <1>6 DEF Ctl

\* An item that stays where it is, or vanishes, lies at one place.
LEMMA StaysOnce ==
    ASSUME NEW i, OnceOf(i), \A f, x : Lies(f, x, i)' => Lies(f, x, i)
    PROVE  OnceOf(i)'
  BY DEF OnceOf

\* An item that moves leaves its old place.
LEMMA MovesOnce ==
    ASSUME NEW i, OnceOf(i), NEW g, NEW y,
           \A f, x : Lies(f, x, i)' => Lies(f, x, i) \/ (f = g /\ x = y),
           \/ ~Lies(g, y, i)' \/ Lies(g, y, i)
           \/ \E f, x : Lies(f, x, i) /\ ~Lies(f, x, i)'
           \/ \A f, x : ~Lies(f, x, i)
    PROVE  OnceOf(i)'
  BY DEF OnceOf

\* A step of an actor that leaves all input where it is.
LEMMA ActorOnce ==
    ASSUME OnceInv, NEW a \in Actors, NEW l, NEW t, NEW k, NEW S, NEW v, NEW r, NEW s, NEW X,
           Acts(a, l, t, k, S, v, r, s, X),
           UNCHANGED <<pend, mailbox, task, sent, history, discarded, terminal>>,
           active' \in [task : Turns \cup {0}, ts : TurnStates, next : BOOLEAN] \cup {NoTurn},
           active'.task \in {0, active.task},
           turnCount' \in {turnCount, turnCount + 1}, turnCount' \in 0..MaxTurns,
           FitsAt(a, l, t, v, r, s),
           t \in {0, actor[a].turn} \/ (t = turnCount + 1 /\ turnCount' = turnCount + 1),
           v # 0 => task[v].pc # "none",
           a \notin Turns \/ actor[a].pc # "rest",
           S \subseteq actor[a].input, X \subseteq actor[a].items,
           X = {} \/ actor[a].pc \notin Deciding \/ l \in Deciding
    PROVE  OnceInv'
  <1>1. Types'
    BY DEF OnceInv, Ctl, Types, Acts
  <1>2. Ctl'
    <2>1. a \notin Turns \/ task'[a].pc = "ended"
      BY DEF OnceInv, Ctl, TaskFits
    <2>2. \A u \in Turns : task'[u].pc \in Ending => task'[u].ts # NoTS
      BY DEF OnceInv, Ctl, TaskFits
    <2>3. actor'[a].turn = t /\ actor'[a].victim = v /\ \A b \in Actors : b # a => actor'[b] = actor[b]
      BY DEF Acts
    <2>4. Fit(a)'
      BY DEF Acts, Fit
    <2> QED
      BY <1>1, <2>1, <2>2, <2>3, <2>4, CtlKept DEF OnceInv
  <1>3. \A i, f, x : Lies(f, x, i)' => Lies(f, x, i)
    BY DEF Lies, Acts
  <1>4. \A i : OnceOf(i)'
    BY <1>3, StaysOnce DEF OnceInv
  <1>5. \A i : UnsentOf(i)'
    <2> SUFFICES ASSUME NEW i, i \notin sent, NEW f, NEW x, Lies(f, x, i)'
                 PROVE  f = "items" /\ i \in GoalItems /\ actor'[x].pc \in Deciding
      BY DEF UnsentOf
    <2>1. f = "items" /\ i \in GoalItems /\ actor[x].pc \in Deciding
      BY <1>3 DEF OnceInv, UnsentOf
    <2>2. x \in Actors /\ i \in actor'[x].items
      BY <2>1 DEF Lies
    <2> QED
      BY <2>1, <2>2 DEF Acts
  <1> QED
    BY <1>2, <1>4, <1>5 DEF OnceInv

\* An actor whose turn, victim and TurnState stay, at another stage.
LEMMA GoesOnce ==
    ASSUME OnceInv, NEW a \in Actors, NEW l \in ActorStages,
           actor' = [actor EXCEPT ![a].pc = l],
           UNCHANGED <<pend, mailbox, task, sent, history, discarded, terminal, turnCount>>,
           active' \in {active, NoTurn},
           FitsAt(a, l, actor[a].turn, actor[a].victim, actor[a].replace, actor[a].ts),
           a \notin Turns \/ actor[a].pc # "rest",
           actor[a].pc \notin Deciding \/ l \in Deciding
    PROVE  OnceInv'
  <1>1. Types
    BY DEF OnceInv, Ctl
  <1>2. Acts(a, l, actor[a].turn, actor[a].kind, actor[a].input,
             actor[a].victim, actor[a].replace, actor[a].ts, actor[a].items)
    BY <1>1, ActsGoto DEF Types
  <1>3. /\ active' \in [task : Turns \cup {0}, ts : TurnStates, next : BOOLEAN] \cup {NoTurn}
        /\ active'.task \in {0, active.task} /\ turnCount' \in 0..MaxTurns
    BY <1>1 DEF Types, NoTurn
  <1>4. actor[a].victim # 0 => task[actor[a].victim].pc # "none"
    BY DEF OnceInv, Ctl, ActorFits
  <1> QED
    BY <1>2, <1>3, <1>4, ActorOnce

\* An actor that is done.
LEMMA RestsOnce ==
    ASSUME OnceInv, NEW a \in Actors, actor[a].pc # "rest",
           actor' = [actor EXCEPT ![a] = Rest],
           UNCHANGED <<pend, mailbox, task, sent, history, discarded, terminal, turnCount>>,
           active' \in {active, NoTurn}
    PROVE  OnceInv'
  <1>1. Types
    BY DEF OnceInv, Ctl
  <1>2. Acts(a, "rest", 0, "regular", {}, 0, FALSE, NoTS, {})
    BY <1>1, ActsRest DEF Types
  <1>3. /\ active' \in [task : Turns \cup {0}, ts : TurnStates, next : BOOLEAN] \cup {NoTurn}
        /\ active'.task \in {0, active.task} /\ turnCount' \in 0..MaxTurns
    BY <1>1 DEF Types, NoTurn
  <1>4. FitsAt(a, "rest", 0, 0, FALSE, NoTS)
    BY DEF FitsAt, Readying, Stopping, Idling, Aborting
  <1>5. PICK r, S : /\ r = FALSE /\ S = {} /\ Acts(a, "rest", 0, "regular", S, 0, r, NoTS, S)
                    /\ FitsAt(a, "rest", 0, 0, r, NoTS)
    BY <1>2, <1>4
  <1> QED
    BY <1>3, <1>5, ActorOnce

\* take_active_turn takes no input with it.
LEMMA TakesVictimOnce ==
    ASSUME OnceInv, NEW a \in Actors, actor[a].pc \in {"abTake", "gTake"},
           active.task # 0, TakeVictim(a),
           UNCHANGED <<pend, mailbox, task, boundVars, itemVars, eventVars>>
    PROVE  OnceInv'
  <1> DEFINE v == active.task  s == active.ts
  <1>1. Types /\ v \in Turns /\ s \in TurnStates /\ s # NoTS
    BY SlotFields, Sets DEF OnceInv, Ctl
  <1>2. /\ actor' = [actor EXCEPT ![a] = [@ EXCEPT !.pc = "abCancel", !.victim = v, !.ts = s]]
        /\ active' = NoTurn
    BY DEF TakeVictim
  <1>3. task[v].pc # "none"
    BY <1>1 DEF OnceInv, Ctl, TaskFits
  <1> HIDE DEF v, s
  <1>4. Acts(a, "abCancel", actor[a].turn, actor[a].kind, actor[a].input,
             v, actor[a].replace, s, actor[a].items)
    BY <1>1, <1>2, ActsVictim DEF Types, ActorStages, Aborting, Slots
  <1>5. active' \in {NoTurn} /\ active'.task = 0 /\ turnCount' \in 0..MaxTurns /\ turnCount' = turnCount
    BY <1>1, <1>2 DEF Types, NoTurn, boundVars
  <1>6. actor[a].replace => actor[a].turn # 0
    BY DEF OnceInv, Ctl, ActorFits, Fit, FitsAt, Aborting
  <1>7. FitsAt(a, "abCancel", actor[a].turn, v, actor[a].replace, s)
    BY <1>1, <1>6, Sets DEF FitsAt, Readying, Stopping, Idling
  <1>8. actor[a].pc # "rest" /\ actor[a].pc \notin Deciding
    BY DEF Deciding
  <1>9. UNCHANGED <<pend, mailbox, task, sent, history, discarded, terminal>>
    BY DEF itemVars, eventVars
  <1> QED
    BY <1>3, <1>4, <1>5, <1>7, <1>8, <1>9, ActorOnce

\* Neither does the rest of what abort_all_tasks and abort_turn_if_active do
\* before they stop a task.
LEMMA AbortTakeOnce ==
    ASSUME OnceInv, NEW a \in Actors, AbortTake(a) \/ (a = GuardianId /\ GuardianTake)
    PROVE  OnceInv'
  <1>1. /\ actor[a].pc \in {"abTake", "gTake"}
        /\ UNCHANGED <<pend, mailbox, task, boundVars, itemVars, eventVars>>
        /\ \/ active.task # 0 /\ TakeVictim(a)
           \/ active' \in {active, NoTurn} /\ Done(a)
           \/ active' = NoTurn /\ actor[a].replace /\ Goto(a, "stDrain")
    <2>1. actor[a].pc = "gTake" => actor[a].victim # 0
      BY DEF OnceInv, Ctl, ActorFits, Fit, FitsAt
    <2> QED
      BY <2>1 DEF AbortTake, GuardianTake
  <1>2. UNCHANGED <<pend, mailbox, task, sent, history, discarded, terminal, turnCount>>
    BY <1>1 DEF itemVars, eventVars, boundVars
  <1>3. CASE active.task # 0 /\ TakeVictim(a)
    BY <1>1, <1>3, TakesVictimOnce
  <1>4. CASE active' \in {active, NoTurn} /\ Done(a)
    BY <1>1, <1>2, <1>4, RestsOnce DEF Done
  <1>5. CASE active' = NoTurn /\ actor[a].replace /\ Goto(a, "stDrain")
    <2>1. actor[a].turn # 0
      BY <1>1, <1>5 DEF OnceInv, Ctl, ActorFits, Fit, FitsAt, Aborting
    <2>2. FitsAt(a, "stDrain", actor[a].turn, actor[a].victim, actor[a].replace, actor[a].ts)
      BY <2>1 DEF FitsAt, Readying, Stopping, Idling, Aborting
    <2>3. actor[a].pc # "rest" /\ actor[a].pc \notin Deciding /\ "stDrain" \in ActorStages
      BY <1>1 DEF Deciding, ActorStages, Starting
    <2> QED
      BY <1>2, <1>5, <2>2, <2>3, GoesOnce DEF Goto
  <1> QED
    BY <1>1, <1>3, <1>4, <1>5

\* Looking for pending work moves no input.
LEMMA PendingWorkOnce ==
    ASSUME OnceInv, NEW a \in Actors, PendingWorkCheck(a) \/ PendingWorkReserve(a)
    PROVE  OnceInv'
  <1>1. /\ actor[a].pc \in {"msCheck", "msReserve"} /\ actor[a].pc \notin Deciding
        /\ UNCHANGED <<pend, mailbox, task, sent, history, discarded, terminal>>
    BY DEF PendingWorkCheck, PendingWorkReserve, itemVars, eventVars, sessionVars, Deciding
  <1>2. CASE active' = active /\ turnCount' = turnCount /\ Done(a)
    BY <1>1, <1>2, RestsOnce DEF Done
  <1>3. CASE active' = active /\ turnCount' = turnCount /\ Goto(a, "msReserve")
    <2>1. FitsAt(a, "msReserve", actor[a].turn, actor[a].victim, actor[a].replace, actor[a].ts)
      BY DEF FitsAt, Readying, Stopping, Idling, Aborting
    <2> QED
      BY <1>1, <1>3, <2>1, GoesOnce DEF Goto, ActorStages, Starting
  <1>4. CASE active = NoTurn /\ PendingWorkReserve(a)
    <2> DEFINE n == FreshTurn
    <2>1. CanBegin /\ Reserve(n) /\ turnCount' = n /\ actor' = [actor EXCEPT ![a] = [@ EXCEPT !.pc = "stDrain", !.turn = n]]
      BY <1>4, Zenon DEF PendingWorkReserve
    <2>2. Types /\ n \in Turns /\ n = turnCount + 1 /\ turnCount \in Nat
      BY <2>1, FreshIsTurn DEF OnceInv, Ctl, Types
    <2> HIDE DEF n
    <2>3. Acts(a, "stDrain", n, actor[a].kind, actor[a].input, actor[a].victim,
               actor[a].replace, actor[a].ts, actor[a].items)
      BY <2>1, <2>2, ActsTurn DEF Types, ActorStages, Starting
    <2>4. Slot(0, <<n, 1>>)
      BY <2>1, <2>2, SlotReserved
    <2>5. FitsAt(a, "stDrain", n, actor[a].victim, actor[a].replace, actor[a].ts)
      BY <2>2, Sets DEF FitsAt, Readying, Stopping, Idling, Aborting
    <2>6. actor[a].victim # 0 => task[actor[a].victim].pc # "none"
      BY DEF OnceInv, Ctl, ActorFits
    <2>7. turnCount' \in 0..MaxTurns /\ turnCount' = turnCount + 1
      BY <2>1, <2>2 DEF Turns
    <2> QED
      BY <1>1, <2>1, <2>2, <2>3, <2>4, <2>5, <2>6, <2>7, ActorOnce DEF Slot
  <1> QED
    BY <1>2, <1>3, <1>4 DEF PendingWorkCheck, PendingWorkReserve, sessionVars, boundVars

\* Nothing this is about changes.
LEMMA StillOnce ==
    ASSUME OnceInv,
           UNCHANGED <<active, pend, mailbox, task, actor, turnCount, sent, history, discarded, terminal>>
    PROVE  OnceInv'
  <1>1. Ctl'
    BY DEF OnceInv, Ctl, Types, ActorFits, TurnsApart, TaskFits, Fit
  <1>2. \A i, f, x : Lies(f, x, i)' => Lies(f, x, i)
    BY DEF Lies
  <1>3. \A i : OnceOf(i)'
    BY <1>2, StaysOnce DEF OnceInv
  <1>4. \A i : UnsentOf(i)'
    BY <1>2 DEF OnceInv, UnsentOf
  <1> QED
    BY <1>1, <1>3, <1>4 DEF OnceInv

\* start_task reserves the slot.
LEMMA StartReserveOnce ==
    ASSUME OnceInv, NEW a \in Actors, StartReserve(a)
    PROVE  OnceInv'
  <1>1. Types
    BY DEF OnceInv, Ctl
  <1>2. /\ actor[a].pc = "stReserve" /\ actor[a].pc \notin Deciding /\ turnCount' = turnCount
        /\ UNCHANGED <<pend, mailbox, task, sent, history, discarded, terminal>>
    BY DEF StartReserve, itemVars, eventVars, boundVars, Deciding
  <1>3. actor[a].turn \in Turns /\ (actor[a].replace => actor[a].turn # 0)
    BY <1>1, <1>2, ActorFields DEF OnceInv, Ctl, ActorFits, Fit, FitsAt, Readying
  <1>4. \E s \in TurnStates : Slot(active.task, s)
    <2>1. CASE active = NoTurn
      BY <1>3, <2>1, SlotReserved, Sets DEF StartReserve, NoTurn
    <2>2. CASE active # NoTurn
      BY <1>1, <2>2, SlotFields, SlotSame DEF StartReserve, Slots
    <2> QED
      BY <2>1, <2>2
  <1>5. PICK s \in TurnStates : Slot(active.task, s)
    BY <1>4
  <1>6. actor' = [actor EXCEPT ![a] = [@ EXCEPT !.pc = "stExtend", !.ts = s]]
    BY <1>5 DEF StartReserve, Slot
  <1>7. Acts(a, "stExtend", actor[a].turn, actor[a].kind, actor[a].input,
             actor[a].victim, actor[a].replace, s, actor[a].items)
    BY <1>1, <1>6, ActsState DEF Types, ActorStages, Starting, Slots
  <1>8. FitsAt(a, "stExtend", actor[a].turn, actor[a].victim, actor[a].replace, s)
    BY <1>3, Sets DEF FitsAt, Readying, Stopping, Idling, Aborting
  <1>9. /\ actor[a].victim # 0 => task[actor[a].victim].pc # "none"
        /\ turnCount' \in 0..MaxTurns
    BY <1>1, <1>2 DEF OnceInv, Ctl, ActorFits, Types
  <1> QED
    BY <1>2, <1>5, <1>7, <1>8, <1>9, ActorOnce DEF Slot

\* try_start_turn_if_idle up to its decision.
LEMMA TryStartOnce ==
    ASSUME OnceInv, NEW a \in Actors,
           TryStartReserve(a) \/ TryStartRecheck(a) \/ TryStartClear(a)
    PROVE  OnceInv'
  <1>1. Types
    BY DEF OnceInv, Ctl
  <1>2. /\ actor[a].pc \in {"tsReserve", "tsRecheck", "tsClear"} /\ actor[a].pc # "rest"
        /\ UNCHANGED <<pend, mailbox, task, sent, history, discarded, terminal>>
    BY DEF TryStartReserve, TryStartRecheck, TryStartClear, itemVars, eventVars, sessionVars
  <1>3. /\ a \notin {Loop, GuardianId, Realtime}
        /\ actor[a].pc = "tsRecheck" => actor[a].turn # 0 /\ actor[a].ts # NoTS
        /\ actor[a].victim # 0 => task[actor[a].victim].pc # "none"
    BY <1>2 DEF OnceInv, Ctl, ActorFits, Fit, FitsAt, Idling
  <1>4. CASE active' \in {active, NoTurn} /\ turnCount' = turnCount /\ Done(a)
    BY <1>2, <1>4, RestsOnce DEF Done
  <1>5. CASE TryStartRecheck(a) /\ ~Done(a)
    <2>1. PICK l \in {"tsClear", "tsExtend"} : Goto(a, l)
      BY <1>5, Zenon DEF TryStartRecheck
    <2>2. FitsAt(a, l, actor[a].turn, actor[a].victim, actor[a].replace, actor[a].ts)
      BY <1>3, <1>5, <2>1 DEF FitsAt, Readying, Stopping, Idling, Aborting, TryStartRecheck
    <2>3. active' \in {active, NoTurn} /\ turnCount' = turnCount
      BY <1>5 DEF TryStartRecheck, sessionVars, boundVars
    <2>4. l \in Deciding /\ l \in ActorStages
      BY DEF Deciding, ActorStages, Idling
    <2> QED
      BY <1>2, <2>1, <2>2, <2>3, <2>4, GoesOnce DEF Goto
  <1>6. CASE TryStartClear(a)
    <2>1. Acts(a, "msCheck", 0, "regular", {}, 0, FALSE, NoTS, {})
      BY <1>1, <1>6, ActsFresh DEF TryStartClear, Types, ActorStages, Starting
    <2>2. FitsAt(a, "msCheck", 0, 0, FALSE, NoTS)
      BY DEF FitsAt, Readying, Stopping, Idling, Aborting
    <2>3. active' \in {active, NoTurn} /\ turnCount' = turnCount
      BY <1>6 DEF TryStartClear, boundVars
    <2>4. /\ active' \in [task : Turns \cup {0}, ts : TurnStates, next : BOOLEAN] \cup {NoTurn}
          /\ active'.task \in {0, active.task} /\ turnCount' \in 0..MaxTurns
      BY <1>1, <2>3 DEF Types, NoTurn
    <2>5. PICK r, S : /\ r = FALSE /\ S = {} /\ Acts(a, "msCheck", 0, "regular", S, 0, r, NoTS, S)
                      /\ FitsAt(a, "msCheck", 0, 0, r, NoTS)
      BY <2>1, <2>2
    <2> QED
      BY <1>2, <2>3, <2>4, <2>5, ActorOnce
  <1>7. CASE TryStartReserve(a) /\ active = NoTurn
    <2> DEFINE n == FreshTurn
    <2>1. /\ CanBegin /\ Reserve(n) /\ turnCount' = n
          /\ actor' = [actor EXCEPT ![a] = [@ EXCEPT !.pc = "tsRecheck", !.turn = n, !.ts = <<n, 1>>]]
      BY <1>7, Zenon DEF TryStartReserve
    <2>2. Types /\ n \in Turns /\ n = turnCount + 1 /\ turnCount \in Nat
      BY <2>1, FreshIsTurn DEF OnceInv, Ctl, Types
    <2> HIDE DEF n
    <2>3. PICK s \in TurnStates : s = <<n, 1>> /\ s # NoTS
      BY <2>2, Sets
    <2>4. Acts(a, "tsRecheck", n, actor[a].kind, actor[a].input, actor[a].victim,
               actor[a].replace, s, actor[a].items)
      BY <2>1, <2>2, <2>3, ActsTurnState DEF Types, ActorStages, Idling, Slots
    <2>5. Slot(0, s)
      BY <2>1, <2>2, <2>3, SlotReserved
    <2>6. FitsAt(a, "tsRecheck", n, actor[a].victim, actor[a].replace, s)
      BY <1>3, <2>2, <2>3, Sets DEF FitsAt, Readying, Stopping, Idling, Aborting
    <2>7. turnCount' \in 0..MaxTurns /\ turnCount' = turnCount + 1 /\ "tsRecheck" \in Deciding
      BY <2>1, <2>2 DEF Turns, Deciding
    <2> QED
      BY <1>2, <1>3, <2>1, <2>2, <2>4, <2>5, <2>6, <2>7, ActorOnce DEF Slot
  <1> QED
    BY <1>4, <1>5, <1>6, <1>7 DEF TryStartReserve, TryStartRecheck, sessionVars, boundVars

\* The submission loop begins to replace or to abort a turn.
LEMMA LoopBeginsOnce ==
    ASSUME OnceInv, Interrupt \/ Shutdown \/ \E k \in AuxKinds : SpawnAux(k)
    PROVE  OnceInv'
  <1>1. Types
    BY DEF OnceInv, Ctl
  <1>2. /\ actor[Loop].pc = "rest" /\ actor[Loop].pc \notin Deciding
        /\ UNCHANGED <<active, pend, mailbox, task, sent, history, discarded, terminal>>
    BY DEF Interrupt, Shutdown, SpawnAux, LoopReady, itemVars, eventVars, sessionVars, Deciding
  <1>3. /\ active' \in [task : Turns \cup {0}, ts : TurnStates, next : BOOLEAN] \cup {NoTurn}
        /\ active'.task \in {0, active.task}
    BY <1>1, <1>2 DEF Types
  <1>4. CASE Interrupt \/ Shutdown
    <2>1. Acts(Loop, "abTake", 0, "regular", {}, 0, FALSE, NoTS, {})
      BY <1>1, <1>4, ActsFresh, Sets DEF Interrupt, Shutdown, Types, ActorStages, Aborting
    <2>2. FitsAt(Loop, "abTake", 0, 0, FALSE, NoTS)
      BY DEF FitsAt, Readying, Stopping, Idling, Aborting
    <2>3. turnCount' = turnCount /\ turnCount' \in 0..MaxTurns
      BY <1>1, <1>4 DEF Interrupt, Shutdown, boundVars, Types
    <2>4. PICK r, S : /\ r = FALSE /\ S = {} /\ Acts(Loop, "abTake", 0, "regular", S, 0, r, NoTS, S)
                      /\ FitsAt(Loop, "abTake", 0, 0, r, NoTS)
      BY <2>1, <2>2
    <2> QED
      BY <1>2, <1>3, <2>3, <2>4, ActorOnce, Sets
  <1>5. ASSUME NEW k \in AuxKinds, SpawnAux(k) PROVE OnceInv'
    <2>1. CASE UNCHANGED <<actor, turnCount>>
      BY <1>2, <2>1, StillOnce
    <2>2. CASE ~UNCHANGED <<actor, turnCount>>
      <3> DEFINE n == FreshTurn
      <3>1. /\ CanBegin /\ turnCount' = n
            /\ actor' = [actor EXCEPT ![Loop] =
                             [Rest EXCEPT !.pc = "abTake", !.replace = TRUE, !.turn = n, !.kind = k]]
        BY <1>5, <2>2, Zenon DEF SpawnAux, SpawnTask
      <3>2. n \in Turns /\ n = turnCount + 1 /\ turnCount \in Nat
        BY <1>1, <3>1, FreshIsTurn DEF Types
      <3> HIDE DEF n
      <3>3. Acts(Loop, "abTake", n, k, {}, 0, TRUE, NoTS, {})
        BY <1>1, <3>1, <3>2, ActsKind, Sets DEF Types, ActorStages, Aborting, Kinds
      <3>4. FitsAt(Loop, "abTake", n, 0, TRUE, NoTS)
        BY <3>2, Sets DEF FitsAt, Readying, Stopping, Idling, Aborting
      <3>5. turnCount' = turnCount + 1 /\ turnCount' \in 0..MaxTurns
        BY <3>1, <3>2 DEF Turns
      <3>6. PICK r, S : /\ r = TRUE /\ S = {} /\ Acts(Loop, "abTake", n, k, S, 0, r, NoTS, S)
                        /\ FitsAt(Loop, "abTake", n, 0, r, NoTS)
        BY <3>3, <3>4
      <3>7. Loop \in Actors /\ Loop \notin Turns /\ S \subseteq actor[Loop].input /\ S \subseteq actor[Loop].items
        BY <3>6, Sets
      <3> QED
        BY <1>2, <1>3, <3>2, <3>5, <3>6, <3>7, ActorOnce
    <2> QED
      BY <2>1, <2>2
  <1> QED
    BY <1>4, <1>5

\* The app server asks for an automatic turn, and the guardian picks a turn.
LEMMA OutsidersOnce ==
    ASSUME OnceInv, AppServerIdle \/ GuardianTrip
    PROVE  OnceInv'
  <1>1. Types
    BY DEF OnceInv, Ctl
  <1>2. /\ UNCHANGED <<active, pend, mailbox, task, sent, history, discarded, terminal, turnCount>>
        /\ GuardianId \in Actors \ Turns /\ AppServer \in Actors \ Turns
    BY SessionAssumption
       DEF AppServerIdle, GuardianTrip, itemVars, eventVars, sessionVars, boundVars, Actors, GuardianId, AppServer, Turns
  <1>3. CASE AppServerIdle
    <2>1. actor[AppServer].pc \notin Deciding
      BY <1>3 DEF AppServerIdle, Deciding
    <2>2. FitsAt(AppServer, "idle", actor[AppServer].turn, actor[AppServer].victim,
                 actor[AppServer].replace, actor[AppServer].ts)
      BY DEF FitsAt, Readying, Stopping, Idling, Aborting, AppServer, Loop, GuardianId, Realtime
    <2> QED
      BY <1>2, <1>3, <2>1, <2>2, GoesOnce DEF AppServerIdle, Goto, ActorStages, Idling
  <1>4. CASE GuardianTrip
    <2>1. PICK v \in Turns : v = active.task
      BY <1>1, <1>4, SlotFields DEF GuardianTrip
    <2>2. task[v].pc # "none"
      BY <2>1 DEF OnceInv, Ctl, TaskFits
    <2>3. Acts(GuardianId, "gTake", 0, "regular", {}, v, FALSE, NoTS, {})
      BY <1>1, <1>2, <1>4, <2>1, ActsHunt DEF GuardianTrip, Types, ActorStages, Aborting
    <2>4. FitsAt(GuardianId, "gTake", 0, v, FALSE, NoTS)
      BY Sets DEF FitsAt, Readying, Stopping, Idling, Aborting
    <2>5. PICK r, S : /\ r = FALSE /\ S = {} /\ Acts(GuardianId, "gTake", 0, "regular", S, v, r, NoTS, S)
                      /\ FitsAt(GuardianId, "gTake", 0, v, r, NoTS)
      BY <2>3, <2>4
    <2>6. /\ active' \in [task : Turns \cup {0}, ts : TurnStates, next : BOOLEAN] \cup {NoTurn}
          /\ active'.task \in {0, active.task} /\ turnCount' \in 0..MaxTurns
      BY <1>1, <1>2 DEF Types
    <2> QED
      BY <1>2, <2>2, <2>5, <2>6, ActorOnce
  <1> QED
    BY <1>3, <1>4

\* A step of one actor while the tasks stay.
LEMMA ActorCtl ==
    ASSUME Ctl, Types', NEW a \in Actors, NEW l, NEW t, NEW k, NEW S, NEW v, NEW r, NEW s, NEW X,
           Acts(a, l, t, k, S, v, r, s, X), task' = task,
           active'.task \in {0, active.task}, turnCount' \in {turnCount, turnCount + 1},
           FitsAt(a, l, t, v, r, s),
           t \in {0, actor[a].turn} \/ (t = turnCount + 1 /\ turnCount' = turnCount + 1),
           v \in {0, actor[a].victim},
           a \notin Turns \/ actor[a].pc # "rest"
    PROVE  Ctl'
  <1>1. a \notin Turns \/ task'[a].pc = "ended"
    BY DEF Ctl, TaskFits
  <1>2. \A u \in Turns : task'[u].pc \in Ending => task'[u].ts # NoTS
    BY DEF Ctl, TaskFits
  <1>3. actor'[a].turn = t /\ actor'[a].victim = v /\ \A b \in Actors : b # a => actor'[b] = actor[b]
    BY DEF Acts
  <1>4. Fit(a)'
    BY DEF Acts, Fit
  <1>5. v # 0 => task[v].pc # "none"
    BY DEF Ctl, ActorFits
  <1> QED
    BY <1>1, <1>2, <1>3, <1>4, <1>5, CtlKept

\* A step of one task while the actors stay.
LEMMA TaskCtl ==
    ASSUME Ctl, Types', NEW t \in Turns, NEW l, NEW k, NEW c, NEW S, NEW s,
           Runs(t, l, k, c, S, s), UNCHANGED <<actor, turnCount>>,
           active'.task \in {0, active.task},
           task[t].pc \notin {"none", "ended"}, l # "none", l \in Ending => s # NoTS
    PROVE  Ctl'
  <1>1. \A u \in Turns : /\ task'[u].pc = "none" <=> task[u].pc = "none"
                         /\ task[u].pc = "ended" => task'[u].pc = "ended"
                         /\ task'[u].pc \in Ending => task'[u].ts # NoTS
    BY DEF Runs, Ctl, TaskFits
  <1>2. Fit(Loop)' /\ Loop \in Actors /\ Loop \notin Turns
    BY Sets DEF Ctl, ActorFits, Fit
  <1>3. actor[Loop].victim # 0 => task[actor[Loop].victim].pc # "none"
    BY Sets DEF Ctl, ActorFits
  <1> QED
    BY <1>1, <1>2, <1>3, CtlKept

\* Only what an actor decides on was not handed in.
LEMMA LyingIsSent ==
    ASSUME OnceInv, NEW i, NEW f, NEW x, Lies(f, x, i),
           f # "items" \/ actor[x].pc \notin Deciding
    PROVE  i \in sent
  BY DEF OnceInv, UnsentOf

\* What was not handed in, where nothing happens to it.
LEMMA StaysUnsent ==
    ASSUME OnceInv, NEW i, i \notin sent, \A f, x : Lies(f, x, i)' => Lies(f, x, i),
           \A x \in Actors : i \in actor'[x].items \cup actor'[x].input => actor'[x] = actor[x]
    PROVE  UnsentOf(i)'
  <1> SUFFICES ASSUME NEW f, NEW x, Lies(f, x, i)'
               PROVE  f = "items" /\ i \in GoalItems /\ actor'[x].pc \in Deciding
    BY DEF UnsentOf
  <1>1. f = "items" /\ i \in GoalItems /\ actor[x].pc \in Deciding
    BY DEF OnceInv, UnsentOf
  <1>2. x \in Actors /\ i \in actor'[x].items
    BY <1>1 DEF Lies
  <1> QED
    BY <1>1, <1>2

\* What get_pending_input returns is where it was no more.
LEMMA DrainLeaves ==
    ASSUME Types, DrainInput
    PROVE  /\ \A i \in Drainable : \E f, x : f \in {"pend", "mailbox"} /\ Lies(f, x, i) /\ ~Lies(f, x, i)'
           /\ \A s \in TurnStates : pend'[s] \subseteq pend[s]
           /\ mailbox' \subseteq mailbox
  <1>1. ASSUME NEW i \in Drainable
        PROVE  \E f, x : f \in {"pend", "mailbox"} /\ Lies(f, x, i) /\ ~Lies(f, x, i)'
    <2>1. CASE active # NoTurn /\ i \in pend[active.ts]
      <3>1. PICK s \in TurnStates : s = active.ts
        BY <2>1, SlotFields DEF Slots
      <3>2. Lies("pend", s, i) /\ ~Lies("pend", s, i)'
        BY <2>1, <3>1 DEF Lies, DrainInput, Types
      <3> QED
        BY <3>2
    <2>2. CASE i \in mailbox /\ TakesMail
      <3>1. Lies("mailbox", 0, i) /\ ~Lies("mailbox", 0, i)'
        BY <2>2 DEF Lies, DrainInput
      <3> QED
        BY <3>1
    <2> QED
      BY <1>1, <2>1, <2>2 DEF Drainable
  <1>2. \A s \in TurnStates : pend'[s] \subseteq pend[s]
    BY DEF Types, DrainInput
  <1>3. mailbox' \subseteq mailbox
    BY DEF DrainInput
  <1> QED
    BY <1>1, <1>2, <1>3

\* A task that runs takes input from one place to another.
LEMMA WorksOnce ==
    ASSUME OnceInv, NEW t \in Turns, NEW l, NEW S, Works(t, l, S)
    PROVE  OnceInv'
  <1>1. Types /\ Ctl
    BY DEF OnceInv, Ctl
  <1>2. /\ Runs(t, l, task[t].kind, task[t].cancelled, S, task[t].ts)
        /\ Slot(active.task, active.ts) /\ UNCHANGED <<actor, turnCount, sent, terminal>>
        /\ task[t].pc \in Running /\ l \in Running \cup {"flush"}
        /\ Hands(t, S)
    BY DEF Works
  <1>3. pend' \in [TurnStates -> SUBSET Items] /\ mailbox' \subseteq Mails
    BY <1>1, DrainTyped DEF Works, Types
  <1>4. Types'
    BY <1>1, <1>2, <1>3 DEF Types, Runs, Slot
  <1>5. Ctl'
    <2>1. task[t].pc \notin {"none", "ended"} /\ l # "none" /\ l \notin Ending
      BY <1>2 DEF Running, Ending
    <2>2. active'.task \in {0, active.task}
      BY <1>2 DEF Slot
    <2> QED
      BY <1>1, <1>2, <1>4, <2>1, <2>2, TaskCtl
  <1>6. /\ \A u \in Turns : u # t => task'[u] = task[u]
        /\ task'[t].input = S /\ actor' = actor /\ sent' = sent
    BY <1>2 DEF Runs
  <1>7. CASE UNCHANGED <<pend, mailbox, history, discarded>> /\ S = task[t].input
    <2>1. \A i, f, x : Lies(f, x, i)' => Lies(f, x, i)
      BY <1>6, <1>7 DEF Lies
    <2>2. \A i : OnceOf(i)'
      BY <2>1, StaysOnce DEF OnceInv
    <2>3. \A i : UnsentOf(i)'
      BY <1>6, <2>1, StaysUnsent DEF UnsentOf
    <2> QED
      BY <1>5, <2>2, <2>3 DEF OnceInv
  <1>8. CASE UNCHANGED <<history, discarded>> /\ DrainInput /\ S = Drainable
    <2>1. \A i, f, x : Lies(f, x, i)' => Lies(f, x, i) \/ (f = "task" /\ x = t)
      BY <1>1, <1>6, <1>8, DrainLeaves DEF Lies
    <2>2. \A i : Lies("task", t, i)' => \E f, x : f # "items" /\ Lies(f, x, i) /\ ~Lies(f, x, i)'
      BY <1>1, <1>6, <1>8, DrainLeaves DEF Lies
    <2>3. \A i : OnceOf(i)'
      BY <2>1, <2>2, MovesOnce DEF OnceInv
    <2>4. \A i : i \notin sent => \A f, x : Lies(f, x, i)' => Lies(f, x, i)
      BY <2>1, <2>2, LyingIsSent
    <2>5. \A i : UnsentOf(i)'
      BY <1>6, <2>4, StaysUnsent DEF UnsentOf
    <2> QED
      BY <1>5, <2>3, <2>5 DEF OnceInv
  <1>9. CASE /\ UNCHANGED <<pend, mailbox>> /\ S = {}
             /\ \E B \in SUBSET task[t].input :
                  history' = history \cup (task[t].input \ B) /\ discarded' = discarded \cup B
    <2>0. PICK B \in SUBSET task[t].input :
              history' = history \cup (task[t].input \ B) /\ discarded' = discarded \cup B
      BY <1>9
    <2>1. \A i \in B : \A f, x : Lies(f, x, i)' => Lies(f, x, i) \/ (f = "discarded" /\ x = 0)
      BY <1>6, <1>9, <2>0 DEF Lies
    <2>2. \A i, f, x : i \notin B /\ Lies(f, x, i)' => Lies(f, x, i) \/ (f = "history" /\ x = 0 /\ i \in task[t].input)
      BY <1>6, <1>9, <2>0 DEF Lies
    <2>3. \A i \in task[t].input : Lies("task", t, i) /\ ~Lies("task", t, i)'
      BY <1>6, <1>9 DEF Lies
    <2>4. \A i : OnceOf(i)'
      <3> SUFFICES ASSUME NEW i PROVE OnceOf(i)'
        OBVIOUS
      <3>1. CASE i \in B
        BY <2>0, <2>1, <2>3, <3>1, MovesOnce DEF OnceInv
      <3>2. CASE i \in task[t].input \ B
        BY <2>2, <2>3, <3>2, MovesOnce DEF OnceInv
      <3>3. CASE i \notin task[t].input
        BY <2>0, <2>2, <3>3, StaysOnce DEF OnceInv
      <3> QED
        BY <2>0, <3>1, <3>2, <3>3
    <2>5. \A i : i \notin sent => \A f, x : Lies(f, x, i)' => Lies(f, x, i)
      BY <2>0, <2>2, <2>3, LyingIsSent
    <2>6. \A i : UnsentOf(i)'
      BY <1>6, <2>5, StaysUnsent DEF UnsentOf
    <2> QED
      BY <1>5, <2>4, <2>6 DEF OnceInv
  <1> QED
    BY <1>2, <1>7, <1>8, <1>9 DEF Hands

\* A task that drops its input, or keeps it, on its way to another stage.
LEMMA FadesOnce ==
    ASSUME OnceInv, NEW t \in Turns, NEW l, NEW k, NEW c, NEW S, NEW s,
           Runs(t, l, k, c, S, s), S \subseteq task[t].input,
           active' \in [task : Turns \cup {0}, ts : TurnStates, next : BOOLEAN] \cup {NoTurn},
           active'.task \in {0, active.task},
           UNCHANGED <<pend, mailbox, actor, turnCount, sent, history, discarded, terminal>>,
           task[t].pc \notin {"none", "ended"}, l # "none", l \in Ending => s # NoTS
    PROVE  OnceInv'
  <1>1. Ctl /\ Types'
    BY DEF OnceInv, Ctl, Types, Runs
  <1>2. Ctl'
    BY <1>1, TaskCtl
  <1>3. \A i, f, x : Lies(f, x, i)' => Lies(f, x, i)
    BY DEF Lies, Runs
  <1>4. \A i : OnceOf(i)'
    BY <1>3, StaysOnce DEF OnceInv
  <1>5. \A i : UnsentOf(i)'
    BY <1>3, StaysUnsent DEF UnsentOf
  <1> QED
    BY <1>2, <1>4, <1>5 DEF OnceInv

\* on_task_finished up to its taking the slot's task.
LEMMA FinishOnce ==
    ASSUME OnceInv, NEW t \in Turns, FinishCheck(t) \/ FinishTake(t)
    PROVE  OnceInv'
  <1>1. Types /\ task \in [Turns -> Task] /\ task[t].kind \in Kinds
    BY TaskFields DEF OnceInv, Ctl, Types
  <1>2. /\ task[t].pc \in {"flush", "finTake"} /\ task[t].pc \notin {"none", "ended"}
        /\ UNCHANGED <<pend, mailbox, actor, turnCount, sent, history, discarded, terminal>>
    BY DEF FinishCheck, FinishTake, sessionVars, boundVars, itemVars, eventVars
  <1>3. CASE task' = [task EXCEPT ![t] = Ended] /\ active' = active
    <2>1. Runs(t, "ended", "regular", FALSE, {}, NoTS)
      BY <1>1, <1>3, RunsEnded
    <2>2. PICK c, S : c = FALSE /\ S = {} /\ Runs(t, "ended", "regular", c, S, NoTS)
      BY <2>1
    <2>3. /\ active' \in [task : Turns \cup {0}, ts : TurnStates, next : BOOLEAN] \cup {NoTurn}
          /\ active'.task \in {0, active.task} /\ "ended" \notin Ending
      BY <1>1, <1>3 DEF Types, Ending
    <2> QED
      BY <1>2, <2>2, <2>3, FadesOnce
  <1>4. CASE FinishCheck(t) /\ ~task[t].cancelled
    <2>1. active' = active /\ task' = [task EXCEPT ![t] = [NoTask EXCEPT !.pc = "finTake", !.kind = task[t].kind]]
      BY <1>4 DEF FinishCheck, sessionVars
    <2>2. Runs(t, "finTake", task[t].kind, FALSE, {}, NoTS)
      BY <1>1, <2>1, RunsKind DEF TaskStages, Finishing
    <2>3. PICK c, S : c = FALSE /\ S = {} /\ Runs(t, "finTake", task[t].kind, c, S, NoTS)
      BY <2>2
    <2>4. /\ active' \in [task : Turns \cup {0}, ts : TurnStates, next : BOOLEAN] \cup {NoTurn}
          /\ active'.task \in {0, active.task} /\ "finTake" \notin Ending
      BY <1>1, <2>1 DEF Types, Ending
    <2> QED
      BY <1>2, <2>3, <2>4, FadesOnce
  <1>5. CASE FinishTake(t) /\ active.task # 0
    <2>1. PICK s \in TurnStates : s = active.ts /\ s # NoTS
      BY <1>1, <1>5, SlotFields, Sets
    <2>2. /\ active' = [active EXCEPT !.task = 0]
          /\ task' = [task EXCEPT ![t] = [@ EXCEPT !.pc = "finRecord", !.ts = s]]
      BY <1>5, <2>1 DEF FinishTake, TakeTask
    <2>3. Slot(0, s)
      BY <1>1, <2>1, <2>2, SlotTaken
    <2>4. Runs(t, "finRecord", task[t].kind, task[t].cancelled, task[t].input, s)
      BY <1>1, <2>2, RunsState DEF TaskStages, Finishing, Slots
    <2> QED
      BY <1>2, <2>1, <2>3, <2>4, FadesOnce DEF Slot
  <1> QED
    BY <1>3, <1>4, <1>5 DEF FinishCheck, FinishTake, sessionVars

\* on_task_finished records what is pending, once.
LEMMA FinishRecordOnce ==
    ASSUME OnceInv, NEW t \in Turns, FinishRecord(t)
    PROVE  OnceInv'
  <1>1. Types /\ Ctl /\ task \in [Turns -> Task]
    BY DEF OnceInv, Ctl, Types
  <1>2. /\ task[t].pc = "finRecord" /\ TaskGoto(t, "finClear")
        /\ UNCHANGED <<active, mailbox, actor, turnCount, sent>>
        /\ pend' = [pend EXCEPT ![task[t].ts] = {}]
        /\ terminal' = [terminal EXCEPT ![t] = @ + 1]
    BY DEF FinishRecord, boundVars
  <1>3. PICK s \in TurnStates : s = task[t].ts
    <2>1. task[t].ts # NoTS
      BY <1>2 DEF OnceInv, Ctl, TaskFits, Ending
    <2> QED
      BY <1>1, <2>1, TaskFields DEF Slots
  <1>4. PICK B \in SUBSET pend[s] : history' = history \cup (pend[s] \ B) /\ discarded' = discarded \cup B
    <2>1. PICK B \in {{}, pend[s] \cap Prompts} :
              history' = history \cup (pend[s] \ B) /\ discarded' = discarded \cup B
      BY <1>3 DEF FinishRecord, Leftover
    <2>2. B \in SUBSET pend[s]
      OBVIOUS
    <2> QED
      BY <2>1, <2>2
  <1>5. Runs(t, "finClear", task[t].kind, task[t].cancelled, task[t].input, task[t].ts)
    BY <1>1, <1>2, RunsGoto DEF TaskGoto, TaskStages, Finishing
  <1>6. Types'
    <2>1. pend' \in [TurnStates -> SUBSET Items]
      BY <1>1, <1>2 DEF Types
    <2>2. terminal' \in [Turns -> Nat]
      BY <1>1, <1>2 DEF Types
    <2> QED
      BY <1>1, <1>2, <1>5, <2>1, <2>2 DEF Types, Runs
  <1>7. Ctl'
    <2>1. task[t].ts # NoTS
      BY <1>3, Sets
    <2> QED
      BY <1>1, <1>2, <1>5, <1>6, <2>1, TaskCtl
  <1>8. /\ \A u \in Turns : task'[u].input = task[u].input
        /\ \A x \in TurnStates : pend'[x] = IF x = s THEN {} ELSE pend[x]
    BY <1>1, <1>2, <1>3, <1>5 DEF Runs, Types
  <1>9. \A i \in B : \A f, x : Lies(f, x, i)' => Lies(f, x, i) \/ (f = "discarded" /\ x = 0)
    BY <1>2, <1>4, <1>8 DEF Lies
  <1>10. \A i, f, x : i \notin B /\ Lies(f, x, i)' => Lies(f, x, i) \/ (f = "history" /\ x = 0 /\ i \in pend[s])
    BY <1>2, <1>4, <1>8 DEF Lies
  <1>11. \A i \in pend[s] : Lies("pend", s, i) /\ ~Lies("pend", s, i)'
    BY <1>8 DEF Lies
  <1>12. \A i : OnceOf(i)'
    <2> SUFFICES ASSUME NEW i PROVE OnceOf(i)'
      OBVIOUS
    <2>1. CASE i \in B
      BY <1>4, <1>9, <1>11, <2>1, MovesOnce DEF OnceInv
    <2>2. CASE i \in pend[s] \ B
      BY <1>10, <1>11, <2>2, MovesOnce DEF OnceInv
    <2>3. CASE i \notin pend[s]
      BY <1>4, <1>10, <2>3, StaysOnce DEF OnceInv
    <2> QED
      BY <1>4, <2>1, <2>2, <2>3
  <1>13. \A i : i \notin sent => \A f, x : Lies(f, x, i)' => Lies(f, x, i)
    BY <1>4, <1>10, <1>11, LyingIsSent
  <1>14. \A i : UnsentOf(i)'
    BY <1>2, <1>13, StaysUnsent DEF UnsentOf
  <1> QED
    BY <1>7, <1>12, <1>14 DEF OnceInv

\* on_task_finished clears the slot and goes on as an actor.
LEMMA FinishClearOnce ==
    ASSUME OnceInv, NEW t \in Turns, FinishClear(t)
    PROVE  OnceInv'
  <1>1. Types /\ Ctl /\ task \in [Turns -> Task] /\ t \in Actors
    BY Sets DEF OnceInv, Ctl, Types
  <1>2. /\ task[t].pc = "finClear"
        /\ UNCHANGED <<pend, mailbox, turnCount, sent, history, discarded, terminal>>
    BY DEF FinishClear, boundVars, itemVars, eventVars
  <1>3. Runs(t, "ended", "regular", FALSE, {}, NoTS)
    BY <1>1, RunsEnded DEF FinishClear
  <1>4. CASE UNCHANGED <<active, actor>>
    <2>1. PICK c, S : c = FALSE /\ S = {} /\ Runs(t, "ended", "regular", c, S, NoTS)
      BY <1>3
    <2>2. /\ active' \in [task : Turns \cup {0}, ts : TurnStates, next : BOOLEAN] \cup {NoTurn}
          /\ active'.task \in {0, active.task} /\ "ended" \notin Ending
      BY <1>1, <1>4 DEF Types, Ending
    <2> QED
      BY <1>2, <1>4, <2>1, <2>2, FadesOnce
  <1>5. CASE active' = NoTurn /\ Goto(t, "idle")
    <2>1. Acts(t, "idle", actor[t].turn, actor[t].kind, actor[t].input,
               actor[t].victim, actor[t].replace, actor[t].ts, actor[t].items)
      BY <1>1, <1>5, ActsGoto DEF Goto, Types, ActorStages, Idling
    <2>2. Types'
      BY <1>1, <1>2, <1>3, <1>5, <2>1 DEF Types, Acts, Runs
    <2>3. Fit(t)'
      <3>1. t \notin {Loop, GuardianId, Realtime}
        BY SessionAssumption DEF Loop, GuardianId, Realtime, Turns
      <3> QED
        BY <2>1, <3>1 DEF Acts, Fit, FitsAt, Readying, Stopping, Idling, Aborting
    <2>4. actor[t].victim # 0 => task[actor[t].victim].pc # "none"
      BY <1>1 DEF Ctl, ActorFits
    <2>5. \A u \in Turns : /\ task'[u].pc = "none" <=> task[u].pc = "none"
                           /\ task[u].pc = "ended" => task'[u].pc = "ended"
                           /\ task'[u].pc \in Ending => task'[u].ts # NoTS
      BY <1>1, <1>2, <1>3 DEF Runs, Ctl, TaskFits, Ending
    <2>6. /\ actor'[t].turn = actor[t].turn /\ actor'[t].victim = actor[t].victim
          /\ \A b \in Actors : b # t => actor'[b] = actor[b]
          /\ task'[t].pc = "ended" /\ active'.task = 0
      BY <1>3, <1>5, <2>1 DEF Acts, Runs, NoTurn
    <2>7. Ctl'
      BY <1>1, <1>2, <2>2, <2>3, <2>4, <2>5, <2>6, CtlKept
    <2>8. \A i, f, x : Lies(f, x, i)' => Lies(f, x, i)
      BY <1>2, <1>3, <2>1 DEF Lies, Acts, Runs
    <2>9. actor[t].pc \notin Deciding
      BY <1>1, <1>2 DEF Ctl, TaskFits, Deciding
    <2>10. \A i : OnceOf(i)'
      BY <2>8, StaysOnce DEF OnceInv
    <2>11. \A i : UnsentOf(i)'
      <3> SUFFICES ASSUME NEW i, i \notin sent PROVE UnsentOf(i)'
        BY <1>2 DEF UnsentOf
      <3>1. i \notin actor[t].items \cup actor[t].input
        BY <1>1, <2>9, LyingIsSent DEF Lies
      <3>2. \A x \in Actors : i \in actor'[x].items \cup actor'[x].input => actor'[x] = actor[x]
        BY <2>1, <3>1 DEF Acts
      <3> QED
        BY <2>8, <3>2, StaysUnsent
    <2> QED
      BY <2>7, <2>10, <2>11 DEF OnceInv
  <1> QED
    BY <1>4, <1>5 DEF FinishClear

\* handle_task_abort stops a task: its input is discarded, once.
LEMMA AbortStopOnce ==
    ASSUME OnceInv, NEW a \in Actors, AbortCancel(a) \/ AbortKill(a)
    PROVE  OnceInv'
  <1>1. Types /\ Ctl /\ task \in [Turns -> Task] /\ actor \in [Actors -> Actor]
    BY DEF OnceInv, Ctl, Types
  <1>2. /\ actor[a].pc \in {"abCancel", "abKill"} /\ actor[a].pc \notin Deciding
        /\ UNCHANGED <<active, pend, mailbox, turnCount, sent, history>>
    BY DEF AbortCancel, AbortKill, sessionVars, boundVars, itemVars, Deciding
  <1>3. PICK v \in Turns : v = actor[a].victim
    <2>1. actor[a].victim # 0
      BY <1>2 DEF OnceInv, Ctl, ActorFits, Fit, FitsAt
    <2> QED
      BY <1>1, <2>1, ActorFields
  <1>4. /\ task[v].pc # "none" /\ actor[a].ts # NoTS
        /\ actor[a].replace => actor[a].turn # 0
    BY <1>2, <1>3, Sets DEF OnceInv, Ctl, ActorFits, Fit, FitsAt, Stopping, Aborting
  <1>5. PICK l \in {"abClear", "abKill"} : Goto(a, l)
    BY Zenon DEF AbortCancel, AbortKill
  <1>6. Acts(a, l, actor[a].turn, actor[a].kind, actor[a].input,
             actor[a].victim, actor[a].replace, actor[a].ts, actor[a].items)
    BY <1>1, <1>5, ActsGoto DEF Goto, ActorStages, Aborting
  <1>7. /\ task' \in [Turns -> Task] /\ \A u \in Turns : u # v => task'[u] = task[u]
        /\ \/ /\ task'[v].pc = task[v].pc /\ task'[v].ts = task[v].ts /\ task'[v].input = task[v].input
              /\ UNCHANGED <<discarded, terminal>>
           \/ /\ task'[v].pc = "ended" /\ task'[v].input = {}
              /\ discarded' = discarded \cup task[v].input
              /\ terminal' = [terminal EXCEPT ![v] = @ + 1]
    <2>1. CASE AbortCancel(a)
      <3>1. Runs(v, task[v].pc, task[v].kind, TRUE, task[v].input, task[v].ts)
        BY <1>1, <1>3, <2>1, RunsCancelled DEF AbortCancel, CancelToken
      <3> QED
        BY <2>1, <3>1 DEF AbortCancel, itemVars, eventVars, Runs
    <2>2. CASE AbortKill(a)
      <3>1. Runs(v, "ended", "regular", FALSE, {}, NoTS)
        BY <1>1, <1>3, <2>2, RunsEnded DEF AbortKill
      <3> QED
        BY <1>3, <2>2, <3>1 DEF AbortKill, Runs
    <2> QED
      BY <2>1, <2>2
  <1>8. Types'
    <2>1. terminal' \in [Turns -> Nat]
      BY <1>1, <1>7 DEF Types
    <2> QED
      BY <1>1, <1>2, <1>6, <1>7, <2>1 DEF Types, Acts
  <1>9. Ctl'
    <2>1. Fit(a)'
      BY <1>3, <1>4, <1>6, Sets DEF Acts, Fit, FitsAt, Readying, Stopping, Idling, Aborting
    <2>2. \A u \in Turns : /\ task'[u].pc = "none" <=> task[u].pc = "none"
                           /\ task[u].pc = "ended" => task'[u].pc = "ended"
                           /\ task'[u].pc \in Ending => task'[u].ts # NoTS
      BY <1>1, <1>4, <1>7 DEF Ctl, TaskFits, Ending
    <2>3. /\ actor'[a].turn = actor[a].turn /\ actor'[a].victim = v
          /\ \A b \in Actors : b # a => actor'[b] = actor[b]
      BY <1>3, <1>6 DEF Acts
    <2>4. a \notin Turns \/ task'[a].pc = "ended"
      BY <1>1, <1>2, <2>2 DEF Ctl, TaskFits
    <2> QED
      BY <1>1, <1>2, <1>4, <1>8, <2>1, <2>2, <2>3, <2>4, CtlKept
  <1>10. \A i, f, x : Lies(f, x, i)' => Lies(f, x, i) \/ (f = "discarded" /\ x = 0 /\ i \in task[v].input)
    BY <1>2, <1>6, <1>7 DEF Lies, Acts
  <1>11. \A i \in task[v].input :
             Lies("task", v, i) /\ (Lies("discarded", 0, i)' => Lies("discarded", 0, i) \/ ~Lies("task", v, i)')
    BY <1>7 DEF Lies
  <1>12. \A i : OnceOf(i)'
    <2> SUFFICES ASSUME NEW i PROVE OnceOf(i)'
      OBVIOUS
    <2>1. CASE i \in task[v].input
      BY <1>10, <1>11, <2>1, MovesOnce DEF OnceInv
    <2>2. CASE i \notin task[v].input
      BY <1>10, <2>2, StaysOnce DEF OnceInv
    <2> QED
      BY <2>1, <2>2
  <1>13. \A i : UnsentOf(i)'
    <2> SUFFICES ASSUME NEW i, i \notin sent PROVE UnsentOf(i)'
      BY <1>2 DEF UnsentOf
    <2>1. i \notin actor[a].items \cup actor[a].input /\ i \notin task[v].input
      BY <1>2, <1>11, LyingIsSent DEF Lies
    <2>2. \A x \in Actors : i \in actor'[x].items \cup actor'[x].input => actor'[x] = actor[x]
      BY <1>6, <2>1 DEF Acts
    <2> QED
      BY <1>10, <2>1, <2>2, StaysUnsent
  <1> QED
    BY <1>9, <1>12, <1>13 DEF OnceInv

\* clear_pending discards what is pending, once.
LEMMA AbortClearOnce ==
    ASSUME OnceInv, NEW a \in Actors, AbortClear(a)
    PROVE  OnceInv'
  <1>1. Types /\ Ctl /\ actor \in [Actors -> Actor]
    BY DEF OnceInv, Ctl, Types
  <1>2. /\ actor[a].pc = "abClear" /\ actor[a].pc \notin Deciding
        /\ UNCHANGED <<active, mailbox, task, turnCount, sent, history, terminal>>
    BY DEF AbortClear, boundVars, eventVars, Deciding
  <1>3. actor[a].ts # NoTS /\ (actor[a].replace => actor[a].turn # 0)
    BY <1>2, Sets DEF OnceInv, Ctl, ActorFits, Fit, FitsAt, Stopping, Aborting
  <1>4. PICK s \in TurnStates : s = actor[a].ts
    BY <1>1, <1>3, ActorFields DEF Slots
  <1>5. PICK l \in {"stDrain", "msCheck"} : l = AfterAbort(a)
    BY DEF AfterAbort
  <1>6. Acts(a, l, actor[a].turn, actor[a].kind, actor[a].input,
             0, actor[a].replace, NoTS, actor[a].items)
    BY <1>1, <1>5, ActsVictim DEF AbortClear, ActorStages, Starting, Slots
  <1>7. /\ discarded' = discarded \cup pend[s] /\ pend' = [pend EXCEPT ![s] = {}]
        /\ \A x \in TurnStates : pend'[x] = IF x = s THEN {} ELSE pend[x]
    BY <1>1, <1>4 DEF AbortClear, Types
  <1>8. Ctl'
    <2>1. Types'
      BY <1>1, <1>2, <1>6, <1>7 DEF Types, Acts
    <2>2. FitsAt(a, l, actor[a].turn, 0, actor[a].replace, NoTS)
      BY <1>3, <1>5 DEF FitsAt, Readying, Stopping, Idling, Aborting, AfterAbort
    <2> QED
      BY <1>1, <1>2, <1>6, <2>1, <2>2, ActorCtl
  <1>9. \A i, f, x : Lies(f, x, i)' => Lies(f, x, i) \/ (f = "discarded" /\ x = 0 /\ i \in pend[s])
    BY <1>2, <1>6, <1>7 DEF Lies, Acts
  <1>10. \A i \in pend[s] : Lies("pend", s, i) /\ ~Lies("pend", s, i)'
    BY <1>7 DEF Lies
  <1>11. \A i : OnceOf(i)'
    <2> SUFFICES ASSUME NEW i PROVE OnceOf(i)'
      OBVIOUS
    <2>1. CASE i \in pend[s]
      BY <1>9, <1>10, <2>1, MovesOnce DEF OnceInv
    <2>2. CASE i \notin pend[s]
      BY <1>9, <2>2, StaysOnce DEF OnceInv
    <2> QED
      BY <2>1, <2>2
  <1>12. \A i : UnsentOf(i)'
    <2> SUFFICES ASSUME NEW i, i \notin sent PROVE UnsentOf(i)'
      BY <1>2 DEF UnsentOf
    <2>1. i \notin actor[a].items \cup actor[a].input /\ i \notin pend[s]
      BY <1>2, <1>10, LyingIsSent DEF Lies
    <2>2. \A x \in Actors : i \in actor'[x].items \cup actor'[x].input => actor'[x] = actor[x]
      BY <1>6, <2>1 DEF Acts
    <2> QED
      BY <1>9, <2>1, <2>2, StaysUnsent
  <1> QED
    BY <1>8, <1>11, <1>12 DEF OnceInv

\* start_task takes what is pending with it.
LEMMA StartDrainOnce ==
    ASSUME OnceInv, NEW a \in Actors, StartDrain(a)
    PROVE  OnceInv'
  <1>1. Types /\ Ctl /\ actor \in [Actors -> Actor]
    BY DEF OnceInv, Ctl, Types
  <1>2. /\ actor[a].pc = "stDrain" /\ actor[a].pc \notin Deciding /\ DrainInput
        /\ UNCHANGED <<active, task, turnCount, sent, history, discarded, terminal>>
    BY DEF StartDrain, boundVars, itemVars, eventVars, Deciding
  <1>3. Drainable \in SUBSET Items
    BY <1>1, SlotFields, Sets DEF Drainable, Types, TakesMail, Slots
  <1>4. Acts(a, "stReserve", actor[a].turn, actor[a].kind, actor[a].input,
             actor[a].victim, actor[a].replace, actor[a].ts, Drainable)
    BY <1>1, <1>3, ActsItems DEF StartDrain, ActorStages, Starting
  <1>5. Ctl'
    <2>1. Types'
      BY <1>1, <1>2, <1>4, DrainTyped DEF Types, Acts
    <2>2. actor[a].turn # 0
      BY <1>2 DEF OnceInv, Ctl, ActorFits, Fit, FitsAt, Readying
    <2>3. FitsAt(a, "stReserve", actor[a].turn, actor[a].victim, actor[a].replace, actor[a].ts)
      BY <2>2 DEF FitsAt, Readying, Stopping, Idling, Aborting
    <2> QED
      BY <1>1, <1>2, <1>4, <2>1, <2>3, ActorCtl
  <1>6. \A i, f, x : Lies(f, x, i)' => Lies(f, x, i) \/ (f = "items" /\ x = a /\ i \in Drainable)
    BY <1>1, <1>2, <1>4, DrainLeaves DEF Lies, Acts
  <1>7. \A i \in Drainable : \E f, x : f # "items" /\ Lies(f, x, i) /\ ~Lies(f, x, i)'
    BY <1>1, <1>2, DrainLeaves
  <1>8. \A i : OnceOf(i)'
    <2> SUFFICES ASSUME NEW i PROVE OnceOf(i)'
      OBVIOUS
    <2>1. CASE i \in Drainable
      BY <1>6, <1>7, <2>1, MovesOnce DEF OnceInv
    <2>2. CASE i \notin Drainable
      BY <1>6, <2>2, StaysOnce DEF OnceInv
    <2> QED
      BY <2>1, <2>2
  <1>9. \A i : UnsentOf(i)'
    <2> SUFFICES ASSUME NEW i, i \notin sent PROVE UnsentOf(i)'
      BY <1>2 DEF UnsentOf
    <2>1. i \notin actor[a].input /\ i \notin Drainable
      BY <1>2, <1>7, LyingIsSent DEF Lies
    <2>2. \A x \in Actors : i \in actor'[x].items \cup actor'[x].input => actor'[x] = actor[x]
      BY <1>4, <2>1 DEF Acts
    <2> QED
      BY <1>6, <2>1, <2>2, StaysUnsent
  <1> QED
    BY <1>5, <1>8, <1>9 DEF OnceInv

\* What an actor carries goes to the pending input of the TurnState it holds;
\* an automatic turn's item is handed in this way.
LEMMA ExtendOnce ==
    ASSUME OnceInv, NEW a \in Actors, StartExtend(a) \/ TryStartExtend(a)
    PROVE  OnceInv'
  <1>1. Types /\ Ctl /\ actor \in [Actors -> Actor]
    BY DEF OnceInv, Ctl, Types
  <1>2. /\ actor[a].pc \in {"stExtend", "tsExtend"}
        /\ UNCHANGED <<active, mailbox, task, turnCount, history, discarded, terminal>>
        /\ pend' = [pend EXCEPT ![actor[a].ts] = @ \cup actor[a].items]
    BY DEF StartExtend, TryStartExtend, boundVars, itemVars, eventVars
  <1>3. actor[a].ts # NoTS /\ actor[a].turn # 0
    BY <1>2 DEF OnceInv, Ctl, ActorFits, Fit, FitsAt, Readying, Stopping
  <1>4. PICK s \in TurnStates : s = actor[a].ts
    BY <1>1, <1>3, ActorFields DEF Slots
  <1>5. PICK l \in {"stInstall", "stDrain"} : actor' = [actor EXCEPT ![a] = [@ EXCEPT !.pc = l, !.items = {}]]
    BY Zenon DEF StartExtend, TryStartExtend
  <1>6. Acts(a, l, actor[a].turn, actor[a].kind, actor[a].input,
             actor[a].victim, actor[a].replace, actor[a].ts, {})
    BY <1>1, <1>5, ActsItems DEF ActorStages, Starting
  <1>7. \A x \in TurnStates : pend'[x] = IF x = s THEN pend[x] \cup actor[a].items ELSE pend[x]
    BY <1>1, <1>2, <1>4 DEF Types
  <1>8. sent \subseteq sent' /\ actor[a].items \cup actor[a].input \subseteq sent'
    <2>1. actor[a].input \subseteq sent
      BY LyingIsSent DEF Lies
    <2>2. CASE StartExtend(a)
      <3>1. actor[a].pc \notin Deciding /\ sent' = sent
        BY <2>2 DEF StartExtend, Deciding, itemVars
      <3>2. actor[a].items \subseteq sent
        BY <3>1, LyingIsSent DEF Lies
      <3> QED
        BY <2>1, <3>1, <3>2
    <2>3. CASE TryStartExtend(a)
      BY <2>1, <2>3 DEF TryStartExtend
    <2> QED
      BY <2>2, <2>3
  <1>9. Ctl'
    <2>1. pend' \in [TurnStates -> SUBSET Items]
      BY <1>1, <1>2, ActorFields DEF Types
    <2>2. Types'
      BY <1>1, <1>2, <1>6, <2>1 DEF Types, Acts
    <2>3. FitsAt(a, l, actor[a].turn, actor[a].victim, actor[a].replace, actor[a].ts)
      BY <1>3 DEF FitsAt, Readying, Stopping, Idling, Aborting
    <2>4. PICK X : X = {} /\ Acts(a, l, actor[a].turn, actor[a].kind, actor[a].input,
             actor[a].victim, actor[a].replace, actor[a].ts, X)
      BY <1>6
    <2> QED
      BY <1>1, <1>2, <2>2, <2>3, <2>4, ActorCtl
  <1>10. \A i, f, x : Lies(f, x, i)' => Lies(f, x, i) \/ (f = "pend" /\ x = s /\ i \in actor[a].items)
    BY <1>2, <1>6, <1>7 DEF Lies, Acts
  <1>11. \A i \in actor[a].items : Lies("items", a, i) /\ ~Lies("items", a, i)'
    BY <1>6 DEF Lies, Acts
  <1>12. \A i : OnceOf(i)'
    <2> SUFFICES ASSUME NEW i PROVE OnceOf(i)'
      OBVIOUS
    <2>1. CASE i \in actor[a].items
      BY <1>10, <1>11, <2>1, MovesOnce DEF OnceInv
    <2>2. CASE i \notin actor[a].items
      BY <1>10, <2>2, StaysOnce DEF OnceInv
    <2> QED
      BY <2>1, <2>2
  <1>13. \A i : UnsentOf(i)'
    <2> SUFFICES ASSUME NEW i, i \notin sent' PROVE UnsentOf(i)'
      BY DEF UnsentOf
    <2>1. i \notin sent /\ i \notin actor[a].items /\ i \notin actor[a].input
      BY <1>8
    <2>2. \A x \in Actors : i \in actor'[x].items \cup actor'[x].input => actor'[x] = actor[x]
      BY <1>6, <2>1 DEF Acts
    <2> QED
      BY <1>10, <2>1, <2>2, StaysUnsent
  <1> QED
    BY <1>9, <1>12, <1>13 DEF OnceInv

\* The goal permit keeps a continuation item from being decided on twice.
LEMMA IdleOnce ==
    ASSUME OnceInv, NEW a \in Actors, Idle(a)
    PROVE  OnceInv'
  <1>1. Types /\ Ctl /\ actor \in [Actors -> Actor]
    BY DEF OnceInv, Ctl, Types
  <1>2. /\ actor[a].pc = "idle" /\ actor[a].pc \notin Deciding
        /\ UNCHANGED <<active, pend, mailbox, task, turnCount, sent, history, discarded, terminal>>
    BY DEF Idle, sessionVars, boundVars, itemVars, eventVars, Deciding
  <1>3. CASE Done(a)
    BY <1>2, <1>3, RestsOnce DEF Done
  <1>4. CASE ~Done(a)
    <2>1. /\ GoalPermitFree
          /\ \E g \in GoalItems \ sent :
               actor' = [actor EXCEPT ![a] = [@ EXCEPT !.pc = "tsReserve", !.items = {g}]]
      BY <1>4, Zenon DEF Idle
    <2>2. PICK g \in GoalItems \ sent :
              actor' = [actor EXCEPT ![a] = [@ EXCEPT !.pc = "tsReserve", !.items = {g}]]
      BY <2>1
    <2>3. {g} \in SUBSET Items
      BY Sets
    <2>4. Acts(a, "tsReserve", actor[a].turn, actor[a].kind, actor[a].input,
               actor[a].victim, actor[a].replace, actor[a].ts, {g})
      BY <1>1, <2>2, <2>3, ActsItems DEF ActorStages, Idling
    <2>5. Ctl'
      <3>1. Types'
        BY <1>1, <1>2, <2>4 DEF Types, Acts
      <3>2. a \notin {Loop, GuardianId, Realtime}
        BY <1>2 DEF OnceInv, Ctl, ActorFits, Fit, FitsAt, Idling
      <3>3. FitsAt(a, "tsReserve", actor[a].turn, actor[a].victim, actor[a].replace, actor[a].ts)
        BY <3>2 DEF FitsAt, Readying, Stopping, Idling, Aborting
      <3> QED
        BY <1>1, <1>2, <2>4, <3>1, <3>3, ActorCtl
    <2>6. \A f, x : ~Lies(f, x, g)
      <3> SUFFICES ASSUME NEW f, NEW x, Lies(f, x, g) PROVE FALSE
        OBVIOUS
      <3>1. f = "items" /\ actor[x].pc \in Deciding
        BY DEF OnceInv, UnsentOf
      <3>2. x \in Actors
        BY <3>1 DEF Lies
      <3>3. x \notin {Loop, GuardianId, Realtime}
        BY <3>1, <3>2 DEF OnceInv, Ctl, ActorFits, Fit, FitsAt, Idling, Deciding
      <3> QED
        BY <2>1, <3>1, <3>2, <3>3 DEF GoalPermitFree, Deciding
    <2>7. \A i, f, x : Lies(f, x, i)' => Lies(f, x, i) \/ (f = "items" /\ x = a /\ i = g)
      BY <1>2, <2>4 DEF Lies, Acts
    <2>8. \A i : OnceOf(i)'
      <3> SUFFICES ASSUME NEW i PROVE OnceOf(i)'
        OBVIOUS
      <3>1. CASE i = g
        BY <2>6, <2>7, <3>1, MovesOnce DEF OnceInv
      <3>2. CASE i # g
        BY <2>7, <3>2, StaysOnce DEF OnceInv
      <3> QED
        BY <3>1, <3>2
    <2>9. \A i : UnsentOf(i)'
      <3> SUFFICES ASSUME NEW i, i \notin sent PROVE UnsentOf(i)'
        BY <1>2 DEF UnsentOf
      <3>1. CASE i = g
        <4>1. \A f, x : Lies(f, x, i)' => f = "items" /\ x = a
          BY <2>6, <2>7, <3>1
        <4>2. actor'[a].pc \in Deciding /\ i \in GoalItems
          BY <2>4, <3>1 DEF Acts, Deciding
        <4> QED
          BY <4>1, <4>2 DEF UnsentOf
      <3>2. CASE i # g
        <4>1. i \notin actor[a].input
          BY <1>2, LyingIsSent DEF Lies
        <4>2. \A x \in Actors : i \in actor'[x].items \cup actor'[x].input => actor'[x] = actor[x]
          BY <2>4, <3>2, <4>1 DEF Acts
        <4> QED
          BY <2>7, <3>2, <4>2, StaysUnsent
      <3> QED
        BY <3>1, <3>2
    <2> QED
      BY <2>5, <2>8, <2>9 DEF OnceInv
  <1> QED
    BY <1>3, <1>4

\* start_task hands its input to the task it installs; a task it overwrites is
\* stopped with its input.
LEMMA InstallOnce ==
    ASSUME OnceInv, NEW a \in Actors, StartInstall(a)
    PROVE  OnceInv'
  <1>1. Types /\ Ctl /\ actor \in [Actors -> Actor]
    BY DEF OnceInv, Ctl, Types
  <1>2. /\ actor[a].pc = "stInstall" /\ actor[a].pc \notin Deciding
        /\ UNCHANGED <<pend, mailbox, turnCount, sent, history, discarded, terminal>>
        /\ actor' = [actor EXCEPT ![a] = Rest]
    BY DEF StartInstall, Done, boundVars, itemVars, eventVars, Deciding
  <1>3. PICK t \in Turns : t = actor[a].turn
    <2>1. actor[a].turn # 0
      BY <1>2 DEF OnceInv, Ctl, ActorFits, Fit, FitsAt, Readying
    <2> QED
      BY <1>1, <2>1, ActorFields
  <1>4. t <= turnCount /\ task[t].pc = "none" /\ \A b \in Actors : b # a => actor[b].turn # t
    BY <1>3, Sets DEF OnceInv, Ctl, ActorFits, TurnsApart
  <1>5. Acts(a, "rest", 0, "regular", {}, 0, FALSE, NoTS, {})
    BY <1>1, <1>2, ActsRest
  <1> DEFINE new == [NoTask EXCEPT !.pc = "spawned", !.kind = actor[a].kind, !.input = actor[a].input]
  <1>6. /\ new \in Task /\ new.pc = "spawned" /\ new.input = actor[a].input
        /\ Ended \in Task /\ Ended.pc = "ended" /\ Ended.input = {}
    <2>1. actor[a].kind \in Kinds /\ actor[a].input \in SUBSET Items
      BY <1>1, ActorFields
    <2>2. new \in Task /\ new.pc = "spawned" /\ new.input = actor[a].input
      BY <2>1, NoTaskTyped DEF Task, Kinds, Running, NoTask
    <2>3. Ended \in Task /\ Ended.pc = "ended" /\ Ended.input = {}
      BY NoTaskTyped DEF Task, Ended, NoTask
    <2> QED
      BY <2>2, <2>3
  <1>7. /\ task' = [u \in Turns |-> IF u = t THEN new ELSE IF u = active.task THEN Ended ELSE task[u]]
        /\ active' = IF active = NoTurn THEN [NoTurn EXCEPT !.task = t, !.ts = <<t, 2>>]
                                       ELSE [active EXCEPT !.task = t]
    BY <1>3 DEF StartInstall
  <1> HIDE DEF new
  <1>8. /\ task' \in [Turns -> Task] /\ task'[t].pc = "spawned" /\ task'[t].input = actor[a].input
        /\ \A u \in Turns : u # t => \/ task'[u] = task[u]
                                     \/ u = active.task /\ task'[u].pc = "ended" /\ task'[u].input = {}
    BY <1>1, <1>6, <1>7 DEF Types
  <1>9. active' \in [task : Turns \cup {0}, ts : TurnStates, next : BOOLEAN] /\ active'.task = t
    <2>1. CASE active = NoTurn
      <3>1. <<t, 2>> \in TurnStates
        BY DEF TurnStates
      <3> QED
        BY <1>7, <2>1, <3>1 DEF NoTurn
    <2>2. CASE active # NoTurn
      BY <1>1, <1>7, <2>2 DEF Types
    <2> QED
      BY <2>1, <2>2
  <1>10. Types'
    BY <1>1, <1>2, <1>5, <1>8, <1>9 DEF Types, Acts
  <1>11. ActorFits'
    <2> SUFFICES ASSUME NEW b \in Actors
                 PROVE  /\ Fit(b)'
                        /\ actor'[b].turn # 0 => actor'[b].turn <= turnCount' /\ task'[actor'[b].turn].pc = "none"
                        /\ actor'[b].victim # 0 => task'[actor'[b].victim].pc # "none"
      BY DEF ActorFits
    <2>1. CASE b = a
      BY <1>5, <2>1 DEF Acts, Fit, FitsAt, Readying, Stopping, Idling, Aborting
    <2>2. CASE b # a
      <3>1. Fit(b)' /\ actor'[b] = actor[b]
        BY <1>5, <2>2 DEF Acts, OnceInv, Ctl, ActorFits, Fit
      <3>2. PICK n \in Turns \cup {0}, v \in Turns \cup {0} : actor[b].turn = n /\ actor[b].victim = v
        BY <1>1, ActorFields
      <3>3. (n # 0 => n <= turnCount /\ task[n].pc = "none") /\ (v # 0 => task[v].pc # "none")
        BY <3>2 DEF OnceInv, Ctl, ActorFits
      <3>4. n # t
        BY <1>4, <2>2, <3>2
      <3>5. n # 0 => task'[n].pc = "none"
        <4>1. n # 0 => n # active.task
          BY <3>3 DEF OnceInv, Ctl, TaskFits
        <4> QED
          BY <1>8, <3>3, <3>4, <4>1
      <3>6. v # 0 => task'[v].pc # "none"
        BY <1>8, <3>3
      <3> QED
        BY <1>2, <3>1, <3>2, <3>3, <3>5, <3>6
    <2> QED
      BY <2>1, <2>2
  <1>12. TurnsApart'
    BY <1>5, Sets DEF Acts, OnceInv, Ctl, TurnsApart
  <1>13. TaskFits'
    <2> SUFFICES ASSUME NEW u \in Turns
                 PROVE  /\ task'[u].pc # "none" => u <= turnCount'
                        /\ active'.task = u => task'[u].pc # "none"
                        /\ task'[u].pc \in Ending => task'[u].ts # NoTS
                        /\ actor'[u].pc # "rest" => task'[u].pc = "ended"
      BY DEF TaskFits
    <2>1. task'[u].pc # "none" => u <= turnCount'
      BY <1>2, <1>4, <1>8 DEF OnceInv, Ctl, TaskFits
    <2>2. active'.task = u => task'[u].pc # "none"
      BY <1>8, <1>9
    <2>3. task'[u].pc \in Ending => task'[u].ts # NoTS
      BY <1>8 DEF OnceInv, Ctl, TaskFits, Ending
    <2>4. actor'[u].pc # "rest" => task'[u].pc = "ended"
      BY <1>4, <1>5, <1>8, Sets DEF Acts, OnceInv, Ctl, TaskFits
    <2> QED
      BY <2>1, <2>2, <2>3, <2>4
  <1>14. \A i, f, x : Lies(f, x, i)' => Lies(f, x, i) \/ (f = "task" /\ x = t /\ i \in actor[a].input)
    BY <1>2, <1>5, <1>8 DEF Lies, Acts
  <1>15. \A i \in actor[a].input : Lies("input", a, i) /\ ~Lies("input", a, i)'
    BY <1>5 DEF Lies, Acts
  <1>16. \A i : OnceOf(i)'
    <2> SUFFICES ASSUME NEW i PROVE OnceOf(i)'
      OBVIOUS
    <2>1. CASE i \in actor[a].input
      BY <1>14, <1>15, <2>1, MovesOnce DEF OnceInv
    <2>2. CASE i \notin actor[a].input
      BY <1>14, <2>2, StaysOnce DEF OnceInv
    <2> QED
      BY <2>1, <2>2
  <1>17. \A i : UnsentOf(i)'
    <2> SUFFICES ASSUME NEW i, i \notin sent PROVE UnsentOf(i)'
      BY <1>2 DEF UnsentOf
    <2>1. i \notin actor[a].input
      BY <1>15, LyingIsSent
    <2>2. \A x \in Actors : i \in actor'[x].items \cup actor'[x].input => actor'[x] = actor[x]
      BY <1>5 DEF Acts
    <2> QED
      BY <1>14, <2>1, <2>2, StaysUnsent
  <1> QED
    BY <1>10, <1>11, <1>12, <1>13, <1>16, <1>17 DEF OnceInv, Ctl

\* Neither the actors nor the tasks move.
LEMMA SameCtl ==
    ASSUME Ctl, Types', UNCHANGED <<actor, task, turnCount>>, active'.task \in {0, active.task}
    PROVE  Ctl'
  <1>1. Fit(Loop)' /\ Loop \in Actors /\ Loop \notin Turns
    BY Sets DEF Ctl, ActorFits, Fit
  <1>2. actor[Loop].victim # 0 => task[actor[Loop].victim].pc # "none"
    BY Sets DEF Ctl, ActorFits
  <1>3. \A u \in Turns : task'[u].pc \in Ending => task'[u].ts # NoTS
    BY DEF Ctl, TaskFits
  <1> QED
    BY <1>1, <1>2, <1>3, CtlKept

\* A message that arrives was nowhere before.
LEMMA ArrivesOnce ==
    ASSUME OnceInv, Ctl', NEW m \in UserMsgs \cup Injected \cup Mails \cup Routed, m \notin sent,
           sent' = sent \cup {m}, NEW g, NEW y,
           \A i, f, x : Lies(f, x, i)' => Lies(f, x, i) \/ (i = m /\ f = g /\ x = y),
           \A x \in Actors : actor[x].pc \in Deciding => actor'[x] = actor[x]
    PROVE  OnceInv'
  <1>1. \A f, x : ~Lies(f, x, m)
    BY GoalAssumption DEF OnceInv, UnsentOf
  <1>2. \A i : OnceOf(i)'
    <2> SUFFICES ASSUME NEW i PROVE OnceOf(i)'
      OBVIOUS
    <2>1. CASE i = m
      BY <1>1, <2>1, MovesOnce DEF OnceInv
    <2>2. CASE i # m
      BY <2>2, StaysOnce DEF OnceInv
    <2> QED
      BY <2>1, <2>2
  <1>3. \A i : UnsentOf(i)'
    <2> SUFFICES ASSUME NEW i, i \notin sent', NEW f, NEW x, Lies(f, x, i)'
                 PROVE  f = "items" /\ i \in GoalItems /\ actor'[x].pc \in Deciding
      BY DEF UnsentOf
    <2>1. Lies(f, x, i) /\ f = "items" /\ i \in GoalItems /\ actor[x].pc \in Deciding
      BY DEF OnceInv, UnsentOf
    <2>2. x \in Actors
      BY <2>1 DEF Lies
    <2> QED
      BY <2>1, <2>2
  <1> QED
    BY <1>2, <1>3 DEF OnceInv

\* Input for the turn in the slot.
LEMMA PendsOnce ==
    ASSUME OnceInv, NEW m \in UserMsgs \cup Injected \cup Mails \cup Routed, m \notin sent,
           sent' = sent \cup {m}, active.ts # NoTS, Slot(active.task, active.ts),
           pend' = [pend EXCEPT ![active.ts] = @ \cup {m}],
           UNCHANGED <<actor, task, turnCount, mailbox, history, discarded, terminal>>
    PROVE  OnceInv'
  <1>1. Types /\ Ctl /\ pend \in [TurnStates -> SUBSET Items] /\ m \in Items
    BY Sets DEF OnceInv, Ctl, Types
  <1>2. PICK s \in TurnStates : s = active.ts
    BY <1>1, SlotFields DEF Slots
  <1>3. \A x \in TurnStates : pend'[x] = IF x = s THEN pend[x] \cup {m} ELSE pend[x]
    BY <1>1, <1>2
  <1>4. pend' \in [TurnStates -> SUBSET Items]
    BY <1>1
  <1>5. Types' /\ active'.task \in {0, active.task}
    BY <1>1, <1>4 DEF Types, Slot
  <1>6. Ctl'
    BY <1>1, <1>5, SameCtl
  <1>7. \A i, f, x : Lies(f, x, i)' => Lies(f, x, i) \/ (i = m /\ f = "pend" /\ x = s)
    BY <1>3 DEF Lies
  <1> QED
    BY <1>6, <1>7, ArrivesOnce

\* A message of the client, or a text of the realtime conversation.
LEMMA UserInputOnce ==
    ASSUME OnceInv, NEW m \in UserMsgs \cup Routed, NEW a \in {Loop, Realtime},
           (actor[a].pc = "rest" /\ UserInputOrTurn(a, m)) \/ ExternalSteer(m)
    PROVE  OnceInv'
  <1>1. Types /\ Ctl /\ actor \in [Actors -> Actor]
    BY DEF OnceInv, Ctl, Types
  <1>2. m \notin sent /\ sent' = sent \cup {m} /\ UNCHANGED <<task, mailbox, history, terminal>>
    BY DEF UserInputOrTurn, ExternalSteer, eventVars
  <1>3. CASE Steerable /\ Steer(m) /\ UNCHANGED <<actor, turnCount, discarded>>
    <2>1. active.ts # NoTS
      BY <1>1, <1>3, SlotFields, Sets, RealtimeApart DEF Steerable
    <2>2. Slot(active.task, active.ts)
      BY <1>1, <1>3, <2>1, SlotNext DEF Steer
    <2> QED
      BY <1>2, <1>3, <2>1, <2>2, PendsOnce DEF Steer
  <1>4. CASE discarded' = discarded \cup {m} /\ UNCHANGED <<active, pend, actor, turnCount>>
    <2>1. Types'
      BY <1>1, <1>2, <1>4 DEF Types
    <2>2. Ctl'
      BY <1>1, <1>2, <1>4, <2>1, SameCtl
    <2>3. \A i, f, x : Lies(f, x, i)' => Lies(f, x, i) \/ (i = m /\ f = "discarded" /\ x = 0)
      BY <1>2, <1>4 DEF Lies
    <2> QED
      BY <1>2, <1>4, <2>2, <2>3, ArrivesOnce
  <1>5. CASE actor[a].pc = "rest" /\ UserInputOrTurn(a, m) /\ active.task = 0
    <2> DEFINE n == FreshTurn
    <2>1. /\ CanBegin /\ turnCount' = n /\ UNCHANGED <<active, pend, discarded>>
          /\ actor' = [actor EXCEPT ![a] =
                         [Rest EXCEPT !.pc = "abTake", !.replace = TRUE, !.turn = n, !.input = {m}]]
          /\ actor[a].pc = "rest"
      BY <1>5 DEF UserInputOrTurn, SpawnTask, Steerable
    <2>2. n \in Turns /\ n = turnCount + 1 /\ turnCount \in Nat
      BY <1>1, <2>1, FreshIsTurn DEF Types
    <2> HIDE DEF n
    <2>3. {m} \in SUBSET Items
      BY Sets, RealtimeApart
    <2>4. Acts(a, "abTake", n, "regular", {m}, 0, TRUE, NoTS, {})
      BY <1>1, <2>1, <2>2, <2>3, ActsInput, Sets, RealtimeApart DEF ActorStages, Aborting
    <2>5. Types'
      BY <1>1, <1>2, <2>1, <2>2, <2>4, SessionAssumption DEF Types, Acts, Turns
    <2>6. FitsAt(a, "abTake", n, 0, TRUE, NoTS)
      BY <2>2, Sets, RealtimeApart DEF FitsAt, Readying, Stopping, Idling, Aborting
    <2>7. PICK r, S, X : /\ r = TRUE /\ S = {m} /\ X = {} /\ Acts(a, "abTake", n, "regular", S, 0, r, NoTS, X)
                         /\ FitsAt(a, "abTake", n, 0, r, NoTS)
      BY <2>4, <2>6
    <2>8. a \in Actors /\ a \notin Turns /\ turnCount' = turnCount + 1 /\ active'.task = active.task
      BY <2>1, <2>2, Sets, RealtimeApart
    <2>9. Ctl'
      BY <1>1, <1>2, <2>2, <2>5, <2>7, <2>8, ActorCtl
    <2>10. \A i, f, x : Lies(f, x, i)' => Lies(f, x, i) \/ (i = m /\ f = "input" /\ x = a)
      BY <1>2, <2>1, <2>7 DEF Lies, Acts
    <2>11. \A x \in Actors : actor[x].pc \in Deciding => actor'[x] = actor[x]
      BY <2>1, <2>7 DEF Acts, Deciding
    <2> QED
      BY <1>2, <2>9, <2>10, <2>11, ArrivesOnce
  <1> QED
    BY <1>3, <1>4, <1>5 DEF UserInputOrTurn, ExternalSteer, boundVars

\* The conversation is stopped: what its fan-out task carried, and the input
\* of a task it was about to abort, is discarded, once.
LEMMA RealtimeStopOnce ==
    ASSUME OnceInv, RealtimeStop
    PROVE  OnceInv'
  <1> DEFINE r == actor[Realtime]
             D == IF r.pc \in {"abCancel", "abKill"} THEN {r.victim} ELSE {}
             Lost == r.items \cup r.input \cup UNION {task[t].input : t \in D}
  <1>1. /\ Types /\ Ctl /\ task \in [Turns -> Task] /\ actor \in [Actors -> Actor]
        /\ Realtime \in Actors /\ Realtime \notin Turns
    BY RealtimeApart DEF OnceInv, Ctl, Types
  <1>2. /\ UNCHANGED <<active, pend, mailbox, turnCount, sent, history, terminal>>
        /\ task' = [t \in Turns |-> IF t \in D THEN Ended ELSE task[t]]
        /\ discarded' = discarded \cup Lost
    BY DEF RealtimeStop, sessionVars, boundVars, eventVars
  <1>3. PICK l \in {"rest", "stopped"} : actor' = [actor EXCEPT ![Realtime] = [Rest EXCEPT !.pc = l]]
    BY DEF RealtimeStop
  <1>4. Acts(Realtime, l, 0, "regular", {}, 0, FALSE, NoTS, {})
    BY <1>1, <1>3, ActsFresh DEF ActorStages
  <1>5. /\ D \subseteq Turns /\ \A t \in D : task[t].pc # "none"
        /\ r.pc \notin Deciding
    <2>1. Fit(Realtime) /\ (r.victim # 0 => task[r.victim].pc # "none") /\ r.victim \in Turns \cup {0}
      BY <1>1, ActorFields DEF Ctl, ActorFits
    <2> QED
      BY <2>1 DEF Fit, FitsAt, Idling, Deciding
  <1>6. \A t \in Turns : /\ t \notin D => task'[t] = task[t]
                         /\ t \in D => task'[t].pc = "ended" /\ task'[t].input = {} /\ task'[t] \in Task
    <2>1. Ended \in Task /\ Ended.pc = "ended" /\ Ended.input = {}
      BY NoTaskTyped DEF Ended, NoTask, Task
    <2> QED
      BY <1>2, <2>1
  <1>7. task' \in [Turns -> Task]
    BY <1>1, <1>2, <1>6
  <1>8. Types'
    BY <1>1, <1>2, <1>4, <1>7 DEF Types, Acts
  <1>9. Ctl'
    <2>1. FitsAt(Realtime, l, 0, 0, FALSE, NoTS)
      BY DEF FitsAt, Readying, Stopping, Idling, Aborting
    <2>2. Fit(Realtime)'
      <3>1. PICK z : z = FALSE /\ FitsAt(Realtime, l, 0, 0, z, NoTS) /\ actor'[Realtime].replace = z
        BY <1>4, <2>1 DEF Acts
      <3> QED
        BY <1>4, <3>1 DEF Fit, Acts
    <2>3. \A u \in Turns : /\ task'[u].pc = "none" <=> task[u].pc = "none"
                           /\ task[u].pc = "ended" => task'[u].pc = "ended"
                           /\ task'[u].pc \in Ending => task'[u].ts # NoTS
      BY <1>1, <1>5, <1>6 DEF Ctl, TaskFits, Ending
    <2>4. /\ actor'[Realtime].turn = 0 /\ actor'[Realtime].victim = 0
          /\ \A b \in Actors : b # Realtime => actor'[b] = actor[b]
      BY <1>4 DEF Acts
    <2> QED
      BY <1>1, <1>2, <1>8, <2>2, <2>3, <2>4, CtlKept
  <1>10. \A i, f, x : Lies(f, x, i)' => Lies(f, x, i) \/ (f = "discarded" /\ x = 0 /\ i \in Lost)
    <2> HIDE DEF D, Lost
    <2> QED
      BY <1>2, <1>4, <1>6 DEF Lies, Acts
  <1>11. \A i \in Lost : i \in sent /\ \E f, x : Lies(f, x, i) /\ ~Lies(f, x, i)'
    <2> SUFFICES ASSUME NEW i \in Lost PROVE i \in sent /\ \E f, x : Lies(f, x, i) /\ ~Lies(f, x, i)'
      OBVIOUS
    <2>1. CASE i \in r.items
      <3>1. Lies("items", Realtime, i) /\ ~Lies("items", Realtime, i)'
        BY <1>1, <1>4, <2>1 DEF Lies, Acts
      <3> QED
        BY <1>5, <3>1, LyingIsSent
    <2>2. CASE i \in r.input
      <3>1. Lies("input", Realtime, i) /\ ~Lies("input", Realtime, i)'
        BY <1>1, <1>4, <2>2 DEF Lies, Acts
      <3> QED
        BY <3>1, LyingIsSent
    <2>3. ASSUME NEW t \in D, i \in task[t].input PROVE i \in sent /\ \E f, x : Lies(f, x, i) /\ ~Lies(f, x, i)'
      <3>1. Lies("task", t, i) /\ ~Lies("task", t, i)'
        <4> HIDE DEF D
        <4> QED
          BY <1>5, <1>6, <2>3 DEF Lies
      <3> QED
        BY <3>1, LyingIsSent
    <2> QED
      BY <2>1, <2>2, <2>3
  <1> HIDE DEF D, Lost
  <1>12. \A i : OnceOf(i)'
    <2> SUFFICES ASSUME NEW i PROVE OnceOf(i)'
      OBVIOUS
    <2>1. CASE i \in Lost
      BY <1>10, <1>11, <2>1, MovesOnce DEF OnceInv
    <2>2. CASE i \notin Lost
      BY <1>10, <2>2, StaysOnce DEF OnceInv
    <2> QED
      BY <2>1, <2>2
  <1>13. \A i : UnsentOf(i)'
    <2> SUFFICES ASSUME NEW i, i \notin sent PROVE UnsentOf(i)'
      BY <1>2 DEF UnsentOf
    <2>1. i \notin Lost
      BY <1>11
    <2>2. \A x \in Actors : i \in actor'[x].items \cup actor'[x].input => actor'[x] = actor[x]
      BY <1>4 DEF Acts
    <2> QED
      BY <1>10, <2>1, <2>2, StaysUnsent
  <1> QED
    BY <1>9, <1>12, <1>13 DEF OnceInv

\* Mail of another agent.
LEMMA MailOnce ==
    ASSUME OnceInv, NEW m \in Mails, Mail(m)
    PROVE  OnceInv'
  <1>1. Types /\ Ctl /\ actor \in [Actors -> Actor] /\ Loop \in Actors /\ Loop \notin Turns
    BY Sets DEF OnceInv, Ctl, Types
  <1>2. /\ m \notin sent /\ sent' = sent \cup {m} /\ mailbox' = mailbox \cup {m}
        /\ UNCHANGED <<active, pend, task, turnCount, history, discarded, terminal>>
        /\ actor[Loop].pc = "rest" /\ (actor' = actor \/ Goto(Loop, "msCheck"))
    BY DEF Mail, LoopReady, boundVars, eventVars
  <1>3. Ctl' /\ \A x \in Actors : /\ actor'[x].items = actor[x].items /\ actor'[x].input = actor[x].input
                                  /\ actor[x].pc \in Deciding => actor'[x] = actor[x]
    <2>1. CASE actor' = actor
      <3>1. Types'
        BY <1>1, <1>2, <2>1 DEF Types
      <3> QED
        BY <1>1, <1>2, <2>1, <3>1, SameCtl
    <2>2. CASE Goto(Loop, "msCheck")
      <3>1. Acts(Loop, "msCheck", actor[Loop].turn, actor[Loop].kind, actor[Loop].input,
                 actor[Loop].victim, actor[Loop].replace, actor[Loop].ts, actor[Loop].items)
        BY <1>1, <2>2, ActsGoto DEF Goto, ActorStages, Starting
      <3>2. Types'
        BY <1>1, <1>2, <3>1 DEF Types, Acts
      <3>3. FitsAt(Loop, "msCheck", actor[Loop].turn, actor[Loop].victim, actor[Loop].replace, actor[Loop].ts)
        BY DEF FitsAt, Readying, Stopping, Idling, Aborting
      <3>4. Ctl'
        BY <1>1, <1>2, <3>1, <3>2, <3>3, ActorCtl
      <3> QED
        BY <1>2, <3>1, <3>4 DEF Acts, Deciding
    <2> QED
      BY <1>2, <2>1, <2>2
  <1>4. \A i, f, x : Lies(f, x, i)' => Lies(f, x, i) \/ (i = m /\ f = "mailbox" /\ x = 0)
    BY <1>2, <1>3 DEF Lies
  <1> QED
    BY <1>2, <1>3, <1>4, ArrivesOnce

\* An item injected into the turn, or into the history.
LEMMA InjectOnce ==
    ASSUME OnceInv, NEW m \in Injected, Inject(m)
    PROVE  OnceInv'
  <1>1. Types /\ Ctl
    BY DEF OnceInv, Ctl
  <1>2. /\ m \notin sent /\ sent' = sent \cup {m}
        /\ UNCHANGED <<active, mailbox, task, actor, turnCount, discarded, terminal>>
    BY DEF Inject, boundVars, eventVars
  <1>3. CASE active # NoTurn
    BY <1>1, <1>2, <1>3, SlotSame, SlotFields, PendsOnce DEF Inject
  <1>4. CASE active = NoTurn
    <2>1. history' = history \cup {m} /\ pend' = pend
      BY <1>4 DEF Inject
    <2>2. Types'
      BY <1>1, <1>2, <2>1 DEF Types
    <2>3. Ctl'
      BY <1>1, <1>2, <2>2, SameCtl
    <2>4. \A i, f, x : Lies(f, x, i)' => Lies(f, x, i) \/ (i = m /\ f = "history" /\ x = 0)
      BY <1>2, <2>1 DEF Lies
    <2> QED
      BY <1>2, <2>3, <2>4, ArrivesOnce
  <1> QED
    BY <1>3, <1>4

\* A new session has no input at all.
LEMMA OnceInit == Init => OnceInv
  <1> SUFFICES ASSUME Init PROVE OnceInv
    OBVIOUS
  <1>1. Types
    BY InvInit DEF Inv
  <1>2. \A a \in Actors : /\ actor[a].pc = "rest" /\ actor[a].items = {} /\ actor[a].input = {}
                          /\ actor[a].turn = 0 /\ actor[a].victim = 0 /\ actor[a].replace = FALSE
    BY DEF Init, Rest
  <1>3. \A t \in Turns : task[t].pc = "none" /\ task[t].input = {}
    BY DEF Init, NoTask
  <1>4. ActorFits /\ TurnsApart
    BY <1>2 DEF ActorFits, TurnsApart, Fit, FitsAt, Readying, Stopping, Idling, Aborting
  <1>5. TaskFits
    BY <1>2, <1>3, Sets DEF TaskFits, Ending, Init, NoTurn
  <1>6. \A i, f, x : ~Lies(f, x, i)
    BY <1>2, <1>3 DEF Lies, Init
  <1>7. \A i : OnceOf(i) /\ UnsentOf(i)
    BY <1>6 DEF OnceOf, UnsentOf
  <1> QED
    BY <1>1, <1>4, <1>5, <1>7 DEF OnceInv, Ctl

\* Every step keeps an item where it is or takes it from one place to another.
LEMMA OnceStep ==
    ASSUME OnceInv, [Next]_vars
    PROVE  OnceInv'
  <1>1. CASE UNCHANGED vars
    BY <1>1, StillOnce DEF vars, sessionVars, boundVars, itemVars, eventVars
  <1>2. CASE ClientOp
    <2>1. ASSUME NEW m \in UserMsgs, UserInput(m) \/ ExternalSteer(m) PROVE OnceInv'
      BY <2>1, UserInputOnce DEF UserInput, LoopReady
    <2>2. ASSUME NEW m \in Routed, RouteText(m) PROVE OnceInv'
      BY <2>2, UserInputOnce DEF RouteText
    <2> QED
      BY <1>2, <2>1, <2>2, MailOnce, InjectOnce, LoopBeginsOnce, OutsidersOnce, RealtimeStopOnce DEF ClientOp
  <1>3. CASE GuardianTake
    <2>1. GuardianId \in Actors
      BY DEF Actors
    <2> QED
      BY <1>3, <2>1, AbortTakeOnce
  <1>4. ASSUME NEW a \in Actors, ActorStep(a) PROVE OnceInv'
    BY <1>4, AbortTakeOnce, AbortStopOnce, AbortClearOnce, PendingWorkOnce, StartDrainOnce, StartReserveOnce,
       ExtendOnce, InstallOnce, IdleOnce, TryStartOnce DEF ActorStep
  <1>5. ASSUME NEW t \in Turns, TaskStep(t) PROVE OnceInv'
    <2>1. CASE Work(t)
      <3>1. Types
        BY DEF OnceInv, Ctl
      <3> QED
        BY <2>1, <3>1, WorkIs, WorksOnce
    <2>2. CASE FinishCheck(t) \/ FinishTake(t) \/ FinishRecord(t) \/ FinishClear(t)
      BY <2>2, FinishOnce, FinishRecordOnce, FinishClearOnce
    <2> QED
      BY <1>5, <2>1, <2>2 DEF TaskStep, Work
  <1> QED
    BY <1>1, <1>2, <1>3, <1>4, <1>5 DEF Next

\* Where at most one element of a set qualifies, at most one is counted.
LEMMA AtMostOne ==
    ASSUME NEW T, \A x, y \in T : x = y
    PROVE  Cardinality(T) \in {0, 1} /\ (T = {} => Cardinality(T) = 0)
  <1>1. CASE T = {}
    BY <1>1, FS_EmptySet
  <1>2. CASE T # {}
    <2>1. PICK x : T = {x}
      BY <1>2
    <2> QED
      BY <2>1, FS_Singleton
  <1> QED
    BY <1>1, <1>2

\* Input is delivered at most once, in every session: with automatic turns, a
\* guardian and a realtime conversation too, no interleaving records a message
\* twice, or records it and keeps it pending, or discards what it recorded.
THEOREM InputIsOnce == Spec => []InputOnce
  <1>1. OnceInv => InputOnce
    <2> SUFFICES ASSUME NEW i, OnceOf(i)
                 PROVE  Cardinality({s \in TurnStates : i \in pend[s]})
                        + Cardinality({a \in Actors : i \in actor[a].items \cup actor[a].input})
                        + Cardinality({t \in Turns : i \in task[t].input})
                        + Cardinality({x \in {<<1, history>>, <<2, discarded>>, <<3, mailbox>>} :
                                         i \in x[2]}) <= 1
      BY DEF OnceInv, InputOnce
    <2> DEFINE P == {s \in TurnStates : i \in pend[s]}
               A == {a \in Actors : i \in actor[a].items \cup actor[a].input}
               T == {t \in Turns : i \in task[t].input}
               R == {x \in {<<1, history>>, <<2, discarded>>, <<3, mailbox>>} : i \in x[2]}
    <2>1. \A x \in R :
              \/ x = <<1, history>> /\ Lies("history", 0, i)
              \/ x = <<2, discarded>> /\ Lies("discarded", 0, i)
              \/ x = <<3, mailbox>> /\ Lies("mailbox", 0, i)
      BY DEF Lies
    <2>2. /\ \A s \in P : Lies("pend", s, i)
          /\ \A a \in A : Lies("items", a, i) \/ Lies("input", a, i)
          /\ \A t \in T : Lies("task", t, i)
      BY DEF Lies
    <2> HIDE DEF P, A, T, R
    <2>3. (\A x, y \in P : x = y) /\ (\A x, y \in A : x = y) /\ (\A x, y \in T : x = y)
      BY <2>2 DEF OnceOf
    <2>4. \A x, y \in R : x = y
      BY <2>1 DEF OnceOf
    <2>5. /\ P # {} => A = {} /\ T = {} /\ R = {}
          /\ A # {} => T = {} /\ R = {}
          /\ T # {} => R = {}
      BY <2>1, <2>2 DEF OnceOf
    <2>6. /\ Cardinality(P) \in {0, 1} /\ (P = {} => Cardinality(P) = 0)
          /\ Cardinality(A) \in {0, 1} /\ (A = {} => Cardinality(A) = 0)
          /\ Cardinality(T) \in {0, 1} /\ (T = {} => Cardinality(T) = 0)
          /\ Cardinality(R) \in {0, 1} /\ (R = {} => Cardinality(R) = 0)
      BY <2>3, <2>4, AtMostOne
    <2>7. Cardinality(P) + Cardinality(A) + Cardinality(T) + Cardinality(R) <= 1
      BY <2>5, <2>6
    <2> QED
      BY <2>7 DEF P, A, T, R
  <1> QED
    BY <1>1, OnceInit, OnceStep, PTL DEF Spec

----------------------------------------------------------------------------
(* Types *)

\* What Types leaves out.
MoreTypes ==
    /\ auxCount \in 0..MaxAux /\ closing \in BOOLEAN
    /\ sent \subseteq Items /\ started \subseteq Turns

\* Every step keeps it.
LEMMA MoreTypesStep ==
    ASSUME OnceInv, MoreTypes, [Next]_vars
    PROVE  MoreTypes'
  <1> USE DEF MoreTypes, sessionVars, boundVars, itemVars, eventVars
  <1>1. Types
    BY DEF OnceInv, Ctl
  <1>2. CASE UNCHANGED vars
    BY <1>2 DEF vars
  <1>3. CASE ClientOp
    <2>1. ASSUME NEW m \in UserMsgs \cup Routed, UserInput(m) \/ ExternalSteer(m) \/ RouteText(m)
          PROVE  MoreTypes'
      BY <2>1, Sets DEF UserInput, ExternalSteer, RouteText, UserInputOrTurn
    <2>2. ASSUME NEW k \in AuxKinds, SpawnAux(k) PROVE MoreTypes'
      BY <2>2, SessionAssumption DEF SpawnAux
    <2>3. CASE Interrupt \/ Shutdown \/ AppServerIdle \/ GuardianTrip \/ RealtimeStop
      BY <2>3 DEF Interrupt, Shutdown, AppServerIdle, GuardianTrip, RealtimeStop
    <2>4. ASSUME NEW m \in Mails, Mail(m) PROVE MoreTypes'
      BY <2>4, Sets DEF Mail
    <2>5. ASSUME NEW i \in Injected, Inject(i) PROVE MoreTypes'
      BY <2>5, Sets DEF Inject
    <2> QED
      BY <1>3, <2>1, <2>2, <2>3, <2>4, <2>5, Zenon DEF ClientOp
  <1>4. CASE GuardianTake
    BY <1>4 DEF GuardianTake
  <1>5. ASSUME NEW a \in Actors, ActorStep(a) PROVE MoreTypes'
    <2>1. CASE TryStartExtend(a)
      BY <1>1, <2>1, ActorFields DEF TryStartExtend
    <2>2. CASE ~TryStartExtend(a)
      BY <1>5, <2>2 DEF ActorStep, AbortTake, AbortCancel, AbortKill, AbortClear, PendingWorkCheck,
                        PendingWorkReserve, StartDrain, StartReserve, StartExtend, StartInstall, Idle,
                        TryStartReserve, TryStartRecheck, TryStartClear
    <2> QED
      BY <2>1, <2>2
  <1>6. ASSUME NEW t \in Turns, TaskStep(t) PROVE MoreTypes'
    BY <1>6 DEF TaskStep, TaskStart, TaskWork, TurnTop, PreSamplingFails, DrainPending, RecordInputs,
                SampleAnswer, SampleToolCall, SampleFails, CheckFollowUp, CheckPendingInput, ObserveCancel,
                FinishCheck, FinishTake, FinishRecord, FinishClear
  <1> QED
    BY <1>2, <1>3, <1>4, <1>5, <1>6 DEF Next

\* Every variable keeps its type; what is recorded or discarded was handed in.
THEOREM TypeCorrect == Spec => []TypeOK
  <1>1. Init => OnceInv /\ MoreTypes
    <2>1. 0 \in 0..MaxAux
      BY SessionAssumption
    <2>2. Init => MoreTypes
      BY <2>1 DEF Init, MoreTypes
    <2> QED
      BY <2>2, OnceInit
  <1>2. OnceInv /\ MoreTypes /\ [Next]_vars => OnceInv' /\ MoreTypes'
    BY OnceStep, MoreTypesStep
  <1>3. OnceInv /\ MoreTypes => TypeOK
    <2> SUFFICES ASSUME OnceInv, MoreTypes PROVE TypeOK
      OBVIOUS
    <2>1. history \subseteq sent /\ discarded \subseteq sent
      BY LyingIsSent DEF Lies
    <2> QED
      BY <2>1 DEF TypeOK, OnceInv, Ctl, Types, MoreTypes
  <1> QED
    BY <1>1, <1>2, <1>3, PTL DEF Spec

=============================================================================
