---------------------------- MODULE EventStream -----------------------------
(***************************************************************************)
(* What the follower of remote processes is promised                       *)
(* (codex-rs/exec-server/src/process.rs): a process has one history of     *)
(* events, with at most one exit, and the end of both output streams       *)
(* closes it for good; the follower is shown that history from its         *)
(* beginning, without a gap, a repetition or a change of order, until the  *)
(* history is closed or the follower's connection has ended.               *)
(***************************************************************************)
EXTENDS Integers, Sequences

CONSTANT Sources

VARIABLES
    history,   \* the events of each source, in order
    shown,     \* the positions of the events the follower has been shown
    over       \* whether it is shown nothing more

vars == <<history, shown, over>>

Occurred(s, e) == \E n \in DOMAIN history[s] : history[s][n] = e

Init ==
    /\ history = [s \in Sources |-> <<>>]
    /\ shown = [s \in Sources |-> <<>>]
    /\ over = FALSE

Happen(s, e) ==
    /\ ~Occurred(s, "closed")
    /\ e = "exit" => ~Occurred(s, "exit")
    /\ e = "closed" => Occurred(s, "exit")
    /\ history' = [history EXCEPT ![s] = Append(@, e)]
    /\ UNCHANGED <<shown, over>>

\* Some of the events that were not shown yet, in order.
Show(s) ==
    /\ ~over
    /\ \E n \in (Len(shown[s]) + 1)..Len(history[s]) :
        shown' = [shown EXCEPT ![s] = [i \in 1..n |-> i]]
    /\ UNCHANGED <<history, over>>

End == over' = TRUE /\ UNCHANGED <<history, shown>>

Next ==
    \/ \E s \in Sources, e \in {"output", "exit", "closed"} : Happen(s, e)
    \/ \E s \in Sources : Show(s)
    \/ End

Spec == Init /\ [][Next]_vars

=============================================================================
