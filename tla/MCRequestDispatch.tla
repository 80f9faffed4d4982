------------------------- MODULE MCRequestDispatch --------------------------
(* RequestDispatch on a small instance: reads and exclusive requests of one *)
(* key from two connections, one that asks a client, one command/exec, in   *)
(* the Windows sandbox or not.                                              *)
EXTENDS RequestDispatch, TLC

CONSTANTS c1, c2, r1, r2, r3, k1

Read(c)      == [conn |-> c, key |-> k1, access |-> "SharedRead",
                 asks |-> FALSE, command |-> FALSE, sandboxed |-> FALSE]
Exclusive(c) == [conn |-> c, key |-> k1, access |-> "Exclusive",
                 asks |-> FALSE, command |-> FALSE, sandboxed |-> FALSE]
Asking(x)    == [x EXCEPT !.asks = TRUE]
Command(x)   == [x EXCEPT !.command = TRUE]
Sandboxed(x) == [x EXCEPT !.sandboxed = TRUE]
Free(x)      == [x EXCEPT !.key = NoKey]

Mix == (r1 :> {Read(c1)}) @@ (r2 :> {Asking(Read(c2))})
       @@ (r3 :> {Command(Exclusive(c1)), Sandboxed(Command(Exclusive(c1))),
                  Free(Asking(Exclusive(c2)))})

=============================================================================
