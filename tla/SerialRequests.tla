--------------------------- MODULE SerialRequests ---------------------------
(***************************************************************************)
(* What serialization of requests promises to the handlers, whatever the   *)
(* queues and tasks behind it: two requests of one key that are not both   *)
(* reads are never in progress together, and start in the order in which   *)
(* they arrived.  Reads of one key, and requests of different keys, are    *)
(* free.  RequestDispatch is shown to implement this.                      *)
(***************************************************************************)
EXTENDS Naturals

CONSTANTS Reqs, Keys, NoKey

VARIABLES
    status,   \* "new", "waiting", "active" or "over"
    scope,    \* the key and the access of each request
    arrived   \* the position of each request among the arrivals, 0 if new

vars == <<status, scope, arrived>>

Access == {"Exclusive", "SharedRead"}
Scopes == [key : Keys \cup {NoKey}, access : Access]

\* Handlers of r and s must not overlap.
Conflict(r, s) ==
    /\ scope[r].key = scope[s].key /\ scope[r].key # NoKey
    /\ ~(scope[r].access = "SharedRead" /\ scope[s].access = "SharedRead")

Before(r, s) == 0 < arrived[r] /\ arrived[r] < arrived[s]

Init ==
    /\ status = [r \in Reqs |-> "new"]
    /\ scope \in [Reqs -> Scopes]
    /\ arrived = [r \in Reqs |-> 0]

\* A request arrives after all the others, and is given its scope.
Arrive(r) ==
    /\ status[r] = "new"
    /\ status' = [status EXCEPT ![r] = "waiting"]
    /\ arrived' = [arrived EXCEPT ![r] = arrived'[r]]
    /\ \A s \in Reqs : arrived[s] < arrived'[r]
    /\ scope' = [scope EXCEPT ![r] = scope'[r]]
    /\ scope'[r] \in Scopes

\* Its handler starts once every earlier request it conflicts with is over.
Start(r) ==
    /\ status[r] = "waiting"
    /\ \A s \in Reqs : Before(s, r) /\ Conflict(s, r) => status[s] = "over"
    /\ status' = [status EXCEPT ![r] = "active"]
    /\ UNCHANGED <<scope, arrived>>

\* The handler returns, or the request is dropped before it starts.
Finish(r) ==
    /\ status[r] \in {"waiting", "active"}
    /\ status' = [status EXCEPT ![r] = "over"]
    /\ UNCHANGED <<scope, arrived>>

Next == \E r \in Reqs : Arrive(r) \/ Start(r) \/ Finish(r)

Spec == Init /\ [][Next]_vars

=============================================================================
