-------------------------- MODULE NetworkApproval ---------------------------
(***************************************************************************)
(* Approval of network access (codex-rs/core/src/tools/                    *)
(* network_approval.rs).  Commands run behind a proxy, which asks about    *)
(* every request to a host that is neither allowed nor forbidden by        *)
(* configuration.  The first request to a host owns the question: it asks  *)
(* hooks, a guardian or the user, and the others wait for its answer.      *)
(* Answers for the whole session are cached.  A denial also ends the       *)
(* command it is about; since requests do not say which command sent them, *)
(* that is done only when one command is active.                           *)
(*                                                                         *)
(* A request is a future of the proxy and is dropped when its client goes  *)
(* away.  Only denials that reach the decider are modelled, and each of    *)
(* them is reported once more by the proxy as a blocked request.           *)
(***************************************************************************)
EXTENDS Naturals, FiniteSets

CONSTANTS
    Requests,   \* requests that come to the proxy
    Hosts,      \* HostApprovalKeys
    Calls,      \* tool calls that run a command behind the proxy
    None        \* no request, no call, no host

ASSUME ApprovalAssumption ==
    /\ IsFiniteSet(Calls)
    /\ None \notin Requests \cup Calls \cup Hosts

VARIABLES
    at,         \* how far each request has come, see Phases
    req,        \* its locals while it lasts, see NoRequest
    decision,   \* the decision of its PendingHostApproval, if it owns one
    pending,    \* pending_host_approvals, each named by its owner
    approved,   \* session_approved_hosts
    denied,     \* session_denied_hosts
    active,     \* active_calls
    outcome,    \* call_outcomes
    blamed,     \* history: the causes for which a call's token was cancelled
    kept,       \* DeferredNetworkApproval.finish_outcome of each call
    said,       \* history: what finishing each call has returned
    run         \* the calls: "new", "running", "over" or "unregistered"

approvalVars == <<decision, pending>>
cacheVars    == <<approved, denied>>
callVars     == <<active, outcome, blamed, kept, said, run>>
vars == <<at, req, approvalVars, cacheVars, callVars>>

\* "own" to "remove" are the owner's; "blocked" and "report" are the proxy's
\* report of a denial.
Phases == {"new", "denied?", "approved?", "join", "wait", "own", "ask", "blame", "uncache",
           "cache", "set", "notify", "remove", "refused", "report refusal", "blocked",
           "report", "allowed", "denied", "dropped"}
Ends   == {"allowed", "denied", "dropped"}
Owning == {"own", "ask", "blame", "uncache", "cache", "set", "notify", "remove"}

\* How a question may end: no turn or a policy that allows no questions; a
\* hook, the guardian or the user.
Plans == {"refused", "once", "session", "denied by user", "denied for session",
          "denied by policy"}
Allows(p) == p \in {"once", "session"}

\* The outcome that an answer gives the call it is about.
Cause(p) == CASE p \in {"denied by user", "denied for session"} -> "user"
              [] p = "denied by policy" -> "policy"
              [] OTHER -> "none"

\* The locals of a request: its host; the call whose command sent it, which
\* the code does not know; the request whose PendingHostApproval it waits for,
\* and whether it is to look at the decision; the call it holds responsible
\* (owner_call); and what its question was answered with.
NoRequest == [host |-> None, origin |-> None, behind |-> None, awake |-> FALSE,
              target |-> None, plan |-> "none"]

Init ==
    /\ at = [r \in Requests |-> "new"]
    /\ req = [r \in Requests |-> NoRequest]
    /\ decision = [r \in Requests |-> "none"]
    /\ pending = [h \in Hosts |-> None]
    /\ approved = {} /\ denied = {} /\ active = {}
    /\ outcome = [c \in Calls |-> "none"]
    /\ blamed = [c \in Calls |-> {}]
    /\ kept = [c \in Calls |-> "unset"]
    /\ said = [c \in Calls |-> {}]
    /\ run = [c \in Calls |-> "new"]

GoTo(r, phase) == at' = [at EXCEPT ![r] = phase]

\* A request that ends takes its locals with it.
End(r, phase) == GoTo(r, phase) /\ req' = [req EXCEPT ![r] = NoRequest]

\* It is allowed, or denied, which the proxy then reports.
Answer(r, allow) ==
    IF allow THEN End(r, "allowed")
    ELSE GoTo(r, "blocked") /\ req' = [req EXCEPT ![r] = [NoRequest EXCEPT !.origin = req[r].origin]]

----------------------------------------------------------------------------
(* A request *)

Begin(r, h, c) ==
    /\ at[r] = "new" /\ run[c] # "new"
    /\ req' = [req EXCEPT ![r].host = h, ![r].origin = c]
    /\ GoTo(r, "denied?")
    /\ UNCHANGED <<approvalVars, cacheVars, callVars>>

CheckDenied(r) ==
    /\ at[r] = "denied?"
    /\ IF req[r].host \in denied THEN Answer(r, FALSE) ELSE GoTo(r, "approved?") /\ UNCHANGED req
    /\ UNCHANGED <<approvalVars, cacheVars, callVars>>

CheckApproved(r) ==
    /\ at[r] = "approved?"
    /\ IF req[r].host \in approved THEN Answer(r, TRUE) ELSE GoTo(r, "join") /\ UNCHANGED req
    /\ UNCHANGED <<approvalVars, cacheVars, callVars>>

\* Fault: a question that was answered is replaced before it is removed.
OwnerOfUndecided(h) ==
    IF pending[h] # None /\ decision[pending[h]] = "none" THEN pending[h] ELSE None

\* The entry of pending_host_approvals.
OwnerOf(h) == pending[h]

\* get_or_create_pending_approval.
Join(r) ==
    /\ at[r] = "join"
    /\ IF OwnerOf(req[r].host) # None
       THEN /\ req' = [req EXCEPT ![r].behind = OwnerOf(req[r].host), ![r].awake = TRUE]
            /\ GoTo(r, "wait")
            /\ UNCHANGED pending
       ELSE /\ pending' = [pending EXCEPT ![req[r].host] = r]
            /\ GoTo(r, "own")
            /\ UNCHANGED req
    /\ UNCHANGED <<decision, cacheVars, callVars>>

\* wait_for_decision: it registers for the notification before it looks.
WaiterLooks(r) ==
    /\ at[r] = "wait" /\ req[r].awake
    /\ IF decision[req[r].behind] # "none"
       THEN Answer(r, decision[req[r].behind] = "allow")
       ELSE req' = [req EXCEPT ![r].awake = FALSE] /\ UNCHANGED at
    /\ UNCHANGED <<approvalVars, cacheVars, callVars>>

----------------------------------------------------------------------------
(* The owner of a question *)

\* Fault: one of the early returns forgets set_decision.
RefuseSilently(r) ==
    /\ at[r] = "own"
    /\ req' = [req EXCEPT ![r].plan = "refused"]
    /\ GoTo(r, "remove")
    /\ UNCHANGED <<approvalVars, cacheVars, callVars>>

\* There is no turn, or nobody may be asked in it.
Refuse(r) ==
    /\ at[r] = "own"
    /\ req' = [req EXCEPT ![r].plan = "refused"]
    /\ GoTo(r, "set")
    /\ UNCHANGED <<approvalVars, cacheVars, callVars>>

\* Fault: one of several active calls is picked.
CandidatesAny == active

\* resolve_single_active_call.
Candidates == IF Cardinality(active) = 1 THEN active ELSE {}

Resolve(r) == \E c \in IF Candidates = {} THEN {None} ELSE Candidates :
    req' = [req EXCEPT ![r].target = c]

ResolveOwnerCall(r) ==
    /\ at[r] = "own"
    /\ Resolve(r)
    /\ GoTo(r, "ask")
    /\ UNCHANGED <<approvalVars, cacheVars, callVars>>

\* The hook, the guardian or the user has answered, or the turn has ended
\* and with it the wait for the user.
Decide(r, p) ==
    /\ at[r] = "ask"
    /\ req' = [req EXCEPT ![r].plan = p]
    /\ GoTo(r, "blame")
    /\ UNCHANGED <<approvalVars, cacheVars, callVars>>

\* Fault: the latest denial is the one reported.
BlameLatest(c, cause) ==
    IF c \in active
    THEN /\ outcome' = [outcome EXCEPT ![c] = cause]
         /\ blamed' = [blamed EXCEPT ![c] = @ \cup {cause}]
    ELSE UNCHANGED <<outcome, blamed>>

\* record_call_outcome: the call's outcome is set, unless the user has denied
\* it before, and its token is cancelled.
Blame(c, cause) ==
    IF c \in active /\ outcome[c] # "user"
    THEN /\ outcome' = [outcome EXCEPT ![c] = cause]
         /\ blamed' = [blamed EXCEPT ![c] = @ \cup {cause}]
    ELSE UNCHANGED <<outcome, blamed>>

RecordDenial(r) ==
    /\ at[r] = "blame"
    /\ IF Cause(req[r].plan) # "none" /\ req[r].target # None
       THEN Blame(req[r].target, Cause(req[r].plan))
       ELSE UNCHANGED <<outcome, blamed>>
    /\ GoTo(r, IF req[r].plan \in {"session", "denied for session"} THEN "uncache" ELSE "set")
    /\ UNCHANGED <<req, approvalVars, cacheVars, active, kept, said, run>>

\* An answer for the session takes the host out of the other cache.
Uncache(h, p) ==
    IF p = "session" THEN denied' = denied \ {h} /\ UNCHANGED approved
    ELSE approved' = approved \ {h} /\ UNCHANGED denied

ForgetOpposite(r) ==
    /\ at[r] = "uncache"
    /\ Uncache(req[r].host, req[r].plan)
    /\ GoTo(r, "cache")
    /\ UNCHANGED <<req, approvalVars, callVars>>

\* Then it joins its own.
CacheAnswer(r) ==
    /\ at[r] = "cache"
    /\ IF req[r].plan = "session"
       THEN approved' = approved \cup {req[r].host} /\ UNCHANGED denied
       ELSE denied' = denied \cup {req[r].host} /\ UNCHANGED approved
    /\ GoTo(r, "set")
    /\ UNCHANGED <<req, approvalVars, callVars>>

\* set_decision stores the decision, then wakes the waiters.
SetDecision(r) ==
    /\ at[r] = "set"
    /\ decision' = [decision EXCEPT ![r] = IF Allows(req[r].plan) THEN "allow" ELSE "deny"]
    /\ GoTo(r, "notify")
    /\ UNCHANGED <<req, pending, cacheVars, callVars>>

\* notify_waiters.
Woken(r) == {w \in Requests : req[w].behind = r}

NotifyWaiters(r) ==
    /\ at[r] = "notify"
    /\ req' = [w \in Requests |-> [req[w] EXCEPT !.awake = @ \/ w \in Woken(r)]]
    /\ GoTo(r, "remove")
    /\ UNCHANGED <<approvalVars, cacheVars, callVars>>

\* The entry is removed by its key, and the request is answered.
RemovePending(r) ==
    /\ at[r] = "remove"
    /\ pending' = [pending EXCEPT ![req[r].host] = None]
    /\ IF req[r].plan = "refused" THEN GoTo(r, "refused") /\ UNCHANGED req
       ELSE Answer(r, Allows(req[r].plan))
    /\ UNCHANGED <<decision, cacheVars, callVars>>

----------------------------------------------------------------------------
(* Reports of denials *)

\* A refusal is recorded after the answer was given to the waiters, and the
\* proxy reports every denial as a blocked request.  Both look for the call first.
FindCall(r) ==
    /\ at[r] \in {"refused", "blocked"}
    /\ Resolve(r)
    /\ GoTo(r, IF at[r] = "refused" THEN "report refusal" ELSE "report")
    /\ UNCHANGED <<approvalVars, cacheVars, callVars>>

RecordBlocked(r) ==
    /\ at[r] \in {"report refusal", "report"}
    /\ IF req[r].target # None THEN Blame(req[r].target, "policy")
       ELSE UNCHANGED <<outcome, blamed>>
    /\ IF at[r] = "report" THEN End(r, "denied") ELSE Answer(r, FALSE)
    /\ UNCHANGED <<approvalVars, cacheVars, active, kept, said, run>>

\* The client has gone and the proxy drops the future, at an await.
Drop(r) ==
    /\ at[r] \notin Ends \cup {"new", "notify"}
    /\ End(r, "dropped")
    /\ UNCHANGED <<approvalVars, cacheVars, callVars>>

----------------------------------------------------------------------------
(* Calls *)

\* begin_network_approval.
Register(c) ==
    /\ run[c] = "new"
    /\ run' = [run EXCEPT ![c] = "running"]
    /\ active' = active \cup {c}
    /\ UNCHANGED <<at, req, approvalVars, cacheVars, outcome, blamed, kept, said>>

\* remove_call.
Remove(c) ==
    /\ active' = active \ {c}
    /\ outcome' = [outcome EXCEPT ![c] = "none"]

\* finish: of all who hold the deferred approval, the first takes the
\* outcome, and all return it.
FinishCall(c) ==
    LET taken == IF kept[c] = "unset" THEN outcome[c] ELSE kept[c] IN
    /\ run[c] # "new"
    /\ kept' = [kept EXCEPT ![c] = taken]
    /\ said' = [said EXCEPT ![c] = @ \cup {taken}]
    /\ run' = [run EXCEPT ![c] = IF @ = "running" THEN "over" ELSE @]
    /\ IF kept[c] = "unset" THEN Remove(c) ELSE UNCHANGED <<active, outcome>>
    /\ UNCHANGED <<at, req, approvalVars, cacheVars, blamed>>

\* unregister_call: the call's process was pruned or released.
UnregisterCall(c) ==
    /\ run[c] = "running"
    /\ run' = [run EXCEPT ![c] = "unregistered"]
    /\ Remove(c)
    /\ UNCHANGED <<at, req, approvalVars, cacheVars, blamed, kept, said>>

----------------------------------------------------------------------------
\* What a request does by itself; Decide waits for somebody.
RequestStep(r) ==
    \/ CheckDenied(r) \/ CheckApproved(r) \/ Join(r) \/ WaiterLooks(r)
    \/ Refuse(r) \/ ResolveOwnerCall(r) \/ RecordDenial(r) \/ ForgetOpposite(r)
    \/ CacheAnswer(r) \/ SetDecision(r) \/ NotifyWaiters(r) \/ RemovePending(r)
    \/ FindCall(r) \/ RecordBlocked(r)

Next ==
    \/ \E r \in Requests :
        \/ RequestStep(r) \/ Drop(r)
        \/ \E h \in Hosts, c \in Calls : Begin(r, h, c)
        \/ \E p \in Plans \ {"refused"} : Decide(r, p)
    \/ \E c \in Calls : Register(c) \/ FinishCall(c) \/ UnregisterCall(c)

\* The runtime polls every future that can go on.  Nobody owes an answer, and
\* clients and commands do as they please.
Fairness == \A r \in Requests : WF_vars(RequestStep(r))

Spec == Init /\ [][Next]_vars /\ Fairness

----------------------------------------------------------------------------
(* Properties *)

\* Every variable keeps its type.
TypeOK ==
    /\ at \in [Requests -> Phases]
    /\ req \in [Requests -> [host : Hosts \cup {None}, origin : Calls \cup {None},
                             behind : Requests \cup {None}, awake : BOOLEAN,
                             target : Calls \cup {None}, plan : Plans \cup {"none"}]]
    /\ decision \in [Requests -> {"none", "allow", "deny"}]
    /\ pending \in [Hosts -> Requests \cup {None}]
    /\ approved \subseteq Hosts /\ denied \subseteq Hosts /\ active \subseteq Calls
    /\ outcome \in [Calls -> {"none", "user", "policy"}]
    /\ blamed \in [Calls -> SUBSET {"user", "policy"}]
    /\ kept \in [Calls -> {"unset", "none", "user", "policy"}]
    /\ said \in [Calls -> SUBSET {"none", "user", "policy"}]
    /\ run \in [Calls -> {"new", "running", "over", "unregistered"}]

\* Nobody is asked twice about one host at a time: the entry that an owner
\* removes by its key is its own, and no second owner comes before
\* (get_or_create_pending_approval, handle_inline_policy_request).
OneQuestion ==
    \A r \in Requests : at[r] \in Owning => pending[req[r].host] = r

\* A call is ended for a request of another command only when the command
\* that sent it is no longer active (resolve_single_active_call).
GuessOnlyWhenLate ==
    \A r \in Requests :
        req[r].target \notin {None, req[r].origin} => req[r].origin \notin active

\* Whoever finishes a call is told why it was ended, the user's word before
\* the policy's, and all are told the same, whatever is recorded meanwhile; a
\* call that nothing ended is reported so.  The exception is a call that was
\* unregistered first.
DenialIsReported ==
    \A c \in Calls : run[c] # "unregistered" =>
        said[c] \subseteq {IF "user" \in blamed[c] THEN "user"
                           ELSE IF "policy" \in blamed[c] THEN "policy" ELSE "none"}

\* Once a question is answered, all who wait for it get the answer, unless
\* its owner is dropped before it could pass the answer on; then they wait
\* until they are dropped themselves.
WaitersServed ==
    \A r \in Requests :
        (at[r] = "wait" /\ at[req[r].behind] \notin {"own", "ask"})
            ~> (at[r] = "wait" => at[req[r].behind] = "dropped")

=============================================================================
