----------------------- MODULE NetworkApprovalProofs ------------------------
(***************************************************************************)
(* Proofs about NetworkApproval: for any requests, hosts and calls, one    *)
(* question per host is open, a command is ended for a request of another  *)
(* only when the sender has finished, and every denial is reported.        *)
(***************************************************************************)
EXTENDS NetworkApproval, FiniteSetTheorems, TLAPS

\* What the locals of a request may be.
Locals == [host : Hosts \cup {None}, origin : Calls \cup {None},
           behind : Requests \cup {None}, awake : BOOLEAN,
           target : Calls \cup {None}, plan : Plans \cup {"none"}]

\* A request has its host until it is answered, and a waiter has a question.
LocalsInv ==
    \A r \in Requests :
        /\ at[r] = "new" => req[r] = NoRequest
        /\ at[r] \in Owning \cup {"denied?", "approved?", "join"} => req[r].host \in Hosts
        /\ at[r] = "wait" => req[r].behind \in Requests

\* Only a command that was started sends requests.
OriginStarted ==
    \A r \in Requests : req[r].origin # None => run[req[r].origin] # "new"

\* The reason to report for a call, of those for which it was ended.
Verdict(c) ==
    IF "user" \in blamed[c] THEN "user"
    ELSE IF "policy" \in blamed[c] THEN "policy" ELSE "none"

\* A call is active just while it runs; until then its outcome is the reason
\* to report, and once taken it stays.
CallInv ==
    \A c \in Calls :
        /\ c \in active <=> run[c] = "running"
        /\ run[c] = "new" => blamed[c] = {} /\ kept[c] = "unset"
        /\ run[c] \in {"new", "running"} => kept[c] = "unset" /\ outcome[c] = Verdict(c)
        /\ run[c] = "over" => kept[c] = Verdict(c)
        /\ kept[c] = "unset" => said[c] = {}
        /\ said[c] \subseteq {kept[c]}

Inv == TypeOK /\ LocalsInv /\ OriginStarted /\ CallInv /\ OneQuestion /\ GuessOnlyWhenLate

\* The initial states satisfy the invariant.
LEMMA InitInv == Init => Inv
  <1> SUFFICES ASSUME Init PROVE Inv
    OBVIOUS
  <1>1. TypeOK
    BY DEF Init, TypeOK, Phases, NoRequest, Plans
  <1>2. LocalsInv /\ OriginStarted /\ OneQuestion /\ GuessOnlyWhenLate
    BY DEF Init, LocalsInv, OriginStarted, OneQuestion, GuessOnlyWhenLate, Owning, NoRequest
  <1>3. CallInv
    BY DEF Init, CallInv, Verdict
  <1> QED
    BY <1>1, <1>2, <1>3 DEF Inv

\* resolve_single_active_call finds the one call that is active.
LEMMA CandidatesSole ==
    ASSUME TypeOK, NEW c \in Candidates
    PROVE  active = {c} /\ c \in Calls
  <1>1. IsFiniteSet(active)
    BY ApprovalAssumption, FS_Subset DEF TypeOK
  <1>2. Cardinality(active) = 1 /\ c \in active
    BY DEF Candidates
  <1>3. \E x : active = {x}
    BY <1>1, <1>2, FS_Singleton
  <1> QED
    BY <1>2, <1>3 DEF TypeOK

\* The state that a step of request r may change besides the request's own.
\* What the others rely on: the entry of an open question stays.
Shared(r) ==
    /\ decision' \in [Requests -> {"none", "allow", "deny"}]
    /\ pending' \in [Hosts -> Requests \cup {None}]
    /\ approved' \subseteq Hosts /\ denied' \subseteq Hosts
    /\ outcome' \in [Calls -> {"none", "user", "policy"}]
    /\ blamed' \in [Calls -> SUBSET {"user", "policy"}]
    /\ UNCHANGED <<active, kept, said, run>>
    /\ CallInv'
    /\ \A q \in Requests \ {r} : at[q] \in Owning => pending'[req[q].host] = q

\* What a request may become: it is at this phase with these locals.
Fits(r, phase, x) ==
    /\ phase \in Phases \ {"new"} /\ x \in Locals
    /\ phase \in Owning \cup {"denied?", "approved?", "join"} => x.host \in Hosts
    /\ phase \in Owning => pending'[x.host] = r
    /\ phase = "wait" => x.behind \in Requests
    /\ x.origin # None => run[x.origin] # "new"
    /\ x.target \notin {None, x.origin} => x.origin \notin active

\* A step that moves one request, and may touch the shared state, preserves
\* the invariant if it leaves the request fit and the others undisturbed.
LEMMA MoveInv ==
    ASSUME Inv, NEW r \in Requests, NEW phase, NEW x,
           GoTo(r, phase), req' = [req EXCEPT ![r] = x], Fits(r, phase, x), Shared(r)
    PROVE  Inv'
  <1>1. req \in [Requests -> Locals] /\ at \in [Requests -> Phases]
    BY DEF Inv, TypeOK, Locals
  <1>2. req' \in [Requests -> Locals] /\ at' \in [Requests -> Phases]
    BY <1>1 DEF Fits, GoTo
  <1>3. TypeOK'
    BY <1>2 DEF TypeOK, Locals, Shared, Inv
  <1>4. \A q \in Requests : q # r => req'[q] = req[q] /\ at'[q] = at[q]
    BY <1>1 DEF GoTo
  <1>5. req'[r] = x /\ at'[r] = phase
    BY <1>1 DEF GoTo
  <1>6. LocalsInv' /\ OriginStarted'
    BY <1>4, <1>5 DEF Inv, LocalsInv, OriginStarted, Fits, Shared
  <1>7. OneQuestion' /\ GuessOnlyWhenLate'
    BY <1>4, <1>5 DEF Inv, OneQuestion, GuessOnlyWhenLate, Fits, Shared
  <1> QED
    BY <1>3, <1>6, <1>7 DEF Inv, Shared

\* A step that leaves the shared state alone disturbs nobody.
LEMMA SharedUnchanged ==
    ASSUME Inv, NEW r \in Requests, UNCHANGED <<approvalVars, cacheVars, callVars>>
    PROVE  Shared(r)
  BY DEF Inv, TypeOK, CallInv, Verdict, OneQuestion, Shared, approvalVars, cacheVars, callVars

\* The locals of a request as the invariant has them.
LEMMA LocalsTyped ==
    ASSUME Inv, NEW r \in Requests
    PROVE  /\ req[r] \in Locals /\ at[r] \in Phases
           /\ req[r].host \in Hosts \cup {None} /\ req[r].origin \in Calls \cup {None}
           /\ req[r].behind \in Requests \cup {None} /\ req[r].awake \in BOOLEAN
           /\ req[r].target \in Calls \cup {None} /\ req[r].plan \in Plans \cup {"none"}
           /\ req = [req EXCEPT ![r] = req[r]] /\ at = [at EXCEPT ![r] = at[r]]
  BY DEF Inv, TypeOK, Locals

\* A request may end anywhere.
LEMMA EndInv ==
    ASSUME Inv, NEW r \in Requests, NEW phase \in Ends, End(r, phase), Shared(r)
    PROVE  Inv'
  <1>1. NoRequest \in Locals
    BY DEF NoRequest, Locals
  <1>2. Fits(r, phase, NoRequest)
    BY <1>1 DEF Fits, Ends, Phases, Owning, NoRequest
  <1> QED
    BY <1>2, MoveInv DEF End

\* A request is answered: a denied one keeps who sent it.
LEMMA AnswerInv ==
    ASSUME Inv, NEW r \in Requests, NEW allow \in BOOLEAN, Answer(r, allow), Shared(r)
    PROVE  Inv'
  <1>1. CASE allow
    BY <1>1, EndInv DEF Answer, Ends
  <1>2. CASE ~allow
    <2> DEFINE x == [NoRequest EXCEPT !.origin = req[r].origin]
    <2>1. x \in Locals /\ x.origin = req[r].origin /\ x.target = None
      BY LocalsTyped DEF NoRequest, Locals
    <2>2. Fits(r, "blocked", x)
      BY <2>1, LocalsTyped DEF Fits, Phases, Owning, Inv, OriginStarted
    <2> QED
      BY <1>2, <2>2, MoveInv DEF Answer
  <1> QED
    BY <1>1, <1>2

\* A request goes on and keeps its locals: an owner keeps its question.
LEMMA KeepInv ==
    ASSUME Inv, NEW r \in Requests, NEW phase \in Phases \ {"new"}, GoTo(r, phase), req' = req,
           Shared(r), phase # "wait",
           phase \in Owning => req[r].host \in Hosts /\ pending'[req[r].host] = r,
           phase \in {"denied?", "approved?", "join"} => req[r].host \in Hosts
    PROVE  Inv'
  <1>1. req' = [req EXCEPT ![r] = req[r]]
    BY LocalsTyped
  <1>2. Fits(r, phase, req[r])
    BY LocalsTyped DEF Fits, Inv, OriginStarted, GuessOnlyWhenLate
  <1> QED
    BY <1>1, <1>2, MoveInv

\* The call that a request holds responsible is found anew.
LEMMA ResolveInv ==
    ASSUME Inv, NEW r \in Requests, NEW phase \in {"ask", "report refusal", "report"},
           Resolve(r), GoTo(r, phase), phase = "ask" => at[r] = "own",
           UNCHANGED <<approvalVars, cacheVars, callVars>>
    PROVE  Inv'
  <1>1. PICK c \in IF Candidates = {} THEN {None} ELSE Candidates : req' = [req EXCEPT ![r].target = c]
    BY DEF Resolve
  <1>2. c = None \/ (c \in Calls /\ active = {c})
    BY <1>1, CandidatesSole DEF Inv
  <1> DEFINE x == [req[r] EXCEPT !.target = c]
  <1>3. req' = [req EXCEPT ![r] = x]
    BY <1>1 DEF Inv, TypeOK
  <1>4. x \in Locals /\ x.host = req[r].host /\ x.origin = req[r].origin /\ x.target = c
    BY <1>2, LocalsTyped DEF Locals
  <1>5. phase \in Phases \ {"new"} /\ phase # "wait" /\ (phase \in Owning => at[r] = "own")
        /\ phase \notin {"denied?", "approved?", "join"}
    BY DEF Phases, Owning
  <1>6. at[r] = "own" => req[r].host \in Hosts /\ pending'[req[r].host] = r
    BY DEF Inv, LocalsInv, OneQuestion, Owning, approvalVars
  <1>7. x.origin # None => run[x.origin] # "new"
    BY <1>4 DEF Inv, OriginStarted
  <1>8. x.target \notin {None, x.origin} => x.origin \notin active
    BY <1>2, <1>4
  <1> HIDE DEF x
  <1>9. Fits(r, phase, x)
    BY <1>4, <1>5, <1>6, <1>7, <1>8 DEF Fits
  <1> QED
    BY <1>3, <1>9, MoveInv, SharedUnchanged

\* A call is held responsible: its outcome stays the reason to report.
LEMMA BlameInv ==
    ASSUME Inv, NEW r \in Requests, NEW c, NEW cause \in {"user", "policy"}, Blame(c, cause),
           UNCHANGED <<approvalVars, cacheVars, active, kept, said, run>>
    PROVE  Shared(r)
  BY DEF Inv, TypeOK, CallInv, Verdict, OneQuestion, Shared, Blame, approvalVars, cacheVars

\* One step of a request.
LEMMA RequestInv ==
    ASSUME Inv, NEW r \in Requests,
           \/ RequestStep(r) \/ Drop(r)
           \/ \E h \in Hosts, c \in Calls : Begin(r, h, c)
           \/ \E p \in Plans \ {"refused"} : Decide(r, p)
    PROVE  Inv'
  <1>0. /\ LocalsInv /\ OneQuestion /\ OriginStarted /\ GuessOnlyWhenLate /\ TypeOK
        /\ UNCHANGED <<approvalVars, cacheVars, callVars>> => Shared(r)
    BY SharedUnchanged DEF Inv
  <1>1. ASSUME NEW h \in Hosts, NEW c \in Calls, Begin(r, h, c) PROVE Inv'
    <2> DEFINE x == [req[r] EXCEPT !.host = h, !.origin = c]
    <2>1. req' = [req EXCEPT ![r] = x]
      BY <1>1, <1>0 DEF Begin, TypeOK
    <2>2. x \in Locals /\ x.host = h /\ x.origin = c /\ x.target = req[r].target
      BY LocalsTyped DEF Locals
    <2>3. req[r].target = None
      BY <1>1, <1>0 DEF Begin, LocalsInv, NoRequest
    <2> HIDE DEF x
    <2>4. Fits(r, "denied?", x)
      BY <1>1, <2>2, <2>3 DEF Fits, Phases, Owning, Begin
    <2> QED
      BY <1>0, <1>1, <2>1, <2>4, MoveInv DEF Begin
  <1>2. ASSUME CheckDenied(r) PROVE Inv'
    BY <1>0, <1>2, AnswerInv, KeepInv DEF CheckDenied, Phases, Owning, LocalsInv
  <1>3. ASSUME CheckApproved(r) PROVE Inv'
    BY <1>0, <1>3, AnswerInv, KeepInv DEF CheckApproved, Phases, Owning, LocalsInv
  <1>4. ASSUME Join(r) PROVE Inv'
    <2>1. req[r].host \in Hosts
      BY <1>0, <1>4 DEF Join, LocalsInv
    <2>2. CASE OwnerOf(req[r].host) # None
      <3> DEFINE x == [req[r] EXCEPT !.behind = OwnerOf(req[r].host), !.awake = TRUE]
      <3>1. req' = [req EXCEPT ![r] = x]
        BY <1>0, <1>4, <2>2 DEF Join, TypeOK
      <3>2. OwnerOf(req[r].host) \in Requests
        BY <1>0, <2>1, <2>2 DEF OwnerOf, TypeOK
      <3>3. /\ x \in Locals /\ x.behind \in Requests /\ x.host = req[r].host
            /\ x.origin = req[r].origin /\ x.target = req[r].target
        BY <3>2, LocalsTyped DEF Locals
      <3> HIDE DEF x
      <3>4. Fits(r, "wait", x)
        BY <1>0, <3>3 DEF Fits, Phases, Owning, OriginStarted, GuessOnlyWhenLate
      <3>5. UNCHANGED <<approvalVars, cacheVars, callVars>>
        BY <1>4, <2>2 DEF Join, approvalVars
      <3> QED
        BY <1>0, <1>4, <2>2, <3>1, <3>4, <3>5, MoveInv DEF Join
    <2>3. CASE OwnerOf(req[r].host) = None
      <3>1. pending' = [pending EXCEPT ![req[r].host] = r] /\ req' = req /\ GoTo(r, "own")
            /\ UNCHANGED <<decision, cacheVars, callVars>> /\ pending[req[r].host] = None
        BY <1>4, <2>3 DEF Join, OwnerOf
      <3>2. \A q \in Requests : at[q] \in Owning => pending'[req[q].host] = q
        BY <1>0, <2>1, <3>1, ApprovalAssumption DEF TypeOK, LocalsInv, OneQuestion
      <3>3. Shared(r) /\ pending'[req[r].host] = r
        BY <1>0, <2>1, <3>1, <3>2 DEF Shared, TypeOK, CallInv, Inv, Verdict, cacheVars, callVars
      <3> QED
        BY <2>1, <3>1, <3>3, KeepInv DEF Phases
    <2> QED
      BY <2>2, <2>3
  <1>5. ASSUME WaiterLooks(r) PROVE Inv'
    <2>1. CASE decision[req[r].behind] # "none"
      BY <1>0, <1>5, <2>1, AnswerInv DEF WaiterLooks
    <2>2. CASE decision[req[r].behind] = "none"
      <3> DEFINE x == [req[r] EXCEPT !.awake = FALSE]
      <3>1. req' = [req EXCEPT ![r] = x] /\ GoTo(r, "wait")
        BY <1>0, <1>5, <2>2, LocalsTyped DEF WaiterLooks, TypeOK, GoTo
      <3>2. /\ x \in Locals /\ x.behind = req[r].behind /\ x.host = req[r].host
            /\ x.origin = req[r].origin /\ x.target = req[r].target
        BY LocalsTyped DEF Locals
      <3> HIDE DEF x
      <3>3. Fits(r, "wait", x)
        BY <1>0, <1>5, <3>2 DEF Fits, Phases, Owning, LocalsInv, OriginStarted, GuessOnlyWhenLate, WaiterLooks
      <3> QED
        BY <1>0, <1>5, <3>1, <3>3, MoveInv DEF WaiterLooks
    <2> QED
      BY <2>1, <2>2
  <1>6. ASSUME NEW p \in Plans, NEW phase \in {"set", "blame"}, at[r] \in {"own", "ask"},
               req' = [req EXCEPT ![r].plan = p], GoTo(r, phase),
               UNCHANGED <<approvalVars, cacheVars, callVars>>
        PROVE  Inv'
    <2> DEFINE x == [req[r] EXCEPT !.plan = p]
    <2>1. req' = [req EXCEPT ![r] = x]
      BY <1>0, <1>6 DEF TypeOK
    <2>2. /\ x \in Locals /\ x.host = req[r].host
          /\ x.origin = req[r].origin /\ x.target = req[r].target
      BY LocalsTyped DEF Locals
    <2> HIDE DEF x
    <2>3. Fits(r, phase, x)
      BY <1>0, <1>6, <2>2 DEF Fits, Phases, Owning, LocalsInv, OneQuestion, OriginStarted,
                              GuessOnlyWhenLate, approvalVars
    <2> QED
      BY <1>0, <1>6, <2>1, <2>3, MoveInv
  <1>7. ASSUME Refuse(r) PROVE Inv'
    BY <1>6, <1>7 DEF Refuse, Plans
  <1>8. ASSUME NEW p \in Plans \ {"refused"}, Decide(r, p) PROVE Inv'
    BY <1>6, <1>8 DEF Decide
  <1>9. ASSUME ResolveOwnerCall(r) PROVE Inv'
    BY <1>9, ResolveInv DEF ResolveOwnerCall
  <1>10. ASSUME FindCall(r) PROVE Inv'
    BY <1>10, ResolveInv DEF FindCall
  <1>11. ASSUME RecordDenial(r) PROVE Inv'
    <2>1. Cause(req[r].plan) \in {"none", "user", "policy"}
      BY DEF Cause
    <2>2. Shared(r)
      BY <1>0, <1>11, <2>1, BlameInv DEF RecordDenial, callVars
    <2> QED
      BY <1>0, <1>11, <2>2, KeepInv DEF RecordDenial, Phases, Owning, LocalsInv, OneQuestion, approvalVars
  <1>12. ASSUME ForgetOpposite(r) PROVE Inv'
    <2>1. Shared(r)
      BY <1>0, <1>12 DEF ForgetOpposite, Uncache, Shared, TypeOK, OneQuestion, CallInv, Inv,
                         Verdict, approvalVars, callVars
    <2> QED
      BY <1>0, <1>12, <2>1, KeepInv DEF ForgetOpposite, Phases, Owning, LocalsInv, OneQuestion, approvalVars
  <1>13. ASSUME CacheAnswer(r) PROVE Inv'
    <2>1. Shared(r)
      BY <1>0, <1>13 DEF CacheAnswer, Shared, TypeOK, OneQuestion, CallInv, Inv, LocalsInv, Owning,
                         Verdict, approvalVars, callVars
    <2> QED
      BY <1>0, <1>13, <2>1, KeepInv DEF CacheAnswer, Phases, Owning, LocalsInv, OneQuestion, approvalVars
  <1>14. ASSUME SetDecision(r) PROVE Inv'
    <2>1. Shared(r)
      BY <1>0, <1>14 DEF SetDecision, Shared, TypeOK, OneQuestion, CallInv, Inv, Verdict, cacheVars, callVars
    <2> QED
      BY <1>0, <1>14, <2>1, KeepInv DEF SetDecision, Phases, Owning, LocalsInv, OneQuestion
  <1>15. ASSUME NotifyWaiters(r) PROVE Inv'
    <2> DEFINE x(q) == [req[q] EXCEPT !.awake = @ \/ q \in Woken(r)]
    <2>1. req' = [q \in Requests |-> x(q)]
      BY <1>15 DEF NotifyWaiters
    <2>2. ASSUME NEW q \in Requests
          PROVE  /\ x(q) \in Locals /\ x(q).host = req[q].host /\ x(q).origin = req[q].origin
                 /\ x(q).behind = req[q].behind /\ x(q).target = req[q].target
      BY LocalsTyped DEF Locals
    <2> HIDE DEF x
    <2>3. req' \in [Requests -> Locals]
      BY <2>1, <2>2
    <2>4. UNCHANGED <<approvalVars, cacheVars, callVars>>
      BY <1>15 DEF NotifyWaiters
    <2>9. at' \in [Requests -> Phases]
      BY <1>0, <1>15 DEF NotifyWaiters, GoTo, TypeOK, Phases
    <2>5. TypeOK' /\ CallInv'
      BY <1>0, <2>3, <2>4, <2>9 DEF TypeOK, Locals, Inv, CallInv, Verdict, approvalVars, cacheVars, callVars
    <2>6. \A q \in Requests : at'[q] = at[q] \/ (at[q] = "notify" /\ at'[q] = "remove")
      BY <1>0, <1>15 DEF NotifyWaiters, GoTo, TypeOK
    <2>7. LocalsInv'
      <3> SUFFICES ASSUME NEW q \in Requests, at'[q] = "new" PROVE req'[q] = NoRequest
        BY <1>0, <2>1, <2>2, <2>6 DEF LocalsInv, Owning
      <3>1. req[q] = NoRequest
        BY <1>0, <2>6 DEF LocalsInv
      <3>2. q \notin Woken(r)
        BY <3>1, ApprovalAssumption DEF Woken, NoRequest
      <3>3. (NoRequest.awake \/ q \in Woken(r)) = FALSE
        BY <3>2 DEF NoRequest
      <3>4. x(q) = [NoRequest EXCEPT !.awake = FALSE]
        BY <3>1, <3>3 DEF x
      <3>5. x(q) = NoRequest
        BY <3>4 DEF NoRequest
      <3> QED
        BY <2>1, <3>5
    <2>8. OneQuestion' /\ OriginStarted' /\ GuessOnlyWhenLate'
      BY <1>0, <2>1, <2>2, <2>4, <2>6 DEF OneQuestion, OriginStarted, GuessOnlyWhenLate, Owning,
                                          approvalVars, callVars
    <2> QED
      BY <2>5, <2>7, <2>8 DEF Inv
  <1>16. ASSUME RemovePending(r) PROVE Inv'
    <2>1. req[r].host \in Hosts /\ pending[req[r].host] = r
      BY <1>0, <1>16 DEF RemovePending, LocalsInv, OneQuestion, Owning
    <2>2. \A q \in Requests \ {r} : at[q] \in Owning => pending'[req[q].host] = q
      BY <1>0, <1>16, <2>1 DEF RemovePending, TypeOK, LocalsInv, OneQuestion
    <2>3. Shared(r)
      BY <1>0, <1>16, <2>2 DEF RemovePending, Shared, TypeOK, CallInv, Inv, Verdict, cacheVars, callVars
    <2>4. CASE req[r].plan = "refused"
      BY <1>16, <2>3, <2>4, KeepInv DEF RemovePending, Phases, Owning
    <2>5. CASE req[r].plan # "refused"
      BY <1>16, <2>3, <2>5, AnswerInv, Allows(req[r].plan) \in BOOLEAN DEF RemovePending, Allows
    <2> QED
      BY <2>4, <2>5
  <1>17. ASSUME RecordBlocked(r) PROVE Inv'
    <2>1. Shared(r)
      BY <1>0, <1>17, BlameInv DEF RecordBlocked, callVars
    <2> QED
      BY <1>17, <2>1, EndInv, AnswerInv DEF RecordBlocked, Ends
  <1>18. ASSUME Drop(r) PROVE Inv'
    BY <1>0, <1>18, EndInv DEF Drop, Ends
  <1> QED
    BY <1>1, <1>2, <1>3, <1>4, <1>5, <1>7, <1>8, <1>9, <1>10, <1>11, <1>12, <1>13,
       <1>14, <1>15, <1>16, <1>17, <1>18 DEF RequestStep

\* One step of a call.
LEMMA CallStepInv ==
    ASSUME Inv, NEW c \in Calls, Register(c) \/ FinishCall(c) \/ UnregisterCall(c)
    PROVE  Inv'
  <1> USE ApprovalAssumption DEF Inv, TypeOK, LocalsInv, OriginStarted, CallInv, OneQuestion,
          GuessOnlyWhenLate, Verdict, approvalVars, cacheVars, callVars
  <1>1. ASSUME Register(c) PROVE Inv'
    BY <1>1 DEF Register
  <1>2. ASSUME FinishCall(c) PROVE Inv'
    BY <1>2 DEF FinishCall, Remove
  <1>3. ASSUME UnregisterCall(c) PROVE Inv'
    BY <1>3 DEF UnregisterCall, Remove
  <1> QED
    BY <1>1, <1>2, <1>3

\* The invariant holds in every state of every behaviour, whatever clients,
\* commands and those who are asked do (NetworkApprovalService).
THEOREM Invariance == Spec => []Inv
  <1>1. Inv /\ UNCHANGED vars => Inv'
    BY DEF Inv, TypeOK, LocalsInv, OriginStarted, CallInv, OneQuestion, GuessOnlyWhenLate,
           Verdict, vars, approvalVars, cacheVars, callVars
  <1>2. Inv /\ [Next]_vars => Inv'
    BY <1>1, RequestInv, CallStepInv DEF Next
  <1> QED
    BY InitInv, <1>2, PTL DEF Spec

\* Every variable keeps its type (NetworkApprovalService's maps and sets).
THEOREM TypeCorrect == Spec => []TypeOK
  <1>1. Inv => TypeOK
    BY DEF Inv
  <1> QED
    BY Invariance, <1>1, PTL

\* While a question about a host is open its owner has the host's entry, so
\* nobody else is asked and nobody else's entry is removed by key
\* (get_or_create_pending_approval, handle_inline_policy_request).
THEOREM OneQuestionPerHost == Spec => []OneQuestion
  <1>1. Inv => OneQuestion
    BY DEF Inv
  <1> QED
    BY Invariance, <1>1, PTL

\* A call is held responsible for a request of another one only after the
\* sender's call has left active_calls, and it never comes back
\* (resolve_single_active_call).
THEOREM GuessIsLate == Spec => []GuessOnlyWhenLate
  <1>1. Inv => GuessOnlyWhenLate
    BY DEF Inv
  <1> QED
    BY Invariance, <1>1, PTL

\* All who finish a call are told the same reason, the strongest for which
\* its token was cancelled (record_call_outcome, DeferredNetworkApproval).
THEOREM DenialReported == Spec => []DenialIsReported
  <1>1. Inv => DenialIsReported
    BY DEF Inv, TypeOK, CallInv, DenialIsReported, Verdict
  <1> QED
    BY Invariance, <1>1, PTL

=============================================================================
