-------------------------- MODULE ResponseApiProofs --------------------------
(***************************************************************************)
(* For any clients, actions, windows and policies: the API is well typed,  *)
(* executes an action id at most once between two resets, never puts a     *)
(* rolled back action in force again, and nothing that was formed in an    *)
(* earlier window.  And for any operator, network and runtime before it:   *)
(* what the approval page puts in force is what the operator was shown.    *)
(***************************************************************************)
EXTENDS ApprovalPage, ResponseExecutorProofs

(* The decision a call is judged by is a legal decision.                    *)
LEMMA ResolvedType ==
  ASSUME TypeOK, NEW id \in DecisionIds
  PROVE  ResolvedDecision(id) \in AuthorityDecision
BY DEF ResolvedDecision, DefaultDecision, AuthorityDecision, AuthorityLevel, ActionClass, TypeOK

(* The action the rollback handler makes up is a legal action.              *)
LEMMA RollbackActionType ==
  ASSUME TypeOK, NEW i \in ActionIds, NEW target \in RollbackTargets, NEW id \in DecisionIds
  PROVE  RollbackAction(i, target, ResolvedDecision(id)) \in ResponseAction
<1>1. ResolvedDecision(id).id \in DecisionIds
  BY ResolvedType DEF AuthorityDecision
<1> QED
  BY <1>1, ApiAssumption DEF RollbackAction, ResponseAction, ActionClass, ReversibleActionType,
     RollbackPolicy, TypeOK

(* A client's action is a legal action with a legal decision id.            *)
LEMMA ClientActionType ==
  ASSUME NEW a \in ClientActions
  PROVE  a \in ResponseAction /\ a.decision \in DecisionIds /\ a.id \in ActionIds
BY ApiAssumption DEF ResponseAction

-----------------------------------------------------------------------------
(* An execute call keeps the API well typed, whoever sends it.              *)
LEMMA ExecuteCallType ==
  ASSUME TypeOK, NEW a \in ResponseAction, NEW h, NEW seen \in VerifierAnswer \union {None},
         ExecuteResponse(a, h, seen)
  PROVE  TypeOK' /\ reply' \in Reply
<1> DEFINE d == ResolvedDecision(a.decision)
<1>1. d \in AuthorityDecision /\ a.id \in ActionIds
  BY ResolvedType DEF ResponseAction
<1>2. ExecutorTypeOK'
  <2>1. CASE ExecuteIdempotent(a, d, h, Topology, current)
    BY <2>1 DEF ExecuteIdempotent, executorVars, ExecutorTypeOK, TypeOK
  <2> QED BY <1>1, <2>1, ExecuteType DEF ExecuteResponse, TypeOK
<1>3. \A s \in ExecutionStatus : ExecuteReply(a, s, seen) \in Reply
  BY <1>1 DEF ExecuteReply, Reply, VerifierAnswer
<1>4. reply' \in Reply
  BY <1>3 DEF ExecuteResponse, ExecutionStatus, Refusal
<1> QED BY <1>2, <1>4 DEF ExecuteResponse, apiVars, TypeOK

(* So does a rollback call.                                                 *)
LEMMA RollbackCallType ==
  ASSUME TypeOK, NEW i \in ActionIds, NEW target \in RollbackTargets, NEW id \in DecisionIds,
         RollbackResponse(i, target, id)
  PROVE  TypeOK'
<1> DEFINE d == ResolvedDecision(id)
           a == RollbackAction(i, target, d)
<1>1. a \in ResponseAction /\ d \in AuthorityDecision
  BY RollbackActionType, ResolvedType
<1>2. ExecutorTypeOK'
  BY <1>1, RollbackType DEF RollbackResponse, TypeOK
<1>3. \A s \in {"BLOCKED", "FAILED", "ROLLED_BACK"} : RollbackReply(i, s) \in Reply
  BY DEF RollbackReply, Reply, ExecutionStatus, VerifierAnswer
<1>4. reply' \in Reply
  BY <1>3 DEF RollbackResponse
<1> QED BY <1>2, <1>4 DEF RollbackResponse, apiVars, TypeOK

(* And so does the runtime moving on.                                       *)
LEMMA RuntimeType ==
  ASSUME TypeOK, NextEvent \/ NewSession \/ ResetDemo PROVE TypeOK'
<1>1. CASE NextEvent
  <2>1. PICK p \in Policies :
          policy' = [id |-> issued + 1, level |-> p.level, permitted |-> p.permitted,
                     humanApprovalRequired |-> p.humanApprovalRequired]
    BY <1>1 DEF NextEvent
  <2>2. policy' \in AuthorityDecision /\ policy'.id = issued + 1
    BY <1>1, <2>1, ApiAssumption DEF NextEvent, AuthorityDecision
  <2>3. current' = issued + 1 /\ issued' = issued + 1 /\ issued + 1 \in WindowIds /\ issued + 1 \in Nat
    BY <1>1, ApiAssumption DEF NextEvent
  <2> QED BY <1>1, <2>2, <2>3 DEF NextEvent, TypeOK, ExecutorTypeOK, executorVars
<1>2. CASE NewSession
  BY <1>2, ApiAssumption DEF NewSession, TypeOK, ExecutorTypeOK, executorVars, Idle
<1>3. CASE ResetDemo
  BY <1>3, ReplaceType, ApiAssumption DEF ResetDemo, TypeOK, Idle
<1> QED BY <1>1, <1>2, <1>3

(* Every step keeps the API well typed.                                     *)
LEMMA TypeStep ==
  ASSUME TypeOK, [Next]_vars PROVE TypeOK'
<1>1. CASE UNCHANGED vars
  BY <1>1 DEF vars, executorVars, apiVars, TypeOK, ExecutorTypeOK
<1> QED BY <1>1, RuntimeType, ExecuteCallType, RollbackCallType, ClientActionType DEF Next

(* The API stays well typed.                                                *)
THEOREM TypeCorrect == Spec => []TypeOK
<1>1. Init => TypeOK
  BY ApiAssumption DEF Init, InitExecutor, TypeOK, ExecutorTypeOK, Idle
<1>2. TypeOK /\ [Next]_vars => TypeOK'
  BY TypeStep
<1> QED BY <1>1, <1>2, PTL DEF Spec

-----------------------------------------------------------------------------
\* What is in force, or was rolled back, has been executed, and the index
\* knows it: this is what keeps a rolled back action from being executed again.
ActiveExecuted == \A i \in ActionIds : active[i] # None => Executions(i) # {}
RolledBackExecuted ==
  \A i \in ActionIds : RolledBack(i) # {} => Executions(i) # {} /\ active[i] = None
ApiInv == IndexKeepsExecution /\ ActiveExecuted /\ RolledBackExecuted

(* Appending a record adds it to the rollbacks of its action if it is one.  *)
LEMMA RolledBackRecord ==
  ASSUME ExecutorTypeOK, NEW e \in ExecutionRecord, history' = Append(history, e),
         NEW i \in ActionIds
  PROVE  RolledBack(i)' = RolledBack(i) \union
           {k \in {Len(history) + 1} : e.status = "ROLLED_BACK" /\ e.action = i}
<1>1. /\ DOMAIN history = 1..Len(history) /\ DOMAIN history' = 1..(Len(history) + 1)
      /\ \A k \in 1..Len(history) : history'[k] = history[k]
      /\ history'[Len(history) + 1] = e
      /\ Len(history) \in Nat
  BY DEF ExecutorTypeOK
<1> QED BY <1>1 DEF RolledBack

(* Nothing recorded, nothing changed at the adapter.                        *)
LEMMA ApiFrame ==
  ASSUME ApiInv, UNCHANGED executorVars PROVE ApiInv'
BY DEF ApiInv, IndexKeepsExecution, ActiveExecuted, RolledBackExecuted, Executions, RolledBack,
   executorVars

(* A call that records neither an execution nor a rollback.                 *)
LEMMA OtherCall ==
  ASSUME ExecutorTypeOK, ApiInv, IndexKeepsExecution', UNCHANGED adapterVars,
         NEW e \in ExecutionRecord, e.status \notin {"EXECUTED", "ROLLED_BACK"},
         history' = Append(history, e)
  PROVE  ApiInv'
<1>1. \A i \in ActionIds : Executions(i)' = Executions(i) /\ RolledBack(i)' = RolledBack(i)
  BY OtherRecord, RolledBackRecord
<1> QED BY <1>1 DEF ApiInv, ActiveExecuted, RolledBackExecuted, adapterVars

(* Execute calls preserve the invariant.                                    *)
LEMMA ExecuteInv ==
  ASSUME ExecutorTypeOK, ApiInv,
         NEW a \in ResponseAction, NEW d \in AuthorityDecision, NEW h, NEW t, NEW w,
         \/ ExecuteRefused(a, d, h, t, w)
         \/ ExecuteFailed(a, d, h, t, w)
         \/ ExecuteApplied(a, d, h, t, w)
  PROVE  ApiInv'
<1>0. IndexKeepsExecution' /\ a.id \in ActionIds
  BY ExecuteIndex DEF ApiInv, ResponseAction
<1>1. CASE ExecuteRefused(a, d, h, t, w)
  <2>1. /\ Record(a, d, Refusal(a, d, h, w), FALSE) \in ExecutionRecord
        /\ Record(a, d, Refusal(a, d, h, w), FALSE).status \notin {"EXECUTED", "ROLLED_BACK"}
    BY RecordType DEF Refusal, ExecutionStatus, Record
  <2> QED BY <1>0, <1>1, <2>1, OtherCall DEF ExecuteRefused, adapterVars
<1>2. CASE ExecuteFailed(a, d, h, t, w)
  <2>1. /\ Record(a, d, "FAILED", FALSE) \in ExecutionRecord
        /\ Record(a, d, "FAILED", FALSE).status \notin {"EXECUTED", "ROLLED_BACK"}
    BY RecordType DEF ExecutionStatus, Record
  <2> QED BY <1>0, <1>2, <2>1, OtherCall DEF ExecuteFailed
<1>3. CASE ExecuteApplied(a, d, h, t, w)
  <2>1. /\ Record(a, d, "EXECUTED", FALSE) \in ExecutionRecord
        /\ Record(a, d, "EXECUTED", FALSE).status = "EXECUTED"
        /\ Record(a, d, "EXECUTED", FALSE).action = a.id
    BY RecordType DEF ExecutionStatus, Record
  <2>2. \A i \in ActionIds :
          /\ Executions(i)' = Executions(i) \union {k \in {Len(history) + 1} : a.id = i}
          /\ RolledBack(i)' = RolledBack(i)
    <3> DEFINE e == Record(a, d, "EXECUTED", FALSE)
    <3>1. /\ e \in ExecutionRecord /\ e.status = "EXECUTED" /\ e.action = a.id
          /\ history' = Append(history, e)
      BY <1>3, <2>1 DEF ExecuteApplied
    <3> HIDE DEF e
    <3>2. ASSUME NEW i \in ActionIds
          PROVE  /\ Executions(i)' = Executions(i) \union {k \in {Len(history) + 1} : e.action = i}
                 /\ RolledBack(i)' = RolledBack(i) \union
                      {k \in {Len(history) + 1} : e.status = "ROLLED_BACK" /\ e.action = i}
      BY <3>1, ExecutedRecord, RolledBackRecord
    <3> QED BY <3>1, <3>2
  <2>3. RolledBack(a.id) = {}
    BY <1>0, <1>3, NotExecuted DEF ExecuteApplied, ApiInv, RolledBackExecuted
  <2>4. \A i \in ActionIds : i # a.id => active'[i] = active[i]
    BY <1>3 DEF ExecuteApplied, ExecutorTypeOK
  <2>5. ActiveExecuted'
    BY <2>2, <2>4 DEF ActiveExecuted, ApiInv
  <2>6. RolledBackExecuted'
    BY <2>2, <2>3, <2>4 DEF RolledBackExecuted, ApiInv
  <2> QED BY <1>0, <2>5, <2>6 DEF ApiInv
<1> QED BY <1>1, <1>2, <1>3

(* Rollback calls preserve the invariant.                                   *)
LEMMA RollbackInv ==
  ASSUME ExecutorTypeOK, ApiInv,
         NEW a \in ResponseAction, NEW d \in AuthorityDecision, NEW h,
         RollbackBlocked(a, d, h) \/ RollbackFailed(a, d, h) \/ RollbackApplied(a, d, h)
  PROVE  ApiInv'
<1>0. /\ IndexKeepsExecution' /\ a.id \in ActionIds
      /\ \A s \in {"BLOCKED", "FAILED", "ROLLED_BACK"} :
           Record(a, d, s, TRUE) \in ExecutionRecord /\ Record(a, d, s, TRUE).status = s
      /\ Record(a, d, "ROLLED_BACK", TRUE).action = a.id
  BY RollbackIndex, RecordType DEF ApiInv, ResponseAction, ExecutionStatus, Record
<1>1. CASE RollbackBlocked(a, d, h)
  BY <1>0, <1>1, OtherCall DEF RollbackBlocked, adapterVars
<1>2. CASE RollbackFailed(a, d, h)
  BY <1>0, <1>2, OtherCall DEF RollbackFailed, adapterVars
<1>3. CASE RollbackApplied(a, d, h)
  <2>1. \A i \in ActionIds :
          /\ Executions(i)' = Executions(i)
          /\ RolledBack(i)' = RolledBack(i) \union {k \in {Len(history) + 1} : a.id = i}
    BY <1>0, <1>3, OtherRecord, RolledBackRecord DEF RollbackApplied
  <2>2. Executions(a.id) # {}
    BY <1>0, <1>3 DEF RollbackApplied, ApiInv, ActiveExecuted
  <2>3. /\ active'[a.id] = None
        /\ \A i \in ActionIds : i # a.id => active'[i] = active[i]
    BY <1>0, <1>3 DEF RollbackApplied, ExecutorTypeOK
  <2>4. ActiveExecuted'
    BY <2>1, <2>3 DEF ActiveExecuted, ApiInv
  <2>5. RolledBackExecuted'
    BY <2>1, <2>2, <2>3 DEF RolledBackExecuted, ApiInv
  <2> QED BY <1>0, <2>4, <2>5 DEF ApiInv
<1> QED BY <1>1, <1>2, <1>3

(* Every step of the API preserves the invariant.                           *)
LEMMA InvStep ==
  ASSUME TypeOK, ApiInv, [Next]_vars PROVE ApiInv'
<1>1. CASE NextEvent \/ NewSession \/ UNCHANGED vars
  BY <1>1, ApiFrame DEF NextEvent, NewSession, vars, executorVars
<1>2. CASE ResetDemo
  BY <1>2 DEF ResetDemo, ReplaceExecutor, ApiInv, IndexKeepsExecution, ActiveExecuted,
     RolledBackExecuted, Executions, RolledBack
<1>3. ASSUME NEW a \in ClientActions, NEW h, NEW seen, ExecuteResponse(a, h, seen)
      PROVE  ApiInv'
  <2>1. a \in ResponseAction /\ ResolvedDecision(a.decision) \in AuthorityDecision
    BY ClientActionType, ResolvedType
  <2>2. CASE ExecuteIdempotent(a, ResolvedDecision(a.decision), h, Topology, current)
    BY <2>2, ApiFrame DEF ExecuteIdempotent
  <2> QED BY <1>3, <2>1, <2>2, ExecuteInv DEF ExecuteResponse, TypeOK
<1>4. ASSUME NEW i \in ActionIds, NEW target \in RollbackTargets, NEW id \in DecisionIds,
             RollbackResponse(i, target, id)
      PROVE  ApiInv'
  <2>1. /\ RollbackAction(i, target, ResolvedDecision(id)) \in ResponseAction
        /\ ResolvedDecision(id) \in AuthorityDecision
    BY RollbackActionType, ResolvedType
  <2> QED BY <1>4, <2>1, RollbackInv DEF RollbackResponse, TypeOK
<1> QED BY <1>1, <1>2, <1>3, <1>4 DEF Next

(* The invariant holds in every reachable state.                            *)
LEMMA InvAlways == Spec => [](TypeOK /\ ApiInv)
<1>1. Init => ApiInv
  BY DEF Init, InitExecutor, ApiInv, IndexKeepsExecution, ActiveExecuted, RolledBackExecuted,
     Executions, RolledBack
<1>2. TypeOK /\ ApiInv /\ [Next]_vars => ApiInv'
  BY InvStep
<1> QED BY <1>1, <1>2, TypeCorrect, PTL DEF Spec

(* Between two resets, an action id is executed at most once, however often *)
(* and with whatever ids, types and approvals clients send it.              *)
THEOREM AtMostOnce == Spec => []AtMostOnceExecuted
<1>1. ApiInv => AtMostOnceExecuted
  BY IndexedOnce DEF ApiInv
<1> QED BY <1>1, InvAlways, PTL

(* A rolled back action stays out of force until the executor is replaced.  *)
THEOREM RollbackIsFinal == Spec => []RolledBackIsFinal
<1>1. ApiInv => RolledBackIsFinal
  BY DEF ApiInv, RolledBackExecuted, RolledBackIsFinal
<1> QED BY <1>1, InvAlways, PTL

-----------------------------------------------------------------------------
(* Only an execute call that is applied puts anything in force: its own     *)
(* action, formed in the current window under the decision it is judged by. *)
LEMMA AppliedIsFresh ==
  ASSUME TypeOK, NEW a \in ResponseAction, NEW h, NEW seen, ExecuteResponse(a, h, seen),
         NEW i \in ActionIds, active'[i] # active[i]
  PROVE  /\ i = a.id /\ active'[i] = a
         /\ a.window = current /\ a.decision = ResolvedDecision(a.decision).id
<1> DEFINE d == ResolvedDecision(a.decision)
<1>1. ExecuteApplied(a, d, h, Topology, current)
  BY DEF ExecuteResponse, ExecuteRefused, ExecuteFailed, ExecuteIdempotent, executorVars, adapterVars
<1>2. active' = [active EXCEPT ![a.id] = a] /\ ~AuthorityRefuses(a, d, current)
  BY <1>1 DEF ExecuteApplied, Permitted
<1>3. current # None
  BY NoneAssumption DEF TypeOK
<1> QED BY <1>2, <1>3 DEF AuthorityRefuses, TypeOK, ExecutorTypeOK

(* A rollback puts nothing in force.                                        *)
LEMMA RollbackOnlyFrees ==
  ASSUME TypeOK, NEW i \in ActionIds, NEW target, NEW id, RollbackResponse(i, target, id),
         NEW j \in ActionIds
  PROVE  active'[j] = active[j] \/ active'[j] = None
BY DEF RollbackResponse, RollbackBlocked, RollbackFailed, RollbackApplied, RollbackAction,
   TypeOK, ExecutorTypeOK

(* An action prepared for an earlier event never takes effect late, under   *)
(* whatever ids, windows and decisions clients send it.                     *)
THEOREM EvidenceIsFresh == Spec => FreshEvidenceOnly
<1> DEFINE Fresh ==
      \A i \in ActionIds : active'[i] # active[i] /\ active'[i] # None =>
        /\ active'[i].window = current
        /\ policy # None => active'[i].decision = policy.id
<1>1. TypeOK /\ [Next]_vars => [Fresh]_vars
  <2> SUFFICES ASSUME TypeOK, Next PROVE Fresh
    OBVIOUS
  <2>1. CASE NextEvent \/ NewSession \/ ResetDemo
    BY <2>1 DEF NextEvent, NewSession, ResetDemo, ReplaceExecutor, executorVars
  <2>2. ASSUME NEW a \in ClientActions, NEW h, NEW seen, ExecuteResponse(a, h, seen)
        PROVE  Fresh
    BY <2>2, ClientActionType, AppliedIsFresh DEF ResolvedDecision
  <2>3. ASSUME NEW i \in ActionIds, NEW target, NEW id, RollbackResponse(i, target, id)
        PROVE  Fresh
    BY <2>3, RollbackOnlyFrees
  <2> QED BY <2>1, <2>2, <2>3 DEF Next
<1> QED BY <1>1, TypeCorrect, PTL DEF Spec, FreshEvidenceOnly

-----------------------------------------------------------------------------
(* The approval page.  Its inductive invariant ties each request on its way *)
(* to the event of the click it was sent for, and each click to at most one *)
(* request or one action id.                                                *)

\* An event as the page shows it.
Event == [window : WindowIds, policy : AuthorityDecision \union {None},
          proposal : Proposals \union {None}]

PageEventsOK ==
  /\ proposal \in Proposals \union {None}
  /\ shown \in Event \union {None}
  /\ clicks \in Seq(Event)
  /\ \A k \in DOMAIN clicks : clicks[k].policy # None /\ clicks[k].proposal # None

\* A request carries what its click was given for.
RequestsAreClicked ==
  \A r \in wire :
    /\ r.click \in DOMAIN clicks
    /\ r.window = clicks[r.click].window
    /\ r.decision = clicks[r.click].policy.id
    /\ r.proposal = clicks[r.click].proposal

\* A click is on its way, or behind one action id, or neither.
ClicksAreSpentOnce ==
  /\ applied \in [ActionIds -> 0..Len(clicks)]
  /\ \A r, q \in wire : r.click = q.click => r = q
  /\ \A r \in wire : \A i \in ActionIds : applied[i] # r.click
  /\ \A i, j \in ActionIds : applied[i] # 0 /\ applied[j] = applied[i] => j = i

ActiveWasShown ==
  \A i \in ActionIds : active[i] # None /\ applied[i] # 0 =>
    /\ active[i].window = clicks[applied[i]].window
    /\ active[i].decision = clicks[applied[i]].policy.id
    /\ active[i].target = clicks[applied[i]].proposal.target
    /\ active[i].type = "DEMO_BLOCK"

PageInv == PageEventsOK /\ RequestsAreClicked /\ ClicksAreSpentOnce /\ ActiveWasShown

(* What the API makes of a request of the page is a legal action.           *)
LEMMA RequestedActionType ==
  ASSUME TypeOK, PageInv, NEW r \in wire, NEW i \in ActionIds
  PROVE  RequestedAction(r, i) \in ResponseAction
<1> DEFINE event == clicks[r.click]
<1>0. event \in Event /\ event.policy # None /\ event.proposal # None
  BY DEF PageInv, RequestsAreClicked, PageEventsOK
<1>1. /\ r.window = event.window /\ r.decision = event.policy.id /\ r.proposal = event.proposal
      /\ event.window \in WindowIds
      /\ event.policy \in AuthorityDecision /\ event.proposal \in Proposals
  BY <1>0 DEF PageInv, RequestsAreClicked, Event
<1> HIDE DEF event
<1>2. r.window \in WindowIds /\ r.decision \in DecisionIds /\ r.proposal.target \in Targets
  BY <1>1, PageAssumption DEF AuthorityDecision
<1>3. ApiType(r.proposal.type) \in ReversibleActionType
  BY DEF ApiType, ReversibleActionType
<1> QED BY <1>2, <1>3 DEF RequestedAction, ResponseAction, ActionClass, RollbackPolicy

(* Every step of the page, its network and the runtime keeps the API well   *)
(* typed.                                                                   *)
LEMMA PageTypeStep ==
  ASSUME TypeOK, PageInv, [PageNext]_allVars PROVE TypeOK'
<1>1. ASSUME NEW r \in wire, ServeRequest(r) PROVE TypeOK'
  BY <1>1, RequestedActionType, ExecuteCallType DEF ServeRequest
<1>2. ASSUME UNCHANGED backendVars, reply' = None \/ reply' = reply PROVE TypeOK'
  BY <1>2 DEF backendVars, executorVars, apiVars, TypeOK, ExecutorTypeOK
<1>3. CASE PageStep
  BY <1>2, <1>3 DEF PageStep, Render, Approve, Reject, Reconsider, Retry, ReplyArrives, FetchFails,
     MoveGate, RequestLost, Revisit
<1>4. CASE Advance \/ Reset
  BY <1>4, RuntimeType DEF Advance, Reset
<1>5. CASE RollBack
  <2>1. current \in DecisionIds
    BY ApiAssumption DEF TypeOK
  <2> QED BY <1>5, <2>1, RollbackCallType DEF RollBack
<1>6. CASE UNCHANGED allVars
  BY <1>2, <1>6 DEF allVars, vars, backendVars
<1> QED BY <1>1, <1>3, <1>4, <1>5, <1>6 DEF PageNext

(* What the page leaves alone stays as it was shown.                        *)
LEMMA PageFrame ==
  ASSUME PageInv, UNCHANGED <<clicks, applied>>, PageEventsOK', wire' \subseteq wire,
         \A i \in ActionIds : active'[i] = active[i] \/ active'[i] = None
  PROVE  PageInv'
BY DEF PageInv, RequestsAreClicked, ClicksAreSpentOnce, ActiveWasShown, PageEventsOK

(* A click is remembered with the event it was given for, and sent once.    *)
LEMMA ApproveInv ==
  ASSUME TypeOK, PageInv, Approve PROVE PageInv'
<1>1. CASE UNCHANGED <<wire, clicks>>
  BY <1>1, PageFrame DEF Approve, backendVars, executorVars, PageInv, PageEventsOK
<1>2. CASE Dispatch(shown)
  <2> DEFINE r == Request(shown)
  <2>1. /\ shown \in Event /\ shown.policy # None /\ shown.proposal # None
        /\ wire' = wire \union {r} /\ clicks' = Append(clicks, shown)
        /\ UNCHANGED <<proposal, shown, applied, active>>
    BY <1>2 DEF Approve, Approvable, Dispatch, PageInv, PageEventsOK, backendVars, executorVars
  <2>2. /\ r.click = Len(clicks) + 1 /\ r.window = shown.window
        /\ r.decision = shown.policy.id /\ r.proposal = shown.proposal
    BY DEF Request
  <2> HIDE DEF r
  <2>3. /\ clicks' \in Seq(Event) /\ Len(clicks) \in Nat /\ Len(clicks') = Len(clicks) + 1
        /\ DOMAIN clicks = 1..Len(clicks) /\ DOMAIN clicks' = 1..(Len(clicks) + 1)
        /\ \A k \in 1..Len(clicks) : clicks'[k] = clicks[k]
        /\ clicks'[Len(clicks) + 1] = shown
    BY <2>1 DEF PageInv, PageEventsOK
  <2>4. PageEventsOK'
    BY <2>1, <2>3 DEF PageInv, PageEventsOK
  <2>5. RequestsAreClicked'
    BY <2>1, <2>2, <2>3 DEF PageInv, RequestsAreClicked
  <2>6. \A i \in ActionIds : applied[i] \in 0..Len(clicks)
    BY DEF PageInv, ClicksAreSpentOnce
  <2>7. \A q \in wire : q.click \in 1..Len(clicks)
    BY <2>3 DEF PageInv, RequestsAreClicked
  <2>8. ClicksAreSpentOnce'
    <3>1. applied' \in [ActionIds -> 0..Len(clicks')]
      BY <2>1, <2>3 DEF PageInv, ClicksAreSpentOnce
    <3>2. \A q, p \in wire' : q.click = p.click => q = p
      BY <2>1, <2>2, <2>3, <2>7 DEF PageInv, ClicksAreSpentOnce
    <3>3. \A q \in wire' : \A i \in ActionIds : applied'[i] # q.click
      BY <2>1, <2>2, <2>3, <2>6 DEF PageInv, ClicksAreSpentOnce
    <3> QED BY <2>1, <3>1, <3>2, <3>3 DEF PageInv, ClicksAreSpentOnce
  <2>9. ActiveWasShown'
    BY <2>1, <2>3, <2>6 DEF PageInv, ActiveWasShown
  <2> QED BY <2>4, <2>5, <2>8, <2>9 DEF PageInv
<1> QED BY <1>1, <1>2 DEF Approve

(* A served request puts its own click's action in force, or nothing.       *)
LEMMA ServeInv ==
  ASSUME TypeOK, PageInv, NEW r \in wire, ServeRequest(r) PROVE PageInv'
<1>1. PICK i \in ActionIds :
        /\ Unused(i)
        /\ ExecuteResponse(RequestedAction(r, i), RequestedApproval(r, i), None)
        /\ applied' = IF active'[i] # None THEN [applied EXCEPT ![i] = r.click] ELSE applied
  BY DEF ServeRequest
<1>2. /\ wire' = wire \ {r} /\ UNCHANGED <<proposal, shown, clicks>>
  BY DEF ServeRequest
<1> DEFINE a == RequestedAction(r, i)
<1>3. /\ a \in ResponseAction /\ a.id = i /\ a.window = r.window
      /\ a.decision = r.decision /\ a.target = r.proposal.target
      /\ a.type = "DEMO_BLOCK"
  <2>1. r.proposal \in Proposals
    <3> DEFINE event == clicks[r.click]
    <3>1. event \in Event /\ event.proposal # None /\ r.proposal = event.proposal
      BY DEF PageInv, RequestsAreClicked, PageEventsOK
    <3> HIDE DEF event
    <3> QED BY <3>1 DEF Event
  <2>2. ApiType(r.proposal.type) = "DEMO_BLOCK"
    BY <2>1, PageAssumption DEF ApiType, ReversibleActionType, Intervention, Restraint
  <2> QED BY <2>2, RequestedActionType DEF RequestedAction
<1>4. \A j \in ActionIds : active'[j] # active[j] => j = i /\ active'[j] = a
  BY <1>1, <1>3, AppliedIsFresh
<1>5. active[i] = None
  BY <1>1 DEF Unused
<1>6. PageEventsOK'
  BY <1>2 DEF PageInv, PageEventsOK
<1> HIDE DEF a
<1>7. CASE active'[i] = None
  <2>1. \A j \in ActionIds : active'[j] = active[j]
    BY <1>4, <1>5, <1>7
  <2> QED BY <1>1, <1>2, <1>6, <1>7, <2>1, PageFrame
<1>8. CASE active'[i] # None
  <2>1. active'[i] = a /\ \A j \in ActionIds \ {i} : active'[j] = active[j]
    BY <1>4, <1>5, <1>8
  <2>2. /\ applied'[i] = r.click /\ \A j \in ActionIds \ {i} : applied'[j] = applied[j]
        /\ r.click \in DOMAIN clicks /\ r.click \in 0..Len(clicks)
    BY <1>1, <1>8 DEF PageInv, ClicksAreSpentOnce, RequestsAreClicked, PageEventsOK
  <2>3. applied' \in [ActionIds -> 0..Len(clicks')]
    BY <1>1, <1>2, <1>8, <2>2 DEF PageInv, ClicksAreSpentOnce
  <2>4. RequestsAreClicked'
    BY <1>2 DEF PageInv, RequestsAreClicked
  <2>5. ClicksAreSpentOnce'
    <3>1. \A q \in wire' : q \in wire /\ q.click # r.click
      BY <1>2 DEF PageInv, ClicksAreSpentOnce
    <3>2. \A q \in wire' : \A j \in ActionIds : applied'[j] # q.click
      BY <2>2, <3>1 DEF PageInv, ClicksAreSpentOnce
    <3>3. \A j, k \in ActionIds : applied'[j] # 0 /\ applied'[k] = applied'[j] => k = j
      BY <2>2 DEF PageInv, ClicksAreSpentOnce
    <3>4. \A q, p \in wire' : q.click = p.click => q = p
      BY <3>1 DEF PageInv, ClicksAreSpentOnce
    <3> QED BY <2>3, <3>2, <3>3, <3>4 DEF ClicksAreSpentOnce
  <2>6. ActiveWasShown'
    BY <1>2, <1>3, <2>1, <2>2 DEF PageInv, ActiveWasShown, RequestsAreClicked
  <2> QED BY <1>6, <2>4, <2>5, <2>6 DEF PageInv
<1> QED BY <1>7, <1>8

(* Every step of the page, its network and the runtime keeps the invariant. *)
LEMMA PageInvStep ==
  ASSUME TypeOK, PageInv, [PageNext]_allVars PROVE PageInv'
<1>1. ASSUME UNCHANGED <<active, proposal, shown, clicks, applied>>, wire' \subseteq wire
      PROVE  PageInv'
  BY <1>1, PageFrame DEF PageInv, PageEventsOK
<1>2. CASE Render
  <2>1. shown' \in Event \union {None}
    BY <1>2 DEF Render, Showing, Event, TypeOK, PageInv, PageEventsOK
  <2> QED BY <1>2, <2>1, PageFrame DEF Render, backendVars, executorVars, PageInv, PageEventsOK
<1>3. CASE Reject \/ Reconsider \/ Retry \/ ReplyArrives \/ FetchFails \/ RequestLost \/ Revisit
  BY <1>1, <1>3 DEF Reject, Reconsider, Retry, ReplyArrives, FetchFails, RequestLost, Revisit,
     MoveGate, backendVars, executorVars
<1>4. CASE Advance
  BY <1>4, PageFrame DEF Advance, NextEvent, NewSession, executorVars, PageInv, PageEventsOK
<1>5. CASE Reset
  <2>1. \A i \in ActionIds : active'[i] = None /\ applied'[i] = 0
    BY <1>5 DEF Reset, ResetDemo, ReplaceExecutor
  <2>2. PageEventsOK'
    BY <1>5 DEF Reset, PageInv, PageEventsOK
  <2>3. RequestsAreClicked' /\ ActiveWasShown'
    BY <1>5, <2>1 DEF Reset, PageInv, RequestsAreClicked, ActiveWasShown
  <2>4. ClicksAreSpentOnce'
    BY <1>5, <2>1 DEF Reset, PageInv, ClicksAreSpentOnce, RequestsAreClicked, PageEventsOK
  <2> QED BY <2>2, <2>3, <2>4 DEF PageInv
<1>6. CASE RollBack
  BY <1>6, RollbackOnlyFrees, PageFrame DEF RollBack, pageVars, PageInv, PageEventsOK
<1>7. CASE UNCHANGED allVars
  BY <1>1, <1>7 DEF allVars, vars, executorVars, pageVars
<1> QED BY <1>2, <1>3, <1>4, <1>5, <1>6, <1>7, ApproveInv, ServeInv DEF PageNext, PageStep

(* However the runtime moves on while the operator decides, whatever reply  *)
(* is lost and however often the page retries: what an approval puts in     *)
(* force has the target, the evidence and the decision the operator was     *)
(* shown, one click puts one action in force, and that is a DEMO_BLOCK      *)
(* whichever intervention was shown.                                        *)
THEOREM OperatorSawIt == PageSpec => []InForceWasShown
<1>1. PageInit => TypeOK /\ PageInv
  BY ApiAssumption DEF PageInit, Init, InitExecutor, TypeOK, ExecutorTypeOK, Idle, PageInv,
     PageEventsOK, RequestsAreClicked, ClicksAreSpentOnce, ActiveWasShown
<1>2. TypeOK /\ PageInv /\ [PageNext]_allVars => (TypeOK /\ PageInv)'
  BY PageTypeStep, PageInvStep
<1>3. PageInv => InForceWasShown
  BY DEF PageInv, ClicksAreSpentOnce, ActiveWasShown, InForceWasShown
<1> QED BY <1>1, <1>2, <1>3, PTL DEF PageSpec
=============================================================================
