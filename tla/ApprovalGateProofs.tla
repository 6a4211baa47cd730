-------------------------- MODULE ApprovalGateProofs --------------------------
(***************************************************************************)
(* For any number of requests, actions, windows and decisions: the gate is *)
(* well typed, executes a request at most once per process, leaves in      *)
(* force only what a human approved in time, leaves no orphan effect, and  *)
(* with its executor and adapter implements GatedResponse.                 *)
(***************************************************************************)
EXTENDS ApprovalGate, ResponseExecutorProofs

(* The decision in force after evaluating a policy for a window.            *)
LEMMA EvaluatedType ==
  ASSUME NEW p \in Policies, NEW w \in WindowIds
  PROVE  Evaluated(p, w) \in AuthorityDecision
BY GateAssumption DEF Evaluated, AuthorityDecision

(* What a dispatch may rely on once the gate's own checks have passed.      *)
LEMMA GatePasses ==
  ASSUME NEW r, NEW d, GateRefusal(r, d) = "PASSED"
  PROVE  /\ requests[r].action # None /\ d # None
         /\ d.request = r /\ d.hash = r /\ d.approved
         /\ ~(d.decidedAt > requests[r].expires) /\ ~(clock > requests[r].expires)
         /\ r \notin executedRequestIds
BY DEF GateRefusal, Bound, Expired, ExecutedBefore

(* Every gate refusal is one of the statuses of ExecutionGateStatus.        *)
LEMMA RefusalStatus ==
  ASSUME NEW r, NEW d, GateRefusal(r, d) # "PASSED"
  PROVE  GateRefusal(r, d) \in GateStatus
BY DEF GateRefusal, GateStatus

(* The action the gate builds is a legal ResponseAction.                    *)
LEMMA DispatchedActionType ==
  ASSUME TypeOK, NEW i \in ActionIds, NEW r \in RequestIds, NEW t \in {topology, None},
         requests[r] # None, requests[r].action # None
  PROVE  DispatchedAction(i, r, t) \in ResponseAction
<1>1. requests[r] \in ApprovalRequest
  BY DEF TypeOK
<1>2. t = None \/ t \in ServiceTopology
  BY GateAssumption DEF TypeOK
<1>3. (IF t = None THEN None ELSE t.snapshot) \in SnapshotIds \union {None}
  BY <1>2 DEF ServiceTopology
<1>4. authority.id \in DecisionIds
  BY DEF TypeOK, AuthorityDecision
<1> QED
  BY <1>1, <1>3, <1>4 DEF DispatchedAction, ResponseAction, ApprovalRequest, ActionClass,
     ReversibleActionType, ExecutableType, RollbackPolicy

-----------------------------------------------------------------------------
(* Every step of the composed system keeps it well typed.                   *)
LEMMA TypeStep ==
  ASSUME TypeOK, [Next]_vars PROVE TypeOK'
<1> USE GateAssumption
<1>1. CASE Tick
  BY <1>1 DEF Tick, TypeOK, ExecutorTypeOK, executorVars
<1>2. CASE NextWindow
  <2>1. authority' \in AuthorityDecision
    BY <1>2, EvaluatedType DEF NextWindow
  <2> QED BY <1>2, <2>1 DEF NextWindow, TypeOK, ExecutorTypeOK, executorVars
<1>3. ASSUME NEW r \in RequestIds, NEW action \in Recommendations, NEW target \in Targets,
             NEW w \in {1, window}, NEW ttl \in Ttls, NewRequest(r, action, target, w, ttl)
      PROVE  TypeOK'
  <2>1. clock + ttl \in Nat /\ w \in WindowIds
    BY DEF TypeOK
  <2>2. [action |-> action, target |-> target, window |-> w, expires |-> clock + ttl] \in ApprovalRequest
    BY <2>1 DEF ApprovalRequest
  <2> QED BY <1>3, <2>2 DEF NewRequest, TypeOK, ExecutorTypeOK, executorVars
<1>4. ASSUME NEW r \in RequestIds, CreateRequest(r) PROVE TypeOK'
  BY <1>3, <1>4 DEF CreateRequest
<1>5. ASSUME NEW i \in ActionIds, NEW r \in RequestIds, Reconsider(i, r) PROVE TypeOK'
  <2>1. dispatched[i].action.target \in Targets
    BY <1>5 DEF Reconsider, TypeOK, DispatchRecord, ResponseAction
  <2> QED BY <1>3, <1>5, <2>1 DEF Reconsider
<1>6. ASSUME NEW r \in RequestIds, HumanDecide(r) PROVE TypeOK'
  <2>1. PICK approved \in BOOLEAN, hash \in RequestIds \union {None} :
          decisions' = decisions \union {[request |-> r, hash |-> hash,
                                          approved |-> approved, decidedAt |-> clock]}
    BY <1>6 DEF HumanDecide
  <2>2. [request |-> r, hash |-> hash, approved |-> approved, decidedAt |-> clock] \in ApprovalDecision
    BY DEF ApprovalDecision, TypeOK
  <2>3. decisions' \subseteq ApprovalDecision
    BY <2>1, <2>2 DEF TypeOK
  <2> QED BY <1>6, <2>3 DEF HumanDecide, TypeOK, ExecutorTypeOK, executorVars
<1>7. ASSUME NEW r \in RequestIds, NEW d \in decisions \union {None}, Refuse(r, d) PROVE TypeOK'
  <2>1. outcome' \in [request : RequestIds, status : GateStatus]
    BY <1>7, RefusalStatus DEF Refuse
  <2> QED BY <1>7, <2>1 DEF Refuse, TypeOK, ExecutorTypeOK, executorVars
<1>8. ASSUME NEW r \in RequestIds, NEW d \in decisions \union {None}, NEW i \in ActionIds,
             NEW t \in {topology, None}, NEW w \in {window, None}, Dispatch(i, r, d, t, w)
      PROVE  TypeOK'
  <2> DEFINE a == DispatchedAction(i, r, t)
             h == DispatchedApproval(i, r)
  <2>1. a \in ResponseAction
    BY <1>8, GatePasses, DispatchedActionType DEF Dispatch
  <2>2. authority \in AuthorityDecision /\ ExecutorTypeOK /\ clock \in Nat
    BY DEF TypeOK
  <2>3. \/ ExecuteRefused(a, authority, h, t, w)
        \/ ExecuteFailed(a, authority, h, t, w)
        \/ ExecuteApplied(a, authority, h, t, w)
    BY <1>8 DEF Dispatch
  <2>4. ExecutorTypeOK'
    <3> HIDE DEF a, h
    <3> QED BY <2>1, <2>2, <2>3, ExecuteType
  <2>5. [request |-> r, action |-> a, at |-> clock] \in DispatchRecord
    BY <2>1, <2>2 DEF DispatchRecord
  <2>6. dispatched' \in [ActionIds -> DispatchRecord \union {None}]
    <3> HIDE DEF a
    <3>1. dispatched' = [dispatched EXCEPT ![i] = [request |-> r, action |-> a, at |-> clock]]
      BY <1>8 DEF Dispatch, a
    <3> QED BY <2>5, <3>1 DEF TypeOK
  <2>7. /\ outcome' \in [request : RequestIds, status : GateStatus]
        /\ executedRequestIds' \subseteq RequestIds
    BY <1>8 DEF Dispatch, GateStatus, TypeOK
  <2>8. UNCHANGED <<clock, window, authority, topology, requests, decisions>>
    BY <1>8 DEF Dispatch
  <2> QED BY <2>4, <2>6, <2>7, <2>8 DEF TypeOK
<1>9. ASSUME NEW i \in ActionIds, Rollback(i) PROVE TypeOK'
  <2>1. dispatched[i].action \in ResponseAction
    BY <1>9 DEF Rollback, TypeOK, DispatchRecord
  <2>2. ExecutorTypeOK'
    BY <1>9, <2>1, RollbackType DEF Rollback, TypeOK
  <2> QED BY <1>9, <2>2 DEF Rollback, TypeOK, gateVars
<1>10. CASE Restart
  BY <1>10, ReplaceType DEF Restart, TypeOK
<1>11. CASE UNCHANGED vars
  BY <1>11 DEF vars, gateVars, executorVars, TypeOK, ExecutorTypeOK
<1> QED BY <1>1, <1>2, <1>4, <1>5, <1>6, <1>7, <1>8, <1>9, <1>10, <1>11 DEF Next, AuthorizeAndExecute

(* The gate, its executor and the adapter are always well typed.            *)
THEOREM TypeCorrect == Spec => []TypeOK
<1>1. Init => TypeOK
  <2> SUFFICES ASSUME Init PROVE TypeOK
    OBVIOUS
  <2>1. authority \in AuthorityDecision
    BY GateAssumption, EvaluatedType DEF Init
  <2>2. history \in Seq(ExecutionRecord) /\ Len(history) = 0
    BY DEF Init, InitExecutor
  <2> QED BY GateAssumption, <2>1, <2>2 DEF Init, InitExecutor, TypeOK, ExecutorTypeOK
<1>2. TypeOK /\ [Next]_vars => TypeOK'
  BY TypeStep
<1> QED BY <1>1, <1>2, PTL DEF Spec

-----------------------------------------------------------------------------
(* The inductive invariant: what the audit history, the dispatched actions  *)
(* and the adapter have to do with one another.                             *)

HistoryDispatched == \A k \in DOMAIN history : dispatched[history[k].action] # None

DispatchApproved ==
  \A i \in ActionIds : dispatched[i] # None =>
    /\ dispatched[i].action.id = i
    /\ LET r == dispatched[i].request IN
         /\ requests[r] # None
         /\ Approved(r)
         /\ dispatched[i].at <= requests[r].expires
         /\ Effect(dispatched[i].action) = <<requests[r].action, requests[r].target>>

ActiveDispatched ==
  \A i \in ActionIds : active[i] # None =>
    dispatched[i] # None /\ active[i] = dispatched[i].action

GateInv ==
  /\ HistoryDispatched /\ DispatchApproved /\ ActiveDispatched
  /\ AtMostOncePerRequest /\ ExecutedSetIsHistory /\ NoOrphanEffect

\* Requests never change and decisions are never withdrawn.
Grows ==
  /\ decisions \subseteq decisions'
  /\ \A r \in RequestIds : requests[r] # None => requests'[r] = requests[r]

(* Every step but a dispatch leaves the dispatched actions, and every step  *)
(* keeps requests and decisions.                                            *)
LEMMA StepGrows ==
  ASSUME TypeOK, [Next]_vars PROVE Grows
<1>1. ASSUME NEW r \in RequestIds, NEW action, NEW target, NEW w, NEW ttl,
             NewRequest(r, action, target, w, ttl)
      PROVE  Grows
  BY <1>1 DEF NewRequest, Grows, TypeOK
<1>2. ASSUME NEW r \in RequestIds, NEW d, AuthorizeAndExecute(r, d) PROVE Grows
  BY <1>2 DEF AuthorizeAndExecute, Refuse, Dispatch, Grows
<1>3. ASSUME NEW i \in ActionIds, Rollback(i) PROVE Grows
  BY <1>3 DEF Rollback, gateVars, Grows
<1>4. ASSUME NEW r \in RequestIds, HumanDecide(r) PROVE Grows
  BY <1>4 DEF HumanDecide, Grows
<1>5. CASE UNCHANGED vars
  BY <1>5 DEF vars, gateVars, Grows
<1>6. CASE Tick \/ NextWindow \/ Restart
  BY <1>6 DEF Tick, NextWindow, Restart, Grows
<1> QED
  BY <1>1, <1>2, <1>3, <1>4, <1>5, <1>6 DEF Next, CreateRequest, Reconsider

(* An approval, once given in time, stays given.                            *)
LEMMA ApprovedStays ==
  ASSUME Grows, NEW r \in RequestIds, requests[r] # None, Approved(r)
  PROVE  Approved(r)'
BY DEF Grows, Approved

(* So a dispatched action stays backed by its approval.                     *)
LEMMA DispatchApprovedStays ==
  ASSUME TypeOK, Grows, DispatchApproved, UNCHANGED dispatched
  PROVE  DispatchApproved'
<1> SUFFICES ASSUME NEW i \in ActionIds, dispatched[i] # None
             PROVE  /\ dispatched[i].action.id = i
                    /\ LET r == dispatched[i].request IN
                         /\ requests'[r] # None
                         /\ Approved(r)'
                         /\ dispatched[i].at <= requests'[r].expires
                         /\ Effect(dispatched[i].action) = <<requests'[r].action, requests'[r].target>>
  BY DEF DispatchApproved, Effect
<1>1. dispatched[i].request \in RequestIds
  BY DEF TypeOK, DispatchRecord
<1> QED BY <1>1, ApprovedStays DEF DispatchApproved, Grows

(* A step that touches neither history, adapter nor dispatched actions      *)
(* keeps the invariant.                                                     *)
LEMMA FrameInv ==
  ASSUME TypeOK, GateInv, Grows,
         UNCHANGED <<history, active, effects, dispatched, executedRequestIds>>
  PROVE  GateInv'
<1>1. DispatchApproved'
  BY DispatchApprovedStays DEF GateInv
<1>2. HistoryDispatched' /\ ActiveDispatched' /\ NoOrphanEffect'
  BY DEF GateInv, HistoryDispatched, ActiveDispatched, NoOrphanEffect, Effect
<1>3. AtMostOncePerRequest' /\ ExecutedSetIsHistory'
  BY DEF GateInv, AtMostOncePerRequest, ExecutedSetIsHistory, ExecutionsOf, RequestOf
<1> QED BY <1>1, <1>2, <1>3 DEF GateInv

(* What appending a record does to the executions of each request.          *)
LEMMA AppendExecutions ==
  ASSUME TypeOK, HistoryDispatched,
         NEW e \in ExecutionRecord, history' = Append(history, e),
         \A i \in ActionIds : dispatched[i] # None => dispatched'[i] = dispatched[i],
         dispatched'[e.action] # None,
         NEW q \in RequestIds
  PROVE  /\ HistoryDispatched'
         /\ ExecutionsOf(q)' =
              ExecutionsOf(q) \union
              {k \in {Len(history) + 1} : e.status = "EXECUTED" /\ dispatched'[e.action].request = q}
<1>1. /\ DOMAIN history = 1..Len(history) /\ DOMAIN history' = 1..(Len(history) + 1)
      /\ \A k \in 1..Len(history) : history'[k] = history[k] /\ history[k] \in ExecutionRecord
      /\ history'[Len(history) + 1] = e
      /\ Len(history) \in Nat
  BY DEF TypeOK, ExecutorTypeOK
<1>2. \A k \in 1..Len(history) : dispatched'[history[k].action] = dispatched[history[k].action]
                                /\ dispatched[history[k].action] # None
  BY <1>1 DEF HistoryDispatched, ExecutionRecord
<1>3. HistoryDispatched'
  BY <1>1, <1>2 DEF HistoryDispatched
<1>4. ASSUME NEW k PROVE k \in ExecutionsOf(q)' <=>
        \/ k \in ExecutionsOf(q)
        \/ k = Len(history) + 1 /\ e.status = "EXECUTED" /\ dispatched'[e.action].request = q
  <2>1. CASE k \in 1..Len(history)
    BY <1>1, <1>2, <2>1 DEF ExecutionsOf, RequestOf
  <2>2. CASE k = Len(history) + 1
    BY <1>1, <2>2 DEF ExecutionsOf, RequestOf
  <2>3. CASE k \notin 1..(Len(history) + 1)
    BY <1>1, <2>3 DEF ExecutionsOf
  <2> QED BY <1>1, <2>1, <2>2, <2>3
<1> QED BY <1>3, <1>4

(* A dispatch, whether the executor refuses, fails or applies it.           *)
LEMMA DispatchInv ==
  ASSUME TypeOK, GateInv, Grows,
         NEW r \in RequestIds, NEW d \in decisions \union {None}, NEW i \in ActionIds,
         NEW t \in {topology, None}, NEW w \in {window, None}, Dispatch(i, r, d, t, w)
  PROVE  GateInv'
<1> DEFINE a == DispatchedAction(i, r, t)
           h == DispatchedApproval(i, r)
           x == [request |-> r, action |-> a, at |-> clock]
<1>1. /\ a \in ResponseAction /\ a.id = i
      /\ Effect(a) = <<requests[r].action, requests[r].target>>
  BY GatePasses, DispatchedActionType DEF Dispatch, DispatchedAction, Effect
<1>2. /\ dispatched[i] = None /\ requests[r] # None
      /\ dispatched' = [dispatched EXCEPT ![i] = x]
      /\ UNCHANGED <<requests, decisions, clock>>
  BY DEF Dispatch
<1>3. /\ Approved(r) /\ clock <= requests[r].expires
      /\ r \notin executedRequestIds
  <2>1. /\ d \in decisions /\ d.request = r /\ d.hash = r /\ d.approved
        /\ ~(d.decidedAt > requests[r].expires) /\ ~(clock > requests[r].expires)
        /\ r \notin executedRequestIds
    BY GatePasses DEF Dispatch
  <2>2. d.decidedAt \in Nat /\ clock \in Nat /\ requests[r].expires \in Nat
    BY <1>2, <2>1 DEF TypeOK, ApprovalDecision, ApprovalRequest
  <2> QED BY <2>1, <2>2 DEF Approved
<1>4. x \in DispatchRecord /\ x # None
  BY <1>1, GateAssumption DEF TypeOK, DispatchRecord
<1>5. /\ dispatched'[i] = x
      /\ \A j \in ActionIds : dispatched[j] # None => dispatched'[j] = dispatched[j]
      /\ \A j \in ActionIds \ {i} : dispatched'[j] = dispatched[j]
  BY <1>2 DEF TypeOK
<1> HIDE DEF a, h, x
<1>6. DispatchApproved'
  <2> SUFFICES ASSUME NEW j \in ActionIds, dispatched'[j] # None
               PROVE  /\ dispatched'[j].action.id = j
                      /\ LET q == dispatched'[j].request IN
                           /\ requests[q] # None
                           /\ Approved(q)
                           /\ dispatched'[j].at <= requests[q].expires
                           /\ Effect(dispatched'[j].action) = <<requests[q].action, requests[q].target>>
    BY <1>2 DEF DispatchApproved, Approved, Effect
  <2>1. CASE j = i
    BY <1>1, <1>2, <1>3, <1>5, <2>1 DEF x
  <2>2. CASE j # i
    BY <1>5, <2>2 DEF GateInv, DispatchApproved
  <2> QED BY <2>1, <2>2
<1>7. active[i] = None
  BY <1>2, <1>4 DEF GateInv, ActiveDispatched
<1>8. ASSUME NEW status \in {"BLOCKED", "REJECTED", "FAILED"},
             history' = Append(history, Record(a, authority, status, FALSE)),
             UNCHANGED <<active, effects, executedRequestIds>>
      PROVE  GateInv'
  <2> DEFINE e == Record(a, authority, status, FALSE)
  <2>1. e \in ExecutionRecord /\ e.action = i /\ e.status # "EXECUTED"
    BY <1>1, RecordType DEF TypeOK, Record, ExecutionStatus
  <2> HIDE DEF e
  <2>2. history' = Append(history, e)
    BY <1>8 DEF e
  <2>3. ASSUME NEW q \in RequestIds
        PROVE  HistoryDispatched' /\ ExecutionsOf(q)' = ExecutionsOf(q)
    BY <1>4, <1>5, <2>1, <2>2, AppendExecutions DEF GateInv
  <2>4. AtMostOncePerRequest' /\ ExecutedSetIsHistory'
    BY <1>8, <2>3 DEF GateInv, AtMostOncePerRequest, ExecutedSetIsHistory
  <2>5. ActiveDispatched' /\ NoOrphanEffect'
    BY <1>5, <1>8 DEF GateInv, ActiveDispatched, NoOrphanEffect, Effect
  <2> QED BY <1>6, <2>3, <2>4, <2>5 DEF GateInv
<1>9. ASSUME NEW e \in ExecutionRecord, e.action = i, e.status = "EXECUTED",
             history' = Append(history, e),
             active' = [active EXCEPT ![i] = a],
             effects' = effects \union {Effect(a)},
             executedRequestIds' = executedRequestIds \union {r}
      PROVE  GateInv'
  <2>1. ASSUME NEW q \in RequestIds
        PROVE  /\ HistoryDispatched'
               /\ ExecutionsOf(q)' = IF q = r THEN ExecutionsOf(q) \union {Len(history) + 1}
                                             ELSE ExecutionsOf(q)
    <3>1. dispatched'[e.action] # None /\ dispatched'[e.action].request = r
      BY <1>4, <1>5, <1>9 DEF x
    <3>2. HistoryDispatched
      BY DEF GateInv
    <3>3. /\ HistoryDispatched'
          /\ ExecutionsOf(q)' = ExecutionsOf(q) \union
               {k \in {Len(history) + 1} : e.status = "EXECUTED" /\ dispatched'[e.action].request = q}
      BY <1>5, <1>9, <3>1, <3>2, AppendExecutions
    <3> QED BY <1>9, <3>1, <3>3
  <2>2. ExecutionsOf(r) = {}
    BY <1>3 DEF GateInv, ExecutedSetIsHistory
  <2>3. AtMostOncePerRequest'
    BY <2>1, <2>2 DEF GateInv, AtMostOncePerRequest
  <2>4. ExecutedSetIsHistory'
    BY <1>9, <2>1 DEF GateInv, ExecutedSetIsHistory
  <2>5. ActiveDispatched'
    <3> SUFFICES ASSUME NEW j \in ActionIds, active'[j] # None
                 PROVE  dispatched'[j] # None /\ active'[j] = dispatched'[j].action
      BY DEF ActiveDispatched
    <3>1. CASE j = i
      BY <1>4, <1>5, <1>9, <3>1 DEF TypeOK, ExecutorTypeOK, x
    <3>2. CASE j # i
      <4>1. active'[j] = active[j] /\ dispatched'[j] = dispatched[j]
        BY <1>5, <1>9, <3>2 DEF TypeOK, ExecutorTypeOK
      <4> QED BY <4>1 DEF GateInv, ActiveDispatched
    <3> QED BY <3>1, <3>2
  <2>6. NoOrphanEffect'
    <3> SUFFICES ASSUME NEW f \in effects'
                 PROVE  \E j \in ActionIds : active'[j] # None /\ Effect(active'[j]) = f
      BY DEF NoOrphanEffect, Effect
    <3>1. CASE f = Effect(a)
      <4>1. active'[i] = a /\ a # None
        BY <1>1, <1>9, GateAssumption DEF TypeOK, ExecutorTypeOK
      <4> QED BY <3>1, <4>1
    <3>2. CASE f \in effects
      <4>1. PICK j \in ActionIds : active[j] # None /\ Effect(active[j]) = f
        BY <3>2 DEF GateInv, NoOrphanEffect
      <4>2. active'[j] = active[j]
        BY <1>7, <1>9, <4>1 DEF TypeOK, ExecutorTypeOK
      <4> QED BY <4>1, <4>2
    <3> QED BY <1>9, <3>1, <3>2
  <2> QED BY <1>6, <2>1, <2>3, <2>4, <2>5, <2>6 DEF GateInv
<1>10. CASE ExecuteRefused(a, authority, h, t, w) /\ UNCHANGED executedRequestIds
  <2>1. Refusal(a, authority, h, w) \in {"BLOCKED", "REJECTED", "FAILED"}
    BY DEF Refusal
  <2> QED BY <1>8, <1>10, <2>1 DEF ExecuteRefused
<1>11. CASE ExecuteFailed(a, authority, h, t, w) /\ UNCHANGED executedRequestIds
  BY <1>8, <1>11 DEF ExecuteFailed, adapterVars
<1>12. CASE ExecuteApplied(a, authority, h, t, w) /\ executedRequestIds' = executedRequestIds \union {r}
  <2>1. LET e == Record(a, authority, "EXECUTED", FALSE)
        IN  e \in ExecutionRecord /\ e.action = i /\ e.status = "EXECUTED"
    BY <1>1, RecordType DEF TypeOK, Record, ExecutionStatus
  <2> QED BY <1>1, <1>9, <1>12, <2>1 DEF ExecuteApplied
<1> QED BY <1>10, <1>11, <1>12 DEF Dispatch, a, h

(* A rollback removes an action and its effect together.                    *)
LEMMA RollbackInv ==
  ASSUME TypeOK, GateInv, Grows, NEW i \in ActionIds, Rollback(i)
  PROVE  GateInv'
<1> DEFINE a == dispatched[i].action
<1>1. /\ dispatched[i] # None /\ a \in ResponseAction /\ a.id = i
      /\ UNCHANGED <<requests, decisions, dispatched, executedRequestIds>>
  BY DEF Rollback, gateVars, TypeOK, DispatchRecord, GateInv, DispatchApproved
<1> HIDE DEF a
<1>2. PICK status \in {"BLOCKED", "FAILED", "ROLLED_BACK"} :
        history' = Append(history, Record(a, authority, status, TRUE))
  BY DEF Rollback, RollbackBlocked, RollbackFailed, RollbackApplied, a
<1>3. \/ UNCHANGED <<active, effects>>
      \/ /\ active' = [active EXCEPT ![i] = None]
         /\ active[i] # None
         /\ effects' = effects \ {Effect(a)}
  BY <1>1 DEF Rollback, RollbackBlocked, RollbackFailed, RollbackApplied, a
<1>4. DispatchApproved'
  BY <1>1, DispatchApprovedStays DEF GateInv
<1>5. ASSUME NEW q \in RequestIds
      PROVE  HistoryDispatched' /\ ExecutionsOf(q)' = ExecutionsOf(q)
  <2> DEFINE e == Record(a, authority, status, TRUE)
  <2>1. e \in ExecutionRecord /\ e.action = i /\ e.status # "EXECUTED"
    BY <1>1, RecordType DEF TypeOK, Record, ExecutionStatus
  <2>2. HistoryDispatched
    BY DEF GateInv
  <2> HIDE DEF e
  <2>3. history' = Append(history, e)
    BY <1>2 DEF e
  <2> QED BY <1>1, <2>1, <2>2, <2>3, AppendExecutions
<1>6. AtMostOncePerRequest' /\ ExecutedSetIsHistory'
  BY <1>1, <1>5 DEF GateInv, AtMostOncePerRequest, ExecutedSetIsHistory
<1>7. HistoryDispatched'
  <2>1. CASE RequestIds = {}
    BY <1>1, <2>1 DEF TypeOK, DispatchRecord
  <2> QED BY <1>5, <2>1
<1>8. ActiveDispatched' /\ NoOrphanEffect'
  <2>1. CASE UNCHANGED <<active, effects>>
    BY <1>1, <2>1 DEF GateInv, ActiveDispatched, NoOrphanEffect, Effect
  <2>2. CASE /\ active' = [active EXCEPT ![i] = None]
             /\ active[i] # None
             /\ effects' = effects \ {Effect(a)}
    <3>1. active[i] = a
      BY <1>1, <2>2 DEF GateInv, ActiveDispatched, a
    <3>2. \A j \in ActionIds \ {i} : active'[j] = active[j]
      BY <2>2 DEF TypeOK, ExecutorTypeOK
    <3>3. active'[i] = None
      BY <2>2 DEF TypeOK, ExecutorTypeOK
    <3>4. ActiveDispatched'
      BY <1>1, <3>2, <3>3 DEF GateInv, ActiveDispatched
    <3>5. NoOrphanEffect'
      BY <2>2, <3>1, <3>2 DEF GateInv, NoOrphanEffect, Effect
    <3> QED BY <3>4, <3>5
  <2> QED BY <1>3, <2>1, <2>2
<1> QED BY <1>4, <1>6, <1>7, <1>8 DEF GateInv

(* A restart forgets history, adapter and executed set together.            *)
LEMMA RestartInv ==
  ASSUME TypeOK, GateInv, Grows, Restart
  PROVE  GateInv'
<1>1. DispatchApproved'
  BY DispatchApprovedStays DEF Restart, GateInv
<1>2. \A q \in RequestIds : ExecutionsOf(q)' = {}
  BY DEF Restart, ReplaceExecutor, ExecutionsOf
<1> QED
  BY <1>1, <1>2 DEF Restart, ReplaceExecutor, GateInv, HistoryDispatched, ActiveDispatched,
     AtMostOncePerRequest, ExecutedSetIsHistory, NoOrphanEffect

(* The invariant is inductive.                                              *)
LEMMA InvStep ==
  ASSUME TypeOK, GateInv, [Next]_vars PROVE GateInv'
<1>0. Grows
  BY StepGrows
<1>1. ASSUME NEW r \in RequestIds, NEW action, NEW target, NEW w, NEW ttl,
             NewRequest(r, action, target, w, ttl)
      PROVE  GateInv'
  BY <1>0, <1>1, FrameInv DEF NewRequest, executorVars
<1>2. ASSUME NEW r \in RequestIds, NEW d \in decisions \union {None}, AuthorizeAndExecute(r, d)
      PROVE  GateInv'
  <2>1. CASE Refuse(r, d)
    BY <1>0, <2>1, FrameInv DEF Refuse, executorVars
  <2> QED BY <1>0, <1>2, <2>1, DispatchInv DEF AuthorizeAndExecute
<1>3. CASE Tick \/ NextWindow \/ (\E r \in RequestIds : HumanDecide(r))
  BY <1>0, <1>3, FrameInv DEF Tick, NextWindow, HumanDecide, executorVars
<1>4. CASE UNCHANGED vars
  BY <1>0, <1>4, FrameInv DEF vars, gateVars, executorVars
<1> QED
  BY <1>0, <1>1, <1>2, <1>3, <1>4, RollbackInv, RestartInv DEF Next, CreateRequest, Reconsider

(* Nothing has happened yet in an initial state.                            *)
LEMMA InvInit == Init => GateInv
BY DEF Init, InitExecutor, GateInv, HistoryDispatched, DispatchApproved, ActiveDispatched,
   AtMostOncePerRequest, ExecutedSetIsHistory, ExecutionsOf, NoOrphanEffect

(* The inductive invariant holds in every reachable state.                  *)
LEMMA InvAlways == Spec => [](TypeOK /\ GateInv)
<1>1. TypeOK /\ GateInv /\ [Next]_vars => GateInv'
  BY InvStep
<1> QED BY <1>1, InvInit, TypeCorrect, PTL DEF Spec

(* One process executes an approved request at most once, for any number of *)
(* callers, retries, failures, rollbacks and windows.                       *)
THEOREM AtMostOnce == Spec => []AtMostOncePerRequest
<1>1. GateInv => AtMostOncePerRequest
  BY DEF GateInv
<1> QED BY <1>1, InvAlways, PTL

(* The gate's executed set and the executor's audit history always agree.   *)
THEOREM ExecutedSetAgrees == Spec => []ExecutedSetIsHistory
<1>1. GateInv => ExecutedSetIsHistory
  BY DEF GateInv
<1> QED BY <1>1, InvAlways, PTL

(* What is in force was approved by a human, in time, for that very action. *)
THEOREM InForceIsApproved == Spec => []ActiveIsApproved
<1>1. TypeOK /\ GateInv => ActiveIsApproved
  BY DEF GateInv, DispatchApproved, ActiveDispatched, ActiveIsApproved
<1> QED BY <1>1, InvAlways, PTL

(* No effect outlives the action it belongs to.                             *)
THEOREM EffectsHaveActions == Spec => []NoOrphanEffect
<1>1. GateInv => NoOrphanEffect
  BY DEF GateInv
<1> QED BY <1>1, InvAlways, PTL

-----------------------------------------------------------------------------
(* The refinement of GatedResponse needs two facts more: decisions are      *)
(* about requests that exist, and what is in force was executed by this     *)
(* process under its own action, so that no two actions serve one request.  *)

DecisionsOfRequests == \A d \in decisions : requests[d.request] # None

ActiveExecuted == \A i \in ActionIds : active[i] # None => Executions(i) # {}

(* Decisions stay about requests that exist.                                *)
LEMMA DecisionsStep ==
  ASSUME TypeOK, DecisionsOfRequests, [Next]_vars PROVE DecisionsOfRequests'
<1>0. Grows
  BY StepGrows
<1>1. ASSUME decisions' = decisions PROVE DecisionsOfRequests'
  BY <1>0, <1>1, GateAssumption DEF Grows, DecisionsOfRequests, TypeOK, ApprovalDecision
<1>2. ASSUME NEW r \in RequestIds, HumanDecide(r) PROVE DecisionsOfRequests'
  <2>1. PICK approved \in BOOLEAN, hash \in RequestIds \union {None} :
          decisions' = decisions \union {[request |-> r, hash |-> hash,
                                          approved |-> approved, decidedAt |-> clock]}
    BY <1>2 DEF HumanDecide
  <2> QED BY <1>2, <2>1 DEF HumanDecide, DecisionsOfRequests
<1> QED
  BY <1>1, <1>2 DEF Next, vars, gateVars, Tick, NextWindow, CreateRequest, Reconsider, NewRequest,
     AuthorizeAndExecute, Refuse, Dispatch, Rollback, Restart

(* No execution is ever taken back from the history.                        *)
LEMMA ExecutionsStay ==
  ASSUME TypeOK, NEW e \in ExecutionRecord, history' = Append(history, e), NEW i \in ActionIds
  PROVE  /\ Executions(i) \subseteq Executions(i)'
         /\ e.status = "EXECUTED" /\ e.action = i => Executions(i)' # {}
BY OtherRecord, ExecutedRecord DEF TypeOK

(* What is in force was executed by this process.                           *)
LEMMA ActiveExecutedStep ==
  ASSUME TypeOK, GateInv, ActiveExecuted, [Next]_vars PROVE ActiveExecuted'
<1>1. ASSUME UNCHANGED <<history, active>> PROVE ActiveExecuted'
  BY <1>1 DEF ActiveExecuted, Executions
<1>2. ASSUME NEW r \in RequestIds, NEW d \in decisions \union {None}, NEW i \in ActionIds,
             NEW t \in {topology, None}, NEW w \in {window, None}, Dispatch(i, r, d, t, w)
      PROVE  ActiveExecuted'
  <2> DEFINE a == DispatchedAction(i, r, t)
             h == DispatchedApproval(i, r)
  <2>1. a \in ResponseAction /\ a.id = i
    BY <1>2, GatePasses, DispatchedActionType DEF Dispatch, DispatchedAction
  <2>2. PICK status \in {"BLOCKED", "REJECTED", "FAILED", "EXECUTED"} :
          /\ history' = Append(history, Record(a, authority, status, FALSE))
          /\ \/ active' = active
             \/ status = "EXECUTED" /\ active' = [active EXCEPT ![i] = a]
    BY <1>2, <2>1 DEF Dispatch, ExecuteRefused, ExecuteFailed, ExecuteApplied, Refusal, adapterVars
  <2> DEFINE e == Record(a, authority, status, FALSE)
  <2>3. e \in ExecutionRecord /\ e.action = i /\ e.status = status
    BY <2>1, <2>2, RecordType DEF TypeOK, Record, ExecutionStatus
  <2> HIDE DEF a, h, e
  <2>4. history' = Append(history, e)
    BY <2>2 DEF e
  <2>5. \A j \in ActionIds : active'[j] # None => active[j] # None \/ (j = i /\ status = "EXECUTED")
    BY <2>2 DEF TypeOK, ExecutorTypeOK
  <2> QED BY <2>3, <2>4, <2>5, ExecutionsStay DEF ActiveExecuted
<1>3. ASSUME NEW i \in ActionIds, Rollback(i) PROVE ActiveExecuted'
  <2> DEFINE a == dispatched[i].action
  <2>1. a \in ResponseAction /\ a.id = i
    BY <1>3 DEF Rollback, TypeOK, DispatchRecord, GateInv, DispatchApproved
  <2> HIDE DEF a
  <2>2. PICK status \in {"BLOCKED", "FAILED", "ROLLED_BACK"} :
          history' = Append(history, Record(a, authority, status, TRUE))
    BY <1>3 DEF Rollback, RollbackBlocked, RollbackFailed, RollbackApplied, a
  <2>3. Record(a, authority, status, TRUE) \in ExecutionRecord
    BY <2>1, RecordType DEF TypeOK, ExecutionStatus
  <2>4. \A j \in ActionIds : active'[j] # None => active[j] # None
    BY <1>3, <2>1 DEF Rollback, RollbackBlocked, RollbackFailed, RollbackApplied, a, TypeOK, ExecutorTypeOK
  <2> QED BY <2>2, <2>3, <2>4, ExecutionsStay DEF ActiveExecuted
<1>4. CASE Restart
  BY <1>4 DEF Restart, ReplaceExecutor, ActiveExecuted
<1> QED
  BY <1>1, <1>2, <1>3, <1>4 DEF Next, vars, gateVars, executorVars, Tick, NextWindow, CreateRequest,
     Reconsider, NewRequest, HumanDecide, AuthorizeAndExecute, Refuse

(* Hence two actions in force never serve the same request.                 *)
LEMMA OneActionPerRequest ==
  ASSUME TypeOK, GateInv, ActiveExecuted, NEW i \in ActionIds, NEW j \in ActionIds,
         active[i] # None, active[j] # None, dispatched[i].request = dispatched[j].request
  PROVE  i = j
<1>1. ASSUME NEW l \in ActionIds, active[l] # None
      PROVE  \E k \in ExecutionsOf(dispatched[l].request) : history[k].action = l
  BY <1>1 DEF ActiveExecuted, Executions, ExecutionsOf, RequestOf, GateInv, ActiveDispatched
<1>2. PICK k \in ExecutionsOf(dispatched[i].request) : history[k].action = i
  BY <1>1
<1>3. PICK l \in ExecutionsOf(dispatched[i].request) : history[l].action = j
  BY <1>1
<1>4. dispatched[i].request \in RequestIds
  BY DEF GateInv, ActiveDispatched, TypeOK, DispatchRecord
<1>5. k = l
  BY <1>2, <1>3, <1>4 DEF GateInv, AtMostOncePerRequest
<1> QED BY <1>2, <1>3, <1>5

-----------------------------------------------------------------------------
(* The abstract state, for the steps below: what GatedResponse is told of   *)
(* the requests, the clock, the decisions and the adapter.                  *)
Opened == {r \in RequestIds : requests[r] # None}
OutOfTime == {r \in RequestIds : requests[r] # None /\ clock > requests[r].expires}
InTime == {r \in RequestIds : requests[r] # None /\ Approved(r)}
InForce == {dispatched[i].request : i \in {j \in ActionIds : active[j] # None}}

(* A step that changes none of it stutters.                                 *)
LEMMA StutterImplements ==
  ASSUME UNCHANGED <<requests, clock, decisions, executedRequestIds, dispatched, active>>
  PROVE  UNCHANGED G!gated
BY DEF G!gated, Approved

(* A request that is new is opened: nobody has decided it, and its deadline *)
(* has not passed.                                                          *)
LEMMA NewRequestOpens ==
  ASSUME TypeOK, DecisionsOfRequests, NEW r \in RequestIds, NEW action \in Recommendations,
         NEW target \in Targets, NEW w \in WindowIds, NEW ttl \in Ttls,
         NewRequest(r, action, target, w, ttl)
  PROVE  G!Open(r)
<1> DEFINE x == [action |-> action, target |-> target, window |-> w, expires |-> clock + ttl]
<1>1. /\ requests[r] = None /\ requests'[r] = x /\ x.expires = clock + ttl
      /\ \A q \in RequestIds \ {r} : requests'[q] = requests[q]
      /\ UNCHANGED <<clock, decisions, executedRequestIds, dispatched, active>>
  BY DEF NewRequest, TypeOK, executorVars
<1>2. x # None /\ ~(clock > clock + ttl)
  BY GateAssumption DEF TypeOK, ApprovalRequest
<1> HIDE DEF x
<1>3. \A d \in decisions : d.request # r
  BY <1>1 DEF DecisionsOfRequests
<1>4. \A q \in RequestIds : requests'[q] # None /\ Approved(q)' <=> requests[q] # None /\ Approved(q)
  BY <1>1, <1>2, <1>3 DEF Approved
<1>5. Opened' = Opened \union {r} /\ r \notin Opened
  BY <1>1, <1>2 DEF Opened
<1>6. OutOfTime' = OutOfTime
  BY <1>1, <1>2 DEF OutOfTime
<1>7. InTime' = InTime
  BY <1>4 DEF InTime
<1> QED BY <1>1, <1>5, <1>6, <1>7 DEF G!Open, Opened, OutOfTime, InTime

(* Time only passes: what has expired stays so.                             *)
LEMMA TickExpires ==
  ASSUME TypeOK, Tick PROVE G!Expire
<1>1. /\ clock' = clock + 1 /\ clock \in Nat
      /\ UNCHANGED <<requests, decisions, executedRequestIds, dispatched, active>>
  BY DEF Tick, executorVars, TypeOK
<1>2. OutOfTime' \subseteq Opened
  BY <1>1 DEF OutOfTime, Opened
<1>3. OutOfTime \subseteq OutOfTime'
  BY <1>1 DEF OutOfTime, TypeOK, ApprovalRequest
<1>4. InTime' = InTime
  BY <1>1 DEF InTime, Approved
<1> QED BY <1>1, <1>2, <1>3, <1>4 DEF G!Expire, Opened, OutOfTime, InTime

(* A decision that counts is given before the deadline; any other decision  *)
(* changes nothing.                                                         *)
LEMMA DecisionApproves ==
  ASSUME TypeOK, NEW r \in RequestIds, HumanDecide(r)
  PROVE  G!Approve(r) \/ UNCHANGED G!gated
<1>1. PICK approved \in BOOLEAN, hash \in RequestIds \union {None} :
        decisions' = decisions \union {[request |-> r, hash |-> hash,
                                        approved |-> approved, decidedAt |-> clock]}
  BY DEF HumanDecide
<1>2. /\ requests[r] # None
      /\ UNCHANGED <<requests, clock, executedRequestIds, dispatched, active>>
  BY DEF HumanDecide, executorVars
<1>3. \A q \in RequestIds : Approved(q)' <=>
        \/ Approved(q)
        \/ q = r /\ hash = r /\ approved /\ clock <= requests[r].expires
  <2> DEFINE new == [request |-> r, hash |-> hash, approved |-> approved, decidedAt |-> clock]
  <2>1. /\ new.request = r /\ new.hash = hash /\ new.approved = approved /\ new.decidedAt = clock
        /\ decisions' = decisions \union {new}
    BY <1>1
  <2> HIDE DEF new
  <2> QED BY <1>2, <2>1 DEF Approved
<1>4. CASE hash = r /\ approved /\ clock <= requests[r].expires
  <2>1. InTime' = InTime \union {r}
    BY <1>2, <1>3, <1>4 DEF InTime
  <2>2. r \in Opened \ OutOfTime
    BY <1>2, <1>4 DEF Opened, OutOfTime, TypeOK, ApprovalRequest
  <2> QED BY <1>2, <2>1, <2>2 DEF G!Approve, Opened, OutOfTime, InTime
<1>5. CASE ~(hash = r /\ approved /\ clock <= requests[r].expires)
  <2>1. InTime' = InTime
    BY <1>2, <1>3, <1>5 DEF InTime
  <2> QED BY <1>2, <2>1 DEF G!gated, InTime
<1> QED BY <1>4, <1>5

(* A dispatch that the executor applies puts an approved request in force,  *)
(* in time and for the first time; any other one changes nothing.           *)
LEMMA DispatchExecutes ==
  ASSUME TypeOK, GateInv, NEW r \in RequestIds, NEW d \in decisions \union {None}, NEW i \in ActionIds,
         NEW t \in {topology, None}, NEW w \in {window, None}, Dispatch(i, r, d, t, w)
  PROVE  G!Execute(r) \/ UNCHANGED G!gated
<1> DEFINE a == DispatchedAction(i, r, t)
           h == DispatchedApproval(i, r)
           x == [request |-> r, action |-> a, at |-> clock]
<1>1. a \in ResponseAction /\ a.id = i
  BY GatePasses, DispatchedActionType DEF Dispatch, DispatchedAction
<1>2. /\ dispatched[i] = None /\ requests[r] # None
      /\ dispatched' = [dispatched EXCEPT ![i] = x]
      /\ UNCHANGED <<requests, decisions, clock>>
  BY DEF Dispatch
<1>3. active[i] = None
  BY <1>2 DEF GateInv, ActiveDispatched
<1>4. dispatched'[i].request = r /\ \A j \in ActionIds \ {i} : dispatched'[j] = dispatched[j]
  BY <1>2 DEF TypeOK
<1>5. \/ active' = active /\ executedRequestIds' = executedRequestIds
      \/ /\ active' = [active EXCEPT ![i] = a]
         /\ executedRequestIds' = executedRequestIds \union {r}
  BY <1>1 DEF Dispatch, ExecuteRefused, ExecuteFailed, ExecuteApplied, adapterVars
<1> HIDE DEF a, h, x
<1>6. CASE active' = active /\ executedRequestIds' = executedRequestIds
  <2>1. InForce' = InForce
    BY <1>3, <1>4, <1>6 DEF InForce
  <2> QED BY <1>2, <1>6, <2>1 DEF G!gated, InForce, Approved
<1>7. CASE /\ active' = [active EXCEPT ![i] = a]
           /\ executedRequestIds' = executedRequestIds \union {r}
  <2>1. active'[i] # None /\ \A j \in ActionIds \ {i} : active'[j] = active[j]
    BY <1>1, <1>7, GateAssumption DEF TypeOK, ExecutorTypeOK
  <2>2. InForce' = InForce \union {r}
    BY <1>3, <1>4, <2>1 DEF InForce
  <2>3. /\ d \in decisions /\ d.request = r /\ d.hash = r /\ d.approved
        /\ ~(d.decidedAt > requests[r].expires) /\ ~(clock > requests[r].expires)
        /\ r \notin executedRequestIds
    BY GatePasses DEF Dispatch
  <2>4. d.decidedAt \in Nat /\ clock \in Nat /\ requests[r].expires \in Nat
    BY <1>2, <2>3 DEF TypeOK, ApprovalDecision, ApprovalRequest
  <2>5. r \in InTime \ (OutOfTime \union executedRequestIds)
    BY <1>2, <2>3, <2>4 DEF InTime, OutOfTime, Approved
  <2> QED BY <1>2, <1>7, <2>2, <2>5 DEF G!Execute, OutOfTime, InTime, InForce, Approved
<1> QED BY <1>5, <1>6, <1>7

(* A rollback that frees an action ends its request, since no other action  *)
(* serves that request.                                                     *)
LEMMA RollbackUndoes ==
  ASSUME TypeOK, GateInv, ActiveExecuted, NEW i \in ActionIds, Rollback(i)
  PROVE  (\E r \in RequestIds : G!Undo(r)) \/ UNCHANGED G!gated
<1>1. PICK q \in RequestIds : q = dispatched[i].request
  BY DEF Rollback, TypeOK, DispatchRecord
<1>2. /\ dispatched[i] # None /\ dispatched[i].action.id = i
      /\ UNCHANGED <<requests, clock, decisions, executedRequestIds, dispatched>>
  BY DEF Rollback, gateVars, TypeOK, GateInv, DispatchApproved
<1>3. active' = active \/ (active[i] # None /\ active' = [active EXCEPT ![i] = None])
  BY <1>2 DEF Rollback, RollbackBlocked, RollbackFailed, RollbackApplied
<1>4. CASE active' = active
  BY <1>2, <1>4, StutterImplements
<1>5. CASE active[i] # None /\ active' = [active EXCEPT ![i] = None]
  <2>1. active'[i] = None /\ \A j \in ActionIds \ {i} : active'[j] = active[j]
    BY <1>5 DEF TypeOK, ExecutorTypeOK
  <2>2. \A j \in ActionIds : active[j] # None /\ dispatched[j].request = q => j = i
    BY <1>1, <1>5, OneActionPerRequest
  <2>3. InForce' = InForce \ {q} /\ q \in InForce
    BY <1>1, <1>2, <1>5, <2>1, <2>2 DEF InForce
  <2>4. G!Undo(q)
    BY <1>2, <2>3 DEF G!Undo, InForce, Approved
  <2> QED BY <2>4
<1> QED BY <1>3, <1>4, <1>5

(* A restart forgets what was executed together with what is in force.      *)
LEMMA RestartForgets ==
  ASSUME Restart PROVE G!NewProcess
<1>1. InForce' = {} /\ executedRequestIds' = {}
  BY DEF Restart, ReplaceExecutor, InForce
<1> QED BY <1>1 DEF Restart, G!NewProcess, InForce, Approved

(* Every step of the gate, the executor and the adapter is a step of        *)
(* GatedResponse or leaves what it speaks about alone.                      *)
LEMMA StepImplements ==
  ASSUME TypeOK, GateInv, DecisionsOfRequests, ActiveExecuted, [Next]_vars
  PROVE  [G!Next]_(G!gated)
<1>1. CASE Tick
  BY <1>1, TickExpires DEF G!Next
<1>2. CASE NextWindow
  BY <1>2, StutterImplements DEF NextWindow, executorVars
<1>3. ASSUME NEW r \in RequestIds, NEW action \in Recommendations, NEW target \in Targets,
             NEW w \in {1, window}, NEW ttl \in Ttls, NewRequest(r, action, target, w, ttl)
      PROVE  G!Next
  <2>1. w \in WindowIds
    BY GateAssumption DEF TypeOK
  <2> QED BY <1>3, <2>1, NewRequestOpens DEF G!Next
<1>4. ASSUME NEW r \in RequestIds, CreateRequest(r) PROVE G!Next
  BY <1>3, <1>4 DEF CreateRequest
<1>5. ASSUME NEW i \in ActionIds, NEW r \in RequestIds, Reconsider(i, r) PROVE G!Next
  <2>1. dispatched[i].action.target \in Targets
    BY <1>5 DEF Reconsider, TypeOK, DispatchRecord, ResponseAction
  <2> QED BY <1>3, <1>5, <2>1 DEF Reconsider
<1>6. ASSUME NEW r \in RequestIds, HumanDecide(r) PROVE [G!Next]_(G!gated)
  BY <1>6, DecisionApproves DEF G!Next
<1>7. ASSUME NEW r \in RequestIds, NEW d \in decisions \union {None}, AuthorizeAndExecute(r, d)
      PROVE  [G!Next]_(G!gated)
  <2>1. CASE Refuse(r, d)
    BY <2>1, StutterImplements DEF Refuse, executorVars
  <2> QED BY <1>7, <2>1, DispatchExecutes DEF AuthorizeAndExecute, G!Next
<1>8. ASSUME NEW i \in ActionIds, Rollback(i) PROVE [G!Next]_(G!gated)
  BY <1>8, RollbackUndoes DEF G!Next
<1>9. CASE Restart
  BY <1>9, RestartForgets DEF G!Next
<1>10. CASE UNCHANGED vars
  BY <1>10, StutterImplements DEF vars, gateVars, executorVars
<1> QED BY <1>1, <1>2, <1>4, <1>5, <1>6, <1>7, <1>8, <1>9, <1>10 DEF Next

(* The gate, its executor and the adapter implement the promise of          *)
(* GatedResponse: whatever the callers, reviewers, windows, failures and    *)
(* restarts do, a response comes into force only for a request a human      *)
(* approved before its deadline, before that deadline, once per process.    *)
THEOREM GateImplementsGated == Spec => ImplementsGatedResponse
<1>1. Init => G!Init
  <2> SUFFICES ASSUME Init PROVE G!Init
    OBVIOUS
  <2>1. Opened = {} /\ OutOfTime = {} /\ InTime = {} /\ InForce = {} /\ executedRequestIds = {}
    BY DEF Init, InitExecutor, Opened, OutOfTime, InTime, InForce
  <2> QED BY <2>1 DEF G!Init, Opened, OutOfTime, InTime, InForce
<1>2. Init => DecisionsOfRequests /\ ActiveExecuted
  BY DEF Init, InitExecutor, DecisionsOfRequests, ActiveExecuted
<1>3. TypeOK /\ GateInv /\ DecisionsOfRequests /\ ActiveExecuted /\ [Next]_vars
        => /\ (DecisionsOfRequests /\ ActiveExecuted)'
           /\ [G!Next]_(G!gated)
  BY DecisionsStep, ActiveExecutedStep, StepImplements
<1> QED BY <1>1, <1>2, <1>3, InvAlways, PTL DEF Spec, ImplementsGatedResponse, G!Spec
=============================================================================
