-------------------------- MODULE ResponseExecutor --------------------------
(***************************************************************************)
(* core/response_execution: the ResponseExecutor and the in-memory         *)
(* DemoResponseAdapter it drives.  Every handler of the program that       *)
(* executes or rolls back a response runs on the asyncio loop and does not *)
(* await inside the executor, so one call of the executor is one step.     *)
(*                                                                         *)
(* The module gives the state of the two objects and the effect of one     *)
(* call, Execute(...) or Rollback(...); the modules that extend it say who *)
(* calls it and with what (ApprovalGate, ResponseApi).                     *)
(***************************************************************************)
EXTENDS Naturals, Sequences

CONSTANTS
  ActionIds,    \* identifiers a ResponseAction can carry
  Targets,      \* nodes a response can be aimed at
  Placeholders, \* targets that stand for "no node": never looked up in a topology
  DecisionIds,  \* identifiers of authority decisions
  WindowIds,    \* identifiers of evidence windows
  SnapshotIds,  \* identifiers of topology snapshots
  None          \* Python's None, wherever a parameter is optional

ASSUME NoneAssumption ==
  None \notin ActionIds \union Targets \union DecisionIds \union WindowIds \union SnapshotIds

VARIABLES
  history,           \* _execution_history, in insertion order
  actionExecutions,  \* _action_executions: action id -> index in history, 0 for none
  active,            \* adapter _active_actions: action id -> ResponseAction or None
  effects            \* adapter _rate_limits, _blocked_targets, ...: pairs <<type, target>>

executorVars == <<history, actionExecutions, active, effects>>
adapterVars == <<active, effects>>

-----------------------------------------------------------------------------
(* Data contracts (core/authority/models.py, core/response_execution/models.py) *)

ActionClass == {"OBSERVE_ONLY", "ALERT_OPERATOR", "GENERATE_RECOMMENDATION",
                "PREPARE_REVERSIBLE_ACTION", "EXECUTE_REVERSIBLE_ACTION",
                "EXECUTE_DESTRUCTIVE_ACTION"}

AuthorityLevel == {"OBSERVE", "ALERT", "RECOMMEND", "HUMAN_APPROVAL_REQUIRED", "BLOCKED"}

ReversibleActionType == {"TEMP_RATE_LIMIT", "DEMO_BLOCK",
                         "DEMO_DISABLE_ENDPOINT", "REVERSIBLE_CONFIG_TOGGLE"}

RollbackPolicy == {"AUTOMATIC_COMPENSATING", "REQUIRE_HUMAN_APPROVAL"}

\* The statuses the executor itself assigns.
ExecutionStatus == {"EXECUTED", "ROLLED_BACK", "FAILED", "BLOCKED", "REJECTED"}

\* __post_init__ refuses a destructive class; reversibility is always TRUE.
ResponseAction ==
  [id : ActionIds, cls : ActionClass \ {"EXECUTE_DESTRUCTIVE_ACTION"},
   target : Targets, type : ReversibleActionType, decision : DecisionIds,
   window : WindowIds, snapshot : SnapshotIds \union {None}, policy : RollbackPolicy]

AuthorityDecision ==
  [id : DecisionIds, level : AuthorityLevel, permitted : SUBSET ActionClass,
   humanApprovalRequired : BOOLEAN]

HumanApproval ==
  [action : ActionIds, decision : DecisionIds, window : WindowIds, approved : BOOLEAN]

\* What execute() reads of a ServiceTopologyGraph.
ServiceTopology ==
  [availability : {"KNOWN", "PARTIAL", "UNAVAILABLE"},
   snapshot : SnapshotIds \union {None}, nodes : SUBSET Targets]

ExecutionRecord ==
  [action : ActionIds, decision : DecisionIds, window : WindowIds,
   status : ExecutionStatus, rollback : BOOLEAN]

-----------------------------------------------------------------------------
InitExecutor ==
  /\ history = <<>>
  /\ actionExecutions = [i \in ActionIds |-> 0]
  /\ active = [i \in ActionIds |-> None]
  /\ effects = {}

Record(a, d, status, rollback) ==
  [action |-> a.id, decision |-> d.id, window |-> a.window,
   status |-> status, rollback |-> rollback]

Effect(a) == <<a.type, a.target>>

AuthorityRefusesAnyWindow(a, d, w) ==
  \/ a.cls = "EXECUTE_DESTRUCTIVE_ACTION"
  \/ d.level = "BLOCKED"
  \/ a.cls \notin d.permitted

(* The checks of execute(), in its order; `w` is current_window_id.         *)
AuthorityRefuses(a, d, w) ==
  \/ a.cls = "EXECUTE_DESTRUCTIVE_ACTION"
  \/ d.level = "BLOCKED"
  \/ a.cls \notin d.permitted
  \/ w # None /\ w # a.window
  \/ a.decision # d.id

ApprovalRejected(d, h) == d.humanApprovalRequired /\ h # None /\ ~h.approved

ApprovalUnbound(a, d, h) ==
  /\ d.humanApprovalRequired
  /\ \/ h = None
     \/ h.action # a.id
     \/ h.decision # d.id
     \/ h.window # a.window

TopologyRefuses(a, t) ==
  /\ t # None
  /\ \/ t.availability = "UNAVAILABLE"
     \/ /\ a.snapshot # None
        /\ t.snapshot # None
        /\ t.snapshot # a.snapshot
     \/ a.target \notin t.nodes \union Placeholders

\* REJECTED is given only to a call that reached the approval check.
Refusal(a, d, h, w) ==
  IF ~AuthorityRefuses(a, d, w) /\ ApprovalRejected(d, h) THEN "REJECTED" ELSE "BLOCKED"

Permitted(a, d, h, t, w) ==
  /\ ~AuthorityRefuses(a, d, w)
  /\ ~ApprovalRejected(d, h)
  /\ ~ApprovalUnbound(a, d, h)
  /\ ~TopologyRefuses(a, t)

ActiveAlready(a) == active[a.id] # None

\* A prior execution of this action id that execute() answers with.
AlreadyExecuted(a) ==
  /\ actionExecutions[a.id] # 0
  /\ history[actionExecutions[a.id]].status = "EXECUTED"

-----------------------------------------------------------------------------
(* One call of ResponseExecutor.execute() is one of these four steps.       *)

ExecuteRefused(a, d, h, t, w) ==
  /\ ~Permitted(a, d, h, t, w)
  /\ history' = Append(history, Record(a, d, Refusal(a, d, h, w), FALSE))
  /\ UNCHANGED <<actionExecutions, active, effects>>

ExecuteIdempotent(a, d, h, t, w) ==
  /\ Permitted(a, d, h, t, w)
  /\ AlreadyExecuted(a)
  /\ UNCHANGED executorVars

\* Invalid parameters, or the failure the test hook injects: validate() and
\* the hook are consulted before the adapter changes anything.
ExecuteFailed(a, d, h, t, w) ==
  /\ Permitted(a, d, h, t, w)
  /\ ~AlreadyExecuted(a)
  /\ history' = Append(history, Record(a, d, "FAILED", FALSE))
  /\ actionExecutions' = [actionExecutions EXCEPT ![a.id] = Len(history) + 1]
  /\ UNCHANGED adapterVars

ExecuteApplied(a, d, h, t, w) ==
  /\ Permitted(a, d, h, t, w)
  /\ ~AlreadyExecuted(a)
  /\ history' = Append(history, Record(a, d, "EXECUTED", FALSE))
  /\ actionExecutions' = [actionExecutions EXCEPT ![a.id] = Len(history) + 1]
  /\ active' = [active EXCEPT ![a.id] = a]
  /\ effects' = effects \union {Effect(a)}

(* One call of ResponseExecutor.rollback() is one of these three steps.     *)
(* `a` is the action the caller passes, not the one that was executed.      *)

RollbackPermitted(a, d, h) ==
  /\ d.level # "BLOCKED"
  /\ a.policy = "REQUIRE_HUMAN_APPROVAL" =>
       h # None /\ h.approved /\ h.action = a.id

RollbackBlocked(a, d, h) ==
  /\ ~RollbackPermitted(a, d, h)
  /\ history' = Append(history, Record(a, d, "BLOCKED", TRUE))
  /\ UNCHANGED <<actionExecutions, active, effects>>

\* The action is not active, or the adapter fails.
RollbackFailed(a, d, h) ==
  /\ RollbackPermitted(a, d, h)
  /\ history' = Append(history, Record(a, d, "FAILED", TRUE))
  /\ UNCHANGED <<actionExecutions, active, effects>>

RollbackFreesAction(a, d, h) ==
  /\ RollbackPermitted(a, d, h)
  /\ active[a.id] # None
  /\ history' = Append(history, Record(a, d, "ROLLED_BACK", TRUE))
  /\ active' = [active EXCEPT ![a.id] = None]
  /\ effects' = effects \ {Effect(a)}
  /\ actionExecutions' = [actionExecutions EXCEPT ![a.id] = 0]

RollbackForgetsEffect(a, d, h) ==
  /\ RollbackPermitted(a, d, h)
  /\ active[a.id] # None
  /\ history' = Append(history, Record(a, d, "ROLLED_BACK", TRUE))
  /\ active' = [active EXCEPT ![a.id] = None]
  /\ UNCHANGED <<actionExecutions, effects>>

RollbackApplied(a, d, h) ==
  /\ RollbackPermitted(a, d, h)
  /\ active[a.id] # None
  /\ history' = Append(history, Record(a, d, "ROLLED_BACK", TRUE))
  /\ active' = [active EXCEPT ![a.id] = None]
  /\ effects' = effects \ {Effect(a)}
  /\ UNCHANGED actionExecutions

\* A new process, or a new ResponseExecutor(adapter=DemoResponseAdapter()).
ReplaceExecutor ==
  /\ history' = <<>>
  /\ actionExecutions' = [i \in ActionIds |-> 0]
  /\ active' = [i \in ActionIds |-> None]
  /\ effects' = {}

-----------------------------------------------------------------------------
ExecutorTypeOK ==
  /\ history \in Seq(ExecutionRecord)
  /\ actionExecutions \in [ActionIds -> Nat]
  /\ \A i \in ActionIds : actionExecutions[i] \in 0..Len(history)
  /\ active \in [ActionIds -> ResponseAction \union {None}]
  /\ effects \subseteq ReversibleActionType \X Targets

Executions(i) == {k \in DOMAIN history : history[k].status = "EXECUTED" /\ history[k].action = i}

(* Retries, duplicated calls and failures in between never apply one action *)
(* twice: at most one record of an executor's life says EXECUTED for an     *)
(* action id.                                                               *)
AtMostOnceExecuted ==
  \A i \in ActionIds : \A j, k \in Executions(i) : j = k

(* The index execute() consults never loses an execution: an action id with *)
(* an EXECUTED record is indexed at that record.                            *)
IndexKeepsExecution ==
  \A i \in ActionIds : \A k \in Executions(i) : actionExecutions[i] = k

(* Every effect in force at the adapter belongs to an action the adapter    *)
(* still lists as active, so that rolling back what get_active_actions()    *)
(* returns clears every effect.                                             *)
NoOrphanEffect ==
  \A e \in effects : \E i \in ActionIds : active[i] # None /\ Effect(active[i]) = e
=============================================================================
