----------------------------- MODULE ApprovalGate -----------------------------
(***************************************************************************)
(* simulation/approval_gate.py (HumanApprovalGate), the closed loop of     *)
(* simulation/closed_loop.py and the executor they dispatch to.            *)
(*                                                                         *)
(* A recommendation becomes an ApprovalRequest with a deadline; a human    *)
(* decides it; any caller may then present request and decision to the     *)
(* gate, as often as it likes, while telemetry windows, the authority      *)
(* decision, the topology and the clock move on.  Requests and decisions   *)
(* are frozen values the callers hold, so they outlive the process; the    *)
(* gate's executed set, the executor and the demo adapter do not.          *)
(***************************************************************************)
EXTENDS ResponseExecutor, FiniteSets

CONSTANTS
  RequestIds,   \* identifiers new_id("appr-req") returns
  Recommendations, \* actions the selector can recommend: a subset of ExecutableType, and None
  Policies,     \* what AuthorityPolicyEngine.evaluate can answer, without the id
  Topologies,   \* graphs the callers may pass, None for no graph
  Ttls,         \* ttl_seconds of create_request, in clock ticks
  MaxClock,     \* bound: last tick of the clock
  MaxDecisions, \* bound: number of decisions the reviewers make
  MaxRecords    \* bound: a rollback is only attempted below this many records

\* INTERVENTION_TO_ACTION_TYPE: what an executable recommendation becomes.
ExecutableType == {"TEMP_RATE_LIMIT", "DEMO_BLOCK", "DEMO_DISABLE_ENDPOINT"}

VARIABLES
  clock,       \* the clock the gate was given
  window,      \* current telemetry window
  authority,   \* authority decision evaluated for that window
  topology,    \* topology now in force, or None
  requests,    \* request id -> ApprovalRequest, None while unused
  decisions,   \* ApprovalDecisions humans have made
  executedRequestIds,  \* _executed_request_ids of the living gate
  dispatched,  \* action id -> what the gate dispatched under it, None while unused
  outcome      \* ExecutionOutcome of the gate call just made, None after any other step

gateVars == <<clock, window, authority, topology, requests, decisions,
              executedRequestIds, dispatched>>
vars == <<executorVars, gateVars, outcome>>

\* action: the mapped type of a RECOMMENDED executable action, None otherwise.
ApprovalRequest ==
  [action : ExecutableType \union {None}, target : Targets, window : WindowIds, expires : Nat]

\* hash: the request whose provenance_hash the reviewer quoted (the hash covers
\* the request id), None for any other hash, such as the DecisionResult's.
ApprovalDecision ==
  [request : RequestIds, hash : RequestIds \union {None}, approved : BOOLEAN, decidedAt : Nat]

GateStatus == {"NOT_APPROVED", "EXPIRED", "PROVENANCE_MISMATCH", "AUTHORITY_DENIED",
               "UNSUPPORTED", "HUMAN_REJECTED", "EXECUTION_REJECTED", "EXECUTED",
               "ALREADY_EXECUTED"}

\* Kept to speak about what was dispatched for whom, and when.
DispatchRecord == [request : RequestIds, action : ResponseAction, at : Nat]

ASSUME GateAssumption ==
  /\ None \notin RequestIds \union ResponseAction \union ApprovalRequest \union DispatchRecord
  /\ WindowIds \subseteq Nat \ {0} /\ DecisionIds = WindowIds /\ 1 \in WindowIds
  /\ Recommendations \subseteq ExecutableType \union {None}
  /\ Policies \subseteq [level : AuthorityLevel, permitted : SUBSET ActionClass,
                         humanApprovalRequired : BOOLEAN]
  /\ Topologies \subseteq ServiceTopology \union {None}
  /\ Ttls \subseteq Nat /\ MaxClock \in Nat
  /\ MaxDecisions \in Nat /\ MaxRecords \in Nat

Evaluated(p, w) == [id |-> w, level |-> p.level, permitted |-> p.permitted,
                    humanApprovalRequired |-> p.humanApprovalRequired]

Init ==
  /\ InitExecutor
  /\ clock = 0
  /\ window = 1
  /\ authority \in {Evaluated(p, 1) : p \in Policies}
  /\ topology \in Topologies
  /\ requests = [r \in RequestIds |-> None]
  /\ decisions = {}
  /\ executedRequestIds = {}
  /\ dispatched = [i \in ActionIds |-> None]
  /\ outcome = None

-----------------------------------------------------------------------------
(* Environment *)

Tick ==
  /\ clock < MaxClock
  /\ clock' = clock + 1
  /\ UNCHANGED <<executorVars, window, authority, topology, requests, decisions,
                 executedRequestIds, dispatched>>
  /\ outcome' = None

\* A telemetry window closes: evidence, authority and topology are reassessed.
NextWindow ==
  /\ window + 1 \in WindowIds
  /\ window' = window + 1
  /\ authority' \in {Evaluated(p, window + 1) : p \in Policies}
  /\ topology' \in Topologies
  /\ UNCHANGED <<executorVars, clock, requests, decisions, executedRequestIds,
                 dispatched>>
  /\ outcome' = None

NewRequest(r, action, target, w, ttl) ==
  /\ requests[r] = None
  /\ requests' = [requests EXCEPT ![r] = [action |-> action, target |-> target,
                                          window |-> w, expires |-> clock + ttl]]
  /\ UNCHANGED <<executorVars, clock, window, authority, topology, decisions,
                 executedRequestIds, dispatched>>
  /\ outcome' = None

\* Window 1 also stands for the default evidence window "win-000".
CreateRequest(r) ==
  \E action \in Recommendations, target \in Targets, w \in {1, window}, ttl \in Ttls :
    NewRequest(r, action, target, w, ttl)

\* trigger_reconsideration_if_mismatch, about an action that was dispatched:
\* nothing but a new request that a human has yet to see.
Reconsider(i, r) ==
  /\ dispatched[i] # None
  /\ \E action \in Recommendations, ttl \in Ttls :
       NewRequest(r, action, dispatched[i].action.target, window, ttl)

\* The hash is copied from a request the reviewer has at hand, or is wrong.
HumanDecide(r) ==
  /\ requests[r] # None
  /\ Cardinality(decisions) < MaxDecisions
  /\ \E approved \in BOOLEAN, hash \in {q \in RequestIds : requests[q] # None} \union {None} :
       decisions' = decisions \union {[request |-> r, hash |-> hash,
                                       approved |-> approved, decidedAt |-> clock]}
  /\ UNCHANGED <<executorVars, clock, window, authority, topology, requests,
                 executedRequestIds, dispatched>>
  /\ outcome' = None

-----------------------------------------------------------------------------
(* authorize_and_execute *)

\* The human's decision is about this very request.
BoundByIdOnly(r, d) == d.request = r
Bound(r, d) == d.request = r /\ d.hash = r

\* The deadline holds for the decision and again for the execution.
ExpiredWhenDecided(r, d) == d.decidedAt > requests[r].expires
Expired(r, d) == d.decidedAt > requests[r].expires \/ clock > requests[r].expires

ForgetsExecution(r) == FALSE
ExecutedBefore(r) == r \in executedRequestIds

\* The checks the gate makes itself, in order; "PASSED" when all pass.
GateRefusal(r, d) ==
  IF requests[r].action = None THEN "UNSUPPORTED"
  ELSE IF d = None THEN "NOT_APPROVED"
  ELSE IF ~Bound(r, d) THEN "PROVENANCE_MISMATCH"
  ELSE IF Expired(r, d) THEN "EXPIRED"
  ELSE IF ~d.approved THEN "HUMAN_REJECTED"
  ELSE IF authority.level = "BLOCKED" \/ "EXECUTE_REVERSIBLE_ACTION" \notin authority.permitted
    THEN "AUTHORITY_DENIED"
  ELSE IF ExecutedBefore(r) THEN "ALREADY_EXECUTED"
  ELSE "PASSED"

Refuse(r, d) ==
  /\ requests[r] # None
  /\ GateRefusal(r, d) # "PASSED"
  /\ outcome' = [request |-> r, status |-> GateRefusal(r, d)]
  /\ UNCHANGED <<executorVars, clock, window, authority, topology, requests,
                 decisions, executedRequestIds, dispatched>>

\* The ResponseAction and the HumanApproval the gate builds for a dispatch.
DispatchedAction(i, r, t) ==
  [id |-> i, cls |-> "EXECUTE_REVERSIBLE_ACTION", target |-> requests[r].target,
   type |-> requests[r].action, decision |-> authority.id, window |-> requests[r].window,
   snapshot |-> IF t = None THEN None ELSE t.snapshot, policy |-> "AUTOMATIC_COMPENSATING"]

DispatchedApproval(i, r) ==
  [action |-> i, decision |-> authority.id, window |-> requests[r].window, approved |-> TRUE]

\* t, w: the optional topology and current_window_id the caller passes.
Dispatch(i, r, d, t, w) ==
  LET a == DispatchedAction(i, r, t)
      h == DispatchedApproval(i, r)
  IN
  /\ requests[r] # None
  /\ GateRefusal(r, d) = "PASSED"
  /\ dispatched[i] = None
  /\ dispatched' = [dispatched EXCEPT ![i] = [request |-> r, action |-> a, at |-> clock]]
  /\ \/ /\ ExecuteApplied(a, authority, h, t, w)
        /\ executedRequestIds' = executedRequestIds \union {r}
        /\ outcome' = [request |-> r, status |-> "EXECUTED"]
     \/ /\ \/ ExecuteRefused(a, authority, h, t, w)
           \/ ExecuteFailed(a, authority, h, t, w)
        /\ UNCHANGED executedRequestIds
        /\ outcome' = [request |-> r, status |-> "EXECUTION_REJECTED"]
  /\ UNCHANGED <<clock, window, authority, topology, requests, decisions>>

AuthorizeAndExecute(r, d) ==
  \/ Refuse(r, d)
  \/ \E i \in ActionIds, t \in {topology, None}, w \in {window, None} : Dispatch(i, r, d, t, w)

-----------------------------------------------------------------------------
\* executor.rollback with the action as it was dispatched (its policy never
\* asks for an approval), under the current authority decision.
Rollback(i) ==
  /\ dispatched[i] # None
  /\ Len(history) < MaxRecords
  /\ LET a == dispatched[i].action IN
       \/ RollbackBlocked(a, authority, None)
       \/ RollbackFailed(a, authority, None)
       \/ RollbackApplied(a, authority, None)
  /\ outcome' = None
  /\ UNCHANGED gateVars

RestartKeepsExecutedSet ==
  /\ ReplaceExecutor
  /\ outcome' = None
  /\ UNCHANGED gateVars

\* The process restarts; callers still hold their requests and decisions.
Restart ==
  /\ ReplaceExecutor
  /\ executedRequestIds' = {}
  /\ outcome' = None
  /\ UNCHANGED <<clock, window, authority, topology, requests, decisions, dispatched>>

Next ==
  \/ Tick
  \/ NextWindow
  \/ \E r \in RequestIds : CreateRequest(r)
  \/ \E i \in ActionIds, r \in RequestIds : Reconsider(i, r)
  \/ \E r \in RequestIds : HumanDecide(r)
  \/ \E r \in RequestIds : \E d \in decisions \union {None} : AuthorizeAndExecute(r, d)
  \/ \E i \in ActionIds : Rollback(i)
  \/ Restart

Spec == Init /\ [][Next]_vars

-----------------------------------------------------------------------------
TypeOK ==
  /\ ExecutorTypeOK
  /\ clock \in Nat
  /\ window \in WindowIds
  /\ authority \in AuthorityDecision
  /\ topology \in Topologies
  /\ requests \in [RequestIds -> ApprovalRequest \union {None}]
  /\ decisions \subseteq ApprovalDecision
  /\ executedRequestIds \subseteq RequestIds
  /\ dispatched \in [ActionIds -> DispatchRecord \union {None}]
  /\ outcome \in [request : RequestIds, status : GateStatus] \union {None}

RequestOf(k) == dispatched[history[k].action].request

ExecutionsOf(r) ==
  {k \in DOMAIN history : /\ history[k].status = "EXECUTED"
                          /\ dispatched[history[k].action] # None
                          /\ RequestOf(k) = r}

(* However often callers present a request, and however adapter failures,   *)
(* rollbacks and new windows fall between, one process executes it at most  *)
(* once (approval_gate.py: "at-most-once execution within the active        *)
(* process scope").                                                         *)
AtMostOncePerRequest ==
  \A r \in RequestIds : \A j, k \in ExecutionsOf(r) : j = k

(* The gate refuses as ALREADY_EXECUTED exactly the requests its executor   *)
(* executed: neither a lost nor a phantom execution, also after a restart.  *)
ExecutedSetIsHistory ==
  executedRequestIds = {r \in RequestIds : ExecutionsOf(r) # {}}

\* A human approved request r, quoting its own hash, before its deadline.
Approved(r) ==
  \E d \in decisions : /\ d.request = r /\ d.hash = r /\ d.approved
                       /\ d.decidedAt <= requests[r].expires

(* Nothing is in force at the adapter that a human did not approve: every   *)
(* active action was dispatched, by its deadline, for a request a human     *)
(* approved in time, and is that request's action on that request's target. *)
ActiveIsApproved ==
  \A i \in ActionIds : active[i] # None =>
    /\ dispatched[i] # None
    /\ active[i] = dispatched[i].action
    /\ LET r == dispatched[i].request IN
         /\ requests[r] # None
         /\ Approved(r)
         /\ dispatched[i].at <= requests[r].expires
         /\ Effect(active[i]) = <<requests[r].action, requests[r].target>>

(* The gate, the executor and the adapter together implement GatedResponse. *)
G == INSTANCE GatedResponse WITH
  Requests <- RequestIds,
  opened   <- {r \in RequestIds : requests[r] # None},
  expired  <- {r \in RequestIds : requests[r] # None /\ clock > requests[r].expires},
  approved <- {r \in RequestIds : requests[r] # None /\ Approved(r)},
  done     <- executedRequestIds,
  inForce  <- {dispatched[i].request : i \in {j \in ActionIds : active[j] # None}}

ImplementsGatedResponse == G!Spec
=============================================================================
