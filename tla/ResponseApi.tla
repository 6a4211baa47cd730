----------------------------- MODULE ResponseApi -----------------------------
(***************************************************************************)
(* runtime/api.py: POST /response/execute, /response/rollback and          *)
(* /demo/reset over one ResponseExecutor.  Clients choose action ids,      *)
(* windows, decision ids, classes and types themselves, and an approval    *)
(* left blank is filled in with the values it will be compared with.  No   *)
(* handler suspends between reading the current event and replying, so a   *)
(* call is one step.                                                       *)
(***************************************************************************)
EXTENDS ResponseExecutor

CONSTANTS
  ClientActions, \* the actions clients ask to execute
  RollbackTargets, \* target_node_id of rollback requests, "svc-api" by default
  Policies,      \* authority_policy of an event, without the id
  Topology,      \* engine.topology, None for no graph
  MaxRecords     \* bound: records in an executor's life

VARIABLES
  current,  \* event_id of the current event; Idle ("window-idle") before any
  policy,   \* authority_policy of the current event, None for none
  issued,   \* last event id issued (event ids are never used again)
  reply     \* ResponseExecutionResponse of the call just made, None otherwise

apiVars == <<current, policy, issued>>
vars == <<executorVars, apiVars, reply>>

Idle == 0

\* What OutcomeVerifier.verify_outcome may answer; here it is an input.
VerifierAnswer == {"VERIFIED_SUCCESS", "VERIFIED_MISMATCH", "UNVERIFIED"}

Reply == [op : {"execute", "rollback"}, action : ActionIds, status : ExecutionStatus,
          verification : VerifierAnswer \union {None}, observed : BOOLEAN]

ASSUME ApiAssumption ==
  /\ WindowIds \subseteq Nat /\ Idle \in WindowIds /\ DecisionIds = WindowIds
  /\ ClientActions \subseteq {a \in ResponseAction : a.policy = "AUTOMATIC_COMPENSATING"}
  /\ RollbackTargets \subseteq Targets
  /\ Policies \subseteq [level : AuthorityLevel, permitted : SUBSET ActionClass,
                         humanApprovalRequired : BOOLEAN]
  /\ Topology \in ServiceTopology \union {None}
  /\ MaxRecords \in Nat
  /\ None \notin ResponseAction \union AuthorityDecision \union HumanApproval \union Reply

Init ==
  /\ InitExecutor
  /\ current = Idle
  /\ policy = None
  /\ issued = Idle
  /\ reply = None

-----------------------------------------------------------------------------
(* The runtime moves on *)

NextEvent ==
  /\ issued + 1 \in WindowIds
  /\ issued' = issued + 1
  /\ current' = issued + 1
  /\ policy' \in {[id |-> issued + 1, level |-> p.level, permitted |-> p.permitted,
                   humanApprovalRequired |-> p.humanApprovalRequired] : p \in Policies}
  /\ UNCHANGED executorVars
  /\ reply' = None

\* /demo/start and /live/start create a session, which has no event yet; the
\* executor stays.
NewSession ==
  /\ current' = Idle
  /\ policy' = None
  /\ UNCHANGED <<executorVars, issued>>
  /\ reply' = None

ResetDemo ==
  /\ current' = Idle
  /\ policy' = None
  /\ ReplaceExecutor
  /\ UNCHANGED issued
  /\ reply' = None

-----------------------------------------------------------------------------
\* "Construct default conservative decision (HUMAN_APPROVAL_REQUIRED)", under
\* the id the client gave, or a fresh one.
DefaultDecision(id) ==
  [id |-> id, level |-> "HUMAN_APPROVAL_REQUIRED",
   permitted |-> ActionClass \ {"EXECUTE_DESTRUCTIVE_ACTION"}, humanApprovalRequired |-> TRUE]

ResolvedDecision(id) == IF policy = None THEN DefaultDecision(id) ELSE policy

\* An executed call without a verification_expectation is answered "verified".
ExecuteReply(a, status, answer) ==
  [op |-> "execute", action |-> a.id, status |-> status,
   verification |-> IF status # "EXECUTED" THEN None
                    ELSE IF answer = None THEN "VERIFIED_SUCCESS" ELSE answer,
   observed |-> status = "EXECUTED" /\ answer # None]

ExecuteResponse(a, h, answer) ==
  LET d == ResolvedDecision(a.decision) IN
  /\ Len(history) < MaxRecords
  /\ \/ /\ ExecuteRefused(a, d, h, Topology, current)
        /\ reply' = ExecuteReply(a, Refusal(a, d, h, current), answer)
     \/ /\ ExecuteFailed(a, d, h, Topology, current)
        /\ reply' = ExecuteReply(a, "FAILED", answer)
     \/ /\ \/ ExecuteIdempotent(a, d, h, Topology, current)
           \/ ExecuteApplied(a, d, h, Topology, current)
        /\ reply' = ExecuteReply(a, "EXECUTED", answer)
  /\ UNCHANGED apiVars

\* The action the handler makes up (its policy never consults an approval) from the id and the target of the request.
RollbackAction(i, target, d) ==
  [id |-> i, cls |-> "EXECUTE_REVERSIBLE_ACTION", target |-> target, type |-> "DEMO_BLOCK",
   decision |-> d.id, window |-> current, snapshot |-> None, policy |-> "AUTOMATIC_COMPENSATING"]

RollbackReply(i, status) ==
  [op |-> "rollback", action |-> i, status |-> status,
   verification |-> IF status = "ROLLED_BACK" THEN "VERIFIED_SUCCESS" ELSE None,
   observed |-> FALSE]

RollbackResponse(i, target, id) ==
  LET d == ResolvedDecision(id)
      a == RollbackAction(i, target, d)
  IN
  /\ Len(history) < MaxRecords
  /\ \/ RollbackBlocked(a, d, None) /\ reply' = RollbackReply(i, "BLOCKED")
     \/ RollbackFailed(a, d, None) /\ reply' = RollbackReply(i, "FAILED")
     \/ RollbackApplied(a, d, None) /\ reply' = RollbackReply(i, "ROLLED_BACK")
  /\ UNCHANGED apiVars

Next ==
  \/ NextEvent
  \/ NewSession
  \/ ResetDemo
  \/ \E a \in ClientActions : \E h \in HumanApproval \union {None},
       answer \in VerifierAnswer \union {None} : ExecuteResponse(a, h, answer)
  \/ \E i \in ActionIds, target \in RollbackTargets, id \in DecisionIds :
       RollbackResponse(i, target, id)

Spec == Init /\ [][Next]_vars
-----------------------------------------------------------------------------
TypeOK ==
  /\ ExecutorTypeOK
  /\ current \in WindowIds /\ issued \in WindowIds /\ current <= issued
  /\ policy \in AuthorityDecision \union {None}
  /\ policy # None => policy.id = current
  /\ reply \in Reply \union {None}

RolledBack(i) ==
  {k \in DOMAIN history : history[k].status = "ROLLED_BACK" /\ history[k].action = i}

(* An action that was rolled back stays out of force: a client that sends   *)
(* the execute call again, late or twice, does not put it back.  Only       *)
(* /demo/reset, which forgets the history, frees the action id.             *)
RolledBackIsFinal ==
  \A i \in ActionIds : RolledBack(i) # {} => active[i] = None

(* What comes into force was formed in the current evidence window and, if  *)
(* the event carries a policy, under its decision: an action prepared for   *)
(* an earlier event never takes effect late, whatever ids the client sends. *)
FreshEvidenceOnly ==
  [][\A i \in ActionIds : active'[i] # active[i] /\ active'[i] # None =>
       /\ active'[i].window = current
       /\ policy # None => active'[i].decision = policy.id]_vars

\* The last call put an action in force.
Applied == reply' # None /\ reply'.status = "EXECUTED" /\ active' # active

(* Nothing comes into force without a decision that demands a human's       *)
(* approval: executor.py:13 "High risk, high trust, high authority, or P0   *)
(* priority CAN NEVER bypass human approval". Fails under a policy that     *)
(* needs none.                                                              *)
NeverWithoutApproval ==
  [][Applied => policy = None \/ policy.humanApprovalRequired]_vars

(* A VERIFIED_SUCCESS answer to an execution rests on observed telemetry,   *)
(* or the action is at least in force. Fails: a class that applies nothing, *)
(* or a rolled-back action, is answered so.                                 *)
VerifiedIsInForce ==
  reply # None /\ reply.op = "execute" /\ reply.verification = "VERIFIED_SUCCESS" =>
    reply.observed \/ active[reply.action] # None
=============================================================================
