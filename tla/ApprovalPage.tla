---------------------------- MODULE ApprovalPage ----------------------------
(***************************************************************************)
(* ui/src/pages/HumanApprovalPage.tsx with lib/api.ts and the store it     *)
(* renders, in front of the response API: an operator approves, rejects or *)
(* retries what the page shows, a request takes its time, its reply may be *)
(* lost, and meanwhile the runtime goes on and others roll back.            *)
(***************************************************************************)
EXTENDS ResponseApi, SequencesExt

CONSTANTS
  Proposals,   \* recommended_actions[0] of an event
  MaxClicks    \* bound: approvals sent by the page

VARIABLES
  proposal,  \* recommended_actions[0] of the current event, None before any
  shown,     \* snapshot.event as the page renders it, None for none
  gate,      \* gateState
  wire,      \* requests the page has sent and the API has not answered
  answer,    \* the status of the reply on its way to the page, None for none
  clicks,    \* history: what each approval was given for
  applied    \* history: the number of the click behind each action id, 0 for none

pageVars == <<proposal, shown, gate, wire, answer, clicks, applied>>
backendVars == <<executorVars, apiVars>>
allVars == <<vars, pageVars>>

GateState == {"PENDING", "APPROVED", "REJECTED", "EXECUTING", "EXECUTED", "ERROR"}

Restraint == {"DO_NOTHING", "NO_SUFFICIENT_ACTION"}
Intervention == {"RATE_LIMIT_IP", "TEMPORARY_BLOCK_IP", "ISOLATE_SERVICE_ENDPOINT"}

ASSUME PageAssumption ==
  /\ Proposals \subseteq [type : Intervention \union Restraint, target : Targets]
  /\ MaxClicks \in Nat

PageInit ==
  /\ Init
  /\ proposal = None /\ shown = None
  /\ gate = "PENDING"
  /\ wire = {} /\ answer = None
  /\ clicks = <<>>
  /\ applied = [i \in ActionIds |-> 0]

-----------------------------------------------------------------------------
(* What the API makes of a request of the page *)

\* An action_type it does not know becomes a DEMO_BLOCK, and the names of the
\* interventions are none of its own.
ApiType(type) == IF type \in ReversibleActionType THEN type ELSE "DEMO_BLOCK"

\* The page sends neither an action_id nor an approval_id: every request gets
\* an id nothing has borne yet.
Unused(i) == active[i] = None /\ \A k \in DOMAIN history : history[k].action # i

RequestedAction(r, i) ==
  [id |-> i, cls |-> "EXECUTE_REVERSIBLE_ACTION", target |-> r.proposal.target,
   type |-> ApiType(r.proposal.type), decision |-> r.decision, window |-> r.window,
   snapshot |-> None, policy |-> "AUTOMATIC_COMPENSATING"]

RequestedApproval(r, i) ==
  [action |-> i, decision |-> r.decision, window |-> r.window, approved |-> TRUE]

ServeRequest(r) ==
  \E i \in {k \in ActionIds : Unused(k)} :
    /\ ExecuteResponse(RequestedAction(r, i), RequestedApproval(r, i), None)
    /\ wire' = wire \ {r}
    /\ answer' = IF gate = "EXECUTING" /\ r.click = Len(clicks) THEN reply'.status ELSE answer
    /\ applied' = IF active'[i] # None THEN [applied EXCEPT ![i] = r.click] ELSE applied
    /\ UNCHANGED <<proposal, shown, gate, clicks>>

-----------------------------------------------------------------------------
(* The page *)

Showing == [window |-> current, policy |-> policy, proposal |-> proposal]

\* The store takes the event that is current, or forgets a session.
Render ==
  /\ shown' = IF current = Idle THEN None ELSE Showing
  /\ shown' # shown
  /\ reply' = None /\ UNCHANGED <<backendVars, proposal, gate, wire, answer, clicks, applied>>

Approvable(event) ==
  event # None /\ event.policy # None /\ event.proposal # None
    /\ event.proposal.type # "NO_SUFFICIENT_ACTION"

Request(event) ==
  [click |-> Len(clicks) + 1, window |-> event.window, decision |-> event.policy.id,
   proposal |-> event.proposal]

Dispatch(event) ==
  /\ gate' = "EXECUTING"
  /\ wire' = wire \union {Request(event)}
  /\ clicks' = Append(clicks, shown)

\* The event is read again when the operator clicks.
ApproveLatest ==
  /\ gate = "PENDING" /\ Approvable(shown) /\ Len(clicks) < MaxClicks
  /\ IF shown.proposal.type = "DO_NOTHING"
     THEN gate' = "APPROVED" /\ UNCHANGED <<wire, clicks>>
     ELSE Dispatch(IF Approvable(Showing) THEN Showing ELSE shown)
  /\ answer' = None /\ reply' = None
  /\ UNCHANGED <<backendVars, proposal, shown, applied>>

\* handleApprove, bound to the event the page was last rendered with.
Approve ==
  /\ gate = "PENDING" /\ Approvable(shown) /\ Len(clicks) < MaxClicks
  /\ IF shown.proposal.type = "DO_NOTHING"
     THEN gate' = "APPROVED" /\ UNCHANGED <<wire, clicks>>
     ELSE Dispatch(shown)
  /\ answer' = None /\ reply' = None
  /\ UNCHANGED <<backendVars, proposal, shown, applied>>

MoveGate(from, to) ==
  /\ gate = from /\ gate' = to
  /\ reply' = None /\ UNCHANGED <<backendVars, proposal, shown, wire, clicks, applied>>

\* handleReject tells nobody.
Reject == MoveGate("PENDING", "REJECTED") /\ UNCHANGED answer
Reconsider == MoveGate("REJECTED", "PENDING") /\ UNCHANGED answer
Retry == MoveGate("ERROR", "PENDING") /\ UNCHANGED answer

\* Any reply that is not an HTTP error counts as dispatched.
ReplyArrives == answer # None /\ MoveGate("EXECUTING", "EXECUTED") /\ UNCHANGED answer

\* The connection breaks, before or after the API has the request.
FetchFails == MoveGate("EXECUTING", "ERROR") /\ answer' = None

RequestLost ==
  \E r \in wire :
    /\ wire' = wire \ {r}
    /\ gate' = IF gate = "EXECUTING" /\ r.click = Len(clicks) THEN "ERROR" ELSE gate
    /\ reply' = None /\ UNCHANGED <<backendVars, proposal, shown, answer, clicks, applied>>

\* The page is left and entered again: its own state starts over.
Revisit ==
  /\ gate # "PENDING" /\ gate' = "PENDING"
  /\ answer' = None
  /\ reply' = None /\ UNCHANGED <<backendVars, proposal, shown, wire, clicks, applied>>

-----------------------------------------------------------------------------
(* The runtime and the other clients *)

Advance ==
  /\ \/ NextEvent /\ proposal' \in Proposals
     \/ NewSession /\ current # Idle /\ proposal' = None
  /\ UNCHANGED <<shown, gate, wire, answer, clicks, applied>>

Reset ==
  /\ ResetDemo /\ history # <<>>
  /\ proposal' = None
  /\ applied' = [i \in ActionIds |-> 0]
  /\ UNCHANGED <<shown, gate, wire, answer, clicks>>

\* Some other client rolls back; ResponseApi has the ones that execute.
RollBack ==
  /\ \E i \in ActionIds, target \in RollbackTargets : RollbackResponse(i, target, current)
  /\ UNCHANGED pageVars

PageStep ==
  \/ Render \/ Approve \/ Reject \/ Reconsider \/ Retry
  \/ ReplyArrives \/ FetchFails \/ RequestLost \/ Revisit

PageNext ==
  \/ \E r \in wire : ServeRequest(r)
  \/ PageStep
  \/ Advance \/ Reset \/ RollBack

PageSpec == PageInit /\ [][PageNext]_allVars
-----------------------------------------------------------------------------
PageTypeOK ==
  /\ TypeOK
  /\ gate \in GateState
  /\ \A event \in {shown} \union ToSet(clicks) :
       event # None => event.window \in WindowIds /\ event.proposal \in Proposals \union {None}
  /\ answer \in ExecutionStatus \union {None}
  /\ \A r \in wire : r.click \in DOMAIN clicks
  /\ applied \in [ActionIds -> 0..Len(clicks)]

(* What an approval of the page puts in force has the target, the evidence  *)
(* and the decision the operator was shown, though the runtime moved on,    *)
(* the reply was lost or the page retried, and one click puts one action in *)
(* force; but whatever intervention was shown, the action is a DEMO_BLOCK.  *)
InForceWasShown ==
  \A i \in ActionIds : active[i] # None /\ applied[i] # 0 =>
    LET event == clicks[applied[i]] IN
    /\ active[i].window = event.window
    /\ active[i].decision = event.policy.id
    /\ active[i].target = event.proposal.target
    /\ active[i].type = "DEMO_BLOCK"
    /\ \A j \in ActionIds : applied[j] = applied[i] => j = i

(* HumanApprovalPage.tsx shows the action_type it sends, and the API takes  *)
(* it: what comes into force is the intervention the operator was shown.    *)
(* Fails: the API knows none of the interventions by that name.             *)
InForceIsTheInterventionShown ==
  \A i \in ActionIds : active[i] # None /\ applied[i] # 0 =>
    active[i].type = clicks[applied[i]].proposal.type

(* The page: "ACTION DISPATCHED SUCCESSFULLY" is shown when the action was  *)
(* executed. Fails: a BLOCKED reply is shown so.                            *)
DispatchedIsExecuted == gate = "EXECUTED" => answer = "EXECUTED"

(* The page: "No defensive action has been dispatched" once the operator    *)
(* has rejected what it proposes. Fails when the reply of an approval was   *)
(* lost.                                                                    *)
RejectedIsNotInForce ==
  gate = "REJECTED" /\ shown # None =>
    \A i \in ActionIds : active[i] # None /\ applied[i] # 0 => active[i].window # shown.window

(* PHASE2_CHAOS_TEST_REPORT.md: the "same valid request submitted 1x, 2x,   *)
(* 5x, 20x" is "executed exactly once". Fails: a retry carries no id.       *)
RetryIsIdempotent ==
  \A i, j \in ActionIds :
    active[i] # None /\ active[j] # None /\ applied[i] # 0 /\ applied[j] # 0
      /\ clicks[applied[i]] = clicks[applied[j]] => i = j

(* Under build_minimal_demo_topology, which has neither of the nodes the    *)
(* engine proposes, the page puts nothing in force.                         *)
NothingFromThePage == \A i \in ActionIds : applied[i] = 0
=============================================================================
