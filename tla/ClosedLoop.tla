----------------------------- MODULE ClosedLoop -----------------------------
(***************************************************************************)
(* simulation/closed_loop.py: a recommendation is put before a human, an   *)
(* approved one is executed, telemetry windows that follow are verified    *)
(* against the envelope it was approved under, and a mismatch lowers the   *)
(* trust, runs the selector again and puts a new request before the human. *)
(* Windows may be lost or unmeasured.  The coordinator's operations are    *)
(* called by tests and experiments alone, so each is an action a caller    *)
(* may take or not, late or again: the verification may lag behind the     *)
(* windows, and the reconsideration behind the verification.               *)
(*                                                                         *)
(* What the gate and the executor check of a dispatch is ApprovalGate's    *)
(* subject; here a dispatch succeeds or does nothing.                      *)
(***************************************************************************)
EXTENDS InterventionSelection, OutcomeVerification

CONSTANTS
  Kinds,         \* what a window can be: [features, forecast, measured, empty]
  Contexts,      \* what a caller knows: [params, topology, trust, ttl], the last
                 \* the action_ttl_seconds of its expectations
  FeedLimit,     \* how many of the latest windows a caller passes to a verification
  MaxWindow,     \* bound: the last telemetry window
  MaxExecutions, \* bound: executions of one loop
  MaxRequests    \* bound: requests of one loop; a mismatch may be answered twice

ASSUME ClosedLoopAssumption ==
  /\ Kinds \subseteq [features : Features, forecast : [Horizons -> Deltas],
                      measured : SUBSET FeatureName, empty : BOOLEAN]
  /\ Contexts \subseteq [params : Parameters, topology : Topology \union {Missing},
                         trust : 5..95, ttl : Nat]
  /\ FeedLimit \in Nat \ {0}
  /\ MaxWindow \in Nat /\ MaxExecutions \in Nat /\ MaxRequests \in Nat

VARIABLES
  context,     \* what the callers know
  latest,      \* the window just closed, and the forecast made in it
  requests,    \* ApprovalRequests in the order they were created
  expectation, \* what the action in force is verified against, Missing before
  telemetry,   \* windows received since the execution
  verifiedAt,  \* window of the last verification, Missing before
  verdict,     \* its result, Missing before
  executions   \* what was executed: its request, and when

vars == <<context, latest, requests, expectation, telemetry, verifiedAt, verdict, executions>>

\* cause: the number of the execution found mismatching, 0 for a first request.
ApprovalRequest ==
  [action : InterventionType \union {Missing}, window : Nat, cause : Nat, trust : 5..95,
   state : {"PENDING", "APPROVED", "REJECTED", "EXECUTED"}]

WindowOf(k, n) == [n |-> n, features |-> k.features, measured |-> k.measured, empty |-> k.empty]

Init ==
  /\ context \in Contexts
  /\ \E k \in Kinds : latest = [window |-> WindowOf(k, 0), forecast |-> k.forecast]
  /\ requests = <<>> /\ executions = <<>>
  /\ expectation = Missing /\ telemetry = <<>>
  /\ verifiedAt = Missing /\ verdict = Missing

-----------------------------------------------------------------------------
\* A window closes; the caller receives it, unless the sensor loses it.
CloseWindow(k, received) ==
  /\ latest.window.n < MaxWindow
  /\ LET w == WindowOf(k, latest.window.n + 1) IN
       /\ latest' = [window |-> w, forecast |-> k.forecast]
       /\ telemetry' = IF received /\ expectation # Missing THEN Append(telemetry, w)
                       ELSE telemetry
  /\ UNCHANGED <<context, requests, expectation, verifiedAt, verdict, executions>>

SelectNow(params, topology, trust) ==
  Select(latest.window.features, latest.forecast, params, topology, trust, TrustLevelOf(trust))

Request(d, cause, trust) ==
  [action |-> d.action, window |-> latest.window.n, cause |-> cause, trust |-> trust,
   state |-> "PENDING"]

\* The selector runs on the latest window; its decision becomes a request.
Recommend ==
  /\ requests = <<>>
  /\ requests' = <<Request(SelectNow(context.params, context.topology, context.trust), 0,
                           context.trust)>>
  /\ UNCHANGED <<context, latest, expectation, telemetry, verifiedAt, verdict, executions>>

HumanDecide(i, approved) ==
  /\ requests[i].state = "PENDING"
  /\ requests' = [requests EXCEPT ![i].state = IF approved THEN "APPROVED" ELSE "REJECTED"]
  /\ UNCHANGED <<context, latest, expectation, telemetry, verifiedAt, verdict, executions>>

\* Mutant: an executed request may be dispatched again.
DispatchableAgain(r) == r.state \in {"APPROVED", "EXECUTED"} /\ r.action \notin {"DO_NOTHING", Missing}

\* Only an approved request for an intervention is.
Dispatchable(r) == r.state = "APPROVED" /\ r.action \notin {"DO_NOTHING", Missing}

\* authorize_and_execute, and build_trajectory_expectation from the window in
\* which it was executed.
Execute(i) ==
  /\ Dispatchable(requests[i])
  /\ Len(executions) < MaxExecutions
  /\ requests' = [requests EXCEPT ![i].state = "EXECUTED"]
  /\ executions' = Append(executions, [request |-> i, window |-> latest.window.n])
  /\ expectation' = [window |-> latest.window.n, baseline |-> latest.window,
                     ceiling |-> PeakRiskCeiling, ttl |-> context.ttl]
  /\ telemetry' = <<>> /\ verifiedAt' = latest.window.n /\ verdict' = Missing
  /\ UNCHANGED <<context, latest>>

\* What the caller passes as observed_states.
Fed ==
  LET n == Len(telemetry) IN SubSeq(telemetry, IF n > FeedLimit THEN n - FeedLimit + 1 ELSE 1, n)

\* evaluate_closed_loop: the caller verifies the windows received so far.  Until
\* another window closes it would find the same.
EvaluateClosedLoop ==
  /\ expectation # Missing
  /\ verdict' = VerifyTrajectory(expectation, Fed) /\ verifiedAt' = latest.window.n
  /\ UNCHANGED <<context, latest, requests, expectation, telemetry, executions>>

\* Mutant: whatever is no success is reconsidered.
ToReconsiderUnlessSuccess == verdict # Missing /\ verdict.status # "VERIFIED_SUCCESS"

ToReconsider == verdict # Missing /\ verdict.status = "VERIFIED_MISMATCH"

\* The caller passes the verdict of the action in force, perhaps windows later,
\* with the window it is at; the selection knows neither the target nor the
\* topology.  Without a mismatch nothing happens.
TriggerReconsiderationIfMismatch ==
  /\ ToReconsider /\ Len(requests) < MaxRequests
  /\ LET trust == AdjustedTrust(context.trust, verdict.steps)
     IN requests' = Append(requests,
          Request(SelectNow(DefaultParameters, Missing, trust), Len(executions), trust))
  /\ UNCHANGED <<context, latest, expectation, telemetry, verifiedAt, verdict, executions>>

Next ==
  \/ \E k \in Kinds, received \in BOOLEAN : CloseWindow(k, received)
  \/ Recommend
  \/ \E i \in DOMAIN requests, approved \in BOOLEAN : HumanDecide(i, approved)
  \/ \E i \in DOMAIN requests : Execute(i)
  \/ EvaluateClosedLoop \/ TriggerReconsiderationIfMismatch

\* Nobody has to call, approve or execute anything.
Spec == Init /\ [][Next]_vars

-----------------------------------------------------------------------------
(* Properties.                                                             *)

TypeOK ==
  /\ context \in Contexts
  /\ latest.window \in Window
  /\ requests \in Seq(ApprovalRequest)
  /\ expectation \in TrajectoryOutcomeExpectation \union {Missing}
  /\ telemetry \in Seq(Window)
  /\ verdict # Missing =>
       /\ verdict \in TrajectoryVerificationResult
       /\ TrajectoryHandoff(verdict) \in OutcomeMismatchHandoff \union {NoHandoff}
  /\ executions \in Seq([request : Nat \ {0}, window : Nat])

(* "ZERO autonomous second execution" (closed_loop.py): every execution is   *)
(* of a request of its own, and all but the first are of one made by the     *)
(* reconsideration of an earlier execution.                                  *)
EachExecutionIsAsked ==
  /\ \A i, j \in DOMAIN executions :
       executions[i].request = executions[j].request => i = j
  /\ \A j \in DOMAIN executions : j > 1 =>
       requests[executions[j].request].cause \in 1..(j - 1)

(* A reconsideration acts on less trust than the decision it revises, and,   *)
(* since it knows neither target nor topology, recommends nothing beyond a   *)
(* rate limit, whatever the executed intervention was.                       *)
ReconsiderationIsCautious ==
  \A i \in DOMAIN requests : requests[i].cause > 0 =>
    /\ requests[i].trust <= context.trust
    /\ requests[i].action \in {"DO_NOTHING", "RATE_LIMIT_IP", Missing}

(* As windows arrive in order, a mismatch once found in an execution is not  *)
(* taken back by a later verification of it that was given more windows.     *)
MismatchStands ==
  [][verdict # Missing /\ verdict.status = "VERIFIED_MISMATCH" /\ executions' = executions =>
       verdict'.status = "VERIFIED_MISMATCH"]_vars

\* Two windows that follow each other among the first three inside the time to
\* live diverge, or one is over the ceiling: the reference of a verdict.
Diverges(e, observed) ==
  \E ev \in {Evaluated(e, observed)} :
    LET Off(h) == \/ FeatureDiverges(e.baseline.features[PrimaryFeature(ev[1])],
                                     ev[h].features[PrimaryFeature(ev[1])], h)
                  \/ Breaches(e, ev[h])
    IN \E h \in DOMAIN ev : (h > 1 /\ Off(h - 1) /\ Off(h)) \/ Breaches(e, ev[h])

\* verify() calls no window a successful reduction in which verify_trajectory
\* finds its feature to diverge; a reading it did not find fails closed.
VerifiersAgree ==
  expectation # Missing =>
    LET ev == Evaluated(expectation, telemetry) IN
    \A h \in DOMAIN ev :
      LET feature == PrimaryFeature(ev[1])
          base == expectation.baseline.features[feature]
      IN \A direction \in {"DECREASE", "BELOW_THRESHOLD"} :
           \E result \in {Verify(feature, direction, base, ev[h])} :
             /\ result \in OutcomeVerificationResult
             /\ FeatureDiverges(base, ev[h].features[feature], h) =>
                  result.status # "VERIFIED_SUCCESS"
             /\ Handoff(result).made => Handoff(result).observed = ev[h].features[feature]

\* A mismatch is handed over with its reason: a window over the ceiling, or a
\* streak; its values are those of a window it rests on, against the baseline
\* that was read when the action was executed.
HandoffIsGrounded ==
  \E handoff \in {TrajectoryHandoff(verdict)} :
    /\ handoff.made <=> verdict.status = "VERIFIED_MISMATCH"
    /\ handoff.made =>
         /\ IF verdict.breached THEN verdict.maxRisk > expectation.ceiling
            ELSE verdict.persistence >= PersistenceRequired
         /\ handoff.baseline = expectation.baseline.features[handoff.metric]
         /\ \E i \in DOMAIN Fed :
              /\ Fed[i].n = verdict.windows[1]
              /\ handoff.observed = Fed[i].features[handoff.metric]

(* The verdict counted window by window is the one the windows deserve, and  *)
(* none is given without a window that was measured after the execution and  *)
(* before the action expired; a mismatch is handed over with its reason; and *)
(* the two verifiers do not contradict each other about a window.            *)
VerdictIsDeserved ==
  /\ VerifiersAgree
  /\ verdict # Missing /\ verifiedAt = latest.window.n => HandoffIsGrounded
  /\ verdict # Missing /\ verifiedAt = latest.window.n
       /\ verdict.status # "INSUFFICIENT_EVIDENCE" =>
       /\ verdict.status = "VERIFIED_MISMATCH" <=> Diverges(expectation, Fed)
       /\ \E i \in DOMAIN Fed :
            /\ ~Fed[i].empty /\ Fed[i].n > expectation.window
            /\ 10 * (Fed[i].n - expectation.window) <= expectation.ttl + 1

(* The evidence a handoff names is the window its values come from. Fails:   *)
(* the window is the last one, the values are of the first.                  *)
HandoffNamesItsWindow ==
  verdict # Missing =>
    LET handoff == TrajectoryHandoff(verdict) IN
    handoff.made => \E h \in DOMAIN verdict.steps :
      /\ verdict.steps[h].window = handoff.window
      /\ verdict.steps[h].observed = handoff.observed

\* What a request is decided on: the first on what the callers know, a
\* reconsideration on the adjusted trust alone.
DecidedOn(r) ==
  IF r.cause = 0 THEN [params |-> context.params, topology |-> context.topology]
  ELSE [params |-> DefaultParameters, topology |-> Missing]

WellDecided(r) ==
  \E evals \in {Evaluations(latest.window.features, latest.forecast, DecidedOn(r).params,
                           DecidedOn(r).topology, r.trust, TrustLevelOf(r.trust))} :
    IsMinimumSufficient(r, evals) /\ DoNothingWins(r, evals)

(* Every request put before the human is for the least disruptive sufficient *)
(* intervention, and for none where doing nothing is safe ("DO_NOTHING wins  *)
(* when safe", selector.py).                                                *)
RequestsAreMinimumSufficient ==
  [][\A i \in DOMAIN requests' \ DOMAIN requests : \E r \in {requests'[i]} : WellDecided(r)]_vars

(* "if and only if trajectory verification detects VERIFIED_MISMATCH":       *)
(* whenever a reconsideration is triggered, perhaps windows after the        *)
(* verification it rests on and with another one before it, the windows      *)
(* received by then diverge from what was expected of the action in force.   *)
ReconsiderationIsDeserved ==
  [][\A i \in DOMAIN requests' \ DOMAIN requests :
       requests'[i].cause > 0 => Diverges(expectation, telemetry)]_vars

(* "Missing, unmeasured, or empty telemetry NEVER implies success"           *)
(* (closed_loop.py): a success does not become one through windows in which  *)
(* nothing was measured.                                                    *)
MissingNeverImpliesSuccess ==
  verdict # Missing /\ verifiedAt = latest.window.n /\ verdict.status = "VERIFIED_SUCCESS" =>
    ~Diverges(expectation, SelectSeq(Fed, LAMBDA w : ~w.empty))
=============================================================================
