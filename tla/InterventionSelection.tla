------------------------ MODULE InterventionSelection ------------------------
(***************************************************************************)
(* simulation: what the program would recommend.  InterventionOperator and *)
(* InterventionSimulator roll a forecast forward as if an intervention had *)
(* been taken, DisruptionEstimator says what it would cost, and            *)
(* MinimumSufficientSelector picks the least disruptive one whose future   *)
(* risk stays inside the envelope.  All of it is stateless.                *)
(*                                                                         *)
(* Forecast deltas are even, so that halving them is exact.  A disruption  *)
(* is an integer in units of 1/120000; aggregate risks are sums of three   *)
(* horizons, which the code weighs 0.3333, 0.3333 and 0.3334.              *)
(***************************************************************************)
EXTENDS SecurityAnalysis, FiniteSets

InterventionType ==
  {"DO_NOTHING", "RATE_LIMIT_IP", "TEMPORARY_BLOCK_IP", "ISOLATE_SERVICE_ENDPOINT"}

ASSUME NoActionAssumption == Missing \notin InterventionType

\* What the caller knows of the target: its source is attributed, its port is
\* given.  InterventionParameters() knows neither.
Parameters == [attributed : BOOLEAN, port : BOOLEAN]
DefaultParameters == [attributed |-> FALSE, port |-> FALSE]

\* A topology as the estimator sees it: whether the target is one of its nodes,
\* and then its criticality and weighted blast impact, in hundredths.
Topology == [availability : TopologyAvailability, mapped : BOOLEAN,
             criticality : 0..100, impact : 0..100]

-----------------------------------------------------------------------------
(* InterventionOperator.apply                                              *)

Simulable(action, params) ==
  CASE action = "TEMPORARY_BLOCK_IP" -> params.attributed
    [] action = "ISOLATE_SERVICE_ENDPOINT" -> params.port
    [] OTHER -> TRUE

\* Percent of a predicted growth that is left; a predicted decline is kept.
Left(action, feature) ==
  CASE action = "RATE_LIMIT_IP" /\ feature \in {"flows", "bytes"} -> 50
    [] action = "TEMPORARY_BLOCK_IP" /\ feature \in {"flows", "bytes"} -> 0
    [] action = "ISOLATE_SERVICE_ENDPOINT" /\ feature = "ports" -> 50
    [] OTHER -> 100

Damped(delta, percent) == IF delta > 0 THEN (delta * percent) \div 100 ELSE delta

\* Mutant: an action that cannot be simulated is simulated all the same.
ApplyUnsupported(action, params, forecast) ==
  LET after(h) == [ports |-> Damped(forecast[h].ports, Left(action, "ports")),
                   flows |-> Damped(forecast[h].flows, Left(action, "flows")),
                   bytes |-> Damped(forecast[h].bytes, Left(action, "bytes"))]
  IN <<after(1), after(2), after(3)>>

Apply(action, params, forecast) ==
  IF ~Simulable(action, params) THEN forecast
  ELSE LET after(h) == [ports |-> Damped(forecast[h].ports, Left(action, "ports")),
                        flows |-> Damped(forecast[h].flows, Left(action, "flows")),
                        bytes |-> Damped(forecast[h].bytes, Left(action, "bytes"))]
       IN <<after(1), after(2), after(3)>>

\* UNSUPPORTED fails closed: the forecast is left as it is.
StatusOf(action, params) ==
  IF action = "DO_NOTHING" THEN "IDENTITY"
  ELSE IF Simulable(action, params) THEN "APPLIED" ELSE "UNSUPPORTED"

\* intervention_uncertainty, in hundredths.
Uncertainty(action, params) ==
  CASE StatusOf(action, params) = "IDENTITY" -> 0
    [] StatusOf(action, params) = "UNSUPPORTED" -> 100
    [] action = "RATE_LIMIT_IP" -> 20
    [] action = "TEMPORARY_BLOCK_IP" -> 35
    [] action = "ISOLATE_SERVICE_ENDPOINT" -> 40

-----------------------------------------------------------------------------
(* InterventionSimulator: the trajectories with and without it.            *)

\* _build_trajectory: each step predicts from the one before; nothing keeps a
\* predicted count from falling below zero.
Trajectory(f, forecast) ==
  LET sum[h \in {0} \union Horizons] ==
        IF h = 0 THEN [ports |-> f.ports, flows |-> f.flows, bytes |-> f.bytes]
        ELSE [ports |-> sum[h - 1].ports + forecast[h].ports,
              flows |-> sum[h - 1].flows + forecast[h].flows,
              bytes |-> sum[h - 1].bytes + forecast[h].bytes]
  IN [h \in Horizons |-> [delta |-> forecast[h], state |-> sum[h]]]

PeakRisk(risks) ==
  CHOOSE r \in {risks[h] : h \in DOMAIN risks} : \A h \in DOMAIN risks : risks[h] <= r

\* What simulate compares.
SimulationResult(action, f, forecast, params, trust, level) ==
  LET conditioned == Apply(action, params, forecast)
      base == RiskTrajectory(f, forecast, trust, level)
      risks == RiskTrajectory(f, conditioned, trust, level)
      delta == PeakRisk(risks) - PeakRisk(base)
  IN [status |-> StatusOf(action, params), uncertainty |-> Uncertainty(action, params),
      baseline |-> Trajectory(f, forecast), intervention |-> Trajectory(f, conditioned),
      riskDelta |-> delta, riskReduction |-> IF delta < 0 THEN -delta ELSE 0,
      horizonDeltas |-> [h \in DOMAIN base |-> risks[h] - base[h]]]

-----------------------------------------------------------------------------
(* DisruptionEstimator.estimate_disruption; Missing where it answers None. *)

Aggressiveness == [DO_NOTHING |-> 0, RATE_LIMIT_IP |-> 25, TEMPORARY_BLOCK_IP |-> 50,
                   ISOLATE_SERVICE_ENDPOINT |-> 85]

Unavailable(topology) == topology = Missing \/ topology.availability = "UNAVAILABLE"

\* direct_cost + cascade_cost, in hundredths.
Cost(action, topology) ==
  CASE ~Unavailable(topology) /\ topology.mapped -> topology.criticality + topology.impact
    [] ~Unavailable(topology) /\ ~topology.mapped /\ action = "ISOLATE_SERVICE_ENDPOINT" -> 110
    [] OTHER -> IF action = "TEMPORARY_BLOCK_IP" THEN 40 ELSE 20

\* Mutant: without a topology an isolation costs what an address would.
DisruptionFabricated(action, topology) == Aggressiveness[action] * Cost(action, topology)

Disruption(action, topology) ==
  IF action = "ISOLATE_SERVICE_ENDPOINT" /\ Unavailable(topology) THEN Missing
  ELSE Aggressiveness[action] * Cost(action, topology)

-----------------------------------------------------------------------------
(* MinimumSufficientSelector.select                                        *)

\* RiskConstraintParameters(): target_risk 0.40 over the horizons, and a
\* peak_risk_ceiling of 0.60.
TargetRisk == 3 * RiskHundredths(40)
PeakRiskCeiling == RiskHundredths(60)

\* InterventionSimulator.simulate and the constraints: f are the window's
\* features, trust and level those of the trust assessment.
Evaluation(action, f, forecast, params, topology, trust, level) ==
  LET risks == RiskTrajectory(f, Apply(action, params, forecast), trust, level)
      aggregate == risks[1] + risks[2] + risks[3]
      peak == CHOOSE r \in {risks[h] : h \in Horizons} : \A h \in Horizons : risks[h] <= r
  IN [supported |-> Simulable(action, params), aggregate |-> aggregate, peak |-> peak,
      sufficient |-> /\ aggregate <= TargetRisk /\ peak <= PeakRiskCeiling
                     /\ Simulable(action, params),
      disruption |-> Disruption(action, topology)]

Evaluations(f, forecast, params, topology, trust, level) ==
  LET of(action) == Evaluation(action, f, forecast, params, topology, trust, level)
  IN [DO_NOTHING |-> of("DO_NOTHING"), RATE_LIMIT_IP |-> of("RATE_LIMIT_IP"),
      TEMPORARY_BLOCK_IP |-> of("TEMPORARY_BLOCK_IP"),
      ISOLATE_SERVICE_ENDPOINT |-> of("ISOLATE_SERVICE_ENDPOINT")]

SufficientCandidates(evals) ==
  {a \in InterventionType : evals[a].sufficient /\ evals[a].disruption # Missing}

CanonicalOrder == [DO_NOTHING |-> 0, RATE_LIMIT_IP |-> 1, TEMPORARY_BLOCK_IP |-> 2,
                   ISOLATE_SERVICE_ENDPOINT |-> 3]

\* Mutant: the lowest risk first.
PrecedesByRisk(evals, a, b) ==
  \/ evals[a].aggregate < evals[b].aggregate
  \/ evals[a].aggregate = evals[b].aggregate /\ CanonicalOrder[a] <= CanonicalOrder[b]

\* _sort_key: disruption, aggregate risk, peak risk, canonical order.
Precedes(evals, a, b) ==
  LET x == evals[a] y == evals[b] IN
  \/ x.disruption < y.disruption
  \/ x.disruption = y.disruption /\ x.aggregate < y.aggregate
  \/ x.disruption = y.disruption /\ x.aggregate = y.aggregate /\ x.peak < y.peak
  \/ /\ x.disruption = y.disruption /\ x.aggregate = y.aggregate /\ x.peak = y.peak
     /\ CanonicalOrder[a] <= CanonicalOrder[b]

\* For human review when nothing suffices.
LowestRiskCandidate(evals) ==
  LET evaluable == {a \in InterventionType : evals[a].supported} IN
  CHOOSE a \in evaluable : \A b \in evaluable :
    \/ evals[a].aggregate < evals[b].aggregate
    \/ evals[a].aggregate = evals[b].aggregate /\ CanonicalOrder[a] <= CanonicalOrder[b]

\* The DecisionResult; action is Missing unless its status is RECOMMENDED.
Decision(evals, topology) ==
  LET sufficient == SufficientCandidates(evals)
      unresolved == {a \in InterventionType : evals[a].disruption = Missing}
  IN [action |-> IF sufficient = {} THEN Missing
                 ELSE CHOOSE a \in sufficient : \A b \in sufficient : Precedes(evals, a, b),
      status |-> IF sufficient # {} THEN "RECOMMENDED"
                 ELSE IF unresolved # {} /\ Unavailable(topology) THEN "UNRESOLVED"
                 ELSE "NO_SUFFICIENT_ACTION",
      lowestRisk |-> LowestRiskCandidate(evals)]

Select(f, forecast, params, topology, trust, level) ==
  Decision(Evaluations(f, forecast, params, topology, trust, level), topology)

RecommendationStatus == {"RECOMMENDED", "NO_SUFFICIENT_ACTION", "UNRESOLVED"}
DecisionResult == [action : InterventionType \union {Missing}, status : RecommendationStatus,
                   lowestRisk : InterventionType]

-----------------------------------------------------------------------------
(* What the selector's documentation says of a decision.                   *)

(* "Sufficiency first, disruption second": what is recommended keeps the     *)
(* simulated risk inside the envelope, and no sufficient intervention whose  *)
(* disruption is known is less disruptive.                                  *)
IsMinimumSufficient(d, evals) ==
  /\ d.action # Missing <=> SufficientCandidates(evals) # {}
  /\ d.action # Missing =>
       /\ evals[d.action].sufficient
       /\ \A a \in InterventionType : evals[a].sufficient /\ evals[a].disruption # Missing =>
            evals[d.action].disruption <= evals[a].disruption

(* "DO_NOTHING wins when safe": where it is sufficient nothing else is       *)
(* recommended.                                                             *)
DoNothingWins(d, evals) == evals["DO_NOTHING"].sufficient => d.action = "DO_NOTHING"

\* The simulated future of an intervention is nowhere worse.
NeverWorse(action, f, forecast, params, trust, level) ==
  \E r \in {SimulationResult(action, f, forecast, params, trust, level)} :
    \A h \in DOMAIN r.horizonDeltas : r.horizonDeltas[h] <= 0

\* The stage the forecast is read as.
ReadAs(f, forecast) == PrimaryHypothesis(SignaturesOf(f, forecast)).stage

(* "Comparative trajectory evaluation": an intervention makes the simulated  *)
(* future nowhere worse as long as it is read as the same attack, changes    *)
(* nothing where it cannot be simulated, and takes off growth only.          *)
ComparesFairly(action, f, forecast, params, trust, level) ==
  /\ ReadAs(f, Apply(action, params, forecast)) = ReadAs(f, forecast) =>
       NeverWorse(action, f, forecast, params, trust, level)
  /\ \E r \in {SimulationResult(action, f, forecast, params, trust, level)} :
       /\ r.status # "APPLIED" => r.intervention = r.baseline /\ r.riskDelta = 0
       /\ \A h \in Horizons : \A x \in {"ports", "flows", "bytes"} :
            /\ r.intervention[h].state[x] <= r.baseline[h].state[x]
            /\ forecast[h][x] <= 0 => r.intervention[h].delta[x] = forecast[h][x]

(* contracts.py, Forecast.validate_against: "state prediction must equal     *)
(* state plus delta", of the window a forecast names as its source.          *)
ForecastsValidate(f, forecast) ==
  \A h \in Horizons : \A x \in {"ports", "flows", "bytes"} :
    Trajectory(f, forecast)[h].state[x] = f[x] + forecast[h][x]
=============================================================================
