------------------------- MODULE OutcomeVerification -------------------------
(***************************************************************************)
(* core/response_execution/verification.py: OutcomeVerifier.verify, one    *)
(* window against one metric's expectation, and verify_trajectory, the     *)
(* windows after an execution against the envelope it was approved under.  *)
(*                                                                         *)
(* Window n covers the seconds from 10 * n to 10 * (n + 1).  A ratio is    *)
(* compared by multiplying out, in thousandths.                            *)
(***************************************************************************)
EXTENDS SecurityAnalysis, SequencesExt

CONSTANTS
  TargetFeatures, \* target_features of an expectation, in order
  RiskLayer       \* verify_trajectory is given a risk engine and a bridge

ASSUME VerificationAssumption ==
  /\ TargetFeatures \in Seq({"bytes", "flows", "syn", "ports"})
  /\ RiskLayer \in BOOLEAN

\* measured: the features whose availability is AVAILABLE.
FeatureName == {"ports", "flows", "syn", "rst", "bytes", "size", "iatMean", "iatStd"}
Window == [n : Nat, features : Features, measured : SUBSET FeatureName, empty : BOOLEAN]

VerificationStatus == {"VERIFIED_SUCCESS", "VERIFIED_MISMATCH", "INSUFFICIENT_EVIDENCE"}

AtLeastOne(x) == IF x > 1 THEN x ELSE 1

-----------------------------------------------------------------------------
(* OutcomeVerifier.verify                                                  *)

Direction == {"DECREASE", "INCREASE", "BELOW_THRESHOLD"}

\* Mutant: a reduction is measured by its size.
MeetsExpectationEitherWay(direction, base, obs) ==
  CASE direction = "DECREASE" -> 100 * (base - obs) >= 5 * base \/ 100 * (obs - base) >= 5 * base
    [] OTHER -> 2 * obs <= base

\* min_reduction_ratio 0.10 less the tolerance of 0.05; no ratio of a baseline of
\* 0 is between 0 and that; the default threshold is half the baseline.
MeetsExpectation(direction, base, obs) ==
  CASE direction = "DECREASE" -> base > 0 /\ 100 * (base - obs) >= 5 * base
    [] direction = "INCREASE" -> IF base > 0 THEN 100 * (obs - base) >= 5 * base ELSE obs > 0
    [] direction = "BELOW_THRESHOLD" -> 2 * obs <= base

\* What was not measured, or belongs to nothing.
NoReading == -1

\* The deviation is signed, and 0 when there is none.
OutcomeVerificationResult ==
  [status : VerificationStatus, metric : FeatureName, baseline : Nat,
   observed : Nat \union {NoReading}, deviation : Int, window : Nat, recommended : BOOLEAN]

Unverified(metric, base, w) ==
  [status |-> "INSUFFICIENT_EVIDENCE", metric |-> metric, baseline |-> base,
   observed |-> NoReading, deviation |-> 0, window |-> w.n, recommended |-> FALSE]

Verify(metric, direction, base, w) ==
  LET obs == w.features[metric] met == MeetsExpectation(direction, base, obs)
  IN IF metric \notin w.measured \/ w.empty THEN Unverified(metric, base, w)
     ELSE [status |-> IF met THEN "VERIFIED_SUCCESS" ELSE "VERIFIED_MISMATCH",
           metric |-> metric, baseline |-> base, observed |-> obs, deviation |-> obs - base,
           window |-> w.n, recommended |-> ~met]

\* build_reconsideration_handoff: of a mismatch only.
NoHandoff == [made |-> FALSE]

OutcomeMismatchHandoff ==
  [made : {TRUE}, metric : FeatureName, window : Nat, baseline : Nat, observed : Nat]

Handoff(result) ==
  IF result.status # "VERIFIED_MISMATCH" THEN NoHandoff
  ELSE [made |-> TRUE, metric |-> result.metric, window |-> result.window,
        baseline |-> result.baseline, observed |-> result.observed]

-----------------------------------------------------------------------------
(* OutcomeVerifier.verify_trajectory                                       *)

\* What an execution is verified against: its window, the window its baseline is
\* read from, the ceiling of its DecisionResult and its time to live in seconds.
TrajectoryOutcomeExpectation ==
  [window : Nat, baseline : Window, ceiling : 0..RiskOne, ttl : Nat]

\* The windows at these positions, earliest first; list.sort keeps the order of
\* those that begin together.
EarliestFirst(s, positions) ==
  LET rank(k) ==
        Cardinality({i \in positions : s[i].n < s[k].n \/ (s[i].n = s[k].n /\ i <= k)})
  IN [j \in 1..Cardinality(positions) |-> s[CHOOSE k \in positions : rank(k) = j]]

\* Windows that begin after the execution's window ended.
Candidates(e, observed) ==
  EarliestFirst(observed, {i \in DOMAIN observed : observed[i].n > e.window})

\* A second of grace: the window ends while the action is still active.
WithinTtl(e, w) == 10 * (w.n + 1) <= 10 * (e.window + 1) + e.ttl + 1

MaxObservationSteps == 3
PersistenceRequired == 2

Evaluated(e, observed) ==
  LET candidates == Candidates(e, observed)
      active == EarliestFirst(candidates, {i \in DOMAIN candidates : WithinTtl(e, candidates[i])})
  IN SubSeq(active, 1, IF Len(active) < MaxObservationSteps THEN Len(active)
                       ELSE MaxObservationSteps)

\* The first target feature the first window measured, byte_rate when it
\* measured none.
PrimaryFeature(first) ==
  LET usable == {i \in DOMAIN TargetFeatures : TargetFeatures[i] \in first.measured}
  IN IF usable = {} THEN "bytes"
     ELSE TargetFeatures[CHOOSE i \in usable : \A j \in usable : i <= j]

\* base_tolerance 0.10, a quarter wider at each further horizon.
Tolerance(h) == 100 + 25 * (h - 1)

FeatureDiverges(base, obs, h) ==
  IF base > 0 THEN 1000 * (obs - base) > Tolerance(h) * AtLeastOne(base) ELSE obs > 1000

\* compute_risk_score of the window by itself, with its default trust of 0.85.
ObservedRisk(w) ==
  LET primary == PrimaryHypothesis(SignaturesOf(w.features, <<>>))
  IN ComputeRisk(primary.stage, 2 * primary.confidence, 85, "HIGH", 0)

Breaches(e, w) == RiskLayer /\ ObservedRisk(w) > e.ceiling

\* Of each evaluated window: what was observed, and whether it mismatches.
StepEvaluations(e, ev) ==
  LET feature == PrimaryFeature(ev[1])
      base == e.baseline.features[feature]
  IN [h \in DOMAIN ev |->
        [window |-> ev[h].n, feature |-> feature,
         base |-> base, observed |-> ev[h].features[feature],
         risk |-> IF RiskLayer THEN ObservedRisk(ev[h]) ELSE NoReading,
         mismatch |-> \/ Breaches(e, ev[h])
                      \/ FeatureDiverges(base, ev[h].features[feature], h)]]

\* Mutant: a streak survives a conforming window.
PersistenceTotal(steps) == Cardinality({h \in DOMAIN steps : steps[h].mismatch})

\* consecutive_mismatches after each window.
Consecutive(steps) ==
  LET run[h \in 0..Len(steps)] ==
        IF h = 0 THEN 0 ELSE IF steps[h].mismatch THEN run[h - 1] + 1 ELSE 0
  IN run

\* Mutant: the streak that is running, not the longest one.
PersistenceRunning(steps) == Consecutive(steps)[Len(steps)]

\* max_consecutive_mismatches.
Persistence(steps) == Max({Consecutive(steps)[h] : h \in 0..Len(steps)})

WindowIds(windows) == [i \in DOMAIN windows |-> windows[i].n]

\* A verdict, with the windows it rests on.
TrajectoryVerificationResult ==
  [status : VerificationStatus,
   steps : Seq([window : Nat, feature : FeatureName, base : Nat, observed : Nat,
                risk : Nat \union {NoReading}, mismatch : BOOLEAN]),
   maxRisk : Nat \union {NoReading}, breached : BOOLEAN,
   persistence : 0..MaxObservationSteps, windows : Seq(Nat)]

Insufficient(windows) ==
  [status |-> "INSUFFICIENT_EVIDENCE", steps |-> <<>>, maxRisk |-> NoReading,
   breached |-> FALSE, persistence |-> 0, windows |-> WindowIds(windows)]

\* Mutant: what is handed over is the last step.
LastStep(steps) == steps[Len(steps)]

FirstStep(steps) == steps[1]

HighestRisk(steps) == Max({NoReading} \union {steps[h].risk : h \in DOMAIN steps})

VerifyTrajectory(e, observed) ==
  LET candidates == Candidates(e, observed)
      ev == Evaluated(e, observed)
      steps == StepEvaluations(e, ev)
      breached == \E h \in DOMAIN ev : Breaches(e, ev[h])
  IN IF candidates = <<>> THEN Insufficient(<<>>)
     ELSE IF candidates[1].empty THEN Insufficient(<<candidates[1]>>)
     ELSE IF ev = <<>> THEN Insufficient(candidates)
     ELSE [status |-> IF breached \/ Persistence(steps) >= PersistenceRequired
                      THEN "VERIFIED_MISMATCH" ELSE "VERIFIED_SUCCESS",
           steps |-> steps, maxRisk |-> HighestRisk(steps), breached |-> breached,
           persistence |-> Persistence(steps), windows |-> WindowIds(ev)]

\* build_trajectory_reconsideration_handoff: the last window's name, the first
\* step's values.
TrajectoryHandoff(result) ==
  IF result.status # "VERIFIED_MISMATCH" THEN NoHandoff
  ELSE LET first == FirstStep(result.steps)
       IN [made |-> TRUE, metric |-> first.feature, window |-> Last(result.windows),
           baseline |-> first.base, observed |-> first.observed]

-----------------------------------------------------------------------------
(* ClosedLoopCoordinator: what a mismatch costs the trust in the forecast. *)

\* The deviation of a mismatching step from its baseline, in hundredths.
StepDeviation(steps, h) ==
  IF h \notin DOMAIN steps \/ ~steps[h].mismatch THEN 0
  ELSE LET d == steps[h].observed - steps[h].base
       IN (100 * (IF d < 0 THEN -d ELSE d)) \div AtLeastOne(steps[h].base)

\* A tenth of the mean deviation of the mismatching steps, which are three at
\* most: the hundredths it reaches, up to 0.30.
ForecastErrorPenalty(steps) ==
  LET wrong == Cardinality({h \in DOMAIN steps : steps[h].mismatch})
      total == StepDeviation(steps, 1) + StepDeviation(steps, 2) + StepDeviation(steps, 3)
      mean == IF wrong = 0 THEN 100 ELSE total \div wrong
  IN Cardinality({p \in 1..30 : 10 * p <= mean})

\* Mutant: trust is raised by the penalty.
AdjustedTrustUpwards(trust, steps) == trust + ForecastErrorPenalty(steps)

AdjustedTrust(trust, steps) ==
  IF trust - ForecastErrorPenalty(steps) < 5 THEN 5 ELSE trust - ForecastErrorPenalty(steps)
=============================================================================
