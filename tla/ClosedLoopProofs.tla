--------------------------- MODULE ClosedLoopProofs ---------------------------
(***************************************************************************)
(* Theorems about ClosedLoop and the operators it is built from: what the  *)
(* selector decides for every window and forecast, and what the loop does  *)
(* with it for every number of windows and executions: it asks before it   *)
(* acts, and its verdicts are those the windows deserve.                   *)
(***************************************************************************)
EXTENDS ClosedLoop, FiniteSetTheorems, SequenceTheorems, TLAPS

-----------------------------------------------------------------------------
(* Least elements.                                                         *)

(* A nonempty set of at most four elements has a least one under a total    *)
(* transitive order, so the selector's sort and the bridge's choice of a    *)
(* primary stage are defined.                                              *)
LEMMA LeastExists ==
  ASSUME NEW a, NEW b, NEW c, NEW d, NEW S \in SUBSET {a, b, c, d}, S # {}, NEW R,
         \A x, y \in S : <<x, y>> \in R \/ <<y, x>> \in R,
         \A x, y, z \in S : <<x, y>> \in R /\ <<y, z>> \in R => <<x, z>> \in R
  PROVE  \E m \in S : \A x \in S : <<m, x>> \in R
<1> DEFINE Least(T) == T # {} => \E m \in T : \A x \in T : <<m, x>> \in R
<1>1. ASSUME NEW T \in SUBSET S, NEW e \in S, Least(T)
      PROVE  Least(T \union {e})
  <2>1. CASE T = {}
    BY <2>1
  <2>2. CASE T # {}
    <3>1. PICK m \in T : \A x \in T : <<m, x>> \in R
      BY <1>1, <2>2
    <3>2. CASE <<m, e>> \in R
      BY <3>1, <3>2
    <3>3. CASE <<e, m>> \in R
      BY <3>1, <3>3
    <3> QED  BY <3>2, <3>3
  <2> QED  BY <2>1, <2>2
<1>2. Least({})
  OBVIOUS
<1> DEFINE A == S \intersect {a}
           B == S \intersect {a, b}
           C == S \intersect {a, b, c}
<1>3. ASSUME NEW T \in SUBSET S, NEW e, Least(T) PROVE Least(T \union (S \intersect {e}))
  <2>1. CASE e \in S
    <3>1. S \intersect {e} = {e}
      BY <2>1
    <3> QED  BY <1>1, <1>3, <2>1, <3>1
  <2>2. CASE e \notin S
    <3>1. T \union (S \intersect {e}) = T
      BY <2>2
    <3> QED  BY <1>3, <3>1
  <2> QED  BY <2>1, <2>2
<1> HIDE DEF Least
<1>4. Least(A)
  <2>1. A = {} \union (S \intersect {a})
    OBVIOUS
  <2> QED  BY <1>2, <1>3, <2>1
<1>5. Least(B)
  <2>1. B = A \union (S \intersect {b})
    OBVIOUS
  <2> QED  BY <1>3, <1>4, <2>1
<1>6. Least(C)
  <2>1. C = B \union (S \intersect {c})
    OBVIOUS
  <2> QED  BY <1>3, <1>5, <2>1
<1>7. Least(S)
  <2>1. S = C \union (S \intersect {d})
    OBVIOUS
  <2> QED  BY <1>3, <1>6, <2>1
<1> QED  BY <1>7 DEF Least

-----------------------------------------------------------------------------
(* Types of what the analysis computes.                                    *)

LEMMA ConfidenceInt ==
  ASSUME NEW t \in SignatureType, NEW sig
  PROVE  Confidence(t, sig) \in Int
BY SMT DEF Confidence, SignatureType, Stage, Rising, Strong, Weak

(* The primary hypothesis is one of the stages, with a confidence.         *)
LEMMA PrimaryIsAStage ==
  ASSUME NEW sigs
  PROVE  PrimaryHypothesis(sigs).stage \in Stage /\ PrimaryHypothesis(sigs).confidence \in Int
<1>1. CASE Shown(sigs) = {}
  BY <1>1 DEF PrimaryHypothesis, Stage
<1>2. CASE Shown(sigs) # {}
  <2> DEFINE conf(t) == Confidence(t, sigs[t])
             Before(t, u) == \/ conf(u) < conf(t)
                             \/ conf(u) = conf(t) /\ StageOrder[t] <= StageOrder[u]
             R == {p \in SignatureType \X SignatureType : Before(p[1], p[2])}
             first == CHOOSE t \in Shown(sigs) : \A u \in Shown(sigs) : Before(t, u)
  <2>1. Shown(sigs) \subseteq SignatureType
    BY DEF Shown
  <2>2. Shown(sigs) \in SUBSET {"Reconnaissance", "DenialOfService", "Exfiltration",
                                "InitialAccess"}
    BY DEF Shown, SignatureType, Stage
  <2>3. \A t \in SignatureType : conf(t) \in Int /\ StageOrder[t] \in Int
    BY ConfidenceInt DEF StageOrder, SignatureType, Stage
  <2> HIDE DEF conf
  <2>4. \A x, y \in Shown(sigs) : <<x, y>> \in R \/ <<y, x>> \in R
    BY <2>1, <2>3
  <2>5. \A x, y, z \in Shown(sigs) : <<x, y>> \in R /\ <<y, z>> \in R => <<x, z>> \in R
    BY <2>1, <2>3
  <2>6. \E m \in Shown(sigs) : \A x \in Shown(sigs) : <<m, x>> \in R
    <3> HIDE DEF R
    <3> QED  BY <1>2, <2>2, <2>4, <2>5, LeastExists
  <2>7. first \in Shown(sigs)
    BY <2>6
  <2>8. PrimaryHypothesis(sigs) = [stage |-> first, confidence |-> conf(first)]
    BY <1>2 DEF PrimaryHypothesis, conf
  <2> HIDE DEF first
  <2> QED  BY <2>1, <2>3, <2>7, <2>8 DEF SignatureType
<1> QED  BY <1>1, <1>2

LEMMA RiskInt ==
  ASSUME NEW stage \in Stage, NEW halves \in Int, NEW trust \in Int, NEW level,
         NEW h \in 0..3
  PROVE  ComputeRisk(stage, halves, trust, level, h) \in Int
<1>1. HorizonTrust(trust, h) \in Int
  BY DEF HorizonTrust, Clipped
<1>2. Retained(h) \in Int
  BY DEF Retained
<1>3. Severity[stage] \in Int
  BY DEF Severity, Stage
<1> DEFINE twentieths == IF Distrusted(level) \/ HorizonTrust(trust, h) < 40 THEN 13 ELSE 20
           score == Severity[stage] * halves * HorizonTrust(trust, h) * Retained(h) * twentieths
<1>4. twentieths \in Int
  OBVIOUS
<1> HIDE DEF twentieths
<1>5. score \in Int
  <2>1. Severity[stage] * halves \in Int
    BY <1>3
  <2>2. Severity[stage] * halves * HorizonTrust(trust, h) \in Int
    BY <1>1, <2>1
  <2> QED  BY <1>2, <1>4, <2>2
<1> HIDE DEF score
<1>6. RiskHundredths(18) \in Int /\ RiskOne \in Int
  BY DEF RiskHundredths, RiskOne
<1>7. ComputeRisk(stage, halves, trust, level, h) =
        LET cap == IF stage = "Unknown" THEN RiskHundredths(18) ELSE RiskOne
        IN IF score > cap THEN cap ELSE score
  BY DEF ComputeRisk, score, twentieths
<1> QED  BY <1>5, <1>6, <1>7

(* Every horizon of a risk trajectory is a number, whatever the features and *)
(* the forecast are.                                                        *)
LEMMA TrajectoryInt ==
  ASSUME NEW f, NEW forecast, NEW trust \in Int, NEW level, NEW h \in Horizons
  PROVE  RiskTrajectory(f, forecast, trust, level)[h] \in Int
<1> DEFINE primary == PrimaryHypothesis(SignaturesOf(f, forecast))
<1>1. primary.stage \in Stage /\ primary.confidence \in Int
  BY PrimaryIsAStage
<1>2. RiskTrajectory(f, forecast, trust, level)[h] =
        HorizonRisk(primary, f, forecast, trust, level, h)
  BY DEF RiskTrajectory, Horizons
<1> HIDE DEF primary
<1>3. h \in 0..3 /\ 2 * primary.confidence \in Int
      /\ (IF primary.confidence < 60 THEN 60 ELSE primary.confidence) \in Int
  BY <1>1 DEF Horizons
<1>4. HorizonRisk(primary, f, forecast, trust, level, h) \in Int
  BY <1>1, <1>3, RiskInt DEF HorizonRisk
<1> QED  BY <1>2, <1>4
-----------------------------------------------------------------------------
(* The selector.                                                           *)

LEMMA EvaluationTyped ==
  ASSUME NEW action \in InterventionType, NEW f, NEW forecast, NEW params, NEW topology,
         NEW trust \in Int, NEW level
  PROVE  LET x == Evaluation(action, f, forecast, params, topology, trust, level)
         IN /\ x.aggregate \in Int /\ x.peak \in Int
            /\ x.disruption = Disruption(action, topology)
            /\ x.sufficient => Simulable(action, params)
            /\ x.supported = Simulable(action, params)
<1> DEFINE risks == RiskTrajectory(f, Apply(action, params, forecast), trust, level)
           aggregate == risks[1] + risks[2] + risks[3]
           peak == CHOOSE r \in {risks[h] : h \in Horizons} : \A h \in Horizons : risks[h] <= r
<1>1. \A h \in Horizons : risks[h] \in Int
  BY TrajectoryInt
<1> HIDE DEF risks
<1>2. aggregate \in Int
  BY <1>1 DEF Horizons
<1>3. peak \in Int
  <2>1. \E g \in Horizons : \A h \in Horizons : risks[h] <= risks[g]
    <3>1. risks[1] \in Int /\ risks[2] \in Int /\ risks[3] \in Int
      BY <1>1 DEF Horizons
    <3>2. Horizons = {1, 2, 3}
      BY DEF Horizons
    <3> QED  BY <3>1, <3>2
  <2>2. peak \in {risks[h] : h \in Horizons}
    BY <2>1
  <2> QED  BY <1>1, <2>2
<1> HIDE DEF aggregate, peak
<1> DEFINE ok == aggregate <= TargetRisk /\ peak <= PeakRiskCeiling /\ Simulable(action, params)
<1>4. Evaluation(action, f, forecast, params, topology, trust, level) =
        [supported |-> Simulable(action, params), aggregate |-> aggregate, peak |-> peak,
         sufficient |-> ok, disruption |-> Disruption(action, topology)]
  BY DEF Evaluation, aggregate, peak, risks
<1>5. ok => Simulable(action, params)
  OBVIOUS
<1> HIDE DEF ok
<1> QED  BY <1>2, <1>3, <1>4, <1>5

LEMMA DisruptionInt ==
  ASSUME NEW action \in InterventionType, NEW topology \in Topology \union {Missing},
         Disruption(action, topology) # Missing
  PROVE  /\ Disruption(action, topology) = Aggressiveness[action] * Cost(action, topology)
         /\ Cost(action, topology) \in Nat
         /\ Disruption(action, topology) \in Int
<1>1. Cost(action, topology) \in Nat
  <2>1. CASE ~Unavailable(topology) /\ topology.mapped
    <3>1. topology \in Topology
      BY <2>1 DEF Unavailable
    <3>2. topology.criticality \in Nat /\ topology.impact \in Nat
      BY <3>1 DEF Topology
    <3> QED  BY <2>1, <3>2 DEF Cost
  <2>2. CASE ~Unavailable(topology) /\ ~topology.mapped /\ action = "ISOLATE_SERVICE_ENDPOINT"
    BY <2>2 DEF Cost
  <2>3. CASE /\ ~(~Unavailable(topology) /\ topology.mapped)
             /\ ~(~Unavailable(topology) /\ ~topology.mapped
                  /\ action = "ISOLATE_SERVICE_ENDPOINT")
    BY <2>3 DEF Cost
  <2> QED  BY <2>1, <2>2, <2>3
<1>2. Aggressiveness[action] \in Nat
  BY DEF Aggressiveness, InterventionType
<1>3. Aggressiveness[action] * Cost(action, topology) \in Int
  BY <1>1, <1>2
<1> QED  BY <1>1, <1>3 DEF Disruption

(* What a table of evaluations must be for the selector to decide on it: the *)
(* disruptions of those that have one, and the risks, are numbers.          *)
Comparable(evals) ==
  \A a \in InterventionType :
    /\ evals[a].aggregate \in Int /\ evals[a].peak \in Int
    /\ evals[a].disruption # Missing => evals[a].disruption \in Int

LEMMA EvaluationsAre ==
  ASSUME NEW f, NEW forecast, NEW params, NEW topology, NEW trust, NEW level,
         NEW a \in InterventionType
  PROVE  Evaluations(f, forecast, params, topology, trust, level)[a] =
           Evaluation(a, f, forecast, params, topology, trust, level)
BY DEF Evaluations, InterventionType

LEMMA EvaluationsComparable ==
  ASSUME NEW f, NEW forecast, NEW params, NEW topology \in Topology \union {Missing},
         NEW trust \in Int, NEW level
  PROVE  Comparable(Evaluations(f, forecast, params, topology, trust, level))
<1> SUFFICES ASSUME NEW a \in InterventionType
             PROVE  LET x == Evaluation(a, f, forecast, params, topology, trust, level)
                    IN /\ x.aggregate \in Int /\ x.peak \in Int
                       /\ x.disruption # Missing => x.disruption \in Int
  BY EvaluationsAre DEF Comparable
<1> QED  BY EvaluationTyped, DisruptionInt

(* The selector's choice among the sufficient candidates is one of them, and *)
(* precedes the others.                                                     *)
LEMMA ChoiceExists ==
  ASSUME NEW evals, Comparable(evals), SufficientCandidates(evals) # {}
  PROVE  \E a \in SufficientCandidates(evals) :
           \A b \in SufficientCandidates(evals) : Precedes(evals, a, b)
<1> DEFINE S == SufficientCandidates(evals)
           R == {p \in InterventionType \X InterventionType : Precedes(evals, p[1], p[2])}
<1>1. S \in SUBSET {"DO_NOTHING", "RATE_LIMIT_IP", "TEMPORARY_BLOCK_IP",
                    "ISOLATE_SERVICE_ENDPOINT"} /\ S \subseteq InterventionType
  BY DEF SufficientCandidates, InterventionType
<1>2. \A a \in S : /\ evals[a].aggregate \in Int /\ evals[a].peak \in Int
                   /\ evals[a].disruption \in Int /\ CanonicalOrder[a] \in Int
  BY DEF SufficientCandidates, Comparable, CanonicalOrder, InterventionType
<1> HIDE DEF S
<1>3. \A x, y \in S : Precedes(evals, x, y) \/ Precedes(evals, y, x)
  BY <1>2 DEF Precedes
<1>4. ASSUME NEW x \in S, NEW y \in S, NEW z \in S,
             Precedes(evals, x, y), Precedes(evals, y, z)
      PROVE  Precedes(evals, x, z)
  BY <1>2, <1>4, SMTT(30) DEF Precedes
<1>5. \A x, y \in S : <<x, y>> \in R <=> Precedes(evals, x, y)
  BY <1>1
<1> HIDE DEF R
<1>6. \E m \in S : \A x \in S : <<m, x>> \in R
  <2>1. \A x, y \in S : <<x, y>> \in R \/ <<y, x>> \in R
    BY <1>3, <1>5
  <2>2. \A x, y, z \in S : <<x, y>> \in R /\ <<y, z>> \in R => <<x, z>> \in R
    BY <1>4, <1>5
  <2>3. S # {}
    BY DEF S
  <2> QED  BY <1>1, <2>1, <2>2, <2>3, LeastExists
<1> QED  BY <1>5, <1>6 DEF S

LEMMA DecisionAction ==
  ASSUME NEW evals, Comparable(evals), NEW topology
  PROVE  LET act == Decision(evals, topology).action IN
         /\ SufficientCandidates(evals) = {} => act = Missing
         /\ SufficientCandidates(evals) # {} =>
              /\ act \in SufficientCandidates(evals)
              /\ \A b \in SufficientCandidates(evals) : Precedes(evals, act, b)
<1>1. CASE SufficientCandidates(evals) = {}
  BY <1>1 DEF Decision
<1>2. CASE SufficientCandidates(evals) # {}
  <2>1. Decision(evals, topology).action =
          CHOOSE a \in SufficientCandidates(evals) :
            \A b \in SufficientCandidates(evals) : Precedes(evals, a, b)
    BY <1>2 DEF Decision
  <2> QED  BY <1>2, <2>1, ChoiceExists
<1> QED  BY <1>1, <1>2
(* The selector's documentation, for every table of evaluations: a decision  *)
(* recommends a sufficient intervention no other one undercuts, and          *)
(* recommends something whenever something is sufficient.                   *)
THEOREM DecisionIsMinimumSufficient ==
  ASSUME NEW evals, Comparable(evals), NEW topology, NEW d,
         d.action = Decision(evals, topology).action
  PROVE  IsMinimumSufficient(d, evals)
<1>1. CASE SufficientCandidates(evals) = {}
  BY <1>1, DecisionAction DEF IsMinimumSufficient
<1>2. CASE SufficientCandidates(evals) # {}
  <2>1. d.action \in SufficientCandidates(evals)
        /\ \A b \in SufficientCandidates(evals) : Precedes(evals, d.action, b)
    BY <1>2, DecisionAction
  <2>2. d.action # Missing /\ d.action \in InterventionType /\ evals[d.action].sufficient
    BY <2>1, NoActionAssumption DEF SufficientCandidates
  <2>3. ASSUME NEW a \in InterventionType, evals[a].sufficient, evals[a].disruption # Missing
        PROVE  evals[d.action].disruption <= evals[a].disruption
    <3>1. Precedes(evals, d.action, a)
      BY <2>1, <2>3 DEF SufficientCandidates
    <3>2. evals[a].disruption \in Int /\ evals[d.action].disruption \in Int
      BY <2>1, <2>3 DEF SufficientCandidates, Comparable
    <3> QED  BY <3>1, <3>2 DEF Precedes
  <2> QED  BY <1>2, <2>2, <2>3 DEF IsMinimumSufficient
<1> QED  BY <1>1, <1>2

(* "DO_NOTHING wins when safe" holds where the target costs something: for a *)
(* node of no criticality that nothing depends on, every intervention is as  *)
(* free as doing nothing, and the lower risk decides.                       *)
THEOREM DoNothingWinsAtACost ==
  ASSUME NEW f, NEW forecast, NEW params, NEW topology \in Topology \union {Missing},
         NEW trust \in Int, NEW level, NEW d,
         \A a \in InterventionType : Cost(a, topology) > 0,
         d.action = Select(f, forecast, params, topology, trust, level).action
  PROVE  DoNothingWins(d, Evaluations(f, forecast, params, topology, trust, level))
<1> DEFINE evals == Evaluations(f, forecast, params, topology, trust, level)
<1>1. Comparable(evals)
  BY EvaluationsComparable
<1>2. \A a \in InterventionType : evals[a].disruption = Disruption(a, topology)
  BY EvaluationsAre, EvaluationTyped
<1>3. d.action = Decision(evals, topology).action
  BY DEF Select
<1> HIDE DEF evals
<1>4. "DO_NOTHING" \in InterventionType
  BY DEF InterventionType
<1>5. Disruption("DO_NOTHING", topology) = 0
  <2>1. Disruption("DO_NOTHING", topology) = 0 * Cost("DO_NOTHING", topology)
    BY DEF Disruption, Aggressiveness
  <2>2. CASE Disruption("DO_NOTHING", topology) = Missing
    <3>1. Cost("DO_NOTHING", topology) \in Int
      <4>1. CASE Unavailable(topology)
        BY <4>1 DEF Cost
      <4>2. CASE ~Unavailable(topology)
        <5>1. topology \in Topology
          BY <4>2 DEF Unavailable
        <5> QED  BY <4>2, <5>1 DEF Cost, Topology
      <4> QED  BY <4>1, <4>2
    <3> QED  BY <2>1, <3>1
  <2>3. CASE Disruption("DO_NOTHING", topology) # Missing
    BY <1>4, <2>1, <2>3, DisruptionInt
  <2> QED  BY <2>2, <2>3
<1> SUFFICES ASSUME evals["DO_NOTHING"].sufficient
             PROVE  d.action = "DO_NOTHING"
  BY DEF DoNothingWins, evals
<1>6. "DO_NOTHING" \in SufficientCandidates(evals)
  BY <1>2, <1>4, <1>5, MissingAssumption DEF SufficientCandidates
<1>7. /\ d.action \in InterventionType
      /\ evals[d.action].disruption # Missing
      /\ Precedes(evals, d.action, "DO_NOTHING")
  BY <1>1, <1>3, <1>6, DecisionAction DEF SufficientCandidates
<1>8. Disruption(d.action, topology) <= 0
  <2>1. evals[d.action].disruption = Disruption(d.action, topology)
        /\ evals["DO_NOTHING"].disruption = 0
    BY <1>2, <1>4, <1>5, <1>7
  <2>2. Disruption(d.action, topology) \in Int
    BY <1>7, <2>1, DisruptionInt
  <2> QED  BY <1>7, <2>1, <2>2 DEF Precedes
<1>9. Disruption(d.action, topology) = Aggressiveness[d.action] * Cost(d.action, topology)
      /\ Cost(d.action, topology) \in Nat /\ Cost(d.action, topology) > 0
  <2>1. Disruption(d.action, topology) # Missing
    BY <1>2, <1>7
  <2> QED  BY <1>7, <2>1, DisruptionInt
<1>10. CASE d.action # "DO_NOTHING"
  <2>1. Aggressiveness[d.action] \in {25, 50, 85}
    BY <1>7, <1>10 DEF Aggressiveness, InterventionType
  <2> QED  BY <1>8, <1>9, <2>1
<1> QED  BY <1>10

(* Knowing neither source, port nor topology, the selector never recommends  *)
(* to block or to isolate.                                                  *)
LEMMA BlindSelection ==
  ASSUME NEW f, NEW forecast, NEW trust \in Int, NEW level
  PROVE  Select(f, forecast, DefaultParameters, Missing, trust, level).action
           \in {"DO_NOTHING", "RATE_LIMIT_IP", Missing}
<1> DEFINE evals == Evaluations(f, forecast, DefaultParameters, Missing, trust, level)
<1>1. Comparable(evals)
  BY EvaluationsComparable
<1>2. \A a \in InterventionType : evals[a].sufficient => Simulable(a, DefaultParameters)
  BY EvaluationsAre, EvaluationTyped
<1> HIDE DEF evals
<1>3. SufficientCandidates(evals) \subseteq {"DO_NOTHING", "RATE_LIMIT_IP"}
  <2>1. ~DefaultParameters.attributed /\ ~DefaultParameters.port
    BY DEF DefaultParameters
  <2>2. ~Simulable("TEMPORARY_BLOCK_IP", DefaultParameters)
        /\ ~Simulable("ISOLATE_SERVICE_ENDPOINT", DefaultParameters)
    BY <2>1 DEF Simulable
  <2>3. ~evals["TEMPORARY_BLOCK_IP"].sufficient
        /\ ~evals["ISOLATE_SERVICE_ENDPOINT"].sufficient
    BY <1>2, <2>2 DEF InterventionType
  <2> QED  BY <2>3 DEF SufficientCandidates, InterventionType
<1>4. Decision(evals, Missing).action \in SufficientCandidates(evals) \union {Missing}
  BY <1>1, DecisionAction
<1> QED  BY <1>3, <1>4 DEF Select, evals

(* What the selector recommends is an intervention, if anything.            *)
LEMMA SelectTyped ==
  ASSUME NEW f, NEW forecast, NEW params, NEW topology \in Topology \union {Missing},
         NEW trust \in Int, NEW level
  PROVE  Select(f, forecast, params, topology, trust, level).action
           \in InterventionType \union {Missing}
<1> DEFINE evals == Evaluations(f, forecast, params, topology, trust, level)
<1>1. Comparable(evals)
  BY EvaluationsComparable
<1> HIDE DEF evals
<1>2. Decision(evals, topology).action \in InterventionType \union {Missing}
  BY <1>1, DecisionAction DEF SufficientCandidates
<1> QED  BY <1>2 DEF Select, evals

(* A mismatch never raises the trust, whatever its steps are.               *)
LEMMA TrustFalls ==
  ASSUME NEW trust \in 5..95, NEW steps
  PROVE  AdjustedTrust(trust, steps) \in 5..trust
<1>1. ForecastErrorPenalty(steps) \in Nat
  <2>1. \A mean : Cardinality({p \in 1..30 : 10 * p <= mean}) \in Nat
    <3> TAKE mean
    <3>1. IsFiniteSet(1..30)
      <4>1. \A m, n \in Int : IsFiniteSet(m..n)
        BY FS_Interval
      <4>2. 1 \in Int /\ 30 \in Int
        OBVIOUS
      <4> QED  BY <4>1, <4>2, Zenon
    <3>2. IsFiniteSet({p \in 1..30 : 10 * p <= mean})
      BY <3>1, FS_Subset
    <3> QED  BY <3>2, FS_CardinalityType
  <2> QED  BY <2>1 DEF ForecastErrorPenalty
<1> QED  BY <1>1 DEF AdjustedTrust
-----------------------------------------------------------------------------
(* The loop.                                                               *)

LoopTypes ==
  /\ context \in Contexts
  /\ latest.window.n \in Nat
  /\ requests \in Seq(ApprovalRequest)
  /\ executions \in Seq([request : Nat \ {0}, window : Nat])

(* Before the first execution there is one request at most and nothing to    *)
(* verify.                                                                  *)
NothingBefore ==
  executions = <<>> => Len(requests) <= 1 /\ expectation = Missing /\ verdict = Missing

(* The first request is the only one without a cause, and no request is      *)
(* caused by an execution that has not happened.                            *)
Causes ==
  \A i \in DOMAIN requests :
    /\ requests[i].cause <= Len(executions)
    /\ requests[i].cause = 0 <=> i = 1

(* What was executed is a request that says so, caused by an earlier         *)
(* execution, and the first request was executed first.                     *)
Executed ==
  \A j \in DOMAIN executions :
    /\ executions[j].request \in DOMAIN requests
    /\ requests[executions[j].request].state = "EXECUTED"
    /\ requests[executions[j].request].cause < j
    /\ executions[j].request = 1 <=> j = 1

Distinct ==
  \A i, j \in DOMAIN executions : executions[i].request = executions[j].request => i = j

Cautious ==
  \A i \in DOMAIN requests :
    requests[i].cause > 0 =>
      /\ requests[i].trust <= context.trust
      /\ requests[i].action \in {"DO_NOTHING", "RATE_LIMIT_IP", Missing}

LoopInv == LoopTypes /\ NothingBefore /\ Causes /\ Executed /\ Distinct /\ Cautious

LEMMA LoopInit == Init => LoopInv
<1> SUFFICES ASSUME Init PROVE LoopInv
  OBVIOUS
<1>1. latest.window.n = 0
  BY DEF Init, WindowOf
<1>2. /\ requests = <<>> /\ executions = <<>> /\ context \in Contexts
      /\ expectation = Missing /\ verdict = Missing
  BY DEF Init
<1>3. LoopTypes
  BY <1>1, <1>2 DEF LoopTypes
<1> QED  BY <1>2, <1>3 DEF LoopInv, NothingBefore, Causes, Executed, Distinct, Cautious

LEMMA ContextTyped ==
  ASSUME NEW c \in Contexts
  PROVE  c.trust \in 5..95 /\ c.trust \in Int /\ c.topology \in Topology \union {Missing}
BY ClosedLoopAssumption

(* Setting the state of one request changes nothing else.                   *)
LEMMA StateSet ==
  ASSUME LoopTypes, NEW i \in DOMAIN requests,
         NEW s \in {"PENDING", "APPROVED", "REJECTED", "EXECUTED"},
         requests' = [requests EXCEPT ![i].state = s]
  PROVE  /\ requests' \in Seq(ApprovalRequest) /\ Len(requests') = Len(requests)
         /\ DOMAIN requests' = DOMAIN requests
         /\ \A k \in DOMAIN requests :
              /\ requests'[k].cause = requests[k].cause
              /\ requests'[k].trust = requests[k].trust
              /\ requests'[k].action = requests[k].action
              /\ k # i => requests'[k].state = requests[k].state
         /\ requests'[i].state = s
<1> DEFINE r == [requests[i] EXCEPT !.state = s]
<1>1. requests \in Seq(ApprovalRequest) /\ requests[i] \in ApprovalRequest
  BY DEF LoopTypes
<1>2. /\ r \in ApprovalRequest /\ r.state = s /\ r.cause = requests[i].cause
      /\ r.trust = requests[i].trust /\ r.action = requests[i].action
  BY <1>1 DEF ApprovalRequest
<1>3. requests' = [requests EXCEPT ![i] = r]
  OBVIOUS
<1> HIDE DEF r
<1>4. /\ requests' \in Seq(ApprovalRequest) /\ Len(requests') = Len(requests)
      /\ DOMAIN requests' = DOMAIN requests
      /\ requests'[i] = r /\ \A k \in DOMAIN requests : k # i => requests'[k] = requests[k]
  BY <1>1, <1>2, <1>3
<1> QED  BY <1>2, <1>4

(* Steps that leave requests and executions alone.                         *)
LEMMA LoopUnchanged ==
  ASSUME LoopInv, UNCHANGED <<context, requests, expectation, executions>>,
         latest'.window.n \in Nat, expectation # Missing \/ UNCHANGED verdict
  PROVE  LoopInv'
BY DEF LoopInv, LoopTypes, NothingBefore, Causes, Executed, Distinct, Cautious

LEMMA RecommendStep == LoopInv /\ Recommend => LoopInv'
<1> SUFFICES ASSUME LoopInv, Recommend PROVE LoopInv'
  OBVIOUS
<1> DEFINE d == SelectNow(context.params, context.topology, context.trust)
           r == Request(d, 0, context.trust)
<1>1. LoopTypes /\ context \in Contexts
  BY DEF LoopInv, LoopTypes
<1>2. r \in ApprovalRequest /\ r.state = "PENDING" /\ r.cause = 0
  <2>1. context.trust \in 5..95 /\ context.trust \in Int
        /\ context.topology \in Topology \union {Missing}
    BY <1>1, ContextTyped
  <2>2. d.action \in InterventionType \union {Missing}
    BY <2>1, SelectTyped DEF SelectNow
  <2> HIDE DEF d
  <2> QED  BY <1>1, <2>1, <2>2 DEF Request, ApprovalRequest, LoopTypes
<1>3. requests = <<>> /\ requests' = <<r>>
      /\ UNCHANGED <<context, latest, expectation, verdict, executions>>
  BY DEF Recommend
<1> HIDE DEF r
<1>4. executions = <<>>
  <2>1. DOMAIN requests = {}
    BY <1>3
  <2>2. DOMAIN executions = {}
    BY <2>1 DEF LoopInv, Executed
  <2> QED  BY <1>1, <2>2 DEF LoopTypes
<1> QED
  BY <1>2, <1>3, <1>4
  DEF LoopInv, LoopTypes, NothingBefore, Causes, Executed, Distinct, Cautious

LEMMA DecideStep ==
  ASSUME LoopInv, NEW i \in DOMAIN requests, NEW approved \in BOOLEAN, HumanDecide(i, approved)
  PROVE  LoopInv'
<1> DEFINE s == IF approved THEN "APPROVED" ELSE "REJECTED"
<1>1. /\ requests' = [requests EXCEPT ![i].state = s]
      /\ requests[i].state = "PENDING"
      /\ UNCHANGED <<context, latest, expectation, verdict, executions>>
  BY DEF HumanDecide
<1>2. s \in {"APPROVED", "REJECTED"}
  OBVIOUS
<1> HIDE DEF s
<1>3. requests \in Seq(ApprovalRequest) /\ \A k \in DOMAIN requests : requests[k] \in ApprovalRequest
  BY DEF LoopInv, LoopTypes
<1>4. /\ requests' \in Seq(ApprovalRequest) /\ Len(requests') = Len(requests)
      /\ DOMAIN requests' = DOMAIN requests
      /\ \A k \in DOMAIN requests :
           /\ requests'[k].cause = requests[k].cause /\ requests'[k].trust = requests[k].trust
           /\ requests'[k].action = requests[k].action
           /\ k # i => requests'[k].state = requests[k].state
  <2>1. s \in {"PENDING", "APPROVED", "REJECTED", "EXECUTED"}
    BY <1>2
  <2>2. LoopTypes
    BY DEF LoopInv
  <2> QED  BY <1>1, <2>1, <2>2, StateSet
<1>5. \A j \in DOMAIN executions : executions[j].request # i
  BY <1>1 DEF LoopInv, Executed
<1>6. LoopTypes'
  BY <1>1, <1>4 DEF LoopInv, LoopTypes
<1>7. Executed'
  BY <1>1, <1>4, <1>5 DEF LoopInv, Executed
<1>8. NothingBefore' /\ Causes' /\ Distinct' /\ Cautious'
  BY <1>1, <1>4 DEF LoopInv, NothingBefore, Causes, Distinct, Cautious
<1> QED  BY <1>6, <1>7, <1>8 DEF LoopInv

LEMMA ExecuteStep ==
  ASSUME LoopInv, NEW i \in DOMAIN requests, Execute(i)
  PROVE  LoopInv'
<1> DEFINE x == [request |-> i, window |-> latest.window.n]
<1>1. /\ requests[i].state = "APPROVED"
      /\ requests' = [requests EXCEPT ![i].state = "EXECUTED"]
      /\ executions' = Append(executions, x)
      /\ UNCHANGED <<context, latest>>
  BY DEF Execute, Dispatchable
<1>2. requests \in Seq(ApprovalRequest)
      /\ \A k \in DOMAIN requests : requests[k] \in ApprovalRequest
  BY DEF LoopInv, LoopTypes
<1>3. /\ requests' \in Seq(ApprovalRequest) /\ Len(requests') = Len(requests)
      /\ DOMAIN requests' = DOMAIN requests
      /\ \A k \in DOMAIN requests :
           /\ requests'[k].cause = requests[k].cause /\ requests'[k].trust = requests[k].trust
           /\ requests'[k].action = requests[k].action
           /\ requests[k].state = "EXECUTED" => requests'[k].state = "EXECUTED"
      /\ requests'[i].state = "EXECUTED"
  <2>1. "EXECUTED" \in {"PENDING", "APPROVED", "REJECTED", "EXECUTED"}
    OBVIOUS
  <2>2. LoopTypes
    BY DEF LoopInv
  <2> QED  BY <1>1, <2>1, <2>2, StateSet
<1>4. x \in [request : Nat \ {0}, window : Nat] /\ x.request = i
  BY <1>2 DEF LoopInv, LoopTypes
<1> HIDE DEF x
<1>5. executions \in Seq([request : Nat \ {0}, window : Nat])
  BY DEF LoopInv, LoopTypes
<1>6. /\ executions' \in Seq([request : Nat \ {0}, window : Nat])
      /\ Len(executions') = Len(executions) + 1
      /\ DOMAIN executions' = DOMAIN executions \union {Len(executions) + 1}
      /\ \A j \in DOMAIN executions : executions'[j] = executions[j]
      /\ executions'[Len(executions) + 1] = x
      /\ executions' # <<>> /\ Len(executions) \in Nat
      /\ DOMAIN executions = 1..Len(executions)
  BY <1>1, <1>4, <1>5
<1>7. LoopTypes'
  BY <1>1, <1>3, <1>6 DEF LoopInv, LoopTypes
<1>8. \A j \in DOMAIN executions : executions[j].request # i
  BY <1>1 DEF LoopInv, Executed
<1>9. /\ requests[i].cause < Len(executions) + 1
      /\ i = 1 <=> Len(executions) + 1 = 1
  <2>1. requests[i].cause \in Nat /\ requests[i].cause <= Len(executions)
    BY <1>2 DEF LoopInv, Causes, ApprovalRequest
  <2>2. CASE executions = <<>>
    <3>1. Len(requests) <= 1 /\ Len(requests) \in Nat /\ i \in 1..Len(requests)
      BY <2>2, <1>2 DEF LoopInv, NothingBefore
    <3>2. i = 1 /\ Len(executions) = 0
      BY <2>2, <3>1
    <3> QED  BY <2>1, <3>2
  <2>3. CASE executions # <<>>
    <3>1. 1 \in DOMAIN executions /\ Len(executions) >= 1
      BY <1>5, <1>6, <2>3
    <3>2. executions[1].request = 1
      BY <3>1 DEF LoopInv, Executed
    <3>3. i # 1
      BY <1>8, <3>1, <3>2
    <3> QED  BY <1>6, <2>1, <3>1, <3>3
  <2> QED  BY <2>2, <2>3
<1>10. Executed'
  <2> SUFFICES ASSUME NEW j \in DOMAIN executions'
               PROVE  /\ executions'[j].request \in DOMAIN requests'
                      /\ requests'[executions'[j].request].state = "EXECUTED"
                      /\ requests'[executions'[j].request].cause < j
                      /\ executions'[j].request = 1 <=> j = 1
    BY DEF Executed
  <2>1. CASE j \in DOMAIN executions
    BY <1>3, <1>6, <2>1 DEF LoopInv, Executed
  <2>2. CASE j = Len(executions) + 1
    BY <1>3, <1>4, <1>6, <1>9, <2>2
  <2> QED  BY <1>6, <2>1, <2>2
<1>11. Distinct'
  BY <1>4, <1>6, <1>8 DEF LoopInv, Distinct
<1>12. Causes'
  <2>1. \A k \in DOMAIN requests : requests[k].cause \in Nat
    BY <1>2 DEF ApprovalRequest
  <2> QED  BY <1>3, <1>6, <2>1 DEF LoopInv, Causes
<1>13. NothingBefore' /\ Cautious'
  BY <1>1, <1>3, <1>6 DEF LoopInv, NothingBefore, Cautious
<1> QED  BY <1>7, <1>10, <1>11, <1>12, <1>13 DEF LoopInv
(* A mismatch adds a pending request, of less trust, of a blind selection.   *)
LEMMA ReconsiderStep ==
  ASSUME LoopInv, TriggerReconsiderationIfMismatch
  PROVE  LoopInv'
<1> DEFINE trust == AdjustedTrust(context.trust, verdict.steps)
           d == SelectNow(DefaultParameters, Missing, trust)
           r == Request(d, Len(executions), trust)
<1>1. /\ verdict # Missing /\ requests' = Append(requests, r)
      /\ UNCHANGED <<context, latest, executions>>
  BY DEF TriggerReconsiderationIfMismatch, ToReconsider
<1>2. /\ context \in Contexts /\ latest.window.n \in Nat
      /\ requests \in Seq(ApprovalRequest) /\ Len(executions) \in Nat
      /\ executions \in Seq([request : Nat \ {0}, window : Nat])
  BY DEF LoopInv, LoopTypes
<1>3. trust \in 5..95 /\ trust \in Int /\ trust <= context.trust
  <2>1. context.trust \in 5..95
    BY <1>2, ContextTyped
  <2>2. trust \in 5..context.trust
    BY <2>1, TrustFalls
  <2> HIDE DEF trust
  <2> QED  BY <2>1, <2>2
<1> HIDE DEF trust
<1>4. d.action \in {"DO_NOTHING", "RATE_LIMIT_IP", Missing}
  BY <1>3, BlindSelection DEF SelectNow
<1> HIDE DEF d
<1>5. /\ r \in ApprovalRequest /\ r.state = "PENDING" /\ r.cause = Len(executions)
      /\ r.trust = trust /\ r.action = d.action
  BY <1>2, <1>3, <1>4 DEF Request, ApprovalRequest, InterventionType
<1> HIDE DEF r
<1>6. /\ requests' \in Seq(ApprovalRequest)
      /\ DOMAIN requests' = DOMAIN requests \union {Len(requests) + 1}
      /\ \A i \in DOMAIN requests : requests'[i] = requests[i]
      /\ requests'[Len(requests) + 1] = r
      /\ DOMAIN requests = 1..Len(requests) /\ Len(requests) \in Nat
  BY <1>1, <1>2, <1>5
<1>7. executions # <<>> /\ Len(executions) >= 1
  <2>1. executions # <<>>
    BY <1>1 DEF LoopInv, NothingBefore
  <2> QED  BY <1>2, <2>1
<1>8. Len(requests) >= 1
  <2>1. 1 \in DOMAIN executions
    BY <1>2, <1>7
  <2>2. executions[1].request \in DOMAIN requests
    BY <2>1 DEF LoopInv, Executed
  <2> QED  BY <1>6, <2>2
<1>9. LoopTypes'
  BY <1>1, <1>6 DEF LoopInv, LoopTypes
<1>10. NothingBefore'
  BY <1>1, <1>7 DEF NothingBefore
<1>11. Causes'
  <2> SUFFICES ASSUME NEW i \in DOMAIN requests'
               PROVE  /\ requests'[i].cause <= Len(executions')
                      /\ requests'[i].cause = 0 <=> i = 1
    BY DEF Causes
  <2>1. CASE i \in DOMAIN requests
    BY <1>1, <1>6, <2>1 DEF LoopInv, Causes
  <2>2. CASE i = Len(requests) + 1
    BY <1>1, <1>2, <1>5, <1>6, <1>7, <1>8, <2>2
  <2> QED  BY <1>6, <2>1, <2>2
<1>12. Executed' /\ Distinct'
  BY <1>1, <1>6 DEF LoopInv, Executed, Distinct
<1>13. Cautious'
  <2> SUFFICES ASSUME NEW i \in DOMAIN requests', requests'[i].cause > 0
               PROVE  /\ requests'[i].trust <= context.trust
                      /\ requests'[i].action \in {"DO_NOTHING", "RATE_LIMIT_IP", Missing}
    BY <1>1 DEF Cautious
  <2>1. CASE i \in DOMAIN requests
    BY <1>6, <2>1 DEF LoopInv, Cautious
  <2>2. CASE i = Len(requests) + 1
    BY <1>3, <1>4, <1>5, <1>6, <2>2
  <2> QED  BY <1>6, <2>1, <2>2
<1> QED  BY <1>5, <1>6, <1>9, <1>10, <1>11, <1>12, <1>13 DEF LoopInv

LEMMA LoopStep == LoopInv /\ [Next]_vars => LoopInv'
<1> SUFFICES ASSUME LoopInv, [Next]_vars PROVE LoopInv'
  OBVIOUS
<1>1. ASSUME NEW k \in Kinds, NEW received \in BOOLEAN, CloseWindow(k, received)
      PROVE  LoopInv'
  <2>1. latest'.window.n = latest.window.n + 1
    BY <1>1 DEF CloseWindow, WindowOf
  <2>2. latest'.window.n \in Nat
    BY <2>1 DEF LoopInv, LoopTypes
  <2> QED  BY <1>1, <2>2, LoopUnchanged DEF CloseWindow
<1>2. CASE Recommend
  BY <1>2, RecommendStep
<1>3. ASSUME NEW i \in DOMAIN requests, NEW approved \in BOOLEAN, HumanDecide(i, approved)
      PROVE  LoopInv'
  BY <1>3, DecideStep
<1>4. ASSUME NEW i \in DOMAIN requests, Execute(i)
      PROVE  LoopInv'
  BY <1>4, ExecuteStep
<1>5. CASE EvaluateClosedLoop
  <2>1. /\ expectation # Missing
        /\ UNCHANGED <<context, latest, requests, expectation, executions>>
    BY <1>5 DEF EvaluateClosedLoop
  <2>2. latest'.window.n \in Nat
    BY <2>1 DEF LoopInv, LoopTypes
  <2> QED  BY <2>1, <2>2, LoopUnchanged
<1>6. CASE TriggerReconsiderationIfMismatch
  BY <1>6, ReconsiderStep
<1>7. CASE UNCHANGED vars
  <2>1. latest'.window.n \in Nat
    BY <1>7 DEF LoopInv, LoopTypes, vars
  <2> QED  BY <1>7, <2>1, LoopUnchanged DEF vars
<1> QED  BY <1>1, <1>2, <1>3, <1>4, <1>5, <1>6, <1>7 DEF Next

LEMMA LoopInvariant == Spec => []LoopInv
<1> QED  BY LoopInit, LoopStep, PTL DEF Spec

(* Whatever the windows are, an execution is of a request of its own, and    *)
(* after the first one of a request that an earlier execution's mismatch     *)
(* caused.                                                                  *)
THEOREM LoopAsks == Spec => []EachExecutionIsAsked
<1>1. LoopInv => EachExecutionIsAsked
  <2> SUFFICES ASSUME LoopInv,
                      NEW j \in DOMAIN executions, j > 1
               PROVE  requests[executions[j].request].cause \in 1..(j - 1)
    BY DEF EachExecutionIsAsked, LoopInv, Distinct
  <2>1. /\ executions[j].request \in DOMAIN requests
        /\ executions[j].request # 1
        /\ requests[executions[j].request].cause < j
    BY DEF LoopInv, Executed
  <2>2. requests[executions[j].request].cause \in Nat
    <3>1. requests[executions[j].request] \in ApprovalRequest
      BY <2>1 DEF LoopInv, LoopTypes
    <3> QED  BY <3>1 DEF ApprovalRequest
  <2>3. requests[executions[j].request].cause # 0
    BY <2>1 DEF LoopInv, Causes
  <2>4. j \in Nat
    BY DEF LoopInv, LoopTypes
  <2> QED  BY <2>1, <2>2, <2>3, <2>4
<1> QED  BY <1>1, LoopInvariant, PTL

(* A reconsideration acts on no more trust than before and recommends at     *)
(* most a rate limit, however the telemetry deviates.                       *)
THEOREM LoopIsCautious == Spec => []ReconsiderationIsCautious
<1>1. LoopInv => ReconsiderationIsCautious
  BY DEF LoopInv, Cautious, ReconsiderationIsCautious
<1> QED  BY <1>1, LoopInvariant, PTL

LEMMA WellDecidedBySelection ==
  ASSUME NEW r, r.trust \in Int, DecidedOn(r).topology \in Topology \union {Missing},
         \A a \in InterventionType : Cost(a, DecidedOn(r).topology) > 0,
         r.action = SelectNow(DecidedOn(r).params, DecidedOn(r).topology, r.trust).action
  PROVE  WellDecided(r)
<1> DEFINE level == TrustLevelOf(r.trust)
           params == DecidedOn(r).params
           topology == DecidedOn(r).topology
           evals == Evaluations(latest.window.features, latest.forecast, params, topology,
                                r.trust, level)
<1>1. r.action = Select(latest.window.features, latest.forecast, params, topology, r.trust,
                        level).action
  BY DEF SelectNow
<1>2. DoNothingWins(r, evals)
  <2> HIDE DEF level, params
  <2> QED  BY <1>1, DoNothingWinsAtACost
<1>3. IsMinimumSufficient(r, evals)
  <2>1. Comparable(evals)
    <3> HIDE DEF level, params
    <3> QED  BY EvaluationsComparable
  <2>2. r.action = Decision(evals, topology).action
    BY <1>1 DEF Select
  <2> HIDE DEF evals, topology
  <2> QED  BY <2>1, <2>2, DecisionIsMinimumSufficient
<1> QED  BY <1>2, <1>3 DEF WellDecided

(* Where every target costs something, each request is for the least         *)
(* disruptive sufficient intervention, and for none where none is needed.    *)
THEOREM LoopRecommendsTheMinimum ==
  ASSUME \A c \in Contexts, a \in InterventionType : Cost(a, c.topology) > 0
  PROVE  Spec => RequestsAreMinimumSufficient
<1> DEFINE A == \A i \in DOMAIN requests' \ DOMAIN requests :
                 \E r \in {requests'[i]} : WellDecided(r)
<1>1. LoopInv /\ [Next]_vars => [A]_vars
  <2> SUFFICES ASSUME LoopInv, Next PROVE A
    BY Zenon
  <2>1. CASE DOMAIN requests' = DOMAIN requests
    BY <2>1
  <2>2. CASE Recommend
    <3> DEFINE r == Request(SelectNow(context.params, context.topology, context.trust), 0,
                            context.trust)
    <3>1. requests = <<>> /\ requests' = <<r>>
      BY <2>2 DEF Recommend
    <3>2. /\ context \in Contexts /\ context.trust \in Int
          /\ context.topology \in Topology \union {Missing}
      BY ContextTyped DEF LoopInv, LoopTypes
    <3>3. /\ r.cause = 0 /\ r.trust = context.trust
          /\ r.action = SelectNow(context.params, context.topology, context.trust).action
      BY DEF Request
    <3> HIDE DEF r
    <3>4. DecidedOn(r).params = context.params /\ DecidedOn(r).topology = context.topology
      BY <3>3 DEF DecidedOn
    <3>5. \A a \in InterventionType : Cost(a, DecidedOn(r).topology) > 0
      BY <3>2, <3>4
    <3>6. WellDecided(r)
      BY <3>2, <3>3, <3>4, <3>5, WellDecidedBySelection
    <3> QED  BY <3>1, <3>6
  <2>3. ASSUME NEW i \in DOMAIN requests, NEW approved \in BOOLEAN, HumanDecide(i, approved)
        PROVE  DOMAIN requests' = DOMAIN requests
    BY <2>3 DEF HumanDecide, LoopInv, LoopTypes
  <2>4. ASSUME NEW i \in DOMAIN requests, Execute(i)
        PROVE  DOMAIN requests' = DOMAIN requests
    BY <2>4 DEF Execute, LoopInv, LoopTypes
  <2>5. CASE TriggerReconsiderationIfMismatch
    <3> DEFINE trust == AdjustedTrust(context.trust, verdict.steps)
               r == Request(SelectNow(DefaultParameters, Missing, trust), Len(executions), trust)
    <3>1. requests \in Seq(ApprovalRequest) /\ executions \in Seq([request : Nat \ {0}, window : Nat])
      BY DEF LoopInv, LoopTypes
    <3>2. /\ verdict # Missing /\ requests' = Append(requests, r)
          /\ UNCHANGED <<context, latest>>
      BY <2>5 DEF TriggerReconsiderationIfMismatch, ToReconsider
    <3>3. trust \in Int
      <4>1. context.trust \in 5..95
        BY ContextTyped DEF LoopInv, LoopTypes
      <4>2. trust \in 5..context.trust
        BY <4>1, TrustFalls
      <4> HIDE DEF trust
      <4> QED  BY <4>1, <4>2
    <3> HIDE DEF trust
    <3>4. Len(executions) # 0
      BY <3>1, <3>2 DEF LoopInv, NothingBefore
    <3>5. /\ r.cause # 0 /\ r.trust = trust
          /\ r.action = SelectNow(DefaultParameters, Missing, trust).action
      BY <3>4 DEF Request
    <3> HIDE DEF r
    <3>6. requests'[Len(requests) + 1] = r
          /\ DOMAIN requests' \ DOMAIN requests = {Len(requests) + 1}
      BY <3>1, <3>2
    <3>7. DecidedOn(r).params = DefaultParameters /\ DecidedOn(r).topology = Missing
      BY <3>5 DEF DecidedOn
    <3>8. \A a \in InterventionType : Cost(a, DecidedOn(r).topology) > 0
      <4>1. \A a \in InterventionType : Cost(a, Missing) > 0
        BY DEF Cost, Unavailable
      <4> QED  BY <3>7, <4>1
    <3>9. WellDecided(r)
      BY <3>3, <3>5, <3>7, <3>8, WellDecidedBySelection
    <3> QED  BY <3>6, <3>9
  <2>6. CASE EvaluateClosedLoop
    BY <2>1, <2>6 DEF EvaluateClosedLoop
  <2>7. ASSUME NEW k \in Kinds, NEW received \in BOOLEAN, CloseWindow(k, received)
        PROVE  DOMAIN requests' = DOMAIN requests
    BY <2>7 DEF CloseWindow
  <2> HIDE DEF A
  <2> QED  BY <2>1, <2>2, <2>3, <2>4, <2>5, <2>6, <2>7 DEF Next
<1>2. Spec => [][A]_vars
  <2> HIDE DEF A
  <2> QED  BY <1>1, LoopInvariant, PTL DEF Spec
<1> QED  BY <1>2, PTL DEF RequestsAreMinimumSufficient

-----------------------------------------------------------------------------
(***************************************************************************)
(* The verdict.                                                            *)
(***************************************************************************)

\* Windows of later and later numbers, all after the window from.
InOrder(s, from) ==
  /\ s \in Seq(Window)
  /\ \A i \in DOMAIN s : s[i].n > from
  /\ \A i, j \in DOMAIN s : i < j => s[i].n < s[j].n

(* A function on 1..n is a sequence of length n.                            *)
LEMMA FunctionIsSeq ==
  ASSUME NEW S, NEW n \in Nat, NEW f \in [1..n -> S]
  PROVE  f \in Seq(S) /\ Len(f) = n
<1>1. f \in Seq(S)
  BY SeqDef
<1>2. DOMAIN f = 1..n /\ DOMAIN f = 1..Len(f) /\ Len(f) \in Nat
  BY <1>1, LenProperties
<1> QED BY <1>1, <1>2

(* What order says of each window.                                          *)
LEMMA InOrderIs ==
  ASSUME NEW s, NEW from, InOrder(s, from)
  PROVE  /\ Len(s) \in Nat /\ DOMAIN s = 1..Len(s)
         /\ \A i \in 1..Len(s) : s[i] \in Window /\ s[i].n \in Nat /\ s[i].n > from
         /\ \A i, j \in 1..Len(s) : i < j => s[i].n < s[j].n
<1>1. s \in Seq(Window)
  BY DEF InOrder
<1>2. Len(s) \in Nat /\ DOMAIN s = 1..Len(s) /\ \A i \in 1..Len(s) : s[i] \in Window
  BY <1>1, LenProperties, ElementOfSeq
<1>3. \A w \in Window : w.n \in Nat
  BY DEF Window
<1> QED BY <1>2, <1>3 DEF InOrder

(* Sorting what is in order selects it.                                     *)
LEMMA EarliestOfOrdered ==
  ASSUME NEW s, NEW from, InOrder(s, from), NEW m \in 0..Len(s)
  PROVE  EarliestFirst(s, 1..m) = [j \in 1..m |-> s[j]]
<1> DEFINE rank(k) ==
             Cardinality({i \in 1..m : s[i].n < s[k].n \/ (s[i].n = s[k].n /\ i <= k)})
           At(j) == CHOOSE k \in 1..m : rank(k) = j
<1>1. /\ m \in Nat /\ m <= Len(s) /\ Len(s) \in Nat
      /\ \A i \in 1..m : s[i].n \in Nat
      /\ \A i, j \in 1..m : i < j => s[i].n < s[j].n
  BY InOrderIs
<1>2. Cardinality(1..m) = m
  <2>1. 1 \in Int /\ m \in Int /\ (1 > m => m = 0)
    BY <1>1
  <2> QED BY <2>1, FS_Interval
<1>3. ASSUME NEW k \in 1..m PROVE rank(k) = k
  <2>1. {i \in 1..m : s[i].n < s[k].n \/ (s[i].n = s[k].n /\ i <= k)} = 1..k
    <3>1. \A i \in 1..m : s[i].n < s[k].n \/ (s[i].n = s[k].n /\ i <= k) <=> i <= k
      BY <1>1
    <3> QED BY <1>1, <3>1
  <2>2. Cardinality(1..k) = k
    BY <1>1, FS_Interval
  <2> QED BY <2>1, <2>2
<1>4. EarliestFirst(s, 1..m) = [j \in 1..Cardinality(1..m) |-> s[At(j)]]
  BY DEF EarliestFirst
<1> HIDE DEF rank
<1>5. ASSUME NEW j \in 1..m PROVE At(j) = j
  <2>1. \A k \in 1..m : rank(k) = j <=> k = j
    BY <1>3
  <2> QED BY <2>1
<1> HIDE DEF At
<1> QED BY <1>2, <1>4, <1>5

\* How many of the windows count: those within the time to live, three at most.
Counts(e, s, m) ==
  /\ m \in 0..Len(s) /\ m <= MaxObservationSteps
  /\ \A j \in 1..m : WithinTtl(e, s[j])
  /\ m = MaxObservationSteps \/ \A j \in (m + 1)..Len(s) : ~WithinTtl(e, s[j])

(* A set of the first positions is known by its size.                       *)
LEMMA FirstPositions ==
  ASSUME NEW n \in Nat, NEW P \in SUBSET (1..n), \A i \in P : \A j \in 1..i : j \in P
  PROVE  Cardinality(P) \in 0..n /\ P = 1..Cardinality(P)
<1> DEFINE m == Cardinality(P)
<1>1. IsFiniteSet(1..n) /\ Cardinality(1..n) = n
  BY FS_Interval
<1>2. IsFiniteSet(P) /\ m <= n
  BY <1>1, FS_Subset
<1>3. m \in Nat
  BY <1>2, FS_CardinalityType
<1>4. ASSUME NEW i \in P PROVE i <= m
  <2>1. 1..i \in SUBSET P /\ i \in Nat /\ i >= 1
    OBVIOUS
  <2>2. Cardinality(1..i) = i
    BY <2>1, FS_Interval
  <2>3. Cardinality(1..i) <= Cardinality(P)
    BY <1>2, <2>1, FS_Subset
  <2> QED BY <2>2, <2>3
<1>5. ASSUME NEW i \in 1..n, i \notin P PROVE i > m
  <2>1. i - 1 \in Nat /\ 1 \in Int /\ i - 1 \in Int
    OBVIOUS
  <2>2. P \in SUBSET (1..(i - 1))
    <3>1. ASSUME NEW j \in P, j >= i PROVE FALSE
      BY <1>5, <3>1
    <3> QED BY <3>1
  <2>3. IsFiniteSet(1..(i - 1)) /\ Cardinality(1..(i - 1)) = i - 1
    BY <2>1, FS_Interval
  <2>4. m <= i - 1
    BY <2>2, <2>3, FS_Subset
  <2> QED BY <1>3, <2>1, <2>4
<1> HIDE DEF m
<1>6. P = 1..m
  <2>1. ASSUME NEW i \in P PROVE i \in 1..m
    BY <1>4
  <2>2. ASSUME NEW i \in 1..m PROVE i \in P
    BY <1>2, <1>3, <1>5
  <2> QED BY <2>1, <2>2
<1> QED BY <1>2, <1>3, <1>6 DEF m

(* Of windows in order the first ones are evaluated.                        *)
LEMMA EvaluatedOfOrdered ==
  ASSUME NEW e, e.window \in Nat, e.ttl \in Nat, NEW s, InOrder(s, e.window)
  PROVE  /\ Candidates(e, s) = s
         /\ \E m \in 0..3 : Counts(e, s, m) /\ Evaluated(e, s) = [j \in 1..m |-> s[j]]
<1> DEFINE n == Len(s)
           P == {i \in 1..n : WithinTtl(e, s[i])}
           p == Cardinality(P)
<1>1. /\ n \in Nat /\ DOMAIN s = 1..n /\ s \in Seq(Window)
      /\ \A i \in 1..n : s[i] \in Window /\ s[i].n \in Nat /\ s[i].n > e.window
      /\ \A i, j \in 1..n : i < j => s[i].n < s[j].n
  BY InOrderIs DEF InOrder
<1>2. Candidates(e, s) = s
  <2>1. {i \in DOMAIN s : s[i].n > e.window} = 1..n
    BY <1>1
  <2>2. Candidates(e, s) = EarliestFirst(s, 1..n)
    BY <2>1 DEF Candidates
  <2>3. n \in 0..Len(s)
    BY <1>1
  <2>4. EarliestFirst(s, 1..n) = [j \in 1..n |-> s[j]]
    BY <2>3, EarliestOfOrdered
  <2>5. s = [j \in 1..n |-> s[j]]
    <3> HIDE DEF n
    <3>1. s \in [1..n -> Window]
      BY <1>1, SeqDef DEF n
    <3> QED BY <3>1
  <2> QED BY <2>2, <2>4, <2>5
<1>3. p \in 0..n /\ P = 1..p
  <2>1. ASSUME NEW i \in P, NEW j \in 1..i PROVE j \in P
    <3>1. s[j].n <= s[i].n /\ j \in 1..n
      <4> HIDE DEF n
      <4> QED BY <1>1
    <3>2. WithinTtl(e, s[i]) /\ s[i].n \in Nat /\ s[j].n \in Nat
      BY <1>1, <3>1
    <3>3. WithinTtl(e, s[j])
      <4> HIDE DEF P, n
      <4> QED BY <3>1, <3>2 DEF WithinTtl
    <3> QED BY <3>1, <3>3
  <2> HIDE DEF n
  <2>2. P \in SUBSET (1..n)
    OBVIOUS
  <2> HIDE DEF P
  <2> QED BY <1>1, <2>1, <2>2, FirstPositions
<1> DEFINE m == IF p < MaxObservationSteps THEN p ELSE MaxObservationSteps
           active == [j \in 1..p |-> s[j]]
<1>4. EarliestFirst(s, P) = active
  BY <1>3, EarliestOfOrdered
<1>5. Evaluated(e, s) =
        SubSeq(active, 1, IF Len(active) < MaxObservationSteps THEN Len(active)
                          ELSE MaxObservationSteps)
  <2>1. {i \in DOMAIN s : WithinTtl(e, s[i])} = P
    BY <1>1
  <2> HIDE DEF active, P
  <2> QED BY <1>2, <1>4, <2>1 DEF Evaluated
<1>6. Len(active) = p /\ active \in Seq(Window)
  <2> HIDE DEF n, p
  <2>1. active \in [1..p -> Window] /\ p \in Nat
    BY <1>1, <1>3
  <2> HIDE DEF active
  <2> QED BY <2>1, FunctionIsSeq
<1>7. m \in 0..3 /\ m <= p /\ p <= n
  <2> HIDE DEF n, p
  <2> QED BY <1>3 DEF MaxObservationSteps
<1>8. Evaluated(e, s) = [j \in 1..m |-> s[j]]
  <2>1. Evaluated(e, s) = SubSeq(active, 1, m)
    <3> HIDE DEF active, p
    <3> QED BY <1>5, <1>6
  <2>2. SubSeq(active, 1, m) = [j \in 1..m |-> active[j]]
    <3> HIDE DEF active, m
    <3> QED BY <1>6, <1>7
  <2>3. \A j \in 1..m : active[j] = s[j]
    <3> HIDE DEF m, p, n
    <3> QED BY <1>3, <1>7
  <2> HIDE DEF active, m
  <2> QED BY <2>1, <2>2, <2>3
<1>9. Counts(e, s, m)
  <2>1. \A j \in 1..n : WithinTtl(e, s[j]) <=> j \in 1..p
    BY <1>3
  <2> HIDE DEF p, n
  <2>2. m \in 0..n /\ m <= MaxObservationSteps /\ (m = MaxObservationSteps \/ m = p)
    BY <1>3 DEF MaxObservationSteps
  <2>3. \A j \in 1..m : WithinTtl(e, s[j])
    BY <1>1, <1>3, <1>7, <2>1
  <2>4. m = p => \A j \in (m + 1)..n : ~WithinTtl(e, s[j])
    BY <1>1, <1>3, <2>1
  <2> HIDE DEF m
  <2> QED BY <2>2, <2>3, <2>4 DEF Counts, n
<1> HIDE DEF m
<1> QED BY <1>2, <1>7, <1>8, <1>9

(* Counting a streak window by window finds two mismatches in a row, if      *)
(* there are any, in the three windows there are at most.                   *)
LEMMA StreakIsFound ==
  ASSUME NEW n \in 0..3, NEW steps, Len(steps) = n,
         \A h \in 1..n : steps[h].mismatch \in BOOLEAN
  PROVE  /\ Persistence(steps) \in 0..3
         /\ Persistence(steps) >= 2 <=>
              \E h \in 2..n : steps[h - 1].mismatch /\ steps[h].mismatch
<1> DEFINE M(h) == steps[h].mismatch
           r1 == IF M(1) THEN 1 ELSE 0
           r2 == IF M(2) THEN r1 + 1 ELSE 0
           r3 == IF M(3) THEN r2 + 1 ELSE 0
           r == [h \in 0..n |-> IF h = 0 THEN 0 ELSE IF h = 1 THEN r1
                                ELSE IF h = 2 THEN r2 ELSE r3]
           Unrolls(f) == f = [h \in 0..n |-> IF h = 0 THEN 0
                                             ELSE IF M(h) THEN f[h - 1] + 1 ELSE 0]
           run == CHOOSE f : Unrolls(f)
<1>1. n \in {0, 1, 2, 3}
  OBVIOUS
<1>2. Unrolls(r)
  <2>1. ASSUME NEW h \in 0..n
        PROVE  r[h] = IF h = 0 THEN 0 ELSE IF M(h) THEN r[h - 1] + 1 ELSE 0
    <3>1. h \in {0, 1, 2, 3}
      BY <1>1
    <3>2. CASE h = 0
      BY <3>2
    <3>3. CASE h = 1
      <4>1. r[1] = r1 /\ r[0] = 0
        BY <3>3
      <4> HIDE DEF r
      <4> QED BY <3>3, <4>1
    <3>4. CASE h = 2
      <4>1. r[2] = r2 /\ r[1] = r1
        BY <3>4
      <4> HIDE DEF r, r1
      <4> QED BY <3>4, <4>1
    <3>5. CASE h = 3
      <4>1. r[3] = r3 /\ r[2] = r2
        BY <3>5
      <4> HIDE DEF r, r2
      <4> QED BY <3>5, <4>1
    <3> QED BY <3>1, <3>2, <3>3, <3>4, <3>5
  <2>2. r = [h \in 0..n |-> r[h]]
    OBVIOUS
  <2> HIDE DEF r, M
  <2> QED BY <2>1, <2>2
<1>3. Unrolls(run)
  <2> HIDE DEF Unrolls, r
  <2> QED BY <1>2
<1>4. Consecutive(steps) = run
  BY DEF Consecutive
<1>5. \A h \in 0..n : run[h] = IF h = 0 THEN 0 ELSE IF M(h) THEN run[h - 1] + 1 ELSE 0
  <2> HIDE DEF run, M
  <2> QED BY <1>3
<1> HIDE DEF run, r, r1, r2, r3, Unrolls
<1>6. \A h \in 1..n : M(h) \in BOOLEAN
  OBVIOUS
<1> HIDE DEF M
<1>7. /\ run[0] = 0
      /\ 1 \in 1..n => run[1] = IF M(1) THEN 1 ELSE 0
      /\ 2 \in 1..n => run[2] = IF M(2) THEN run[1] + 1 ELSE 0
      /\ 3 \in 1..n => run[3] = IF M(3) THEN run[2] + 1 ELSE 0
  BY <1>5
<1>8. /\ \A h \in 0..n : run[h] \in 0..3
      /\ \A h \in 0..n : run[h] >= 2 => h \in 2..n /\ M(h - 1) /\ M(h)
      /\ \A h \in 2..n : M(h - 1) /\ M(h) => run[h] >= 2
  <2>1. \A h \in 0..n : h \in {0, 1, 2, 3}
    BY <1>1
  <2>2. /\ 1 \in 1..n => run[1] \in 0..1
        /\ 2 \in 1..n => run[2] \in 0..2 /\ (run[2] >= 2 <=> M(1) /\ M(2))
        /\ 3 \in 1..n => run[3] \in 0..3 /\ (run[3] >= 2 <=> M(2) /\ M(3))
    BY <1>1, <1>6, <1>7
  <2>3. ASSUME NEW h \in 0..n
        PROVE  /\ run[h] \in 0..3
               /\ run[h] >= 2 => h \in 2..n /\ M(h - 1) /\ M(h)
               /\ h \in 2..n /\ M(h - 1) /\ M(h) => run[h] >= 2
    BY <1>7, <2>1, <2>2
  <2> QED BY <2>3
<1> DEFINE S == {run[h] : h \in 0..n}
<1>9. Max(S) \in S /\ \A y \in S : Max(S) >= y
  <2>1. S \in SUBSET {0, 1, 2, 3} /\ 0 \in S
    BY <1>7, <1>8
  <2> HIDE DEF S
  <2>2. \E m \in S : \A y \in S : m >= y
    <3>1. CASE 3 \in S
      BY <2>1, <3>1
    <3>2. CASE 3 \notin S /\ 2 \in S
      <4>1. \A y \in S : y \in {0, 1, 2}
        BY <2>1, <3>2
      <4> QED BY <3>2, <4>1
    <3>3. CASE 3 \notin S /\ 2 \notin S /\ 1 \in S
      <4>1. \A y \in S : y \in {0, 1}
        BY <2>1, <3>3
      <4> QED BY <3>3, <4>1
    <3>4. CASE 3 \notin S /\ 2 \notin S /\ 1 \notin S
      <4>1. \A y \in S : y = 0
        BY <2>1, <3>4
      <4> QED BY <2>1, <4>1
    <3> QED BY <3>1, <3>2, <3>3, <3>4
  <2> QED BY <2>2 DEF Max
<1>10. Persistence(steps) = Max(S)
  BY <1>4 DEF Persistence
<1>11. \E h \in 0..n : Max(S) = run[h]
  BY <1>9
<1>12. \A h \in 0..n : Max(S) >= run[h]
  BY <1>9
<1> HIDE DEF S
<1>13. \A h \in 2..n : h \in 0..n
  BY <1>1
<1>14. Max(S) \in 0..3 /\ (Max(S) >= 2 <=> \E h \in 2..n : M(h - 1) /\ M(h))
  <2>1. PICK g \in 0..n : Max(S) = run[g]
    BY <1>11
  <2>2. Max(S) \in 0..3 /\ (Max(S) >= 2 => \E h \in 2..n : M(h - 1) /\ M(h))
    BY <1>8, <2>1
  <2>3. ASSUME NEW h \in 2..n, M(h - 1), M(h) PROVE Max(S) >= 2
    BY <1>8, <1>12, <1>13, <2>2, <2>3
  <2> QED BY <2>2, <2>3
<1> QED BY <1>10, <1>14 DEF M

(* There is a first among some positions.                                   *)
LEMMA FirstExists ==
  ASSUME NEW P \in SUBSET Nat, P # {}
  PROVE  \E i \in P : \A j \in P : i <= j
<1> DEFINE R == {p \in Nat \X Nat : p[1] < p[2]}
<1>1. IsWellFoundedOn(R, Nat)
  BY NatLessThanWellFounded DEF OpToRel
<1>2. PICK i \in P : \A j \in P : ~(<<j, i>> \in R)
  <2> HIDE DEF R
  <2> QED BY <1>1, WFMin
<1>3. ASSUME NEW j \in P, ~(i <= j) PROVE FALSE
  <2>1. i \in Nat /\ j \in Nat /\ j < i
    BY <1>3
  <2> QED BY <1>2, <2>1
<1> QED BY <1>3

(* The feature verified is one of those an expectation may name.            *)
LEMMA PrimaryIsMeasured ==
  ASSUME NEW w
  PROVE  PrimaryFeature(w) \in {"bytes", "flows", "syn", "ports"}
<1> DEFINE usable == {i \in DOMAIN TargetFeatures : TargetFeatures[i] \in w.measured}
           first == CHOOSE i \in usable : \A j \in usable : i <= j
<1>1. /\ Len(TargetFeatures) \in Nat /\ DOMAIN TargetFeatures = 1..Len(TargetFeatures)
      /\ \A i \in DOMAIN TargetFeatures :
           TargetFeatures[i] \in {"bytes", "flows", "syn", "ports"}
  BY VerificationAssumption, LenProperties, ElementOfSeq
<1>2. PrimaryFeature(w) = IF usable = {} THEN "bytes" ELSE TargetFeatures[first]
  BY DEF PrimaryFeature
<1>3. usable # {} => first \in usable
  <2>1. usable \in SUBSET Nat
    BY <1>1
  <2> HIDE DEF usable
  <2> QED BY <2>1, FirstExists
<1>4. usable # {} => TargetFeatures[first] \in {"bytes", "flows", "syn", "ports"}
  BY <1>1, <1>3
<1> HIDE DEF usable, first
<1> QED BY <1>2, <1>4

\* A window of s at which an evaluated window mismatches, and what convicts.
Off(e, s, h) ==
  \/ Breaches(e, s[h])
  \/ FeatureDiverges(e.baseline.features[PrimaryFeature(s[1])],
                     s[h].features[PrimaryFeature(s[1])], h)

Convicts(e, s, m) ==
  \E h \in 1..m : Breaches(e, s[h]) \/ (h > 1 /\ Off(e, s, h - 1) /\ Off(e, s, h))

(* There is a step of every evaluated window.                               *)
LEMMA StepsLength ==
  ASSUME NEW e, NEW m \in Nat, NEW ev, DOMAIN ev = 1..m
  PROVE  Len(StepEvaluations(e, ev)) = m /\ DOMAIN StepEvaluations(e, ev) = 1..m
<1> DEFINE steps == StepEvaluations(e, ev)
<1>1. DOMAIN steps = 1..m /\ steps = [h \in 1..m |-> steps[h]]
  BY DEF StepEvaluations
<1> HIDE DEF steps
<1>2. steps \in [1..m -> {steps[h] : h \in 1..m}]
  BY <1>1
<1>3. Len(steps) = m
  BY <1>2, FunctionIsSeq
<1> QED BY <1>1, <1>3 DEF steps

\* The evaluation of the h-th window of s.
IsStep(step, e, s, h) ==
  LET feature == PrimaryFeature(s[1]) IN
  /\ step.mismatch \in BOOLEAN /\ (step.mismatch <=> Off(e, s, h))
  /\ step.feature = feature /\ step.base = e.baseline.features[feature]
  /\ step.observed = s[h].features[feature]
  /\ step.risk = IF RiskLayer THEN ObservedRisk(s[h]) ELSE NoReading

(* The steps of the first m windows.                                        *)
LEMMA StepsOfOrdered ==
  ASSUME NEW e, NEW s, NEW m \in 1..3, NEW ev, DOMAIN ev = 1..m,
         \A j \in 1..m : ev[j] = s[j]
  PROVE  \A h \in 1..m : IsStep(StepEvaluations(e, ev)[h], e, s, h)
<1> DEFINE feature == PrimaryFeature(s[1])
           step(h) == [window |-> s[h].n, feature |-> feature,
                       base |-> e.baseline.features[feature], observed |-> s[h].features[feature],
                       risk |-> IF RiskLayer THEN ObservedRisk(s[h]) ELSE NoReading,
                       mismatch |-> Off(e, s, h)]
           steps == [h \in 1..m |-> step(h)]
<1>1. DOMAIN ev = 1..m /\ ev[1] = s[1] /\ \A h \in 1..m : ev[h] = s[h]
  OBVIOUS
<1>2. StepEvaluations(e, ev) = steps
  BY <1>1 DEF StepEvaluations, Off
<1>4. \A h \in 1..m : Off(e, s, h) \in BOOLEAN
  BY DEF Off
<1>5. \A h \in 1..m : steps[h] = step(h)
  OBVIOUS
<1> HIDE DEF steps
<1>6. ASSUME NEW h \in 1..m
      PROVE  (steps[h].mismatch <=> Off(e, s, h)) /\ steps[h].mismatch \in BOOLEAN
  <2>1. steps[h] = step(h)
    BY <1>5
  <2>2. CASE Off(e, s, h)
    <3>1. step(h).mismatch = TRUE
      BY <2>2, <1>4
    <3> HIDE DEF step
    <3> QED BY <2>1, <2>2, <3>1
  <2>3. CASE ~Off(e, s, h)
    <3>1. step(h).mismatch = FALSE
      BY <2>3, <1>4
    <3> HIDE DEF step
    <3> QED BY <2>1, <2>3, <3>1
  <2> QED BY <2>2, <2>3
<1> HIDE DEF step
<1>7. \A h \in 1..m : (steps[h].mismatch <=> Off(e, s, h)) /\ steps[h].mismatch \in BOOLEAN
  BY <1>6
<1>8. ASSUME NEW h \in 1..m
      PROVE  /\ steps[h].feature = feature
             /\ steps[h].base = e.baseline.features[feature]
             /\ steps[h].observed = s[h].features[feature]
             /\ steps[h].risk = IF RiskLayer THEN ObservedRisk(s[h]) ELSE NoReading
  <2>1. steps[h] = step(h)
    BY <1>5
  <2> HIDE DEF feature
  <2> QED BY <2>1 DEF step
<1> QED BY <1>2, <1>7, <1>8 DEF IsStep

(* A streak of the evaluated windows is two that are off in a row.          *)
LEMMA StreakOfOrdered ==
  ASSUME NEW e, NEW s, NEW m \in 1..3, NEW ev, DOMAIN ev = 1..m,
         \A j \in 1..m : ev[j] = s[j]
  PROVE  /\ Persistence(StepEvaluations(e, ev)) \in 0..3
         /\ Persistence(StepEvaluations(e, ev)) >= 2 <=>
              \E h \in 2..m : Off(e, s, h - 1) /\ Off(e, s, h)
<1> DEFINE steps == StepEvaluations(e, ev)
<1>1. /\ Len(steps) = m
      /\ \A h \in 1..m : (steps[h].mismatch <=> Off(e, s, h)) /\ steps[h].mismatch \in BOOLEAN
  <2>1. Len(steps) = m
    BY StepsLength
  <2>2. \A h \in 1..m : IsStep(steps[h], e, s, h)
    BY StepsOfOrdered
  <2> HIDE DEF steps
  <2> QED BY <2>1, <2>2 DEF IsStep
<1> HIDE DEF steps
<1>2. /\ Persistence(steps) \in 0..3
      /\ Persistence(steps) >= 2 <=> \E h \in 2..m : steps[h - 1].mismatch /\ steps[h].mismatch
  <2>1. m \in 0..3 /\ \A h \in 1..m : steps[h].mismatch \in BOOLEAN
    BY <1>1
  <2> QED BY <1>1, <2>1, StreakIsFound
<1>3. \A h \in 2..m : /\ steps[h].mismatch <=> Off(e, s, h)
                      /\ steps[h - 1].mismatch <=> Off(e, s, h - 1)
  <2>1. \A h \in 2..m : h \in 1..m /\ h - 1 \in 1..m
    OBVIOUS
  <2> QED BY <1>1, <2>1
<1> QED BY <1>2, <1>3 DEF steps

\* What a verification decides on the first m windows of s.
IsVerdict(v, e, s, m) ==
  LET steps == StepEvaluations(e, Evaluated(e, s)) IN
  /\ v.status \in VerificationStatus
  /\ v.status # "INSUFFICIENT_EVIDENCE" <=> m >= 1 /\ ~s[1].empty
  /\ v.status = "VERIFIED_MISMATCH" <=> m >= 1 /\ ~s[1].empty /\ Convicts(e, s, m)
  /\ m >= 1 /\ ~s[1].empty =>
       /\ v.steps = steps /\ v.maxRisk = HighestRisk(steps)
       /\ v.breached <=> \E h \in 1..m : Breaches(e, s[h])
       /\ v.persistence = Persistence(steps) /\ v.windows = WindowIds(Evaluated(e, s))

(* What a verification of windows in order decides.                         *)
LEMMA VerdictOfOrdered ==
  ASSUME NEW e, NEW s, InOrder(s, e.window), Candidates(e, s) = s,
         NEW m \in 0..3, m <= Len(s), Evaluated(e, s) = [j \in 1..m |-> s[j]]
  PROVE  IsVerdict(VerifyTrajectory(e, s), e, s, m)
<1> DEFINE v == VerifyTrajectory(e, s)
           ev == Evaluated(e, s)
           steps == StepEvaluations(e, ev)
           breached == \E h \in DOMAIN ev : Breaches(e, ev[h])
           found == [status |-> IF breached \/ Persistence(steps) >= PersistenceRequired
                                THEN "VERIFIED_MISMATCH" ELSE "VERIFIED_SUCCESS",
                     steps |-> steps, maxRisk |-> HighestRisk(steps), breached |-> breached,
                     persistence |-> Persistence(steps), windows |-> WindowIds(ev)]
<1>1. v = IF s = <<>> THEN Insufficient(<<>>)
          ELSE IF s[1].empty THEN Insufficient(<<s[1]>>)
          ELSE IF ev = <<>> THEN Insufficient(s)
          ELSE found
  BY DEF VerifyTrajectory
<1>2. \A w : Insufficient(w).status = "INSUFFICIENT_EVIDENCE"
  BY DEF Insufficient
<1>3. s = <<>> <=> Len(s) = 0
  BY EmptySeq DEF InOrder
<1>4. Len(s) \in Nat
  BY InOrderIs
<1>5. DOMAIN ev = 1..m /\ \A h \in 1..m : ev[h] = s[h]
  OBVIOUS
<1>6. ev = <<>> <=> m = 0
  <2>1. ev = <<>> => 1..m = {}
    <3> HIDE DEF ev
    <3>1. DOMAIN <<>> = {}
      OBVIOUS
    <3> QED BY <1>5, <3>1
  <2>2. m = 0 => ev = <<>>
    OBVIOUS
  <2> QED BY <2>1, <2>2
<1>7. breached <=> \E h \in 1..m : Breaches(e, s[h])
  <2> HIDE DEF ev
  <2> QED BY <1>5
<1>8. m >= 1 => (Persistence(steps) >= 2 <=> \E h \in 2..m : Off(e, s, h - 1) /\ Off(e, s, h))
  <2> SUFFICES ASSUME m \in 1..3
               PROVE  Persistence(steps) >= 2 <=> \E h \in 2..m : Off(e, s, h - 1) /\ Off(e, s, h)
    OBVIOUS
  <2> HIDE DEF ev
  <2> QED BY <1>5, StreakOfOrdered
<1>9. m >= 1 => (breached \/ Persistence(steps) >= PersistenceRequired <=> Convicts(e, s, m))
  <2> HIDE DEF ev, steps, breached
  <2>1. \A h \in 1..m : h > 1 <=> h \in 2..m
    OBVIOUS
  <2>2. \A h \in 2..m : h \in 1..m
    OBVIOUS
  <2> QED BY <1>7, <1>8, <2>1, <2>2 DEF Convicts, PersistenceRequired
<1> HIDE DEF v, ev, steps, breached
<1>10. /\ found.status \in VerificationStatus /\ found.status # "INSUFFICIENT_EVIDENCE"
       /\ found.status = "VERIFIED_MISMATCH"
            <=> breached \/ Persistence(steps) >= PersistenceRequired
       /\ found.steps = steps /\ found.maxRisk = HighestRisk(steps) /\ (found.breached <=> breached)
       /\ found.persistence = Persistence(steps) /\ found.windows = WindowIds(ev)
  BY DEF VerificationStatus
<1> HIDE DEF found
<1>11. "INSUFFICIENT_EVIDENCE" \in VerificationStatus
       /\ "INSUFFICIENT_EVIDENCE" # "VERIFIED_MISMATCH"
  BY DEF VerificationStatus
<1>12. CASE m >= 1 /\ ~s[1].empty
  <2>1. v = found
    BY <1>1, <1>3, <1>4, <1>6, <1>12
  <2> QED BY <1>7, <1>9, <1>10, <1>12, <2>1 DEF v, ev, steps, IsVerdict
<1>13. CASE ~(m >= 1 /\ ~s[1].empty)
  <2>1. v.status = "INSUFFICIENT_EVIDENCE"
    BY <1>1, <1>2, <1>3, <1>4, <1>6, <1>13
  <2> QED BY <1>11, <1>13, <2>1 DEF v, IsVerdict
<1> QED BY <1>12, <1>13

(* The reference agrees with the verifier about what convicts.              *)
LEMMA DivergesIsConvicts ==
  ASSUME NEW e, NEW s, NEW m \in 0..3, Evaluated(e, s) = [j \in 1..m |-> s[j]]
  PROVE  Diverges(e, s) <=> Convicts(e, s, m)
<1> DEFINE ev == Evaluated(e, s)
<1>1. DOMAIN ev = 1..m /\ \A h \in 1..m : ev[h] = s[h]
  OBVIOUS
<1>2. m >= 1 => ev[1] = s[1]
  BY <1>1
<1> DEFINE OffAt(h) == \/ FeatureDiverges(e.baseline.features[PrimaryFeature(ev[1])],
                                          ev[h].features[PrimaryFeature(ev[1])], h)
                       \/ Breaches(e, ev[h])
<1>3. Diverges(e, s) <=>
        \E h \in DOMAIN ev : (h > 1 /\ OffAt(h - 1) /\ OffAt(h)) \/ Breaches(e, ev[h])
  BY DEF Diverges
<1> HIDE DEF ev
<1>4. \A h \in 1..m : OffAt(h) <=> Off(e, s, h)
  <2> SUFFICES ASSUME NEW h \in 1..m PROVE OffAt(h) <=> Off(e, s, h)
    OBVIOUS
  <2>1. ev[1] = s[1] /\ ev[h] = s[h]
    BY <1>1, <1>2
  <2> QED BY <2>1 DEF Off
<1> HIDE DEF OffAt
<1>5. \A h \in 1..m : h > 1 => h - 1 \in 1..m
  OBVIOUS
<1> QED BY <1>1, <1>3, <1>4, <1>5 DEF Convicts

(* A window's risk is a number, whatever the window is.                      *)
LEMMA ObservedRiskInt ==
  ASSUME NEW w
  PROVE  ObservedRisk(w) \in Int
<1> DEFINE primary == PrimaryHypothesis(SignaturesOf(w.features, <<>>))
<1>1. primary.stage \in Stage /\ primary.confidence \in Int
  BY PrimaryIsAStage
<1>2. ObservedRisk(w) = ComputeRisk(primary.stage, 2 * primary.confidence, 85, "HIGH", 0)
  BY DEF ObservedRisk
<1> HIDE DEF primary
<1>3. 2 * primary.confidence \in Int /\ 85 \in Int /\ 0 \in 0..3
  BY <1>1
<1> QED BY <1>1, <1>2, <1>3, RiskInt

(* The largest of a few numbers is one of them and no less than any.        *)
LEMMA MaxOfFour ==
  ASSUME NEW a \in Int, NEW b \in Int, NEW c \in Int, NEW d \in Int
  PROVE  Max({a, b, c, d}) \in Int /\ \A y \in {a, b, c, d} : Max({a, b, c, d}) >= y
<1> DEFINE S == {a, b, c, d}
<1>1. \E x \in S : \A y \in S : x >= y
  <2>1. CASE a >= b /\ a >= c /\ a >= d
    BY <2>1
  <2>2. CASE b >= a /\ b >= c /\ b >= d
    BY <2>2
  <2>3. CASE c >= a /\ c >= b /\ c >= d
    BY <2>3
  <2>4. CASE d >= a /\ d >= b /\ d >= c
    BY <2>4
  <2> QED BY <2>1, <2>2, <2>3, <2>4
<1>2. S \subseteq Int
  OBVIOUS
<1> HIDE DEF S
<1>3. Max(S) \in S /\ \A y \in S : Max(S) >= y
  BY <1>1 DEF Max
<1> QED BY <1>2, <1>3 DEF S

(* No window's risk is above the highest one of its verdict.                *)
LEMMA HighestRiskIsHighest ==
  ASSUME NEW m \in 1..3, NEW steps, DOMAIN steps = 1..m,
         \A h \in 1..m : steps[h].risk \in Int
  PROVE  HighestRisk(steps) \in Int /\ \A h \in 1..m : HighestRisk(steps) >= steps[h].risk
<1> DEFINE r(h) == IF h <= m THEN steps[h].risk ELSE NoReading
           S == {NoReading, r(1), r(2), r(3)}
<1>1. NoReading \in Int /\ r(1) \in Int /\ r(2) \in Int /\ r(3) \in Int
  BY DEF NoReading
<1>2. {NoReading} \union {steps[h].risk : h \in DOMAIN steps} = S
  <2>1. m \in {1, 2, 3}
    OBVIOUS
  <2>2. CASE m = 1
    <3>1. 1..m = {1}
      BY <2>2
    <3> QED BY <2>2, <3>1
  <2>3. CASE m = 2
    <3>1. 1..m = {1, 2}
      BY <2>3
    <3> QED BY <2>3, <3>1
  <2>4. CASE m = 3
    <3>1. 1..m = {1, 2, 3}
      BY <2>4
    <3> QED BY <2>4, <3>1
  <2> QED BY <2>1, <2>2, <2>3, <2>4
<1>3. \A h \in 1..m : steps[h].risk \in S
  BY <1>2
<1>4. HighestRisk(steps) = Max(S)
  BY <1>2 DEF HighestRisk
<1>5. Max(S) \in Int /\ \A y \in S : Max(S) >= y
  <2> HIDE DEF r
  <2> QED BY <1>1, MaxOfFour
<1> HIDE DEF S
<1> QED BY <1>3, <1>4, <1>5

(* What a window says of such a feature.                                    *)
LEMMA FeatureIsNat ==
  ASSUME NEW w \in Window, NEW feature \in {"bytes", "flows", "syn", "ports"}
  PROVE  w.features[feature] \in Nat
<1>1. w.features \in Features
  BY DEF Window
<1>2. /\ w.features["bytes"] \in Nat /\ w.features["flows"] \in Nat
      /\ w.features["syn"] \in Nat /\ w.features["ports"] \in Nat
  BY <1>1 DEF Features
<1> QED BY <1>2

(* A reduction that verify() confirms is no divergence.                     *)
LEMMA MetIsNoDivergence ==
  ASSUME NEW base \in Nat, NEW obs \in Nat, NEW h \in 1..3,
         NEW direction \in {"DECREASE", "BELOW_THRESHOLD"},
         MeetsExpectation(direction, base, obs)
  PROVE  ~FeatureDiverges(base, obs, h)
<1>1. Tolerance(h) \in {100, 125, 150}
  BY DEF Tolerance
<1>2. base > 0 => AtLeastOne(base) \in Nat /\ AtLeastOne(base) >= 1
  BY DEF AtLeastOne
<1>3. base > 0 => Tolerance(h) * AtLeastOne(base) > 0
  <2> DEFINE t == Tolerance(h) one == AtLeastOne(base)
  <2> HIDE DEF t, one
  <2>1. t \in {100, 125, 150} /\ (base > 0 => one \in Nat /\ one >= 1)
    BY <1>1, <1>2 DEF t, one
  <2>2. base > 0 => t * one > 0
    <3>1. CASE t = 100
      BY <2>1, <3>1
    <3>2. CASE t = 125
      BY <2>1, <3>2
    <3>3. CASE t = 150
      BY <2>1, <3>3
    <3> QED BY <2>1, <3>1, <3>2, <3>3
  <2> QED BY <2>2 DEF t, one
<1>4. CASE direction = "DECREASE"
  <2>1. base > 0 /\ 100 * (base - obs) >= 5 * base
    BY <1>4 DEF MeetsExpectation
  <2>2. obs < base
    BY <2>1
  <2>3. 1000 * (obs - base) < 0
    BY <2>2
  <2> DEFINE x == Tolerance(h) * AtLeastOne(base)
  <2>4. x \in Int /\ x > 0
    BY <1>1, <1>2, <1>3, <2>1
  <2> HIDE DEF x
  <2>5. ~(1000 * (obs - base) > x)
    BY <2>3, <2>4
  <2> QED BY <2>1, <2>5 DEF FeatureDiverges, x
<1>5. CASE direction = "BELOW_THRESHOLD"
  <2>1. 2 * obs <= base
    BY <1>5 DEF MeetsExpectation
  <2>2. obs <= base
    BY <2>1
  <2>3. 1000 * (obs - base) <= 0
    BY <2>2
  <2> DEFINE x == Tolerance(h) * AtLeastOne(base)
  <2>4. base > 0 => x \in Int /\ x > 0
    BY <1>1, <1>2, <1>3
  <2> HIDE DEF x
  <2>5. base > 0 => ~(1000 * (obs - base) > x)
    BY <2>3, <2>4
  <2>6. ~(base > 0) => ~(obs > 1000)
    BY <2>1
  <2> QED BY <2>5, <2>6 DEF FeatureDiverges, x
<1> QED BY <1>4, <1>5

(* The two verifiers about one window.                                      *)
LEMMA VerifiersAgreeOnWindow ==
  ASSUME NEW w \in Window, NEW base \in Nat, NEW feature \in {"bytes", "flows", "syn", "ports"},
         NEW direction \in {"DECREASE", "BELOW_THRESHOLD"}, NEW h \in 1..3
  PROVE  LET result == Verify(feature, direction, base, w)
             obs == w.features[feature]
         IN /\ result \in OutcomeVerificationResult
            /\ FeatureDiverges(base, obs, h) => result.status # "VERIFIED_SUCCESS"
            /\ Handoff(result).made => Handoff(result).observed = obs
<1> DEFINE result == Verify(feature, direction, base, w)
           obs == w.features[feature]
           met == MeetsExpectation(direction, base, obs)
           read == [status |-> IF met THEN "VERIFIED_SUCCESS" ELSE "VERIFIED_MISMATCH",
                    metric |-> feature, baseline |-> base, observed |-> obs,
                    deviation |-> obs - base, window |-> w.n, recommended |-> ~met]
<1>1. w.n \in Nat /\ obs \in Nat /\ feature \in FeatureName
  BY FeatureIsNat DEF Window, FeatureName
<1>2. result = IF feature \notin w.measured \/ w.empty THEN Unverified(feature, base, w)
               ELSE read
  BY DEF Verify
<1>3. met => ~FeatureDiverges(base, obs, h)
  <2> HIDE DEF obs
  <2> QED BY <1>1, MetIsNoDivergence
<1> HIDE DEF obs, met
<1>4. CASE result = Unverified(feature, base, w)
  <2> DEFINE u == Unverified(feature, base, w)
  <2>1. u \in OutcomeVerificationResult /\ u.status = "INSUFFICIENT_EVIDENCE"
    BY <1>1 DEF Unverified, OutcomeVerificationResult, VerificationStatus, NoReading
  <2> HIDE DEF u
  <2>2. ~Handoff(u).made
    BY <2>1 DEF Handoff, NoHandoff
  <2>3. result = u
    BY <1>4 DEF u
  <2> QED BY <2>1, <2>2, <2>3 DEF obs
<1>5. CASE result = read
  <2>1. read \in OutcomeVerificationResult
    BY <1>1 DEF OutcomeVerificationResult, VerificationStatus
  <2>2. read.status = (IF met THEN "VERIFIED_SUCCESS" ELSE "VERIFIED_MISMATCH")
        /\ read.observed = obs
    OBVIOUS
  <2> HIDE DEF read
  <2>3. Handoff(read).made => Handoff(read).observed = obs
    BY <2>2 DEF Handoff, NoHandoff
  <2> QED BY <1>3, <1>5, <2>1, <2>2, <2>3 DEF obs
<1> HIDE DEF read, result
<1> QED BY <1>2, <1>4, <1>5 DEF result

(* What TrajectoryHandoff makes of a verdict.                                *)
LEMMA HandoffOf ==
  ASSUME NEW v, v.steps # <<>>, NEW st, st = v.steps[1]
  PROVE  /\ TrajectoryHandoff(v).made <=> v.status = "VERIFIED_MISMATCH"
         /\ v.status = "VERIFIED_MISMATCH" =>
              /\ TrajectoryHandoff(v).metric = st.feature
              /\ TrajectoryHandoff(v).baseline = st.base
              /\ TrajectoryHandoff(v).observed = st.observed
<1>1. CASE v.status # "VERIFIED_MISMATCH"
  BY <1>1, SMT DEF TrajectoryHandoff, NoHandoff
<1>2. CASE v.status = "VERIFIED_MISMATCH"
  <2>1. TrajectoryHandoff(v) =
          [made |-> TRUE, metric |-> st.feature, window |-> Last(v.windows),
           baseline |-> st.base, observed |-> st.observed]
    <3>1. FirstStep(v.steps) = st
      BY DEF FirstStep
    <3> QED BY <1>2, <3>1, SMT DEF TrajectoryHandoff
  <2> QED BY <1>2, <2>1
<1> QED BY <1>1, <1>2

(* What an expectation consists of.                                         *)
LEMMA ExpectationIs ==
  ASSUME NEW e \in TrajectoryOutcomeExpectation
  PROVE  /\ e.window \in Nat /\ e.ttl \in Nat /\ e.baseline \in Window
         /\ e.ceiling \in Nat
BY DEF TrajectoryOutcomeExpectation

(* A verification of windows in order states its reason, and rests on the    *)
(* first of them.                                                           *)
LEMMA VerdictIsGrounded ==
  ASSUME NEW e \in TrajectoryOutcomeExpectation, NEW s, InOrder(s, e.window)
  PROVE  LET v == VerifyTrajectory(e, s) handoff == TrajectoryHandoff(v) IN
         /\ handoff.made <=> v.status = "VERIFIED_MISMATCH"
         /\ handoff.made =>
              /\ IF v.breached THEN v.maxRisk > e.ceiling ELSE v.persistence >= PersistenceRequired
              /\ handoff.baseline = e.baseline.features[handoff.metric]
              /\ \E i \in DOMAIN s : /\ s[i].n = v.windows[1]
                                     /\ handoff.observed = s[i].features[handoff.metric]
         /\ v.status # "INSUFFICIENT_EVIDENCE" =>
              /\ v.status = "VERIFIED_MISMATCH" <=> Diverges(e, s)
              /\ \E i \in DOMAIN s : /\ ~s[i].empty /\ s[i].n > e.window
                                     /\ 10 * (s[i].n - e.window) <= e.ttl + 1
<1> DEFINE v == VerifyTrajectory(e, s)
           handoff == TrajectoryHandoff(v)
<1>1. /\ e.window \in Nat /\ e.ttl \in Nat /\ e.baseline \in Window /\ e.ceiling \in Nat
  BY ExpectationIs
<1>2. Candidates(e, s) = s
      /\ \E m \in 0..3 : Counts(e, s, m) /\ Evaluated(e, s) = [j \in 1..m |-> s[j]]
  BY <1>1, EvaluatedOfOrdered
<1>3. PICK m \in 0..3 : Counts(e, s, m) /\ Evaluated(e, s) = [j \in 1..m |-> s[j]]
  BY <1>2
<1> DEFINE ev == Evaluated(e, s)
           steps == StepEvaluations(e, ev)
           feature == PrimaryFeature(s[1])
<1>4. m <= Len(s) /\ \A j \in 1..m : WithinTtl(e, s[j])
  BY <1>3 DEF Counts
<1>5. /\ Len(s) \in Nat /\ DOMAIN s = 1..Len(s)
      /\ \A i \in 1..Len(s) : s[i] \in Window /\ s[i].n \in Nat /\ s[i].n > e.window
  BY InOrderIs
<1>6. DOMAIN ev = 1..m /\ \A h \in 1..m : ev[h] = s[h]
  BY <1>3
<1>7. IsVerdict(v, e, s, m)
  BY <1>2, <1>3, <1>4, VerdictOfOrdered
<1>8. Diverges(e, s) <=> Convicts(e, s, m)
  BY <1>3, DivergesIsConvicts
<1> HIDE DEF v, ev, steps
<1>9. /\ v.status # "INSUFFICIENT_EVIDENCE" <=> m >= 1 /\ ~s[1].empty
      /\ v.status = "VERIFIED_MISMATCH" <=> m >= 1 /\ ~s[1].empty /\ Convicts(e, s, m)
      /\ m >= 1 /\ ~s[1].empty =>
           /\ v.steps = steps /\ v.maxRisk = HighestRisk(steps)
           /\ v.breached <=> \E h \in 1..m : Breaches(e, s[h])
           /\ v.persistence = Persistence(steps) /\ v.windows = WindowIds(ev)
  BY <1>7 DEF IsVerdict, steps, ev
<1>10. CASE ~(m >= 1 /\ ~s[1].empty)
  <2>1. v.status = "INSUFFICIENT_EVIDENCE" /\ v.status # "VERIFIED_MISMATCH"
    BY <1>9, <1>10
  <2>2. ~handoff.made
    BY <2>1 DEF TrajectoryHandoff, NoHandoff
  <2> HIDE DEF handoff
  <2> QED BY <2>1, <2>2 DEF v, handoff
<1>11. CASE m >= 1 /\ ~s[1].empty
  <2>1. m \in 1..3 /\ 1 \in 1..m /\ 1 \in DOMAIN s
    BY <1>4, <1>5, <1>11
  <2>2. Len(steps) = m /\ DOMAIN steps = 1..m
    BY <1>6, StepsLength DEF steps
  <2>3. \A h \in 1..m : IsStep(steps[h], e, s, h)
    BY <1>6, <2>1, StepsOfOrdered DEF steps
  <2>4. steps # <<>>
    BY <2>1, <2>2
  <2>5. /\ handoff.made <=> v.status = "VERIFIED_MISMATCH"
        /\ v.status = "VERIFIED_MISMATCH" =>
             /\ handoff.metric = steps[1].feature /\ handoff.baseline = steps[1].base
             /\ handoff.observed = steps[1].observed
    BY <1>9, <1>11, <2>4, HandoffOf
  <2> HIDE DEF handoff, feature
  <2>6. v.breached => v.maxRisk > e.ceiling
    <3> SUFFICES ASSUME v.breached PROVE v.maxRisk > e.ceiling
      OBVIOUS
    <3>1. PICK h \in 1..m : Breaches(e, s[h])
      BY <1>9, <1>11
    <3>2. RiskLayer /\ ObservedRisk(s[h]) > e.ceiling
      BY <3>1 DEF Breaches
    <3>3. \A g \in 1..m : steps[g].risk \in Int
      BY <2>3, ObservedRiskInt DEF NoReading, IsStep
    <3>4. HighestRisk(steps) >= steps[h].risk /\ HighestRisk(steps) \in Int
      BY <2>1, <2>2, <3>3, HighestRiskIsHighest
    <3>5. steps[h].risk = ObservedRisk(s[h])
      BY <2>3, <3>2 DEF IsStep
    <3> QED BY <1>1, <1>9, <1>11, <3>2, <3>3, <3>4, <3>5
  <2>7. v.status = "VERIFIED_MISMATCH" /\ ~v.breached => v.persistence >= PersistenceRequired
    <3> SUFFICES ASSUME Convicts(e, s, m), \A h \in 1..m : ~Breaches(e, s[h])
                 PROVE  Persistence(steps) >= PersistenceRequired
      BY <1>9, <1>11
    <3>1. PICK h \in 1..m : h > 1 /\ Off(e, s, h - 1) /\ Off(e, s, h)
      BY DEF Convicts
    <3>2. h \in 2..m
      BY <3>1
    <3>3. Persistence(steps) >= 2 <=> \E g \in 2..m : Off(e, s, g - 1) /\ Off(e, s, g)
      BY <1>6, <2>1, StreakOfOrdered DEF steps
    <3> QED BY <3>1, <3>2, <3>3 DEF PersistenceRequired
  <2>8. v.windows[1] = s[1].n
    BY <1>6, <1>9, <1>11, <2>1 DEF WindowIds
  <2>9. s[1].n > e.window /\ 10 * (s[1].n - e.window) <= e.ttl + 1
    <3>1. WithinTtl(e, s[1]) /\ s[1].n \in Nat /\ s[1].n > e.window
      BY <1>4, <1>5, <2>1
    <3> QED BY <1>1, <3>1 DEF WithinTtl
  <2>10. handoff.made =>
           /\ handoff.baseline = e.baseline.features[handoff.metric]
           /\ s[1].n = v.windows[1] /\ handoff.observed = s[1].features[handoff.metric]
    BY <2>1, <2>3, <2>5, <2>8 DEF IsStep
  <2>11. v.status = "VERIFIED_MISMATCH" <=> Diverges(e, s)
    BY <1>9, <1>8, <1>11
  <2>12. \E i \in DOMAIN s : /\ ~s[i].empty /\ s[i].n > e.window
                             /\ 10 * (s[i].n - e.window) <= e.ttl + 1
    BY <1>11, <2>1, <2>9
  <2>13. handoff.made => IF v.breached THEN v.maxRisk > e.ceiling
                         ELSE v.persistence >= PersistenceRequired
    BY <2>5, <2>6, <2>7
  <2>14. handoff.made => \E i \in DOMAIN s : /\ s[i].n = v.windows[1]
                                             /\ handoff.observed = s[i].features[handoff.metric]
    BY <2>1, <2>10
  <2> QED BY <2>5, <2>10, <2>11, <2>12, <2>13, <2>14 DEF v, handoff
<1> QED BY <1>10, <1>11

(* Dropping the first windows keeps the order.                              *)
LEMMA TailIsOrdered ==
  ASSUME NEW s, NEW from, InOrder(s, from), NEW lo \in Nat \ {0}, lo <= Len(s) + 1
  PROVE  InOrder(SubSeq(s, lo, Len(s)), from)
<1> DEFINE n == Len(s)
           t == SubSeq(s, lo, n)
<1>1. /\ n \in Nat /\ DOMAIN s = 1..n /\ s \in Seq(Window)
      /\ \A i \in 1..n : s[i] \in Window /\ s[i].n \in Nat /\ s[i].n > from
      /\ \A i, j \in 1..n : i < j => s[i].n < s[j].n
  BY InOrderIs DEF InOrder
<1>2. /\ t \in Seq(Window) /\ Len(t) = (n - lo) + 1
      /\ \A i \in 1..Len(t) : t[i] = s[(lo + i) - 1] /\ (lo + i) - 1 \in 1..n
  <2> HIDE DEF n
  <2> QED BY <1>1
<1>3. DOMAIN t = 1..Len(t) /\ Len(t) \in Nat
  BY <1>2, LenProperties
<1> HIDE DEF n, t
<1>4. \A i \in DOMAIN t : t[i].n > from
  BY <1>1, <1>2, <1>3
<1>5. ASSUME NEW i \in DOMAIN t, NEW j \in DOMAIN t, i < j PROVE t[i].n < t[j].n
  <2>1. (lo + i) - 1 < (lo + j) - 1
    BY <1>3, <1>5
  <2> QED BY <1>1, <1>2, <1>3, <2>1
<1> QED BY <1>2, <1>4, <1>5 DEF InOrder, t, n

(* What is fed to a verification is in the order of the telemetry.          *)
LEMMA FedIsOrdered ==
  ASSUME NEW from, InOrder(telemetry, from)
  PROVE  InOrder(Fed, from)
<1> DEFINE n == Len(telemetry)
           lo == IF n > FeedLimit THEN (n - FeedLimit) + 1 ELSE 1
<1>1. n \in Nat /\ FeedLimit \in Nat \ {0}
  BY InOrderIs, ClosedLoopAssumption
<1>2. lo \in Nat \ {0} /\ lo <= n + 1
  <2> HIDE DEF n
  <2> QED BY <1>1
<1>3. Fed = SubSeq(telemetry, lo, n)
  BY DEF Fed
<1> HIDE DEF lo
<1> QED BY <1>2, <1>3, TailIsOrdered

(* A later window at the end keeps the order.                               *)
LEMMA AppendIsOrdered ==
  ASSUME NEW s, NEW from, InOrder(s, from), NEW w \in Window, w.n > from,
         \A i \in DOMAIN s : s[i].n < w.n
  PROVE  /\ InOrder(Append(s, w), from)
         /\ Len(Append(s, w)) = Len(s) + 1 /\ DOMAIN Append(s, w) = 1..(Len(s) + 1)
         /\ \A i \in 1..Len(s) : Append(s, w)[i] = s[i]
         /\ Append(s, w)[Len(s) + 1] = w
<1> DEFINE n == Len(s)
           t == Append(s, w)
<1>1. /\ n \in Nat /\ DOMAIN s = 1..n /\ s \in Seq(Window)
      /\ \A i \in 1..n : s[i] \in Window /\ s[i].n \in Nat /\ s[i].n > from
      /\ \A i, j \in 1..n : i < j => s[i].n < s[j].n
  BY InOrderIs DEF InOrder
<1>2. /\ t \in Seq(Window) /\ Len(t) = n + 1 /\ DOMAIN t = 1..(n + 1)
      /\ \A i \in 1..n : t[i] = s[i]
      /\ t[n + 1] = w
  BY <1>1, AppendProperties
<1> HIDE DEF n, t
<1>3. \A i \in 1..(n + 1) : i \in 1..n \/ i = n + 1
  BY <1>1
<1>4. \A i \in DOMAIN t : t[i].n > from
  BY <1>1, <1>2, <1>3
<1>5. ASSUME NEW i \in DOMAIN t, NEW j \in DOMAIN t, i < j PROVE t[i].n < t[j].n
  <2>1. i \in 1..n
    BY <1>1, <1>2, <1>5
  <2>2. CASE j \in 1..n
    BY <1>1, <1>2, <1>5, <2>1, <2>2
  <2>3. CASE j = n + 1
    BY <1>1, <1>2, <2>1, <2>3
  <2> QED BY <1>2, <1>3, <2>2, <2>3
<1> QED BY <1>2, <1>4, <1>5 DEF InOrder, t, n

(* A mismatch of windows in order stays one when a later window is added.   *)
LEMMA MismatchGrows ==
  ASSUME NEW e \in TrajectoryOutcomeExpectation, NEW s, NEW t, InOrder(s, e.window),
         InOrder(t, e.window), Len(t) = Len(s) + 1, \A i \in 1..Len(s) : t[i] = s[i],
         VerifyTrajectory(e, s).status = "VERIFIED_MISMATCH"
  PROVE  VerifyTrajectory(e, t).status = "VERIFIED_MISMATCH"
<1>1. e.window \in Nat /\ e.ttl \in Nat
  BY ExpectationIs
<1>2. PICK m \in 0..3 : Counts(e, s, m) /\ Evaluated(e, s) = [j \in 1..m |-> s[j]]
  BY <1>1, EvaluatedOfOrdered
<1>3. PICK k \in 0..3 : Counts(e, t, k) /\ Evaluated(e, t) = [j \in 1..k |-> t[j]]
  BY <1>1, EvaluatedOfOrdered
<1>4. Candidates(e, s) = s /\ Candidates(e, t) = t
  BY <1>1, EvaluatedOfOrdered
<1>5. m <= Len(s) /\ k <= Len(t) /\ Len(s) \in Nat
  BY <1>2, <1>3, InOrderIs DEF Counts
<1>6. IsVerdict(VerifyTrajectory(e, s), e, s, m) /\ IsVerdict(VerifyTrajectory(e, t), e, t, k)
  BY <1>2, <1>3, <1>4, <1>5, VerdictOfOrdered
<1>7. m >= 1 /\ ~s[1].empty /\ Convicts(e, s, m)
  BY <1>6 DEF IsVerdict
<1>8. \A j \in 1..m : t[j] = s[j]
  BY <1>5
<1>9. m <= k
  <2> SUFFICES ASSUME k < m PROVE FALSE
    OBVIOUS
  <2>1. k # MaxObservationSteps /\ m \in (k + 1)..Len(t) /\ m \in 1..m
    BY <1>5, <1>7 DEF MaxObservationSteps
  <2>2. ~WithinTtl(e, t[m])
    BY <1>3, <2>1 DEF Counts
  <2>3. WithinTtl(e, s[m])
    BY <1>2, <2>1 DEF Counts
  <2> QED BY <1>8, <2>1, <2>2, <2>3
<1>10. t[1] = s[1] /\ \A h \in 1..m : (Breaches(e, s[h]) <=> Breaches(e, t[h]))
                                     /\ (Off(e, s, h) <=> Off(e, t, h))
  <2>1. t[1] = s[1]
    BY <1>7, <1>8
  <2> QED BY <1>8, <2>1 DEF Off
<1>11. \A h \in 1..m : h \in 1..k /\ (h > 1 => h - 1 \in 1..m)
  BY <1>9
<1>12. Convicts(e, t, k)
  BY <1>7, <1>10, <1>11 DEF Convicts
<1> QED BY <1>6, <1>7, <1>9, <1>10, <1>12 DEF IsVerdict

(* An execution is verified on windows that followed it in order, and the    *)
(* verdict of the latest window is that of the windows fed to it.           *)
Following ==
  /\ latest.window \in Window
  /\ expectation = Missing => telemetry = <<>> /\ verdict = Missing
  /\ expectation # Missing =>
       /\ expectation \in TrajectoryOutcomeExpectation
       /\ expectation.window <= latest.window.n
       /\ InOrder(telemetry, expectation.window)
       /\ \A i \in DOMAIN telemetry : telemetry[i].n <= latest.window.n

Fresh ==
  verdict # Missing =>
    /\ verifiedAt \in Nat /\ verifiedAt <= latest.window.n
    /\ verifiedAt = latest.window.n => verdict = VerifyTrajectory(expectation, Fed)

VerdictInv == Following /\ Fresh

(* What closes is a window.                                                 *)
LEMMA WindowOfKind ==
  ASSUME NEW k \in Kinds, NEW n \in Nat
  PROVE  WindowOf(k, n) \in Window /\ WindowOf(k, n).n = n
<1>1. k \in [features : Features, forecast : [Horizons -> Deltas],
             measured : SUBSET FeatureName, empty : BOOLEAN]
  BY ClosedLoopAssumption
<1> QED BY <1>1 DEF WindowOf, Window

(* It holds at first, before anything was executed.                         *)
LEMMA VerdictInit == Init => VerdictInv
<1> SUFFICES ASSUME Init PROVE VerdictInv
  OBVIOUS
<1>1. PICK k \in Kinds : latest = [window |-> WindowOf(k, 0), forecast |-> k.forecast]
  BY DEF Init
<1>2. latest.window \in Window
  BY <1>1, WindowOfKind
<1>3. expectation = Missing /\ telemetry = <<>> /\ verdict = Missing
  BY DEF Init
<1> QED BY <1>2, <1>3 DEF VerdictInv, Following, Fresh

(* No windows are in order.                                                 *)
LEMMA NothingIsOrdered ==
  ASSUME NEW from
  PROVE  InOrder(<<>>, from)
BY DEF InOrder

(* Steps that neither close nor verify a window, nor execute.               *)
LEMMA VerdictUnchanged ==
  ASSUME VerdictInv, UNCHANGED <<latest, expectation, telemetry, verifiedAt, verdict>>
  PROVE  VerdictInv'
BY DEF VerdictInv, Following, Fresh, Fed

(* The telemetry is windows, before an execution too.                       *)
LEMMA TelemetryTyped ==
  ASSUME VerdictInv
  PROVE  telemetry \in Seq(Window)
<1>1. CASE expectation = Missing
  BY <1>1 DEF VerdictInv, Following
<1>2. CASE expectation # Missing
  BY <1>2 DEF VerdictInv, Following, InOrder
<1> QED BY <1>1, <1>2

(* The window that closes is later than all received.                       *)
LEMMA ClosingKeepsOrder ==
  ASSUME VerdictInv, NEW k \in Kinds, NEW received \in BOOLEAN, CloseWindow(k, received)
  PROVE  VerdictInv'
<1> DEFINE w == WindowOf(k, latest.window.n + 1)
           n == latest.window.n
<1>1. /\ latest' = [window |-> w, forecast |-> k.forecast]
      /\ telemetry' = IF received /\ expectation # Missing THEN Append(telemetry, w) ELSE telemetry
      /\ UNCHANGED <<expectation, verifiedAt, verdict>>
  BY DEF CloseWindow
<1>2. n \in Nat
  BY DEF VerdictInv, Following, Window
<1>3. w \in Window /\ w.n = n + 1
  BY <1>2, WindowOfKind
<1> HIDE DEF w
<1>4. latest'.window = w /\ latest'.window \in Window /\ latest'.window.n = n + 1
  BY <1>1, <1>3
<1>5. expectation = Missing => telemetry' = <<>> /\ verdict' = Missing
  BY <1>1 DEF VerdictInv, Following
<1>6. ASSUME expectation # Missing
      PROVE  /\ expectation \in TrajectoryOutcomeExpectation
             /\ expectation.window <= n + 1
             /\ InOrder(telemetry', expectation.window)
             /\ \A i \in DOMAIN telemetry' : telemetry'[i].n <= n + 1
  <2>1. /\ expectation \in TrajectoryOutcomeExpectation /\ expectation.window <= n
        /\ InOrder(telemetry, expectation.window)
        /\ \A i \in DOMAIN telemetry : telemetry[i].n <= n
    BY <1>6 DEF VerdictInv, Following
  <2>2. expectation.window \in Nat
    BY <2>1, ExpectationIs
  <2>3. /\ Len(telemetry) \in Nat /\ DOMAIN telemetry = 1..Len(telemetry)
        /\ \A i \in 1..Len(telemetry) : telemetry[i].n \in Nat
    BY <2>1, InOrderIs
  <2> HIDE DEF n
  <2>4. CASE telemetry' = telemetry
    BY <1>2, <2>1, <2>2, <2>3, <2>4
  <2>5. CASE telemetry' = Append(telemetry, w)
    <3>1. w.n > expectation.window /\ \A i \in DOMAIN telemetry : telemetry[i].n < w.n
      BY <1>2, <1>3, <2>1, <2>2, <2>3
    <3>2. /\ InOrder(telemetry', expectation.window)
          /\ DOMAIN telemetry' = 1..(Len(telemetry) + 1)
          /\ \A i \in 1..Len(telemetry) : telemetry'[i] = telemetry[i]
          /\ telemetry'[Len(telemetry) + 1] = w
      BY <1>3, <2>1, <2>5, <3>1, AppendIsOrdered
    <3>3. \A i \in 1..(Len(telemetry) + 1) : i \in 1..Len(telemetry) \/ i = Len(telemetry) + 1
      BY <2>3
    <3> QED BY <1>2, <1>3, <2>1, <2>2, <2>3, <3>2, <3>3
  <2> QED BY <1>1, <2>4, <2>5
<1>7. Following'
  BY <1>1, <1>4, <1>5, <1>6 DEF Following
<1>8. Fresh'
  <2> SUFFICES ASSUME verdict # Missing
               PROVE  verifiedAt \in Nat /\ verifiedAt <= n + 1 /\ verifiedAt # n + 1
    BY <1>1, <1>4 DEF Fresh
  <2>1. verifiedAt \in Nat /\ verifiedAt <= n
    BY DEF VerdictInv, Fresh
  <2> QED BY <1>2, <2>1
<1> QED BY <1>7, <1>8 DEF VerdictInv

(* An execution starts over with no window received.                        *)
LEMMA ExecutionStartsOver ==
  ASSUME LoopInv, VerdictInv, NEW i \in DOMAIN requests, Execute(i)
  PROVE  VerdictInv'
<1> DEFINE e == [window |-> latest.window.n, baseline |-> latest.window,
                 ceiling |-> PeakRiskCeiling, ttl |-> context.ttl]
<1>1. expectation' = e /\ telemetry' = <<>> /\ verdict' = Missing /\ latest' = latest
  BY DEF Execute
<1>2. latest.window \in Window /\ latest.window.n \in Nat
  BY DEF VerdictInv, Following, Window
<1>3. context.ttl \in Nat
  BY ClosedLoopAssumption DEF LoopInv, LoopTypes
<1>4. PeakRiskCeiling \in 0..RiskOne
  <2>1. PeakRiskCeiling \in Int /\ RiskOne \in Int /\ 0 <= PeakRiskCeiling
        /\ PeakRiskCeiling <= RiskOne
    BY SMT DEF PeakRiskCeiling, RiskHundredths, RiskOne
  <2> QED BY <2>1, SMT
<1>5. e \in TrajectoryOutcomeExpectation /\ e.window = latest.window.n
  BY <1>2, <1>3, <1>4 DEF TrajectoryOutcomeExpectation
<1> HIDE DEF e
<1>6. e.window <= latest.window.n /\ InOrder(<<>>, e.window)
  BY <1>2, <1>5, NothingIsOrdered
<1>7. Following'
  BY <1>1, <1>2, <1>5, <1>6 DEF Following
<1> QED BY <1>1, <1>7 DEF VerdictInv, Fresh

(* Every step keeps the windows in order and a fresh verdict theirs.        *)
LEMMA VerdictStep == LoopInv /\ VerdictInv /\ [Next]_vars => VerdictInv'
<1> SUFFICES ASSUME LoopInv, VerdictInv, [Next]_vars PROVE VerdictInv'
  OBVIOUS
<1>1. ASSUME NEW k \in Kinds, NEW received \in BOOLEAN, CloseWindow(k, received)
      PROVE  VerdictInv'
  BY <1>1, ClosingKeepsOrder
<1>2. CASE Recommend
  BY <1>2, VerdictUnchanged DEF Recommend
<1>3. ASSUME NEW i \in DOMAIN requests, NEW approved \in BOOLEAN, HumanDecide(i, approved)
      PROVE  VerdictInv'
  BY <1>3, VerdictUnchanged DEF HumanDecide
<1>4. ASSUME NEW i \in DOMAIN requests, Execute(i)
      PROVE  VerdictInv'
  BY <1>4, ExecutionStartsOver
<1>5. CASE EvaluateClosedLoop
  <2>1. /\ UNCHANGED <<latest, expectation, telemetry>> /\ expectation # Missing
        /\ verifiedAt' = latest.window.n /\ verdict' = VerifyTrajectory(expectation, Fed)
    BY <1>5 DEF EvaluateClosedLoop
  <2>2. latest.window.n \in Nat
    BY DEF VerdictInv, Following, Window
  <2>3. Fed' = Fed
    BY <2>1 DEF Fed
  <2>4. Following'
    BY <2>1 DEF VerdictInv, Following
  <2>5. Fresh'
    BY <2>1, <2>2, <2>3 DEF Fresh
  <2> QED BY <2>4, <2>5 DEF VerdictInv
<1>6. CASE TriggerReconsiderationIfMismatch \/ UNCHANGED vars
  BY <1>6, VerdictUnchanged DEF TriggerReconsiderationIfMismatch, vars
<1> QED BY <1>1, <1>2, <1>3, <1>4, <1>5, <1>6 DEF Next

(* So they are always.                                                      *)
LEMMA VerdictInvariant == Spec => []VerdictInv
<1> QED BY VerdictInit, VerdictStep, LoopInvariant, PTL DEF Spec

(* The two verifiers agree about every window evaluated.                    *)
LEMMA TwoVerifiers == VerdictInv => VerifiersAgree
<1> SUFFICES ASSUME VerdictInv, expectation # Missing
             PROVE  LET ev == Evaluated(expectation, telemetry) IN
                    \A h \in DOMAIN ev :
                      LET feature == PrimaryFeature(ev[1])
                          base == expectation.baseline.features[feature]
                      IN \A direction \in {"DECREASE", "BELOW_THRESHOLD"} :
                           \E result \in {Verify(feature, direction, base, ev[h])} :
                             /\ result \in OutcomeVerificationResult
                             /\ FeatureDiverges(base, ev[h].features[feature], h) =>
                                  result.status # "VERIFIED_SUCCESS"
                             /\ Handoff(result).made =>
                                  Handoff(result).observed = ev[h].features[feature]
  BY DEF VerifiersAgree
<1> DEFINE ev == Evaluated(expectation, telemetry)
           feature == PrimaryFeature(ev[1])
           base == expectation.baseline.features[feature]
<1>1. expectation \in TrajectoryOutcomeExpectation /\ InOrder(telemetry, expectation.window)
  BY DEF VerdictInv, Following
<1>2. /\ expectation.window \in Nat /\ expectation.ttl \in Nat
      /\ expectation.baseline \in Window
  BY <1>1, ExpectationIs
<1>3. PICK m \in 0..3 : /\ Counts(expectation, telemetry, m)
                        /\ ev = [j \in 1..m |-> telemetry[j]]
  BY <1>1, <1>2, EvaluatedOfOrdered
<1>4. m <= Len(telemetry) /\ \A j \in 1..Len(telemetry) : telemetry[j] \in Window
  BY <1>1, <1>3, InOrderIs DEF Counts
<1>5. Len(telemetry) \in Nat
  BY <1>1, InOrderIs
<1>6. DOMAIN ev = 1..m /\ \A h \in 1..m : h \in 1..3 /\ ev[h] \in Window
  <2>1. \A h \in 1..m : h \in 1..Len(telemetry) /\ h \in 1..3
    BY <1>4, <1>5
  <2> HIDE DEF ev
  <2> QED BY <1>3, <1>4, <2>1
<1> HIDE DEF ev
<1>7. feature \in {"bytes", "flows", "syn", "ports"}
  BY PrimaryIsMeasured
<1> HIDE DEF feature
<1>8. base \in Nat
  BY <1>2, <1>7, FeatureIsNat
<1> HIDE DEF base
<1>9. ASSUME NEW h \in DOMAIN ev, NEW direction \in {"DECREASE", "BELOW_THRESHOLD"}
      PROVE  /\ Verify(feature, direction, base, ev[h]) \in OutcomeVerificationResult
             /\ FeatureDiverges(base, ev[h].features[feature], h) =>
                  Verify(feature, direction, base, ev[h]).status # "VERIFIED_SUCCESS"
             /\ Handoff(Verify(feature, direction, base, ev[h])).made =>
                  Handoff(Verify(feature, direction, base, ev[h])).observed =
                    ev[h].features[feature]
  BY <1>6, <1>7, <1>8, VerifiersAgreeOnWindow
<1> QED BY <1>9 DEF base, feature, ev

(* Whatever the windows, the callers and the limits are: the verdict that a  *)
(* verification gives, counting window by window, is the one its windows     *)
(* deserve, it rests on a window measured within the time to live, a         *)
(* mismatch is handed over with its reason, and verify() agrees.            *)
THEOREM VerdictsAreDeserved == Spec => []VerdictIsDeserved
<1>1. VerdictInv => VerdictIsDeserved
  <2> SUFFICES ASSUME VerdictInv PROVE VerdictIsDeserved
    OBVIOUS
  <2>1. VerifiersAgree
    BY TwoVerifiers
  <2>2. ASSUME verdict # Missing, verifiedAt = latest.window.n
        PROVE  /\ HandoffIsGrounded
               /\ verdict.status # "INSUFFICIENT_EVIDENCE" =>
                    /\ verdict.status = "VERIFIED_MISMATCH" <=> Diverges(expectation, Fed)
                    /\ \E i \in DOMAIN Fed :
                         /\ ~Fed[i].empty /\ Fed[i].n > expectation.window
                         /\ 10 * (Fed[i].n - expectation.window) <= expectation.ttl + 1
    <3>1. verdict = VerifyTrajectory(expectation, Fed)
      BY <2>2 DEF VerdictInv, Fresh
    <3>2. expectation \in TrajectoryOutcomeExpectation /\ InOrder(telemetry, expectation.window)
      BY <2>2 DEF VerdictInv, Following
    <3>3. InOrder(Fed, expectation.window)
      BY <3>2, FedIsOrdered
    <3> QED BY <3>1, <3>2, <3>3, VerdictIsGrounded DEF HandoffIsGrounded
  <2> QED BY <2>1, <2>2 DEF VerdictIsDeserved
<1> QED BY <1>1, VerdictInvariant, PTL

(* No more windows are received than have closed.                           *)
Received == Len(telemetry) <= latest.window.n /\ latest.window.n <= MaxWindow

(* A mismatch is one of all the windows received.                           *)
Standing ==
  verdict # Missing /\ verdict.status = "VERIFIED_MISMATCH" =>
    VerifyTrajectory(expectation, telemetry).status = "VERIFIED_MISMATCH"

StandingInv == Received /\ Standing

(* A caller who passes as many windows as may close passes them all.        *)
LEMMA AllAreFed ==
  ASSUME FeedLimit >= MaxWindow, VerdictInv, Received
  PROVE  Fed = telemetry
<1> DEFINE n == Len(telemetry)
<1>1. telemetry \in Seq(Window)
  BY TelemetryTyped
<1>2. n \in Nat /\ FeedLimit \in Nat /\ MaxWindow \in Nat /\ latest.window.n \in Nat
  BY <1>1, LenProperties, ClosedLoopAssumption DEF VerdictInv, Following, Window
<1>3. ~(n > FeedLimit)
  <2>1. n <= latest.window.n /\ latest.window.n <= MaxWindow
    BY DEF Received
  <2> HIDE DEF n
  <2> QED BY <1>2, <2>1
<1>4. Fed = SubSeq(telemetry, 1, n)
  BY <1>3 DEF Fed
<1> QED BY <1>1, <1>4

(* Every step keeps a mismatch one of all the windows received.             *)
LEMMA StandingStep ==
  ASSUME FeedLimit >= MaxWindow
  PROVE  LoopInv /\ VerdictInv /\ VerdictInv' /\ StandingInv /\ [Next]_vars => StandingInv'
<1> SUFFICES ASSUME LoopInv, VerdictInv, VerdictInv', StandingInv, [Next]_vars PROVE StandingInv'
  OBVIOUS
<1> USE DEF StandingInv
<1>0. telemetry \in Seq(Window) /\ latest.window.n \in Nat /\ MaxWindow \in Nat
      /\ Len(telemetry) \in Nat
  <2>1. telemetry \in Seq(Window)
    BY TelemetryTyped
  <2> QED BY <2>1, LenProperties, ClosedLoopAssumption DEF VerdictInv, Following, Window
<1>1. ASSUME NEW k \in Kinds, NEW received \in BOOLEAN, CloseWindow(k, received)
      PROVE  StandingInv'
  <2> DEFINE w == WindowOf(k, latest.window.n + 1)
  <2>1. /\ latest.window.n < MaxWindow /\ latest'.window = w /\ w.n = latest.window.n + 1
        /\ telemetry' = IF received /\ expectation # Missing THEN Append(telemetry, w) ELSE telemetry
        /\ UNCHANGED <<expectation, verdict>>
    BY <1>1 DEF CloseWindow, WindowOf
  <2>2. w \in Window
    BY <1>0, WindowOfKind
  <2> HIDE DEF w
  <2>3. CASE telemetry' = telemetry
    BY <1>0, <2>1, <2>3 DEF Received, Standing
  <2>4. CASE expectation # Missing /\ telemetry' = Append(telemetry, w)
    <3>1. /\ Len(telemetry') = Len(telemetry) + 1
          /\ \A i \in 1..Len(telemetry) : telemetry'[i] = telemetry[i]
      BY <1>0, <2>2, <2>4, AppendProperties
    <3>2. Received'
      BY <1>0, <2>1, <3>1 DEF Received
    <3>3. /\ expectation \in TrajectoryOutcomeExpectation
          /\ InOrder(telemetry, expectation.window) /\ InOrder(telemetry', expectation.window)
      BY <2>1, <2>4 DEF VerdictInv, Following
    <3>4. Standing'
      BY <2>1, <3>1, <3>3, MismatchGrows DEF Standing
    <3> QED BY <3>2, <3>4
  <2> QED BY <2>1, <2>3, <2>4
<1>2. CASE UNCHANGED <<latest, expectation, telemetry, verdict>>
  BY <1>2 DEF Received, Standing
<1>3. ASSUME NEW i \in DOMAIN requests, Execute(i)
      PROVE  StandingInv'
  BY <1>0, <1>3 DEF Execute, Received, Standing
<1>4. CASE EvaluateClosedLoop
  <2>1. /\ UNCHANGED <<latest, expectation, telemetry>>
        /\ verdict' = VerifyTrajectory(expectation, Fed)
    BY <1>4 DEF EvaluateClosedLoop
  <2>2. Fed = telemetry
    BY AllAreFed
  <2> QED BY <2>1, <2>2 DEF Received, Standing
<1> QED BY <1>1, <1>2, <1>3, <1>4 
     DEF Next, Recommend, HumanDecide, TriggerReconsiderationIfMismatch, vars

(* At first nothing was received and nothing found.                         *)
LEMMA StandingInit == Init => StandingInv
<1> SUFFICES ASSUME Init PROVE StandingInv
  OBVIOUS
<1>1. latest.window.n = 0 /\ telemetry = <<>> /\ verdict = Missing
  BY DEF Init, WindowOf
<1>2. MaxWindow \in Nat
  BY ClosedLoopAssumption
<1> QED BY <1>1, <1>2 DEF StandingInv, Received, Standing

(* So a mismatch always is.                                                 *)
LEMMA StandingInvariant ==
  ASSUME FeedLimit >= MaxWindow
  PROVE  Spec => []StandingInv
BY StandingInit, StandingStep, LoopInvariant, VerdictInvariant, PTL DEF Spec

(* As long as a caller passes every window received to the verification, no  *)
(* later verification of an execution takes a mismatch back: a window added  *)
(* at the end moves none out of the first three.                            *)
THEOREM MismatchesStand ==
  ASSUME FeedLimit >= MaxWindow
  PROVE  Spec => MismatchStands
<1> DEFINE Inv == LoopInv /\ VerdictInv /\ StandingInv
           Stands == verdict # Missing /\ verdict.status = "VERIFIED_MISMATCH"
                       /\ executions' = executions => verdict'.status = "VERIFIED_MISMATCH"
<1>1. ASSUME LoopInv, VerdictInv, StandingInv, Next PROVE Stands
  <2> SUFFICES ASSUME verdict # Missing, verdict.status = "VERIFIED_MISMATCH",
                      executions' = executions
               PROVE  verdict'.status = "VERIFIED_MISMATCH"
    OBVIOUS
  <2>1. CASE UNCHANGED verdict
    BY <2>1
  <2>2. ASSUME NEW i \in DOMAIN requests, Execute(i) PROVE FALSE
    <3>1. executions \in Seq([request : Nat \ {0}, window : Nat])
      BY <1>1 DEF LoopInv, LoopTypes
    <3>2. executions' = Append(executions, [request |-> i, window |-> latest.window.n])
      BY <2>2 DEF Execute
    <3>3. Len(executions') = Len(executions) + 1 /\ Len(executions) \in Nat
      BY <3>1, <3>2
    <3> QED BY <3>3
  <2>3. CASE EvaluateClosedLoop
    <3>1. verdict' = VerifyTrajectory(expectation, Fed)
      BY <2>3 DEF EvaluateClosedLoop
    <3>2. Fed = telemetry
      BY <1>1, AllAreFed DEF StandingInv
    <3> QED BY <1>1, <3>1, <3>2 DEF StandingInv, Standing
  <2> QED BY <1>1, <2>1, <2>2, <2>3 
        DEF Next, CloseWindow, Recommend, HumanDecide, TriggerReconsiderationIfMismatch
<1>2. Spec => []StandingInv
  BY StandingInvariant
<1>3. LoopInv /\ VerdictInv /\ StandingInv /\ [Next]_vars => [Stands]_vars
  BY <1>1
<1> QED BY <1>2, <1>3, LoopInvariant, VerdictInvariant, PTL DEF Spec, MismatchStands

(* A mismatch that still stands is one of windows that diverge.             *)
LEMMA StandingDiverges ==
  ASSUME VerdictInv, StandingInv, ToReconsider
  PROVE  Diverges(expectation, telemetry)
<1>1. /\ expectation \in TrajectoryOutcomeExpectation
      /\ InOrder(telemetry, expectation.window)
  BY DEF ToReconsider, VerdictInv, Following
<1>2. VerifyTrajectory(expectation, telemetry).status = "VERIFIED_MISMATCH"
  BY DEF ToReconsider, StandingInv, Standing
<1>3. "VERIFIED_MISMATCH" # "INSUFFICIENT_EVIDENCE"
  OBVIOUS
<1> QED BY <1>1, <1>2, <1>3, VerdictIsGrounded

(* As long as a caller passes every window received to the verification, a   *)
(* reconsideration is triggered only where the windows received diverge,     *)
(* however many closed since the verification and however often the caller   *)
(* triggers it.                                                             *)
THEOREM ReconsiderationsAreDeserved ==
  ASSUME FeedLimit >= MaxWindow
  PROVE  Spec => ReconsiderationIsDeserved
<1> DEFINE Deserved == \A i \in DOMAIN requests' \ DOMAIN requests :
                         requests'[i].cause > 0 => Diverges(expectation, telemetry)
<1>1. ASSUME LoopInv, VerdictInv, StandingInv, Next PROVE Deserved
  <2>1. CASE DOMAIN requests' = DOMAIN requests
    BY <2>1
  <2>2. CASE Recommend
    <3>1. DOMAIN requests' = {1} /\ requests'[1].cause = 0
      BY <2>2 DEF Recommend, Request
    <3> QED BY <3>1
  <2>3. ASSUME NEW i \in DOMAIN requests, NEW approved \in BOOLEAN, HumanDecide(i, approved)
        PROVE  DOMAIN requests' = DOMAIN requests
    BY <1>1, <2>3 DEF HumanDecide, LoopInv, LoopTypes
  <2>4. ASSUME NEW i \in DOMAIN requests, Execute(i)
        PROVE  DOMAIN requests' = DOMAIN requests
    BY <1>1, <2>4 DEF Execute, LoopInv, LoopTypes
  <2>5. CASE TriggerReconsiderationIfMismatch
    BY <1>1, <2>5, StandingDiverges DEF TriggerReconsiderationIfMismatch
  <2>6. ASSUME NEW k \in Kinds, NEW received \in BOOLEAN, CloseWindow(k, received)
        PROVE  DOMAIN requests' = DOMAIN requests
    BY <2>6 DEF CloseWindow
  <2>7. CASE EvaluateClosedLoop
    BY <2>1, <2>7 DEF EvaluateClosedLoop
  <2> HIDE DEF Deserved
  <2> QED BY <1>1, <2>1, <2>2, <2>3, <2>4, <2>5, <2>6, <2>7 DEF Next
<1>2. Spec => []StandingInv
  BY StandingInvariant
<1> HIDE DEF Deserved
<1>3. LoopInv /\ VerdictInv /\ StandingInv /\ [Next]_vars => [Deserved]_vars
  BY <1>1, Zenon
<1>4. Spec => [][Deserved]_vars
  BY <1>2, <1>3, LoopInvariant, VerdictInvariant, PTL DEF Spec
<1> QED BY <1>4, PTL DEF ReconsiderationIsDeserved, Deserved
=============================================================================
