--------------------------- MODULE AuthorityPolicy ---------------------------
(***************************************************************************)
(* core/authority/policy.py: AuthorityPolicyEngine.evaluate, the function  *)
(* from evidence to the action classes it permits.                         *)
(*                                                                         *)
(* Trust, uncertainty and confidence are integers in hundredths; a risk is *)
(* an integer in units of 1/RiskOne, in which SecurityRiskEngine's scores  *)
(* are exact.                                                              *)
(***************************************************************************)
EXTENDS Integers

CONSTANT Missing   \* no uncertainty given, no action class requested

ASSUME MissingAssumption == Missing \notin Int

RiskOne == 320000000
RiskHundredths(n) == n * 3200000

ActionClasses == {"OBSERVE_ONLY", "ALERT_OPERATOR", "GENERATE_RECOMMENDATION",
                  "PREPARE_REVERSIBLE_ACTION", "EXECUTE_REVERSIBLE_ACTION",
                  "EXECUTE_DESTRUCTIVE_ACTION"}

\* Classes that stage or change something outside the analysis.
Consequential == {"PREPARE_REVERSIBLE_ACTION", "EXECUTE_REVERSIBLE_ACTION",
                  "EXECUTE_DESTRUCTIVE_ACTION"}

TrustLevel == {"HIGH", "MEDIUM", "LOW", "INSUFFICIENT"}
TopologyAvailability == {"KNOWN", "PARTIAL", "UNAVAILABLE"}

\* uncertainty: effective_uncertainty, the explicit one or the horizon's.
AuthorityPolicyInput ==
  [risk : Int, trust : Int, level : TrustLevel, uncertainty : Int \union {Missing},
   confidence : Int, topology : TopologyAvailability, affected : Int, critical : Int]

IsValid(in) ==
  /\ in.risk \in 0..RiskOne
  /\ in.trust \in 0..100 /\ in.confidence \in 0..100
  /\ in.uncertainty # Missing /\ in.uncertainty \in 0..100
  /\ in.affected >= 0 /\ in.critical >= 0

AlertPermitted(in) ==
  in.risk >= RiskHundredths(15) \/ in.affected > 0 \/ in.confidence >= 30

RecommendationPermitted(in) ==
  in.trust >= 45 /\ in.level # "INSUFFICIENT" /\ in.uncertainty <= 50

PreparationPermitted(in) ==
  /\ RecommendationPermitted(in)
  /\ in.trust >= 55 /\ in.uncertainty <= 40
  /\ in.topology # "UNAVAILABLE"

ExecutionPermitted(in) ==
  /\ in.topology # "UNAVAILABLE"
  /\ in.trust >= 70 /\ in.uncertainty <= 25
  /\ in.level = "HIGH" /\ in.confidence >= 50

\* Invalid evidence permits observation only; destructive actions are never
\* permitted.
PermittedActionClasses(in) ==
  {"OBSERVE_ONLY"} \union
  (IF ~IsValid(in) THEN {}
   ELSE (IF AlertPermitted(in) THEN {"ALERT_OPERATOR"} ELSE {}) \union
        (IF RecommendationPermitted(in) THEN {"GENERATE_RECOMMENDATION"} ELSE {}) \union
        (IF PreparationPermitted(in) THEN {"PREPARE_REVERSIBLE_ACTION"} ELSE {}) \union
        (IF ExecutionPermitted(in) THEN {"EXECUTE_REVERSIBLE_ACTION"} ELSE {}))

HumanApprovalRequired(in) ==
  \/ ~IsValid(in)
  \/ PermittedActionClasses(in) \intersect Consequential # {}
  \/ in.topology = "PARTIAL"
  \/ in.risk >= RiskHundredths(60)
  \/ in.critical > 0

LevelOfClass(class, in) ==
  CASE class = "EXECUTE_REVERSIBLE_ACTION" -> "HUMAN_APPROVAL_REQUIRED"
    [] class = "PREPARE_REVERSIBLE_ACTION" ->
         IF HumanApprovalRequired(in) THEN "HUMAN_APPROVAL_REQUIRED" ELSE "RECOMMEND"
    [] class = "GENERATE_RECOMMENDATION" -> "RECOMMEND"
    [] class = "ALERT_OPERATOR" -> "ALERT"
    [] OTHER -> "OBSERVE"

\* The strongest class the evidence supports, for a call that requests none.
Strength ==
  [c \in ActionClasses |->
    CASE c = "OBSERVE_ONLY" -> 0 [] c = "ALERT_OPERATOR" -> 1
      [] c = "GENERATE_RECOMMENDATION" -> 2 [] c = "PREPARE_REVERSIBLE_ACTION" -> 3
      [] c = "EXECUTE_REVERSIBLE_ACTION" -> 4 [] c = "EXECUTE_DESTRUCTIVE_ACTION" -> 5]

Strongest(permitted) ==
  CHOOSE c \in permitted : \A d \in permitted : Strength[d] <= Strength[c]

AuthorityLevelFor(in, requested) ==
  CASE ~IsValid(in) -> "OBSERVE"
    [] IsValid(in) /\ requested = Missing ->
         LevelOfClass(Strongest(PermittedActionClasses(in)), in)
    [] IsValid(in) /\ requested \in ActionClasses \ PermittedActionClasses(in) -> "BLOCKED"
    [] OTHER -> LevelOfClass(requested, in)

Evaluate(in, requested) ==
  [level |-> AuthorityLevelFor(in, requested),
   permitted |-> PermittedActionClasses(in),
   humanApprovalRequired |-> HumanApprovalRequired(in)]
=============================================================================
