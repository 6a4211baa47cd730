--------------------------- MODULE Reconsideration ---------------------------
(***************************************************************************)
(* security/reconsideration.py: how a window is compared with the forecast *)
(* the window before it made, what a contradiction costs in trust, and     *)
(* what the revision is recorded as.  The analysis that runs again in       *)
(* between is the action Reconsider of Assessment.                         *)
(*                                                                         *)
(* A delta is in tenths of its feature's robust scale, so that the conflict *)
(* threshold of 1.5 is 15 and a deviation's penalty, a tenth of it, is that *)
(* many hundredths.  Trust is in hundredths, risk in RiskOne-ths.           *)
(***************************************************************************)
EXTENDS SecurityAnalysis, Functions, FiniteSets

ConflictThreshold == 15

ConflictType == {"CONFIRMING", "CONTRADICTORY", "MIXED", "INSUFFICIENT"}
DeviationDirection == {"ESCALATION_MISSED", "FALSE_ESCALATION", "MAGNITUDE_SHIFT"}
RevisionType == {"DOWNGRADE", "UPGRADE", "LATERAL_SHIFT", "NO_CHANGE"}

Distance(a, b) == IF a < b THEN b - a ELSE a - b

DirectionOf(predicted, actual) ==
  CASE predicted <= 5 /\ actual > ConflictThreshold -> "ESCALATION_MISSED"
    [] predicted > 5 /\ 10 * actual < 3 * predicted -> "FALSE_ESCALATION"
    [] OTHER -> "MAGNITUDE_SHIFT"

\* predicted and actual map the features that have a delta: predicted those of
\* the forecast, actual those measured in both windows.
Assessed(predicted, actual) == DOMAIN predicted \intersect DOMAIN actual

EvidenceConflict(predicted, actual) ==
  [deviation |-> Distance(predicted, actual), direction |-> DirectionOf(predicted, actual)]

\* By feature; the others confirm the forecast.
Conflicts(predicted, actual) ==
  [f \in {g \in Assessed(predicted, actual) :
            Distance(predicted[g], actual[g]) >= ConflictThreshold} |->
     EvidenceConflict(predicted[f], actual[f])]

AssessConflict(predicted, actual) ==
  LET conflicting == DOMAIN Conflicts(predicted, actual)
      confirming == Assessed(predicted, actual) \ conflicting
  IN CASE Assessed(predicted, actual) = {} -> "INSUFFICIENT"
       [] confirming # {} /\ conflicting = {} -> "CONFIRMING"
       [] confirming = {} /\ conflicting # {} -> "CONTRADICTORY"
       [] confirming # {} /\ conflicting # {} -> "MIXED"

Warranted(type) == type \in {"CONTRADICTORY", "MIXED"}

\* min(0.30, mean scaled deviation * 0.10), the mean rounded down.
MeanDeviation(conflicts) ==
  FoldFunction(LAMBDA c, sum : c.deviation + sum, 0, conflicts)
    \div Cardinality(DOMAIN conflicts)
RevisionPenalty(conflicts) ==
  IF MeanDeviation(conflicts) > 30 THEN 30 ELSE MeanDeviation(conflicts)

\* The revised assessment against the event of the window before; 0.02 of risk
\* either way is no change.
Material == RiskOne \div 50
RevisionTypeOf(prior, revised) ==
  CASE prior.risk - revised.risk > Material -> "DOWNGRADE"
    [] revised.risk - prior.risk > Material -> "UPGRADE"
    [] Distance(revised.risk, prior.risk) <= Material /\ revised.stage # prior.stage -> "LATERAL_SHIFT"
    [] OTHER -> "NO_CHANGE"

\* A revision is recorded with what it followed from and what it came to; the
\* constructor raises unless requires_human.
ReconsiderationEvent(type, conflicts, prior, revised, requiresHuman) ==
  IF requiresHuman
  THEN [conflictType |-> type, conflicts |-> conflicts, prior |-> prior, revised |-> revised,
        revisionType |-> RevisionTypeOf(prior, revised),
        magnitude |-> Distance(revised.risk, prior.risk), requiresHuman |-> TRUE]
  ELSE "ValueError"

ExecuteRevision(predicted, actual, prior, revised) ==
  ReconsiderationEvent(AssessConflict(predicted, actual), Conflicts(predicted, actual),
                       prior, revised, TRUE)
=============================================================================
