---------------------------- MODULE MCResponseApi ----------------------------
(* Instances of ResponseApi for TLC: one target, two action ids.            *)
EXTENDS ResponseApi, TLC

CONSTANTS a1, a2, t1

Act(i, cls, type, w) ==
  [id |-> i, cls |-> cls, target |-> t1, type |-> type, decision |-> w, window |-> w,
   snapshot |-> None, policy |-> "AUTOMATIC_COMPENSATING"]

\* One action per id for each window: the second may reuse the first's id.
BlockActions ==
  {Act(i, "EXECUTE_REVERSIBLE_ACTION", "DEMO_BLOCK", w) : i \in {a1, a2}, w \in WindowIds}

AnyType ==
  {Act(i, cls, type, w) : i \in {a1}, cls \in {"OBSERVE_ONLY", "EXECUTE_REVERSIBLE_ACTION"},
                          type \in {"TEMP_RATE_LIMIT", "DEMO_BLOCK"}, w \in WindowIds}

Strong == [level |-> "HUMAN_APPROVAL_REQUIRED",
           permitted |-> ActionClass \ {"EXECUTE_DESTRUCTIVE_ACTION"},
           humanApprovalRequired |-> TRUE]
Alerting == [level |-> "ALERT", permitted |-> {"OBSERVE_ONLY", "ALERT_OPERATOR"},
             humanApprovalRequired |-> TRUE]
\* The policy engine's answer to evidence below every threshold of AuthorityPolicy.
Calm == [level |-> "OBSERVE", permitted |-> {"OBSERVE_ONLY"}, humanApprovalRequired |-> FALSE]

ApiPolicies == {Strong, Alerting}
CalmPolicies == {Calm}
DemoTopology == [availability |-> "KNOWN", snapshot |-> None, nodes |-> {t1}]
TwoWindows == 0..1
Symmetry == Permutations(ActionIds)
=============================================================================
