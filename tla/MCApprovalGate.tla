---------------------------- MODULE MCApprovalGate ----------------------------
(* The instance of ApprovalGate for TLC: two requests for one target that    *)
(* can be confused, two windows, an authority that may refuse.              *)
EXTENDS ApprovalGate, TLC

CONSTANTS r1, r2, a1, a2, t1, s1

Gated == [level |-> "HUMAN_APPROVAL_REQUIRED",
          permitted |-> {"OBSERVE_ONLY", "EXECUTE_REVERSIBLE_ACTION"},
          humanApprovalRequired |-> TRUE]
Denied == [level |-> "BLOCKED", permitted |-> {"OBSERVE_ONLY"}, humanApprovalRequired |-> TRUE]

Known == [availability |-> "KNOWN", snapshot |-> s1, nodes |-> {t1}]

TwoRequests == {r1, r2}
TwoActions == {a1, a2}
OneRecommendation == {"DEMO_BLOCK"}
TwoWindows == 1..2
GatePolicies == {Gated, Denied}
GateTopologies == {Known}
ShortTtls == {0}
Symmetry == Permutations(RequestIds) \union Permutations(ActionIds)
=============================================================================
