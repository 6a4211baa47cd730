--------------------------- MODULE MCApprovalPage ---------------------------
(* Instances of ApprovalPage for TLC: two events, two requests of one page,  *)
(* and a client who rolls back.                                              *)
EXTENDS ApprovalPage, TLC

CONSTANTS a1, a2, api, gateway

Strong == [level |-> "HUMAN_APPROVAL_REQUIRED",
           permitted |-> ActionClass \ {"EXECUTE_DESTRUCTIVE_ACTION"},
           humanApprovalRequired |-> TRUE]
Alerting == [level |-> "ALERT", permitted |-> {"OBSERVE_ONLY", "ALERT_OPERATOR"},
             humanApprovalRequired |-> TRUE]
StrongOrAlerting == {Strong, Alerting}

Isolation == [type |-> "ISOLATE_SERVICE_ENDPOINT", target |-> gateway]
Restrained == [type |-> "DO_NOTHING", target |-> api]
Beyond == [type |-> "NO_SUFFICIENT_ACTION", target |-> api]
SomeProposals == {Isolation, Restrained, Beyond}

\* A graph with the gateway, and build_minimal_demo_topology, which has none.
WholeTopology == [availability |-> "KNOWN", snapshot |-> None, nodes |-> {api, gateway}]
DemoTopology == [availability |-> "KNOWN", snapshot |-> None, nodes |-> {api}]
ThreeWindows == 0..2
Symmetry == Permutations({a1, a2})
=============================================================================
