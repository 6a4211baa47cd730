---------------------------- MODULE ArtifactRecords ----------------------------
(***************************************************************************)
(* core/persistence/serializer.py: artifact_to_stored_record recognises an *)
(* artifact by the attributes it has, in a fixed order, and refuses one    *)
(* that fits no shape.                                                     *)
(***************************************************************************)
EXTENDS Naturals, Sequences

\* The shapes in the order they are tried: what an artifact must have, and the
\* type it is then stored under.  The first attribute names the record.
Shapes == <<
  [type |-> "TOPOLOGY_SNAPSHOT", needs |-> {"snapshot_id", "nodes", "edges"}],
  [type |-> "BLAST_RADIUS_ASSESSMENT",
   needs |-> {"assessment_id", "root_node_id", "affected_node_ids"}],
  [type |-> "AUTHORITY_DECISION",
   needs |-> {"decision_id", "authority_level", "permitted_action_classes"}],
  [type |-> "RESPONSE_ACTION", needs |-> {"action_id", "action_type", "rollback_policy"}],
  [type |-> "HUMAN_APPROVAL", needs |-> {"approval_id", "approver_reference", "approved"}],
  [type |-> "EXECUTION_RECORD", needs |-> {"execution_id", "status", "applied_parameters"}],
  [type |-> "OUTCOME_VERIFICATION",
   needs |-> {"verification_id", "metric_name", "baseline_value"}],
  [type |-> "OUTCOME_MISMATCH_HANDOFF", needs |-> {"handoff_id", "conflict_description"}],
  [type |-> "RECONSIDERATION_EVENT",
   needs |-> {"event_id", "trigger_window_id", "revised_risk_score"}],
  [type |-> "DEMO_EVENT", needs |-> {"step_index", "scenario"}],
  [type |-> "NETWORK_STATE", needs |-> {"window_id", "session_id", "packet_rate"}]>>

\* The attributes of the artifact classes, as far as a shape asks for them.
Attributes == [
  TopologySnapshot |-> {"snapshot_id", "nodes", "edges"},
  BlastRadiusAssessment |-> {"assessment_id", "root_node_id", "affected_node_ids"},
  AuthorityDecision |-> {"decision_id", "authority_level", "permitted_action_classes"},
  ResponseAction |-> {"action_id", "action_type", "rollback_policy"},
  HumanApproval |-> {"approval_id", "action_id", "approver_reference", "approved"},
  ExecutionRecord |-> {"execution_id", "action_id", "approval_id", "status",
                       "applied_parameters"},
  OutcomeVerificationResult |-> {"verification_id", "action_id", "status", "metric_name",
                                 "baseline_value"},
  OutcomeMismatchHandoff |-> {"action_id", "metric_name", "baseline_value"},
  ReconsiderationEvent |-> {"event_id", "trigger_window_id", "revised_risk_score"},
  DemoEvent |-> {"event_id", "step_index"},
  NetworkState |-> {"window_id", "session_id", "packet_rate"}]

Fitting(class) == {i \in 1..Len(Shapes) : Shapes[i].needs \subseteq Attributes[class]}

\* Everything else raises ValueError.
Convertible(class) == Fitting(class) # {}

ArtifactToStoredRecord(class, id, payload) ==
  LET first == CHOOSE i \in Fitting(class) : \A j \in Fitting(class) : i <= j
  IN [type |-> Shapes[first].type, id |-> id, payload |-> payload]
=============================================================================
