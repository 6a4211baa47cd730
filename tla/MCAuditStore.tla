---------------------------- MODULE MCAuditStore ----------------------------
(* The instance of AuditBundle for TLC: the artifacts of a small response, *)
(* one of them once with a secret and once without, and a bundle that      *)
(* lists an approval before its action.                                    *)
EXTENDS AuditBundle, ArtifactRecords, TLC

\* The classes that artifact_to_stored_record refuses: no demo event has an
\* attribute scenario, no handoff a handoff_id or a conflict_description.
ASSUME RefusedClasses ==
  {class \in DOMAIN Attributes : ~Convertible(class)} =
    {"DemoEvent", "OutcomeMismatchHandoff"}

Swap == Permutations(Conns)

Plain == [body |-> "", auth |-> None, action |-> None, approval |-> None, topology |-> None,
          verification |-> None, window |-> "w", approved |-> FALSE, sealed |-> FALSE,
          secret |-> None]

Decision == ArtifactToStoredRecord("AuthorityDecision", "d", [Plain EXCEPT !.sealed = TRUE])
Action == ArtifactToStoredRecord("ResponseAction", "a", [Plain EXCEPT !.auth = "d"])
ActionWithToken ==
  ArtifactToStoredRecord("ResponseAction", "a", [Plain EXCEPT !.auth = "d", !.secret = "s"])
Approval ==
  ArtifactToStoredRecord("HumanApproval", "h",
    [Plain EXCEPT !.auth = "d", !.action = "a", !.approved = TRUE])

TrackedTypes == {"RESPONSE_ACTION"}
Response == {Decision, ActionWithToken, Action, Approval}
ResponseBundles == {<<Decision, Approval, Action>>}
=============================================================================
