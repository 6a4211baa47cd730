---------------------------- MODULE DemoTopologies ----------------------------
(***************************************************************************)
(* The service graphs of core/topology/builder.py, as ServiceTopologyGraph *)
(* records of BlastRadius.  A node keeps its criticality level and its      *)
(* criticality in hundredths; <<a, b>> reads "a depends on b".              *)
(***************************************************************************)
EXTENDS Integers, Sequences

Node(level, criticality) == [level |-> level, criticality |-> criticality]

\* graph.availability is KNOWN and no snapshot has been taken.
Known(nodes, edges) ==
  [availability |-> "KNOWN", nodes |-> nodes, edges |-> edges, snapshotTaken |-> FALSE]

MinimalNodes ==
  [s \in {"svc-api", "svc-auth", "svc-db"} |->
     CASE s = "svc-api" -> Node("HIGH", 80)
       [] s = "svc-auth" -> Node("CRITICAL", 90)
       [] s = "svc-db" -> Node("CRITICAL", 95)]

MinimalDemoTopology ==
  Known(DOMAIN MinimalNodes, {<<"svc-api", "svc-auth">>, <<"svc-auth", "svc-db">>})

EnterpriseNodes ==
  [s \in {"svc-ingress-gw", "svc-auth", "svc-order", "svc-payment", "svc-cache",
          "svc-customer-db", "svc-ledger-db", "svc-audit-storage"} |->
     CASE s = "svc-ingress-gw" -> Node("CRITICAL", 85)
       [] s = "svc-auth" -> Node("CRITICAL", 90)
       [] s = "svc-order" -> Node("HIGH", 75)
       [] s = "svc-payment" -> Node("CRITICAL", 95)
       [] s = "svc-cache" -> Node("MEDIUM", 60)
       [] s = "svc-customer-db" -> Node("CRITICAL", 92)
       [] s = "svc-ledger-db" -> Node("CRITICAL", 98)
       [] s = "svc-audit-storage" -> Node("HIGH", 70)]

EnterpriseDemoTopology ==
  Known(DOMAIN EnterpriseNodes,
    ({"svc-ingress-gw"} \X {"svc-auth", "svc-order", "svc-payment"})
    \union ({"svc-order"} \X {"svc-auth", "svc-cache", "svc-customer-db"})
    \union ({"svc-payment"} \X {"svc-auth", "svc-ledger-db", "svc-audit-storage"})
    \union ({"svc-auth"} \X {"svc-customer-db", "svc-cache"})
    \union {<<"svc-ledger-db", "svc-audit-storage">>})

\* What BlastRadiusEngine.assess counts as critical among the affected services.
CriticalOf(nodes) ==
  {s \in DOMAIN nodes : nodes[s].level = "CRITICAL" \/ nodes[s].criticality >= 85}

\* The ids in the order sorted() gives them.
SortedIds ==
  <<"svc-api", "svc-audit-storage", "svc-auth", "svc-cache", "svc-customer-db", "svc-db",
    "svc-ingress-gw", "svc-ledger-db", "svc-order", "svc-payment">>
SortedOf(S) == SelectSeq(SortedIds, LAMBDA s : s \in S)
=============================================================================
