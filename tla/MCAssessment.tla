----------------------------- MODULE MCAssessment -----------------------------
(* Instance of Assessment for TLC.  Every graph over the demo's three services *)
(* is built and walked for one window; on the demo's own graph a playback has  *)
(* three windows, so that a sharp change may come before and after             *)
(* ReversalIndex, and a second one begins.  The graph's queries are compared   *)
(* with their definitions on every graph that is built, and evaluated on the   *)
(* enterprise graph.  A forecast is contradicted by one feature, a little or   *)
(* a lot.  The later bridges are compared with the first one on short streams. *)
EXTENDS Assessment, DependencyPaths, DemoTopologies, Reconsideration

Nodes == DOMAIN MinimalNodes
CriticalNodes == CriticalOf(MinimalNodes)
Listed == [S \in SUBSET Nodes |-> SortedOf(S)]
DatabaseNode == "svc-db"

MCFoci == {"svc-api", None}
MCHorizon(g, n) ==
  IF g.availability = "KNOWN" /\ g.nodes = Nodes /\ g.edges = MinimalDemoTopology.edges
  THEN IF n = 1 THEN 3 ELSE 1
  ELSE IF n = 1 THEN 1 ELSE 0

Nothing == [shape |-> "absent", strong |-> FALSE]
Calm == [t \in SignatureType |-> Nothing]
Showing(t, shape, strong) ==
  [Calm EXCEPT ![t] = [shape |-> shape, strong |-> strong]]

MCEvidence ==
  {Calm,
   Showing("Reconnaissance", "rising", TRUE),
   [Showing("Reconnaissance", "falling", FALSE) EXCEPT
      !["InitialAccess"] = [shape |-> "current", strong |-> FALSE]],
   Showing("DenialOfService", "current", TRUE),
   Showing("Exfiltration", "forecast", FALSE)}

Contradictions == {Conflicts([flows |-> 0], [flows |-> d]) : d \in {17, 40}}
MCDecided == {"RATE_LIMIT_IP", "NO_SUFFICIENT_ACTION", "UNRESOLVED"}
MCPenalties == {RevisionPenalty(c) : c \in Contradictions}

Deltas2 == [{"flows", "ports"} -> {-20, 0, 5, 6, 14, 15, 16, 60}]

\* A revision is warranted exactly where a feature deviates by 1.5 scales, and
\* costs between 0.15 and 0.30; a missed escalation rose further than forecast, a
\* false one less far.
ASSUME RevisionsAreDeserved ==
  \A predicted, actual \in Deltas2 :
    LET conflicts == Conflicts(predicted, actual) IN
    /\ Warranted(AssessConflict(predicted, actual)) <=>
         \E f \in DOMAIN actual : Distance(predicted[f], actual[f]) >= 15
    /\ conflicts # <<>> => RevisionPenalty(conflicts) \in 15..30
    /\ \A f \in DOMAIN conflicts :
         /\ conflicts[f].direction = "ESCALATION_MISSED" => actual[f] > predicted[f]
         /\ conflicts[f].direction = "FALSE_ESCALATION" => actual[f] < predicted[f]
         /\ predicted[f] = 0 /\ actual[f] = 15 => conflicts[f].direction = "MAGNITUDE_SHIFT"

\* The four ways a revision may compare with the event of the window before.
ASSUME RevisionsAreNamed ==
  LET event(stage, risk) == [stage |-> stage, risk |-> risk]
      revision(was, now) == ExecuteRevision([flows |-> 0], [flows |-> 40], was, now)
  IN /\ revision(event("Reconnaissance", Material), event("Exfiltration", 0)).revisionType = "LATERAL_SHIFT"
     /\ revision(event("Unknown", Material), event("Unknown", 0)).revisionType = "NO_CHANGE"
     /\ revision(event("Unknown", Material + 1), event("Unknown", 0)).revisionType = "DOWNGRADE"
     /\ revision(event("Unknown", 0), event("Exfiltration", Material + 1)).revisionType = "UPGRADE"

Enterprise ==
  INSTANCE DependencyPaths WITH
    Services <- EnterpriseDemoTopology.nodes, Critical <- CriticalOf(EnterpriseNodes),
    Sorted <- [S \in SUBSET EnterpriseDemoTopology.nodes |-> SortedOf(S)]

\* tests/test_topology.py: eight services, twelve dependencies, no cycle, and the
\* chains from the gateway to the customer database.
ASSUME EnterpriseIsAcyclic ==
  /\ Cardinality(EnterpriseDemoTopology.edges) = 12
  /\ ~Enterprise!HasCycle(EnterpriseDemoTopology)
  /\ Enterprise!FindCycles(EnterpriseDemoTopology) = {}
  /\ Enterprise!GetDependencyChain(EnterpriseDemoTopology, "svc-ingress-gw", "svc-customer-db") =
       {<<"svc-ingress-gw", "svc-auth", "svc-customer-db">>,
        <<"svc-ingress-gw", "svc-order", "svc-customer-db">>,
        <<"svc-ingress-gw", "svc-order", "svc-auth", "svc-customer-db">>,
        <<"svc-ingress-gw", "svc-payment", "svc-auth", "svc-customer-db">>}
MCLog1p(n) ==
  CASE n = 0 -> 0 [] n = 50 -> 393 [] n = 70 -> 426 [] n = 250 -> 553
    [] n = 5000 -> 852 [] n = 8000 -> 899 [] n = 60000 -> 1100 [] n = 500000 -> 1312

Rolling ==
  INSTANCE RollingBaseline WITH
    RollingWindowLength <- 6, MinHistory <- 5, KMad <- 3,
    ActiveSignals <- {"port", "flow", "byte", "timing"}, Log1p <- MCLog1p

Window(ports, flows, bytes, iat) ==
  [ports |-> ports, flows |-> flows, syn |-> 0, rst |-> 15, bytes |-> bytes, size |-> 400,
   iatMean |-> iat, iatStd |-> 50]

Usual == Window(10, 50, 5000, 1200)
Windows == {Window(p, n, b, i) : p \in {8, 25, 50}, n \in {0, 70, 250},
                                 b \in {8000, 60000}, i \in {100, 1200}}

RECURSIVE Remembered(_)
Remembered(stream) ==
  IF stream = <<>> THEN Rolling!Reset
  ELSE Rolling!Observe(Remembered(SubSeq(stream, 1, Len(stream) - 1)), stream[Len(stream)])

Constantly(f, n) == Remembered([i \in 1..n |-> f])

\* tests/test_bridge_v3.py, test_04: what a bridge has not seen enough of it
\* judges as the first one does.
ASSUME WarmUpIsStatic ==
  \A f, g \in Windows, n \in 0..4 :
    /\ Rolling!RollingStrength(Constantly(g, n), f) = CurrentStrength(f)
    /\ Rolling!MultiSignalStrength(Constantly(g, n), f) = CurrentStrength(f)

\* test_05 of both files: what does not change stands out by the fixed counts
\* alone, and is never an exploration.
ASSUME StationaryIsQuiet ==
  \A f \in Windows, n \in 5..8 :
    LET rolling == Rolling!RollingStrength(Constantly(f, n), f)
        multi == Rolling!MultiSignalStrength(Constantly(f, n), f)
    IN /\ rolling.Reconnaissance = "NONE" /\ multi.Reconnaissance = "NONE"
       /\ \A t \in SignatureType : multi[t] # "NONE" => CurrentStrength(f)[t] # "NONE"

\* A burst stands out of the memory, with HIGH strength, as long as fewer than
\* half of the remembered windows are bursts themselves, and no longer.
ASSUME MinorityDoesNotBlind ==
  \A bursts \in SUBSET (1..6), n \in {5, 6} :
    LET burst == Window(50, 70, 500000, 1200)
        minority == 2 * Cardinality(bursts \intersect (1..n)) < n
        memory == Remembered([i \in 1..n |-> IF i \in bursts THEN burst ELSE Usual])
        multi == Rolling!MultiSignalStrength(memory, burst)
    IN /\ (Rolling!RollingStrength(memory, burst).Reconnaissance = "HIGH") = minority
       /\ (multi.Reconnaissance = "HIGH") = minority
       /\ (Rolling!ZScores(memory, burst).byte >= 30) = minority

\* Windows older than the memory do not matter, nor what came before a reset.
ASSUME OldWindowsAreForgotten ==
  \A f, g \in Windows, n \in 1..3 :
    Remembered([i \in 1..n + 6 |-> IF i <= n THEN g ELSE f]) = Constantly(f, 6)

\* tests/test_bridge_v3.py, test_06 and test_07: the signal that deviates is
\* named, and the parts add up.
ASSUME DeviationIsAttributed ==
  LET spike == Rolling!ZScores(Constantly(Window(10, 50, 5000, 1200), 6), Window(10, 50, 500000, 1200))
      mock == Rolling!Aggregated([port |-> 40, flow |-> 25, byte |-> 5, timing |-> 2])
  IN /\ Rolling!Aggregated(spike).primary = "byte" /\ spike.byte >= 30
     /\ mock = [composite |-> 4350, primary |-> "port",
                contributions |-> [port |-> 4000, flow |-> 350, byte |-> 0, timing |-> 0]]

\* tests/test_bridge_v2.py, test_06: an exploration that stands out and is
\* forecast to fall is told apart from one that merely shows.
ASSUME FallingIsTold ==
  LET rising == [h \in 1..3 |-> [ports |-> 3, flows |-> 0, bytes |-> 0]]
      falling == [h \in 1..3 |-> [ports |-> -5, flows |-> 0, bytes |-> 0]]
      shape(f, forecast) ==
        Rolling!SignaturesGiven(Rolling!RollingStrength(Constantly(Usual, 6), f),
                                forecast).Reconnaissance.shape
  IN /\ shape(Window(50, 70, 5000, 1200), falling) = "falling"
     /\ shape(Window(50, 70, 5000, 1200), rising) = "rising"
     /\ shape(Usual, falling) = "absent" /\ shape(Usual, rising) = "forecast"
=============================================================================
