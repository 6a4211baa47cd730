--------------------------- MODULE AssessmentProofs ---------------------------
(* Proofs about Assessment, for any evidence, penalties and graphs and any    *)
(* number of windows and playbacks, and first about BlastRadius, for any set  *)
(* of services whose subsets can be listed and any graph over it, cyclic ones *)
(* included.                                                                  *)
(*                                                                            *)
(* The walk's invariant has two halves.  What is reached contains every       *)
(* dependent of a service that has left the queue and lies in every closed    *)
(* set that holds the root; and the queue is sorted by depth, with no         *)
(* reached service more than one deeper than its head.  Every step of the     *)
(* engine is a step of BlastRadius or leaves its state alone, which carries   *)
(* over what is proved of the walk.                                           *)
(*                                                                            *)
(* The last part is about the searches of the graph, DependencyPaths: each    *)
(* agrees with what paths in the graph say, on every graph.                   *)
EXTENDS Assessment, DependencyPaths, FiniteSetTheorems, SequenceTheorems,
        WellFoundedInduction, TLAPS

Queued == {walk.queue[i] : i \in 1..Len(walk.queue)}
Met == Reached(walk.depths)

(* The reached services are the root's dependents as far as they are known.   *)
Coverage ==
  /\ walk.depths[walk.root] = 0
  /\ Queued \subseteq Met
  /\ \A e \in graph.edges : e[2] \in Met \ Queued => e[1] \in Met
  /\ \A S \in SUBSET Services :
       walk.root \in S /\ ClosedUnderDependents(S) => Met \subseteq S

(* Every reached service but the root is one deeper than one it depends on.   *)
Grounded ==
  \A s \in Met \ {walk.root} :
    \E e \in graph.edges : /\ e[1] = s /\ e[2] \in Met
                          /\ walk.depths[s] = walk.depths[e[2]] + 1

(* Breadth first.                                                             *)
Layered ==
  /\ \A i, j \in 1..Len(walk.queue) :
       i <= j => walk.depths[walk.queue[i]] <= walk.depths[walk.queue[j]]
  /\ \A i \in 1..Len(walk.queue), s \in Met :
       walk.depths[s] <= walk.depths[walk.queue[i]] + 1
  /\ \A e \in graph.edges :
       e[2] \in Met \ Queued => walk.depths[e[1]] <= walk.depths[e[2]] + 1

WalkInv == walk # None => Coverage /\ Grounded /\ Layered

Inv == BlastTypeOK /\ WalkInv /\ AffectedIsLeastClosed /\ DepthsAreShortest

(* Where the members of queue q and of its extension t are in n, which is     *)
(* what a dequeue followed by the extension leaves.                           *)
Placed(q, t, n) ==
  /\ n \in Seq(Services) /\ Head(q) = q[1] /\ Head(q) \in Services
  /\ Len(q) \in Nat /\ 1 \in 1..Len(q)
  /\ \A i \in 1..Len(n) :
       \/ i >= Len(q) /\ \E k \in 1..Len(t) : n[i] = t[k]
       \/ i < Len(q) /\ i + 1 \in 1..Len(q) /\ n[i] = q[i + 1]
  /\ \A i \in 1..Len(q) : i = 1 \/ \E k \in 1..Len(n) : n[k] = q[i]
  /\ \A k \in 1..Len(t) : \E i \in 1..Len(n) : n[i] = t[k]

LEMMA Requeued ==
  ASSUME NEW q \in Seq(Services), q # <<>>, NEW t \in Seq(Services)
  PROVE  Placed(q, t, Tail(q) \o t)
<1>. DEFINE n == Tail(q) \o t
<1>. DEFINE m == Len(q) - 1
<1>1. /\ n \in Seq(Services) /\ Len(n) = m + Len(t)
      /\ Len(q) \in Nat \ {0} /\ m \in Nat /\ Len(t) \in Nat
      /\ Head(q) = q[1] /\ Head(q) \in Services
      /\ \A i \in 1..m : n[i] = q[i + 1]
      /\ \A i \in 1..Len(t) : n[m + i] = t[i]
  OBVIOUS
<1>2. ASSUME NEW i \in 1..Len(n)
      PROVE  \/ i >= Len(q) /\ \E k \in 1..Len(t) : n[i] = t[k]
             \/ i < Len(q) /\ i + 1 \in 1..Len(q) /\ n[i] = q[i + 1]
  <2>1. CASE i < Len(q)
    <3>1. i \in 1..m /\ i + 1 \in 1..Len(q)
      BY <1>1, <2>1
    <3>. QED  BY <1>1, <2>1, <3>1
  <2>2. CASE i >= Len(q)
    <3>1. i - m \in 1..Len(t) /\ m + (i - m) = i
      BY <1>1, <2>2
    <3>2. n[m + (i - m)] = t[i - m]
      BY <1>1, <3>1
    <3>. QED  BY <2>2, <3>1, <3>2
  <2>3. i < Len(q) \/ i >= Len(q)
    BY <1>1
  <2>. QED  BY <2>1, <2>2, <2>3
<1>3. ASSUME NEW i \in 1..Len(q), i # 1
      PROVE  \E k \in 1..Len(n) : n[k] = q[i]
  <2>1. i - 1 \in 1..m /\ i - 1 \in 1..Len(n) /\ (i - 1) + 1 = i
    BY <1>1, <1>3
  <2>. QED  BY <1>1, <2>1
<1>4. ASSUME NEW k \in 1..Len(t)
      PROVE  \E i \in 1..Len(n) : n[i] = t[k]
  <2>1. m + k \in 1..Len(n)
    BY <1>1
  <2>. QED  BY <1>1, <2>1
<1>5. 1 \in 1..Len(q) /\ Len(q) \in Nat
  BY <1>1
<1>. HIDE DEF m, n
<1>6. Placed(q, t, n)
  BY <1>1, <1>2, <1>3, <1>4, <1>5 DEF Placed
<1>. QED  BY <1>6 DEF n

LEMMA ReportOf ==
  ASSUME NEW d \in Depths, NEW root \in Services, NEW status \in BlastRadiusStatus,
         NEW direct \in SUBSET Services, NEW affected \in SUBSET Services,
         NEW critical \in SUBSET Services
  PROVE  [status |-> status, root |-> root, depths |-> d, direct |-> direct,
          affected |-> affected, critical |-> critical] \in Report
BY DEF Report

LEMMA FreshIsOk ==
  ASSUME BlastTypeOK, walk # None, walk.queue # <<>>
  PROVE  /\ walk.queue \in Seq(Services) /\ walk.depths \in Depths /\ walk.root \in Services
         /\ Fresh \in SUBSET Services
         /\ Sorted[Fresh] \in Seq(Services)
         /\ \A i \in 1..Len(Sorted[Fresh]) : Sorted[Fresh][i] \in Fresh
         /\ \A s \in Fresh : \E i \in 1..Len(Sorted[Fresh]) : Sorted[Fresh][i] = s
<1>1. walk \in Walk
  BY DEF BlastTypeOK
<1>2. walk.queue \in Seq(Services) /\ walk.depths \in Depths /\ walk.root \in Services
  BY <1>1 DEF Walk
<1>3. Fresh \in SUBSET Services
  BY DEF Fresh, GetDependents
<1>4. Sorted[Fresh] \in Seq(Fresh)
  BY <1>3, SortedAssumption
<1>5. \A s \in Fresh : \E i \in 1..Len(Sorted[Fresh]) : Sorted[Fresh][i] = s
  BY <1>3, SortedAssumption
<1>6. \A i \in 1..Len(Sorted[Fresh]) : Sorted[Fresh][i] \in Fresh
  BY <1>4
<1>7. Sorted[Fresh] \in Seq(Services)
  BY <1>3, <1>4
<1>. QED  BY <1>2, <1>3, <1>5, <1>6, <1>7

(* What of the walk the steps below use.                                      *)
LEMMA WalkFacts ==
  ASSUME BlastTypeOK, WalkInv, walk # None
  PROVE  /\ Coverage /\ Grounded /\ Layered
         /\ walk.queue \in Seq(Services) /\ walk.depths \in Depths /\ walk.root \in Services
         /\ graph.edges \in SUBSET (Services \X Services)
         /\ Met \in SUBSET Services /\ walk.root \in Met
         /\ \A s \in Met : walk.depths[s] \in Nat
<1>1. walk \in Walk /\ graph \in ServiceTopologyGraph
  BY DEF BlastTypeOK
<1>2. Coverage /\ Grounded /\ Layered
  BY DEF WalkInv
<1>3. walk.queue \in Seq(Services) /\ walk.depths \in Depths /\ walk.root \in Services
  BY <1>1 DEF Walk
<1>4. graph.edges \in SUBSET (Services \X Services)
  BY <1>1 DEF ServiceTopologyGraph
<1>5. Met \in SUBSET Services /\ \A s \in Met : walk.depths[s] \in Nat
  BY <1>3 DEF Met, Reached, Depths
<1>6. walk.root \in Met
  BY <1>2, <1>3, ServicesAssumption DEF Coverage, Met, Reached
<1>. QED  BY <1>2, <1>3, <1>4, <1>5, <1>6

(* Only the root has depth 0, and depth 1 is direct dependence.               *)
LEMMA DirectIsOneDeep ==
  ASSUME BlastTypeOK, WalkInv, walk # None, Queued = {}
  PROVE  GetDependents(walk.root) \ {walk.root}
           = {s \in Met \ {walk.root} : walk.depths[s] = 1}
<1>. DEFINE d == walk.depths
            root == walk.root
<1>1. /\ d[root] = 0 /\ root \in Met /\ Met \in SUBSET Services
      /\ graph.edges \in SUBSET (Services \X Services)
      /\ \A s \in Met : d[s] \in Nat
  BY WalkFacts DEF Coverage
<1>2. \A s \in Met \ {root} :
        \E e \in graph.edges : e[1] = s /\ e[2] \in Met /\ d[s] = d[e[2]] + 1
  BY WalkFacts DEF Grounded
<1>3. \A e \in graph.edges : e[2] \in Met => e[1] \in Met /\ d[e[1]] <= d[e[2]] + 1
  BY WalkFacts DEF Coverage, Layered
<1>4. \A s \in Met \ {root} : d[s] \in Nat \ {0}
  <2>1. SUFFICES ASSUME NEW s \in Met \ {root} PROVE d[s] \in Nat \ {0}
    OBVIOUS
  <2>2. PICK e \in graph.edges : e[2] \in Met /\ d[s] = d[e[2]] + 1
    BY <1>2
  <2>3. d[e[2]] \in Nat
    BY <1>1, <2>2
  <2>. HIDE DEF d
  <2>. QED  BY <2>2, <2>3
<1>5. ASSUME NEW s \in GetDependents(root), s # root
      PROVE  s \in Met /\ d[s] = 1
  <2>1. <<s, root>> \in graph.edges
    BY <1>5 DEF GetDependents
  <2>2. s \in Met /\ d[s] <= d[root] + 1
    BY <2>1, <1>3, <1>1
  <2>3. d[s] \in Nat \ {0}
    BY <2>2, <1>4, <1>5
  <2>. HIDE DEF d
  <2>. QED  BY <2>2, <2>3, <1>1
<1>6. ASSUME NEW s \in Met \ {root}, d[s] = 1
      PROVE  s \in GetDependents(root)
  <2>1. PICK e \in graph.edges : e[1] = s /\ e[2] \in Met /\ d[s] = d[e[2]] + 1
    BY <1>2
  <2>2. d[e[2]] \in Nat
    BY <2>1, <1>1
  <2>3. d[e[2]] = 0
    <3>. HIDE DEF d
    <3>. QED  BY <2>1, <2>2, <1>6
  <2>4. e[2] = root
    BY <2>1, <2>3, <1>4
  <2>5. e = <<s, root>> /\ s \in Services
    BY <2>1, <2>4, <1>1
  <2>. QED  BY <2>5 DEF GetDependents
<1>. QED  BY <1>5, <1>6

(***************************************************************************)
(* The steps of a walk.                                                    *)
(***************************************************************************)
LEMMA BuildStep == Inv /\ Build => Inv'
<1>. SUFFICES ASSUME Inv, Build PROVE Inv'
  OBVIOUS
<1>1. walk' = None /\ blast' = None
  BY DEF Build
<1>2. graph \in ServiceTopologyGraph /\ graph.edges \subseteq graph.nodes \X graph.nodes
  BY DEF Inv, BlastTypeOK
<1>3. graph' \in ServiceTopologyGraph /\ graph'.edges \subseteq graph'.nodes \X graph'.nodes
  <2>1. CASE \E s \in Services : AddNode(s)
    BY <2>1, <1>2 DEF AddNode, ServiceTopologyGraph
  <2>2. CASE \E a, b \in Services : AddDependency(a, b)
    BY <2>2, <1>2 DEF AddDependency, ServiceTopologyGraph
  <2>. QED  BY <2>1, <2>2 DEF Build
<1>4. BlastTypeOK'
  BY <1>1, <1>3 DEF BlastTypeOK
<1>. QED  BY <1>1, <1>4 DEF Inv, WalkInv, AffectedIsLeastClosed, DepthsAreShortest, Walked

LEMMA AssessStep ==
  ASSUME Inv, NEW root \in Services, Assess(root)
  PROVE  Inv'
<1>1. graph \in ServiceTopologyGraph /\ graph.edges \subseteq graph.nodes \X graph.nodes
  BY DEF Inv, BlastTypeOK
<1>2. graph' \in ServiceTopologyGraph /\ graph'.edges = graph.edges /\ graph'.nodes = graph.nodes
  BY <1>1 DEF Assess, ServiceTopologyGraph
<1>3. CASE /\ walk' = None
           /\ \E status \in {"UNAVAILABLE", "ROOT_NOT_FOUND"} : blast' = Unresolved(status, root)
  <2>1. [s \in Services |-> None] \in Depths
    BY DEF Depths
  <2>2. blast' \in Report
    BY <1>3, <2>1, ReportOf DEF Unresolved, BlastRadiusStatus
  <2>3. BlastTypeOK'
    BY <1>1, <1>2, <1>3, <2>2 DEF BlastTypeOK
  <2>4. ~Walked'
    BY <1>3 DEF Walked, Unresolved
  <2>. QED  BY <1>3, <2>3, <2>4 DEF Inv, WalkInv, AffectedIsLeastClosed, DepthsAreShortest
<1>4. CASE /\ walk' = [root |-> root, queue |-> <<root>>,
                      depths |-> [s \in Services |-> IF s = root THEN 0 ELSE None]]
           /\ blast' = blast
  <2>1. /\ walk'.root = root /\ walk'.queue = <<root>>
        /\ walk'.depths = [s \in Services |-> IF s = root THEN 0 ELSE None]
    BY <1>4
  <2>2. walk'.depths \in Depths /\ walk'.queue \in Seq(Services)
    BY <2>1 DEF Depths
  <2>3. walk' \in Walk
    BY <1>4, <2>1, <2>2 DEF Walk
  <2>4. BlastTypeOK'
    BY <1>1, <1>2, <1>4, <2>3 DEF Inv, BlastTypeOK
  <2>5. Met' = {root} /\ walk'.depths[root] = 0
    BY <2>1, ServicesAssumption DEF Met, Reached
  <2>6. Queued' = {root} /\ Len(walk'.queue) = 1 /\ walk'.queue[1] = root
    BY <2>1 DEF Queued
  <2>7. Coverage'
    BY <2>1, <2>5, <2>6 DEF Coverage
  <2>8. Grounded'
    BY <2>1, <2>5 DEF Grounded
  <2>9. Layered'
    <3>1. \A i \in 1..Len(walk'.queue) : walk'.queue[i] = root
      BY <2>6
    <3>. QED  BY <3>1, <2>5, <2>6 DEF Layered
  <2>10. AffectedIsLeastClosed' /\ DepthsAreShortest'
    BY <1>2, <1>4 DEF Inv, AffectedIsLeastClosed, DepthsAreShortest, Walked, ClosedUnderDependents
  <2>. QED  BY <2>4, <2>7, <2>8, <2>9, <2>10 DEF Inv, WalkInv
<1>. QED  BY <1>3, <1>4 DEF Assess

LEMMA ConcludeStep == Inv /\ Conclude => Inv'
<1>. SUFFICES ASSUME Inv, Conclude PROVE Inv'
  OBVIOUS
<1>. DEFINE d == walk.depths
            affected == Met \ {walk.root}
            status == IF graph.availability = "KNOWN" THEN "COMPLETE" ELSE "PARTIAL"
<1>1. BlastTypeOK /\ WalkInv /\ walk # None /\ walk.queue = <<>>
  BY DEF Inv, Conclude
<1>2. Queued = {}
  BY <1>1 DEF Queued
<1>3. /\ d \in Depths /\ walk.root \in Services /\ walk.root \in Met
      /\ Met \in SUBSET Services /\ graph.edges \in SUBSET (Services \X Services)
  BY <1>1, WalkFacts
<1>4. /\ blast' = [status |-> status, root |-> walk.root, depths |-> d,
                   direct |-> GetDependents(walk.root) \ {walk.root},
                   affected |-> affected, critical |-> affected \intersect Critical]
      /\ walk' = None /\ graph' = graph
  BY DEF Conclude, Met
<1>5. BlastTypeOK'
  <2>1. GetDependents(walk.root) \ {walk.root} \in SUBSET Services
    BY DEF GetDependents
  <2>2. affected \in SUBSET Services /\ affected \intersect Critical \in SUBSET Services
    BY <1>3
  <2>3. status \in BlastRadiusStatus
    BY DEF BlastRadiusStatus
  <2>4. blast' \in Report
    <3>. HIDE DEF affected, status, d
    <3>. QED  BY <1>3, <1>4, <2>1, <2>2, <2>3, ReportOf
  <2>. QED  BY <1>1, <1>4, <2>4 DEF BlastTypeOK
<1>6. /\ blast'.root = walk.root /\ blast'.affected = affected /\ blast'.depths = d
      /\ blast'.direct = GetDependents(walk.root) \ {walk.root}
  BY <1>4
<1>7. affected \union {walk.root} = Met /\ walk.root \notin affected
  BY <1>3
<1>8. AffectedIsLeastClosed'
  <2>1. \A e \in graph.edges : e[2] \in Met => e[1] \in Met
    BY <1>1, <1>2, WalkFacts DEF Coverage
  <2>2. \A S \in SUBSET Services : walk.root \in S /\ ClosedUnderDependents(S) => Met \subseteq S
    BY <1>1, WalkFacts DEF Coverage
  <2>. QED  BY <1>4, <1>6, <1>7, <2>1, <2>2
            DEF AffectedIsLeastClosed, ClosedUnderDependents
<1>9. DepthsAreShortest'
  <2>1. Reached(d) = Met
    BY DEF Met
  <2>2. d[walk.root] = 0
    BY <1>1, WalkFacts DEF Coverage
  <2>3. \A s \in affected :
          \E e \in graph.edges : e[1] = s /\ e[2] \in Met /\ d[s] = d[e[2]] + 1
    BY <1>1, WalkFacts DEF Grounded
  <2>4. \A e \in graph.edges : e[2] \in Met => d[e[1]] <= d[e[2]] + 1
    BY <1>1, <1>2, WalkFacts DEF Layered
  <2>5. GetDependents(walk.root) \ {walk.root} = {s \in affected : d[s] = 1}
    BY <1>1, <1>2, DirectIsOneDeep
  <2>. HIDE DEF d, affected
  <2>. QED  BY <1>4, <1>6, <1>7, <2>1, <2>2, <2>3, <2>4, <2>5 DEF DepthsAreShortest
<1>. QED  BY <1>4, <1>5, <1>8, <1>9 DEF Inv, WalkInv

LEMMA ExpandStep == Inv /\ Expand => Inv'
<1>. SUFFICES ASSUME Inv, Expand PROVE Inv'
  OBVIOUS
<1>. DEFINE q == walk.queue
            d == walk.depths
            root == walk.root
            h == Head(q)
            F == Fresh
            t == Sorted[F]
            n == Tail(q) \o t
            d1 == walk'.depths
<1>1. BlastTypeOK /\ WalkInv /\ walk # None /\ q # <<>>
  BY DEF Inv, Expand
<1>2. /\ q \in Seq(Services) /\ d \in Depths /\ root \in Services
      /\ graph.edges \in SUBSET (Services \X Services)
      /\ Met \in SUBSET Services /\ root \in Met /\ \A s \in Met : d[s] \in Nat
  BY <1>1, WalkFacts
<1>3. /\ F \in SUBSET Services /\ t \in Seq(Services)
      /\ \A i \in 1..Len(t) : t[i] \in F
      /\ \A s \in F : \E i \in 1..Len(t) : t[i] = s
  BY <1>1, FreshIsOk
<1>4. /\ n \in Seq(Services) /\ h = q[1] /\ h \in Services
      /\ Len(q) \in Nat /\ 1 \in 1..Len(q)
      /\ \A i \in 1..Len(n) :
           \/ i >= Len(q) /\ \E k \in 1..Len(t) : n[i] = t[k]
           \/ i < Len(q) /\ i + 1 \in 1..Len(q) /\ n[i] = q[i + 1]
      /\ \A i \in 1..Len(q) : i = 1 \/ \E k \in 1..Len(n) : n[k] = q[i]
      /\ \A k \in 1..Len(t) : \E i \in 1..Len(n) : n[i] = t[k]
  <2>1. n = Tail(q) \o t /\ h = Head(q)
    OBVIOUS
  <2>2. q \in Seq(Services) /\ q # <<>> /\ t \in Seq(Services)
    BY <1>1, <1>2, <1>3
  <2>3. Placed(q, t, n)
    <3>. HIDE DEF q, t
    <3>. QED  BY <2>2, Requeued
  <2>. HIDE DEF q, t, n, h
  <2>. QED  BY <2>1, <2>3 DEF Placed
<1>5. walk' = [walk EXCEPT !.queue = n,
                           !.depths = [s \in Services |-> IF s \in F THEN d[h] + 1 ELSE d[s]]]
  BY DEF Expand
<1>6. walk \in Walk
  BY <1>1 DEF BlastTypeOK
<1>7. /\ walk'.root = root /\ walk'.queue = n
      /\ d1 = [s \in Services |-> IF s \in F THEN d[h] + 1 ELSE d[s]]
  BY <1>5, <1>6 DEF Walk
<1>8. h \in Met /\ h \in Queued /\ d[h] \in Nat
  <2>1. h \in Queued
    BY <1>4 DEF Queued
  <2>. QED  BY <1>1, <1>2, <2>1, WalkFacts DEF Coverage
<1>9. F \intersect Met = {}
  BY DEF Fresh, Met
<1>10. /\ \A s \in F : d1[s] = d[h] + 1
       /\ \A s \in Met : d1[s] = d[s]
  BY <1>2, <1>3, <1>7, <1>9
<1>11. Met' = Met \union F
  <2>1. \A s \in Services : d1[s] # None <=> s \in F \/ d[s] # None
    BY <1>7, <1>8, ServicesAssumption
  <2>. QED  BY <1>3, <2>1 DEF Met, Reached
<1>12. /\ Queued' \subseteq Queued \union F
       /\ Queued \subseteq Queued' \union {h} /\ F \subseteq Queued'
  <2>1. Queued' = {n[i] : i \in 1..Len(n)}
    BY <1>7 DEF Queued
  <2>2. Queued = {q[i] : i \in 1..Len(q)}
    BY DEF Queued
  <2>3. ASSUME NEW i \in 1..Len(n) PROVE n[i] \in Queued \union F
    <3>. HIDE DEF n, q, t, F
    <3>. QED  BY <1>3, <1>4, <2>2
  <2>4. ASSUME NEW i \in 1..Len(q), i # 1 PROVE q[i] \in Queued'
    <3>. HIDE DEF n, q, t, F
    <3>. QED  BY <1>4, <2>1, <2>4
  <2>5. ASSUME NEW s \in F PROVE s \in Queued'
    <3>. HIDE DEF n, q, t, F
    <3>. QED  BY <1>3, <1>4, <2>1
  <2>6. Queued' \subseteq Queued \union F
    BY <2>1, <2>3
  <2>7. Queued \subseteq Queued' \union {h}
    BY <2>2, <2>4, <1>4
  <2>. QED  BY <2>5, <2>6, <2>7
<1>13. BlastTypeOK'
  <2>1. d1 \in Depths
    BY <1>2, <1>7, <1>8 DEF Depths
  <2>2. walk' \in Walk
    BY <1>2, <1>4, <1>5, <1>6, <1>7, <2>1 DEF Walk
  <2>. QED  BY <1>1, <2>2 DEF Expand, BlastTypeOK
<1>14. graph' = graph /\ blast' = blast
  BY DEF Expand
<1>15. \A e \in graph.edges : e = <<e[1], e[2]>> /\ e[1] \in Services /\ e[2] \in Services
  BY <1>2
<1>16. \A e \in graph.edges : e[2] = h => e[1] \in Met \union F
  BY <1>15 DEF Fresh, Met, GetDependents
<1>17. /\ d[root] = 0 /\ Queued \subseteq Met
       /\ \A e \in graph.edges : e[2] \in Met \ Queued => e[1] \in Met
       /\ \A S \in SUBSET Services : root \in S /\ ClosedUnderDependents(S) => Met \subseteq S
  BY <1>1, WalkFacts DEF Coverage
<1>18. \A s \in Met' \ Queued' : s \in Met /\ (s = h \/ s \in Met \ Queued)
  BY <1>11, <1>12
<1>19. Coverage'
  <2>1. d1[root] = 0
    BY <1>2, <1>10, <1>17
  <2>2. Queued' \subseteq Met'
    BY <1>11, <1>12, <1>17
  <2>3. \A e \in graph.edges : e[2] \in Met' \ Queued' => e[1] \in Met'
    BY <1>11, <1>16, <1>17, <1>18
  <2>4. ASSUME NEW S \in SUBSET Services, root \in S, ClosedUnderDependents(S)
        PROVE  Met' \subseteq S
    <3>1. Met \subseteq S
      BY <1>17, <2>4
    <3>2. \A s \in F : <<s, h>> \in graph.edges
      BY DEF Fresh, GetDependents
    <3>3. F \subseteq S
      BY <3>1, <3>2, <1>8, <2>4 DEF ClosedUnderDependents
    <3>. QED  BY <3>1, <3>3, <1>11
  <2>. HIDE DEF F
  <2>. QED  BY <1>7, <1>14, <2>1, <2>2, <2>3, <2>4 DEF Coverage, ClosedUnderDependents
<1>20. Grounded'
  <2>1. ASSUME NEW s \in F
        PROVE  \E e \in graph.edges : e[1] = s /\ e[2] \in Met' /\ d1[s] = d1[e[2]] + 1
    <3>1. <<s, h>> \in graph.edges
      BY DEF Fresh, GetDependents
    <3>2. d1[s] = d1[h] + 1 /\ h \in Met'
      BY <1>8, <1>10, <1>11
    <3>. QED  BY <3>1, <3>2
  <2>2. ASSUME NEW s \in Met \ {root}
        PROVE  \E e \in graph.edges : e[1] = s /\ e[2] \in Met' /\ d1[s] = d1[e[2]] + 1
    <3>1. PICK e \in graph.edges : e[1] = s /\ e[2] \in Met /\ d[s] = d[e[2]] + 1
      BY <1>1, WalkFacts DEF Grounded
    <3>. QED  BY <3>1, <1>10, <1>11
  <2>. HIDE DEF F
  <2>. QED  BY <1>7, <1>11, <1>14, <2>1, <2>2 DEF Grounded
<1>21. /\ \A i, j \in 1..Len(q) : i <= j => d[q[i]] <= d[q[j]]
       /\ \A i \in 1..Len(q), s \in Met : d[s] <= d[q[i]] + 1
       /\ \A e \in graph.edges : e[2] \in Met \ Queued => d[e[1]] <= d[e[2]] + 1
  BY <1>1, WalkFacts DEF Layered
<1>22. \A i \in 1..Len(q) : q[i] \in Met /\ d[q[i]] \in Nat
  BY <1>2, <1>17 DEF Queued
<1>23. ASSUME NEW i \in 1..Len(n)
       PROVE  \/ i >= Len(q) /\ d1[n[i]] = d[h] + 1
              \/ /\ i < Len(q) /\ i + 1 \in 1..Len(q) /\ d1[n[i]] = d[q[i + 1]]
                 /\ d[h] <= d[q[i + 1]] /\ d[q[i + 1]] <= d[h] + 1
  <2>1. CASE i >= Len(q) /\ \E k \in 1..Len(t) : n[i] = t[k]
    <3>. HIDE DEF n, q, t, F, d, d1, h
    <3>. QED  BY <2>1, <1>3, <1>10
  <2>2. CASE i < Len(q) /\ i + 1 \in 1..Len(q) /\ n[i] = q[i + 1]
    <3>1. q[i + 1] \in Met /\ 1 <= i + 1
      BY <2>2, <1>22
    <3>2. d[q[1]] <= d[q[i + 1]] /\ d[q[i + 1]] <= d[q[1]] + 1
      <4>. HIDE DEF n, q, t, F, d, d1, h
      <4>. QED  BY <2>2, <3>1, <1>4, <1>21
    <3>. HIDE DEF n, q, t, F, d, d1, h
    <3>. QED  BY <2>2, <3>1, <3>2, <1>4, <1>10
  <2>3. \/ i >= Len(q) /\ \E k \in 1..Len(t) : n[i] = t[k]
        \/ i < Len(q) /\ i + 1 \in 1..Len(q) /\ n[i] = q[i + 1]
    <3>. HIDE DEF n, q, t
    <3>. QED  BY <1>4
  <2>. QED  BY <2>1, <2>2, <2>3
<1>24. Layered'
  <2>1. ASSUME NEW i \in 1..Len(n), NEW j \in 1..Len(n), i <= j
        PROVE  d1[n[i]] <= d1[n[j]]
    <3>. HIDE DEF n, q, t, F, d, d1, h
    <3>1. CASE j >= Len(q)
      <4>1. d[h] \in Nat /\ d1[n[j]] = d[h] + 1
        BY <1>4, <1>22, <1>23, <3>1
      <4>2. \/ d1[n[i]] = d[h] + 1
            \/ \E k \in 1..Len(q) : d1[n[i]] = d[q[k]] /\ d[q[k]] <= d[h] + 1
        BY <1>23
      <4>3. d1[n[i]] \in Nat /\ d1[n[i]] <= d[h] + 1
        BY <1>22, <4>1, <4>2
      <4>. QED  BY <4>1, <4>3
    <3>2. CASE j < Len(q)
      <4>1. /\ i < Len(q) /\ i + 1 \in 1..Len(q) /\ j + 1 \in 1..Len(q) /\ i + 1 <= j + 1
        BY <3>2, <2>1, <1>4
      <4>2. d1[n[i]] = d[q[i + 1]] /\ d1[n[j]] = d[q[j + 1]]
        BY <4>1, <3>2, <1>4, <1>23
      <4>. QED  BY <4>1, <4>2, <1>21
    <3>. QED  BY <3>1, <3>2, <1>4
  <2>2. ASSUME NEW i \in 1..Len(n), NEW s \in Met \union F
        PROVE  d1[s] <= d1[n[i]] + 1
    <3>. HIDE DEF n, q, t, F, d, d1, h
    <3>1. d1[n[i]] \in Nat /\ d[h] <= d1[n[i]]
      BY <1>8, <1>22, <1>23
    <3>2. d1[s] \in Nat /\ d1[s] <= d[h] + 1
      <4>1. CASE s \in F
        BY <4>1, <1>8, <1>10
      <4>2. CASE s \in Met
        <5>1. d1[s] = d[s] /\ d[s] \in Nat
          BY <4>2, <1>2, <1>10
        <5>2. d[s] <= d[q[1]] + 1
          BY <4>2, <1>4, <1>21
        <5>. QED  BY <5>1, <5>2, <1>4
      <4>. QED  BY <4>1, <4>2
    <3>. QED  BY <3>1, <3>2, <1>8
  <2>3. ASSUME NEW e \in graph.edges, e[2] \in Met' \ Queued'
        PROVE  d1[e[1]] <= d1[e[2]] + 1
    <3>1. e[2] \in Met /\ (e[2] = h \/ e[2] \in Met \ Queued) /\ d1[e[2]] = d[e[2]]
      BY <1>10, <1>18, <2>3
    <3>2. CASE e[2] = h
      <4>1. e[1] \in Met \union F
        BY <3>2, <1>16
      <4>2. CASE e[1] \in F
        BY <4>2, <3>1, <3>2, <1>8, <1>10
      <4>3. CASE e[1] \in Met
        <5>1. 1 \in 1..Len(q)
          BY <1>4
        <5>2. d[e[1]] <= d[q[1]] + 1
          BY <4>3, <5>1, <1>21
        <5>. QED  BY <4>3, <5>2, <3>1, <3>2, <1>4, <1>10
      <4>. QED  BY <4>1, <4>2, <4>3
    <3>3. CASE e[2] \in Met \ Queued
      BY <3>1, <3>3, <1>10, <1>17, <1>21
    <3>. QED  BY <3>1, <3>2, <3>3
  <2>. HIDE DEF F, n
  <2>. QED  BY <1>7, <1>11, <1>14, <2>1, <2>2, <2>3 DEF Layered
<1>25. AffectedIsLeastClosed' /\ DepthsAreShortest'
  BY <1>14 DEF Inv, AffectedIsLeastClosed, DepthsAreShortest, Walked, ClosedUnderDependents
<1>. QED  BY <1>13, <1>19, <1>20, <1>24, <1>25 DEF Inv, WalkInv

LEMMA InitInv == BlastInit => Inv
<1>. SUFFICES ASSUME BlastInit PROVE Inv
  OBVIOUS
<1>1. walk = None /\ blast = None
  BY DEF BlastInit, NoAssessment
<1>2. graph \in ServiceTopologyGraph /\ graph.edges = {}
  BY DEF BlastInit, GraphInit, ServiceTopologyGraph
<1>. QED  BY <1>1, <1>2
          DEF Inv, BlastTypeOK, WalkInv, AffectedIsLeastClosed, DepthsAreShortest, Walked

LEMMA StutterStep == Inv /\ UNCHANGED blastVars => Inv'
BY DEF blastVars, Inv, BlastTypeOK, WalkInv, Coverage, Grounded, Layered, Queued, Met,
       AffectedIsLeastClosed, DepthsAreShortest, Walked, ClosedUnderDependents

LEMMA Invariance == BlastSpec => []Inv
<1>1. Inv /\ [BlastNext]_blastVars => Inv'
  BY BuildStep, AssessStep, ExpandStep, ConcludeStep, StutterStep DEF BlastNext
<1>. QED  BY InitInv, <1>1, PTL DEF BlastSpec

(* The graph, the walk and the report are well formed, and edges always join  *)
(* registered services, for any services and any order of building.           *)
THEOREM BlastTypeCorrect == BlastSpec => []BlastTypeOK
BY Invariance, PTL DEF Inv

(* assess reports all downstream services of the root and no other, on every  *)
(* graph: nothing is missed and a cycle adds nothing.                         *)
THEOREM AffectedAreDownstream == BlastSpec => []AffectedIsLeastClosed
BY Invariance, PTL DEF Inv

(* The distances assess reports are shortest paths, and its direct dependents *)
(* are the services at distance 1.                                            *)
THEOREM DepthsAreDistances == BlastSpec => []DepthsAreShortest
BY Invariance, PTL DEF Inv

(***************************************************************************)
(* The policy: each class is permitted by a condition of its own, so a     *)
(* claim about the permitted set is proved class by class.                 *)
(***************************************************************************)

(* Which condition permits which class.                                       *)
LEMMA PermittedByCase ==
  ASSUME NEW in
  PROVE  /\ PermittedActionClasses(in) \subseteq ActionClasses \ {"EXECUTE_DESTRUCTIVE_ACTION"}
         /\ "OBSERVE_ONLY" \in PermittedActionClasses(in)
         /\ "ALERT_OPERATOR" \in PermittedActionClasses(in)
              <=> IsValid(in) /\ AlertPermitted(in)
         /\ "GENERATE_RECOMMENDATION" \in PermittedActionClasses(in)
              <=> IsValid(in) /\ RecommendationPermitted(in)
         /\ "PREPARE_REVERSIBLE_ACTION" \in PermittedActionClasses(in)
              <=> IsValid(in) /\ PreparationPermitted(in)
         /\ "EXECUTE_REVERSIBLE_ACTION" \in PermittedActionClasses(in)
              <=> IsValid(in) /\ ExecutionPermitted(in)
BY DEF PermittedActionClasses, ActionClasses

(* "Destructive actions are NEVER autonomous", and nothing that stages or      *)
(* executes a change is permitted without a human's approval, without a       *)
(* topology or below the trust of a recommendation.                           *)
THEOREM ConsequentialIsGated ==
  ASSUME NEW in \in AuthorityPolicyInput
  PROVE  /\ "EXECUTE_DESTRUCTIVE_ACTION" \notin PermittedActionClasses(in)
         /\ PermittedActionClasses(in) \intersect Consequential # {} =>
              /\ HumanApprovalRequired(in)
              /\ in.topology # "UNAVAILABLE"
              /\ in.trust >= 55
<1>1. "EXECUTE_DESTRUCTIVE_ACTION" \notin PermittedActionClasses(in)
  BY PermittedByCase
<1>2. ASSUME PermittedActionClasses(in) \intersect Consequential # {}
      PROVE  HumanApprovalRequired(in)
  BY <1>2 DEF HumanApprovalRequired
<1>3. ASSUME PermittedActionClasses(in) \intersect Consequential # {}
      PROVE  in.topology # "UNAVAILABLE" /\ in.trust >= 55
  <2>1. "PREPARE_REVERSIBLE_ACTION" \in PermittedActionClasses(in)
          \/ "EXECUTE_REVERSIBLE_ACTION" \in PermittedActionClasses(in)
    BY <1>1, <1>3 DEF Consequential
  <2>2. PreparationPermitted(in) \/ ExecutionPermitted(in)
    BY <2>1, PermittedByCase
  <2>. QED  BY <2>2 DEF PreparationPermitted, ExecutionPermitted, AuthorityPolicyInput
<1>. QED  BY <1>1, <1>2, <1>3

\* b rests on evidence at least as good as a's.
AtLeastAsGood(a, b) ==
  /\ a.trust <= b.trust /\ b.uncertainty <= a.uncertainty /\ a.confidence <= b.confidence
  /\ a.risk <= b.risk /\ a.affected <= b.affected
  /\ b.level = "INSUFFICIENT" => a.level = "INSUFFICIENT"
  /\ a.level = "HIGH" => b.level = "HIGH"
  /\ b.topology = "UNAVAILABLE" => a.topology = "UNAVAILABLE"

(* Worse evidence never permits more: with less trust, more uncertainty, less  *)
(* confidence or less topology no class is gained, at any of the thresholds.  *)
THEOREM PolicyIsMonotone ==
  ASSUME NEW a \in AuthorityPolicyInput, NEW b \in AuthorityPolicyInput,
         IsValid(a), IsValid(b), AtLeastAsGood(a, b)
  PROVE  PermittedActionClasses(a) \subseteq PermittedActionClasses(b)
<1>1. /\ a.trust \in Int /\ b.trust \in Int /\ a.confidence \in Int /\ b.confidence \in Int
      /\ a.risk \in Int /\ b.risk \in Int /\ a.affected \in Int /\ b.affected \in Int
      /\ a.uncertainty \in Int /\ b.uncertainty \in Int
  BY DEF AuthorityPolicyInput, IsValid
<1>2. AlertPermitted(a) => AlertPermitted(b)
  BY <1>1 DEF AlertPermitted, AtLeastAsGood, RiskHundredths
<1>3. RecommendationPermitted(a) => RecommendationPermitted(b)
  BY <1>1 DEF RecommendationPermitted, AtLeastAsGood
<1>4. PreparationPermitted(a) => PreparationPermitted(b)
  BY <1>1, <1>3 DEF PreparationPermitted, AtLeastAsGood
<1>5. ExecutionPermitted(a) => ExecutionPermitted(b)
  BY <1>1 DEF ExecutionPermitted, AtLeastAsGood
<1>. QED
  <2>. SUFFICES ASSUME NEW c \in PermittedActionClasses(a)
                PROVE  c \in PermittedActionClasses(b)
    OBVIOUS
  <2>. c \in ActionClasses \ {"EXECUTE_DESTRUCTIVE_ACTION"}
    BY PermittedByCase
  <2>. QED  BY <1>2, <1>3, <1>4, <1>5, PermittedByCase DEF ActionClasses

(* "Blast radius increases review urgency, but does NOT grant higher           *)
(* authority", and neither does risk: two inputs that differ in them alone    *)
(* permit the same classes, but for the alert.                                *)
THEOREM ImpactGrantsNothing ==
  ASSUME NEW a \in AuthorityPolicyInput, NEW b \in AuthorityPolicyInput,
         IsValid(a), IsValid(b),
         a.trust = b.trust, a.level = b.level, a.uncertainty = b.uncertainty,
         a.confidence = b.confidence, a.topology = b.topology
  PROVE  PermittedActionClasses(a) \ {"ALERT_OPERATOR"}
           = PermittedActionClasses(b) \ {"ALERT_OPERATOR"}
<1>1. RecommendationPermitted(a) <=> RecommendationPermitted(b)
  BY DEF RecommendationPermitted
<1>2. PreparationPermitted(a) <=> PreparationPermitted(b)
  BY <1>1 DEF PreparationPermitted
<1>3. ExecutionPermitted(a) <=> ExecutionPermitted(b)
  BY DEF ExecutionPermitted
<1>. QED
  <2>. SUFFICES ASSUME NEW c, c # "ALERT_OPERATOR"
                PROVE  c \in PermittedActionClasses(a) <=> c \in PermittedActionClasses(b)
    OBVIOUS
  <2>1. c \in PermittedActionClasses(a) \/ c \in PermittedActionClasses(b) =>
          c \in ActionClasses \ {"EXECUTE_DESTRUCTIVE_ACTION"}
    BY PermittedByCase
  <2>. QED  BY <2>1, <1>1, <1>2, <1>3, PermittedByCase DEF ActionClasses

(***************************************************************************)
(* The engine and the walk.                                                *)
(***************************************************************************)
FocusOK == focus \in Foci

LEMMA NextCases ==
  ASSUME Next
  PROVE  \/ BuildGraph \/ StreamScenario
         \/ \E sigs \in Evidence, change \in PortChange : Observe(sigs, change)
         \/ Confirm \/ (\E p \in Penalties : Reconsider(p))
         \/ AssessImpact \/ WalkGraph \/ Publish
BY DEF Next, Analyse

(* The focus the walk starts from is always a service identifier.             *)
LEMMA RootIsService ==
  ASSUME BlastTypeOK, FocusOK
  PROVE  Root \in Services
<1>1. focus # None => focus \in Services
  BY AssessmentAssumption DEF FocusOK
<1>2. graph.nodes \in SUBSET Services
  BY DEF BlastTypeOK, ServiceTopologyGraph
<1>3. graph.nodes # {} => Sorted[graph.nodes][1] \in Services
  <2>1. SUFFICES ASSUME graph.nodes # {} PROVE Sorted[graph.nodes][1] \in Services
    OBVIOUS
  <2>2. PICK s \in graph.nodes : TRUE
    BY <2>1
  <2>3. Sorted[graph.nodes] \in Seq(graph.nodes)
    BY <1>2, SortedAssumption
  <2>4. PICK i \in 1..Len(Sorted[graph.nodes]) : Sorted[graph.nodes][i] = s
    BY <1>2, SortedAssumption
  <2>5. 1 \in 1..Len(Sorted[graph.nodes])
    BY <2>3, <2>4
  <2>. QED  BY <1>2, <2>3, <2>5
<1>. QED  BY <1>1, <1>3, AssessmentAssumption DEF Root

LEMMA BlastWithin ==
  ASSUME Inv, FocusOK, [Next]_vars
  PROVE  Inv' /\ FocusOK'
<1>1. Root \in Services
  BY RootIsService DEF Inv
<1>2. CASE BuildGraph
  BY <1>2, BuildStep DEF BuildGraph, engineVars, FocusOK
<1>3. CASE WalkGraph
  BY <1>3, ExpandStep, ConcludeStep DEF WalkGraph, engineVars, FocusOK
<1>4. CASE AssessImpact
  <2>1. CASE Assess(Root)
    BY <1>1, <1>4, <2>1, AssessStep DEF AssessImpact, FocusOK
  <2>2. CASE UNCHANGED blastVars
    BY <1>4, <2>2, StutterStep DEF AssessImpact, FocusOK
  <2>. QED  BY <1>4, <2>1, <2>2 DEF AssessImpact
<1>5. CASE \/ StreamScenario \/ Confirm \/ (\E p \in Penalties : Reconsider(p)) \/ Publish
           \/ \E sigs \in Evidence, change \in PortChange : Observe(sigs, change)
  <2>1. UNCHANGED blastVars /\ focus' = focus
    BY <1>5 DEF StreamScenario, Confirm, Reconsider, Publish, Observe
  <2>. QED  BY <2>1, StutterStep DEF FocusOK
<1>6. CASE UNCHANGED vars
  BY <1>6, StutterStep DEF vars, engineVars, FocusOK
<1>. QED  BY <1>2, <1>3, <1>4, <1>5, <1>6, NextCases

LEMMA InitBlast == Init => Inv /\ FocusOK
BY InitInv DEF Init, EngineInit, FocusOK

LEMMA BlastInvariance == Spec => [](Inv /\ FocusOK)
<1>1. (Inv /\ FocusOK) /\ [Next]_vars => (Inv /\ FocusOK)'
  BY BlastWithin
<1>. QED  BY InitBlast, <1>1, PTL DEF Spec

(* In every playback the blast radius of an event is exactly the services     *)
(* downstream of its focus, at their shortest distances, whatever the graph.  *)
THEOREM ImpactIsDownstream == Spec => []ImpactIsExact
BY BlastInvariance, PTL DEF Inv, ImpactIsExact

(***************************************************************************)
(* One truth per event.                                                    *)
(***************************************************************************)
ToldAt(out, level) == [Explained(out) EXCEPT !.level = level]

Truth ==
  /\ outputs = Pipeline(outputs.sigs, outputs.trust, TrustLevelOf(outputs.trust))
  /\ \A r \in sent : RelevantFor(r, outputs)
  /\ explained = ToldAt(outputs, unrevised.level)

Urgent ==
  actions.type \in InterventionType \ {"DO_NOTHING"} =>
    actions.urgency = Urgency(outputs.risk)

TruthInv == (phase # "ready" => Truth) /\ (Published => Urgent)

LEMMA PipelineEchoes ==
  ASSUME NEW sigs, NEW trust, NEW level
  PROVE  /\ Pipeline(sigs, trust, level).sigs = sigs
         /\ Pipeline(sigs, trust, level).trust = trust
         /\ Pipeline(sigs, trust, level).level = level
BY DEF Pipeline

(* The trust a window's forecast starts with is of the level it is given.     *)
LEMMA ForecastLevel ==
  ASSUME NEW change \in PortChange, NEW i \in Nat
  PROVE  ForecastTrust(change, i).level = TrustLevelOf(ForecastTrust(change, i).trust)
<1>1. \/ ForecastTrust(change, i) = [trust |-> 35, level |-> "LOW"]
      \/ ForecastTrust(change, i) = [trust |-> 65, level |-> "MEDIUM"]
      \/ ForecastTrust(change, i) = [trust |-> 85, level |-> "HIGH"]
  BY AssessmentAssumption DEF ForecastTrust, PortChange
<1>2. TrustLevelOf(35) = "LOW" /\ TrustLevelOf(65) = "MEDIUM" /\ TrustLevelOf(85) = "HIGH"
  BY DEF TrustLevelOf
<1>. QED  BY <1>1, <1>2

LEMMA NotifiedAreRelevant ==
  ASSUME NEW out, NEW cache
  PROVE  \A r \in Notified(out, cache) : RelevantFor(r, out)
BY DEF Notified

(* Whatever the trust, a window's explanations differ by its level alone.     *)
IsPass(out, sigs) == \E trust, level : out = Pipeline(sigs, trust, level)

LEMMA ExplanationsAgree ==
  ASSUME NEW old, NEW new, IsPass(old, old.sigs), IsPass(new, old.sigs)
  PROVE  \A l : ToldAt(new, l) = ToldAt(old, l)
<1>. PICK a, la : old = Pipeline(old.sigs, a, la)
  BY DEF IsPass
<1>. PICK b, lb : new = Pipeline(old.sigs, b, lb)
  BY DEF IsPass
<1>. DEFINE sigs == old.sigs
            of(level) == [stage |-> PrimaryHypothesis(sigs).stage,
                          confidence |-> PrimaryHypothesis(sigs).confidence,
                          level |-> level, techniques |-> Shown(sigs)]
<1>1. \A t, level : Explained(Pipeline(sigs, t, level)) = of(level)
  BY DEF Explained, Pipeline
<1>2. Explained(old) = of(la) /\ Explained(new) = of(lb)
  <2>. HIDE DEF of
  <2>. QED  BY <1>1
<1>3. \A l : [of(la) EXCEPT !.level = l] = [of(lb) EXCEPT !.level = l]
  OBVIOUS
<1>. HIDE DEF of
<1>. QED  BY <1>2, <1>3 DEF ToldAt

(* The first pass explains itself.                                            *)
LEMMA FirstPassExplains ==
  ASSUME NEW sigs, NEW t, NEW level
  PROVE  Explained(Pipeline(sigs, t, level)) =
           ToldAt(Pipeline(sigs, t, level), Pipeline(sigs, t, level).level)
BY DEF Explained, ToldAt

LEMMA PassTellsTruth ==
  ASSUME NEW sigs, NEW trust, NEW cache,
         outputs' = Pipeline(sigs, trust, TrustLevelOf(trust)),
         sent' = Notified(outputs', cache),
         explained' = ToldAt(outputs', unrevised'.level)
  PROVE  Truth'
<1>1. outputs'.sigs = sigs /\ outputs'.trust = trust
  BY PipelineEchoes
<1>2. \A r \in sent' : RelevantFor(r, outputs')
  BY NotifiedAreRelevant
<1>3. (outputs = Pipeline(outputs.sigs, outputs.trust, TrustLevelOf(outputs.trust)))'
  BY <1>1
<1>. QED  BY <1>2, <1>3 DEF Truth

(* What is recommended with an event is as urgent as the risk it is given.    *)
LEMMA RecordsAreUrgent ==
  ASSUME NEW decision \in Decisions, NEW risk
  PROVE  ActionRecord(decision, risk).type \in InterventionType \ {"DO_NOTHING"} =>
           ActionRecord(decision, risk).urgency = Urgency(risk)
<1>1. CASE decision \in InterventionType
  <2>1. ActionRecord(decision, risk) = [type |-> decision, urgency |-> Urgency(risk)]
    BY <1>1 DEF ActionRecord, InterventionType
  <2>. QED  BY <2>1
<1>2. CASE decision = "NO_SUFFICIENT_ACTION"
  <2>1. ActionRecord(decision, risk) = [type |-> decision, urgency |-> "IMMEDIATE"]
    BY <1>2 DEF ActionRecord, InterventionType
  <2>. QED  BY <1>2, <2>1 DEF InterventionType
<1>3. CASE decision = "UNRESOLVED"
  <2>1. ActionRecord(decision, risk) = [type |-> "DO_NOTHING", urgency |-> "WHEN_CONVENIENT"]
    BY <1>3 DEF ActionRecord, InterventionType
  <2>. QED  BY <2>1
<1>. QED  BY <1>1, <1>2, <1>3, AssessmentAssumption DEF Decisions

IndexOK == index \in Nat

LEMMA IndexStep == IndexOK /\ [Next]_vars => IndexOK'
<1>. SUFFICES ASSUME IndexOK, [Next]_vars PROVE IndexOK'
  OBVIOUS
<1>1. index' \in {index, 0, index + 1}
  BY NextCases
     DEF vars, engineVars, BuildGraph, StreamScenario, Observe, Confirm, Reconsider,
         AssessImpact, WalkGraph, Publish
<1>. QED  BY <1>1 DEF IndexOK

LEMMA TruthStep == TruthInv /\ IndexOK /\ [Next]_vars => TruthInv'
<1>. SUFFICES ASSUME TruthInv, IndexOK, [Next]_vars PROVE TruthInv'
  OBVIOUS
<1>1. CASE StreamScenario
  BY <1>1 DEF StreamScenario, TruthInv, Published
<1>2. ASSUME NEW sigs \in Evidence, NEW change \in PortChange, Observe(sigs, change)
      PROVE  TruthInv'
  <2>. DEFINE forecast == ForecastTrust(change, index)
  <2>1. forecast.level = TrustLevelOf(forecast.trust)
    BY ForecastLevel DEF IndexOK
  <2>2. /\ outputs' = Pipeline(sigs, forecast.trust, forecast.level)
        /\ unrevised' = outputs' /\ explained' = Explained(outputs')
        /\ sent' = Notified(outputs', sentCache) /\ phase' = "observed"
    BY <1>2 DEF Observe
  <2>. HIDE DEF forecast
  <2>3. explained' = ToldAt(outputs', unrevised'.level)
    BY <2>2, FirstPassExplains
  <2>4. Truth'
    BY <2>1, <2>2, <2>3, PassTellsTruth
  <2>. QED  BY <2>2, <2>4 DEF TruthInv, Published
<1>3. ASSUME NEW p \in Penalties, Reconsider(p)
      PROVE  TruthInv'
  <2>. DEFINE trust == Lowered(outputs.trust, p)
  <2>1. /\ outputs' = Pipeline(outputs.sigs, trust, TrustLevelOf(trust))
        /\ sent' = Notified(outputs', sentCache) /\ phase = "observed" /\ phase' = "settled"
        /\ UNCHANGED <<explained, unrevised>>
    BY <1>3 DEF Reconsider, Revised
  <2>. HIDE DEF trust
  <2>2. /\ outputs = Pipeline(outputs.sigs, outputs.trust, TrustLevelOf(outputs.trust))
        /\ explained = ToldAt(outputs, unrevised.level)
    BY <2>1 DEF TruthInv, Truth
  <2>3. ToldAt(outputs', unrevised.level) = ToldAt(outputs, unrevised.level)
    <3>1. IsPass(outputs, outputs.sigs) /\ IsPass(outputs', outputs.sigs)
      BY <2>1, <2>2 DEF IsPass
    <3>. QED  BY <3>1, ExplanationsAgree
  <2>5. explained' = ToldAt(outputs', unrevised'.level)
    BY <2>1, <2>2, <2>3
  <2>4. Truth'
    BY <2>1, <2>5, PassTellsTruth
  <2>. QED  BY <2>1, <2>4 DEF TruthInv, Published
<1>4. CASE Publish
  <2>1. /\ UNCHANGED <<outputs, sent, explained, unrevised>> /\ phase = "assessing"
        /\ \E decision \in Decisions : actions' = ActionRecord(decision, outputs.risk)
    BY <1>4 DEF Publish
  <2>2. Truth'
    BY <2>1 DEF TruthInv, Truth
  <2>3. Urgent'
    BY <2>1, RecordsAreUrgent DEF Urgent
  <2>. QED  BY <2>2, <2>3 DEF TruthInv
<1>5. CASE BuildGraph \/ Confirm \/ AssessImpact \/ WalkGraph \/ UNCHANGED vars
  <2>1. /\ UNCHANGED <<outputs, sent, explained, unrevised, actions>>
        /\ phase # "ready" \/ phase' = phase
        /\ phase' = phase \/ phase' # "published"
    BY <1>5 DEF BuildGraph, Confirm, AssessImpact, WalkGraph, vars, engineVars
  <2>2. Truth => Truth'
    BY <2>1 DEF Truth
  <2>3. Urgent => Urgent'
    BY <2>1 DEF Urgent
  <2>. QED  BY <2>1, <2>2, <2>3 DEF TruthInv, Published
<1>. QED  BY <1>1, <1>2, <1>3, <1>4, <1>5, NextCases

(* Whatever was reconsidered, an event's stage, priority, strategy, risk and  *)
(* trust level and the urgency of its action are those of the trust it        *)
(* reports, and only roles it concerns are notified with it; its explanations *)
(* agree with it but for the trust level, which is that of the first pass.    *)
THEOREM EventsHaveOneTruth == Spec => []SingleTruth
<1>1. Init => TruthInv /\ IndexOK
  BY DEF Init, EngineInit, TruthInv, IndexOK, Published
<1>2. (TruthInv /\ IndexOK) /\ [Next]_vars => (TruthInv /\ IndexOK)'
  BY TruthStep, IndexStep
<1>3. TruthInv => SingleTruth
  BY DEF TruthInv, Truth, ToldAt, Urgent, SingleTruth, Published
<1>. QED  BY <1>1, <1>2, <1>3, PTL DEF Spec

(***************************************************************************)
(* Who is told of what.                                                    *)
(***************************************************************************)

(* Between events the cache holds, for every role no reconsideration has      *)
(* overtaken, what was published to it last; while a window is analysed it    *)
(* also holds, for the roles about to be told, what they will be told.        *)
News(r, out) == told[r] = None \/ ~MateriallyUnchanged(told[r], Fingerprint(out))

Quiet == phase \in {"ready", "published"}

ToldInv ==
  /\ Quiet => \A r \in Roles \ overtaken : sentCache[r] = told[r]
  /\ ~Quiet =>
       /\ sent \subseteq Roles
       /\ \A r \in sent : sentCache[r] = Fingerprint(outputs)
       /\ \A r \in Roles \ overtaken :
            /\ r \notin sent => sentCache[r] = told[r]
            /\ r \in sent <=> RelevantFor(r, outputs) /\ News(r, outputs)

LEMMA CachedIsLast ==
  ASSUME NEW out, NEW cache
  PROVE  /\ Notified(out, cache) \subseteq Roles
         /\ \A r \in Notified(out, cache) : Cached(out, cache)[r] = Fingerprint(out)
         /\ \A r \in Roles \ Notified(out, cache) : Cached(out, cache)[r] = cache[r]
BY DEF Cached, Notified

(* A pass over roles whose cache is what they were told last.                 *)
LEMMA PassNotifies ==
  ASSUME NEW calm \in SUBSET Roles, \A r \in calm : sentCache[r] = told[r],
         sent' = Notified(outputs', sentCache), sentCache' = Cached(outputs', sentCache),
         told' = told, overtaken' = Roles \ calm, phase' \in {"observed", "settled"}
  PROVE  ToldInv'
<1>1. /\ sent' \subseteq Roles
      /\ \A r \in sent' : sentCache'[r] = Fingerprint(outputs')
      /\ \A r \in Roles \ sent' : sentCache'[r] = sentCache[r]
  BY CachedIsLast
<1>2. \A r \in calm :
        r \in sent' <=> /\ RelevantFor(r, outputs')
                       /\ \/ told[r] = None
                          \/ ~MateriallyUnchanged(told[r], Fingerprint(outputs'))
  BY DEF Notified
<1>3. \A r \in calm : r \notin sent' => sentCache'[r] = told[r]
  BY <1>1
<1>4. Roles \ overtaken' = calm
  OBVIOUS
<1>5. ~Quiet'
  BY DEF Quiet
<1>. QED  BY <1>1, <1>2, <1>3, <1>4, <1>5 DEF ToldInv, News

GhostOK == overtaken \subseteq Roles

LEMMA ToldStep == ToldInv /\ GhostOK /\ [Next]_vars => ToldInv' /\ GhostOK'
<1>. SUFFICES ASSUME ToldInv, GhostOK, [Next]_vars PROVE ToldInv' /\ GhostOK'
  OBVIOUS
<1>1. CASE StreamScenario
  <2>1. Quiet /\ Quiet' /\ UNCHANGED <<sentCache, told, overtaken>>
    BY <1>1 DEF StreamScenario, Quiet
  <2>. QED  BY <2>1 DEF ToldInv, GhostOK
<1>2. ASSUME NEW sigs \in Evidence, NEW change \in PortChange, Observe(sigs, change)
      PROVE  ToldInv' /\ GhostOK'
  <2>1. /\ Quiet /\ phase' = "observed" /\ UNCHANGED <<told, overtaken>>
        /\ sent' = Notified(outputs', sentCache) /\ sentCache' = Cached(outputs', sentCache)
    BY <1>2 DEF Observe, Quiet
  <2>2. \A r \in Roles \ overtaken : sentCache[r] = told[r]
    BY <2>1 DEF ToldInv
  <2>3. overtaken' = Roles \ (Roles \ overtaken)
    BY <2>1 DEF GhostOK
  <2>4. ToldInv'
    BY <2>1, <2>2, <2>3, PassNotifies
  <2>. QED  BY <2>1, <2>4 DEF GhostOK
<1>3. ASSUME NEW p \in Penalties, Reconsider(p)
      PROVE  ToldInv' /\ GhostOK'
  <2>. DEFINE calm == Roles \ (overtaken \union sent)
  <2>1. /\ ~Quiet /\ phase' = "settled" /\ told' = told /\ overtaken' = overtaken \union sent
        /\ sent' = Notified(outputs', sentCache) /\ sentCache' = Cached(outputs', sentCache)
    BY <1>3 DEF Reconsider, Quiet
  <2>2. sent \subseteq Roles /\ \A r \in calm : sentCache[r] = told[r]
    BY <2>1 DEF ToldInv
  <2>3. overtaken' = Roles \ calm
    BY <2>1, <2>2 DEF GhostOK
  <2>4. ToldInv'
    <3>. HIDE DEF calm
    <3>1. calm \in SUBSET Roles
      BY DEF calm
    <3>. QED  BY <2>1, <2>2, <2>3, <3>1, PassNotifies
  <2>. QED  BY <2>3, <2>4 DEF GhostOK
<1>4. CASE Publish
  <2>1. /\ ~Quiet /\ Quiet' /\ UNCHANGED sentCache /\ overtaken' = overtaken \ sent
        /\ told' = [r \in Roles |-> IF r \in sent THEN Fingerprint(outputs) ELSE told[r]]
    BY <1>4 DEF Publish, Quiet
  <2>2. \A r \in Roles \ overtaken' : sentCache[r] = told'[r]
    BY <2>1 DEF ToldInv
  <2>. QED  BY <2>1, <2>2 DEF ToldInv, GhostOK
<1>5. CASE BuildGraph \/ Confirm \/ AssessImpact \/ WalkGraph \/ UNCHANGED vars
  <2>1. Quiet' = Quiet /\ UNCHANGED <<outputs, sent, sentCache, told, overtaken>>
    BY <1>5 DEF BuildGraph, Confirm, AssessImpact, WalkGraph, vars, engineVars, Quiet
  <2>. QED  BY <2>1 DEF ToldInv, News, GhostOK
<1>. QED  BY <1>1, <1>2, <1>3, <1>4, <1>5, NextCases

(* Over all windows and playbacks, a relevant role is told exactly what       *)
(* differs materially from what was published to it last, unless a            *)
(* reconsideration threw a notification to it away since.                     *)
THEOREM RolesAreToldWhatIsNew == Spec => ToldWhatIsNew
<1>1. Init => ToldInv /\ GhostOK
  BY DEF Init, EngineInit, ToldInv, Quiet, GhostOK
<1>2. ToldInv /\ Publish =>
        \A r \in Roles \ overtaken :
          RelevantFor(r, outputs) =>
            (r \in sent <=> \/ told[r] = None
                           \/ ~MateriallyUnchanged(told[r], Fingerprint(outputs)))
  BY DEF ToldInv, News, Publish, Quiet
<1>. QED  BY <1>1, <1>2, ToldStep, PTL DEF Spec, ToldWhatIsNew
(***************************************************************************)
(* A revision never widens what is done.                                   *)
(***************************************************************************)

(* What is left of the trust is never more, and never below the floor, so    *)
(* that both passes of a window are the pipeline at two ordered trusts.      *)
Ordered ==
  \E sigs \in Signatures, before \in 5..100 : \E now \in 5..before :
    /\ unrevised = Pipeline(sigs, before, TrustLevelOf(before))
    /\ outputs = Pipeline(sigs, now, TrustLevelOf(now))

WidthInv ==
  /\ playback \in Nat
  /\ phase # "ready" => playback > 0 /\ Ordered
  /\ Published => authority = Evaluate(PolicyInput(outputs), Missing)

LEMMA ObservationIsOrdered ==
  ASSUME IndexOK, NEW sigs \in Evidence, NEW change \in PortChange, Observe(sigs, change)
  PROVE  Ordered'
<1>. DEFINE forecast == ForecastTrust(change, index)
<1>1. forecast.level = TrustLevelOf(forecast.trust)
  BY ForecastLevel DEF IndexOK
<1>2. forecast.trust \in {35, 65, 85}
  BY AssessmentAssumption DEF ForecastTrust, PortChange, IndexOK
<1>3. outputs' = Pipeline(sigs, forecast.trust, forecast.level) /\ unrevised' = outputs'
  BY DEF Observe
<1>4. sigs \in Signatures
  BY AssessmentAssumption
<1>. HIDE DEF forecast
<1>5. forecast.trust \in 5..100 /\ forecast.trust \in 5..forecast.trust
  BY <1>2
<1>. QED  BY <1>1, <1>3, <1>4, <1>5 DEF Ordered

LEMMA RevisionIsOrdered ==
  ASSUME Ordered, NEW p \in Penalties, Reconsider(p)
  PROVE  Ordered'
<1>1. PICK sigs \in Signatures, before \in 5..100 : \E now \in 5..before :
        /\ unrevised = Pipeline(sigs, before, TrustLevelOf(before))
        /\ outputs = Pipeline(sigs, now, TrustLevelOf(now))
  BY DEF Ordered
<1>2. PICK now \in 5..before : outputs = Pipeline(sigs, now, TrustLevelOf(now))
  BY <1>1
<1>. DEFINE trust == Lowered(now, p)
<1>3. trust \in 5..before
  <2>1. p \in 15..30
    BY AssessmentAssumption
  <2>2. trust = IF now - p < 5 THEN 5 ELSE now - p
    BY DEF Lowered
  <2>. HIDE DEF trust
  <2>3. now \in Int /\ before \in Int /\ p \in Int /\ now <= before /\ 5 <= before /\ 0 <= p
    BY <2>1
  <2>4. CASE now - p < 5
    BY <2>2, <2>3, <2>4
  <2>5. CASE ~(now - p < 5)
    BY <2>2, <2>3, <2>5
  <2>. QED  BY <2>4, <2>5
<1>4. outputs.sigs = sigs /\ outputs.trust = now
  BY <1>2, PipelineEchoes
<1>5. outputs' = Pipeline(sigs, trust, TrustLevelOf(trust)) /\ unrevised' = unrevised
  BY <1>4 DEF Reconsider, Revised
<1>. HIDE DEF trust
<1>. QED  BY <1>1, <1>3, <1>5 DEF Ordered

LEMMA WidthStep ==
  ASSUME WidthInv, IndexOK, [Next]_vars PROVE WidthInv'
<1>1. CASE StreamScenario
  BY <1>1 DEF StreamScenario, WidthInv, Published
<1>2. ASSUME NEW sigs \in Evidence, NEW change \in PortChange, Observe(sigs, change)
      PROVE  WidthInv'
  <2>1. Ordered'
    BY <1>2, ObservationIsOrdered
  <2>. QED  BY <1>2, <2>1 DEF Observe, WidthInv, Published
<1>3. ASSUME NEW p \in Penalties, Reconsider(p) PROVE WidthInv'
  <2>1. Ordered'
    BY <1>3, RevisionIsOrdered DEF WidthInv, Reconsider
  <2>. QED  BY <1>3, <2>1 DEF Reconsider, WidthInv, Published
<1>4. CASE Publish
  <2>1. PolicyInput(outputs)' = PolicyInput(outputs)
    BY <1>4 DEF Publish, PolicyInput, blastVars
  <2>. QED  BY <1>4, <2>1 DEF Publish, WidthInv, Published, Ordered
<1>5. CASE Confirm \/ AssessImpact \/ WalkGraph
  BY <1>5 DEF Confirm, AssessImpact, WalkGraph, engineVars, WidthInv, Published, Ordered
<1>6. CASE BuildGraph
  BY <1>6 DEF BuildGraph, engineVars, WidthInv, Published, Ordered
<1>7. CASE UNCHANGED vars
  BY <1>7 DEF vars, engineVars, blastVars, WidthInv, Published, Ordered, PolicyInput
<1>. QED  BY <1>1, <1>2, <1>3, <1>4, <1>5, <1>6, <1>7, NextCases

(* Of any of the four signature types one has the largest rank.              *)
LEMMA OneRanksFirst ==
  ASSUME NEW S \in SUBSET SignatureType, S # {}, NEW rank \in [SignatureType -> Int]
  PROVE  \E t \in S : \A u \in S : rank[u] <= rank[t]
<1>. DEFINE Best(X) == X = {} \/ \E t \in X : \A u \in X : rank[u] <= rank[t]
<1>1. ASSUME NEW X \in SUBSET SignatureType, NEW x \in SignatureType, Best(X)
      PROVE  Best(X \union {x})
  <2>1. CASE X = {}
    BY <2>1
  <2>2. ASSUME NEW t \in X, \A u \in X : rank[u] <= rank[t] PROVE Best(X \union {x})
    <3>1. rank[x] \in Int /\ rank[t] \in Int /\ \A u \in X : rank[u] \in Int
      OBVIOUS
    <3>2. CASE rank[x] <= rank[t]
      BY <2>2, <3>2
    <3>3. CASE rank[t] <= rank[x]
      <4>1. \A u \in X \union {x} : rank[u] <= rank[x]
        BY <2>2, <3>1, <3>3
      <4>. QED  BY <4>1
    <3>. QED  BY <3>1, <3>2, <3>3
  <2>. QED  BY <1>1, <2>1, <2>2
<1>. DEFINE S1 == S \intersect {"Reconnaissance"}
            S2 == S \intersect {"Reconnaissance", "DenialOfService"}
            S3 == S \intersect {"Reconnaissance", "DenialOfService", "Exfiltration"}
<1>2. S1 \subseteq SignatureType /\ S2 \subseteq SignatureType /\ S3 \subseteq SignatureType
  OBVIOUS
<1>3. /\ S2 = S1 \/ S2 = S1 \union {"DenialOfService"}
      /\ S3 = S2 \/ S3 = S2 \union {"Exfiltration"}
      /\ S = S3 \/ S = S3 \union {"InitialAccess"}
  BY DEF SignatureType, Stage
<1>4. {"DenialOfService", "Exfiltration", "InitialAccess"} \subseteq SignatureType
  BY DEF SignatureType, Stage
<1>5. Best(S1)
  <2>1. S1 = {} \/ S1 = {"Reconnaissance"}
    OBVIOUS
  <2>2. "Reconnaissance" \in SignatureType
    BY DEF SignatureType, Stage
  <2>. QED  BY <2>1, <2>2
<1>. HIDE DEF S1, S2, S3, Best
<1>6. Best(S2)
  BY <1>1, <1>2, <1>3, <1>4, <1>5
<1>7. Best(S3)
  BY <1>1, <1>2, <1>3, <1>4, <1>6
<1>8. Best(S)
  BY <1>1, <1>2, <1>3, <1>4, <1>7
<1>. QED  BY <1>8 DEF Best

LEMMA OrderBreaksTies ==
  ASSUME NEW p \in 0..100, NEW q \in 0..100, NEW m \in 1..4, NEW n \in 1..4,
         10 * p - m <= 10 * q - n
  PROVE  p < q \/ (p = q /\ n <= m)
OBVIOUS

(* The primary hypothesis is a stage with a confidence.                      *)
LEMMA HypothesisType ==
  ASSUME NEW sigs \in Signatures
  PROVE  /\ PrimaryHypothesis(sigs).stage \in Stage
         /\ PrimaryHypothesis(sigs).confidence \in 0..100
<1>. DEFINE conf(t) == Confidence(t, sigs[t])
            first == CHOOSE t \in Shown(sigs) : \A u \in Shown(sigs) :
                       \/ conf(u) < conf(t)
                       \/ conf(u) = conf(t) /\ StageOrder[t] <= StageOrder[u]
            rank == [t \in SignatureType |-> 10 * conf(t) - StageOrder[t]]
<1>1. \A t \in SignatureType : conf(t) \in 0..100
  BY DEF Confidence, Signatures, Shape, SignatureType, Stage, Rising, Strong, Weak
<1>2. \A t \in SignatureType : StageOrder[t] \in 1..4
  BY DEF StageOrder, SignatureType, Stage
<1>3. rank \in [SignatureType -> Int]
  BY <1>1, <1>2
<1>4. Shown(sigs) \subseteq SignatureType /\ SignatureType \subseteq Stage
  BY DEF Shown, SignatureType
<1>5. CASE Shown(sigs) = {}
  BY <1>5 DEF PrimaryHypothesis, Stage
<1>6. CASE Shown(sigs) # {}
  <2>1. PICK t \in Shown(sigs) : \A u \in Shown(sigs) : rank[u] <= rank[t]
    BY <1>3, <1>4, <1>6, OneRanksFirst
  <2>2. \A u \in Shown(sigs) : 10 * conf(u) - StageOrder[u] <= 10 * conf(t) - StageOrder[t]
    BY <1>4, <2>1
  <2>. HIDE DEF conf
  <2>3. \A u \in Shown(sigs) :
          \/ conf(u) < conf(t)
          \/ conf(u) = conf(t) /\ StageOrder[t] <= StageOrder[u]
    <3>. SUFFICES ASSUME NEW u \in Shown(sigs)
                  PROVE  \/ conf(u) < conf(t)
                         \/ conf(u) = conf(t) /\ StageOrder[t] <= StageOrder[u]
      OBVIOUS
    <3>1. /\ conf(u) \in 0..100 /\ conf(t) \in 0..100
          /\ StageOrder[u] \in 1..4 /\ StageOrder[t] \in 1..4
          /\ 10 * conf(u) - StageOrder[u] <= 10 * conf(t) - StageOrder[t]
      BY <1>1, <1>2, <1>4, <2>2
    <3>. QED  BY <3>1, OrderBreaksTies
  <2>4. first \in Shown(sigs)
    BY <2>3
  <2>. HIDE DEF first
  <2>5. first \in SignatureType /\ first \in Stage /\ conf(first) \in 0..100
    BY <1>1, <1>4, <2>4
  <2>6. PrimaryHypothesis(sigs) = [stage |-> first, confidence |-> conf(first)]
    BY <1>6 DEF PrimaryHypothesis, first, conf
  <2>. QED  BY <2>5, <2>6
<1>. QED  BY <1>5, <1>6

LEMMA ProductsGrow ==
  ASSUME NEW k \in Nat, NEW x \in Nat, NEW y \in Nat, x <= y
  PROVE  k * x \in Nat /\ k * y \in Nat /\ k * x <= k * y
OBVIOUS

LEMMA LevelsFollowTrust ==
  ASSUME NEW before \in 5..100, NEW now \in 5..before
  PROVE  /\ TrustLevelOf(now) \in TrustLevel /\ TrustLevelOf(before) \in TrustLevel
         /\ TrustLevelOf(before) = "INSUFFICIENT" => TrustLevelOf(now) = "INSUFFICIENT"
         /\ TrustLevelOf(now) = "HIGH" => TrustLevelOf(before) = "HIGH"
         /\ Distrusted(TrustLevelOf(before)) => Distrusted(TrustLevelOf(now))
         /\ ~Distrusted(TrustLevelOf(now)) => now >= 45
BY DEF TrustLevelOf, TrustLevel, Distrusted

LEMMA RiskScale == RiskOne \in Nat /\ RiskHundredths(18) \in Nat /\ RiskHundredths(18) <= RiskOne
<1>1. RiskOne \in Nat
  BY SMT DEF RiskOne
<1>2. 18 * 3200000 \in Nat /\ 18 * 3200000 <= 320000000
  BY SMT
<1>. QED  BY <1>1, <1>2, SMT DEF RiskHundredths, RiskOne

(* The risk that ComputeRisk reports never grows when trust falls.           *)
LEMMA RiskIsMonotone ==
  ASSUME NEW stage \in Stage, NEW confidence \in 0..100, NEW before \in 5..100, NEW now \in 5..before
  PROVE  LET risk(trust) == ComputeRisk(stage, 2 * confidence, trust, TrustLevelOf(trust), 0)
         IN  risk(now) \in 0..RiskOne /\ risk(before) \in 0..RiskOne /\ risk(now) <= risk(before)
<1>. DEFINE k == Severity[stage] * (2 * confidence)
            clip(trust) == HorizonTrust(trust, 0)
            twentieths(trust) ==
              IF Distrusted(TrustLevelOf(trust)) \/ clip(trust) < 40 THEN 13 ELSE 20
            score(trust) == Severity[stage] * (2 * confidence) * clip(trust) * 54 * twentieths(trust)
            cap == IF stage = "Unknown" THEN RiskHundredths(18) ELSE RiskOne
            risk(trust) == ComputeRisk(stage, 2 * confidence, trust, TrustLevelOf(trust), 0)
<1>1. k \in Nat
  BY DEF Severity, Stage
<1>2. clip(now) \in Nat /\ clip(before) \in Nat /\ clip(now) <= clip(before)
  BY DEF HorizonTrust, Clipped
<1>3. /\ twentieths(now) \in {13, 20} /\ twentieths(before) \in {13, 20}
      /\ twentieths(now) <= twentieths(before)
  <2>. HIDE DEF clip
  <2>1. Distrusted(TrustLevelOf(before)) => Distrusted(TrustLevelOf(now))
    BY LevelsFollowTrust
  <2>2. clip(before) < 40 => clip(now) < 40
    BY <1>2
  <2>. QED  BY <2>1, <2>2
<1>4. cap \in Nat /\ cap <= RiskOne /\ RiskOne \in Nat
  BY RiskScale
<1>5. \A trust \in 5..100 : risk(trust) = IF score(trust) > cap THEN cap ELSE score(trust)
  BY DEF ComputeRisk, Retained
<1>6. k * clip(now) \in Nat /\ k * clip(before) \in Nat /\ k * clip(now) <= k * clip(before)
  <2>. HIDE DEF k, clip
  <2>. QED  BY <1>1, <1>2, ProductsGrow
<1>7. /\ score(now) = (k * clip(now)) * 54 * twentieths(now)
      /\ score(before) = (k * clip(before)) * 54 * twentieths(before)
  OBVIOUS
<1>8. score(now) \in Nat /\ score(before) \in Nat /\ score(now) <= score(before)
  <2>. DEFINE x == k * clip(now)
              y == k * clip(before)
  <2>. HIDE DEF x, y, twentieths
  <2>1. x \in Nat /\ y \in Nat /\ x <= y
    BY <1>6 DEF x, y
  <2>2. score(now) = x * 54 * twentieths(now) /\ score(before) = y * 54 * twentieths(before)
    BY <1>7 DEF x, y
  <2>. HIDE DEF score
  <2>. QED  BY <1>3, <2>1, <2>2
<1>. HIDE DEF score, cap, risk
<1>9. risk(now) \in 0..RiskOne /\ risk(before) \in 0..RiskOne /\ risk(now) <= risk(before)
  <2>1. /\ risk(now) = IF score(now) > cap THEN cap ELSE score(now)
        /\ risk(before) = IF score(before) > cap THEN cap ELSE score(before)
    BY <1>5
  <2>. QED  BY <1>4, <1>8, <2>1
<1>. QED  BY <1>9 DEF risk

(* Nor does the priority: what is grave, or above LOW, at less trust is so    *)
(* at more, as long as the forecast is trusted at all.                       *)
LEMMA PriorityIsMonotone ==
  ASSUME NEW stage \in Stage, NEW confidence \in 0..100, NEW immediate \in BOOLEAN,
         NEW before \in 5..100, NEW now \in 5..before,
         ~Distrusted(TrustLevelOf(now)), stage # "Unknown"
  PROVE  LET priority(trust) ==
               AssessPriority(stage, confidence, trust, TrustLevelOf(trust), immediate)
         IN  /\ Grave(priority(now)) => Grave(priority(before))
             /\ priority(before) \in {"INFO", "LOW"} => priority(now) \in {"INFO", "LOW"}
<1>. DEFINE raw(trust) == RawPriority(stage, confidence, trust, immediate)
            priority(trust) ==
              AssessPriority(stage, confidence, trust, TrustLevelOf(trust), immediate)
<1>1. /\ (15 * confidence) * (100 + now) \in Int /\ (15 * confidence) * (100 + before) \in Int
      /\ (15 * confidence) * (100 + now) <= (15 * confidence) * (100 + before)
  BY ProductsGrow, 15 * confidence \in Nat
<1>2. raw(now) \in Int /\ raw(before) \in Int /\ raw(now) <= raw(before)
  <2>. DEFINE consequence == 8750 * Severity[stage]
              likelihood(trust) == 15 * confidence * (100 + trust)
              proximity(trust) == IF ~immediate THEN 700 * trust
                                  ELSE IF stage \in Late THEN 160000 ELSE 120000
              leverage == CASE stage \in Late -> 48000 [] stage = "Unknown" -> 3000
                            [] OTHER -> 84000
  <2>1. consequence \in Int
    BY SMT DEF Severity, Stage
  <2>2. leverage \in Int
    BY SMT DEF Late, Stage
  <2>3. proximity(now) \in Int /\ proximity(before) \in Int /\ proximity(now) <= proximity(before)
    BY SMT
  <2>4. \A trust : raw(trust) = consequence + likelihood(trust) + proximity(trust) + leverage
    BY SMT DEF RawPriority
  <2>5. likelihood(now) = (15 * confidence) * (100 + now)
        /\ likelihood(before) = (15 * confidence) * (100 + before)
    BY SMT
  <2>. HIDE DEF consequence, proximity, leverage, raw, likelihood
  <2>. QED  BY <1>1, <2>1, <2>2, <2>3, <2>4, <2>5, SMT
<1>3. ~Distrusted(TrustLevelOf(before))
  BY LevelsFollowTrust
<1>. HIDE DEF raw
<1>4. \A trust \in {now, before} :
        priority(trust) =
          LET atLeast(hundredths) == 20 * raw(trust) >= hundredths * 200000
          IN  CASE atLeast(75) -> "CRITICAL"
                [] atLeast(55) /\ ~atLeast(75) -> "HIGH"
                [] atLeast(35) /\ ~atLeast(55) -> "MEDIUM"
                [] atLeast(20) /\ ~atLeast(35) -> "LOW"
                [] OTHER -> "INFO"
  BY <1>3, SMT DEF AssessPriority, raw
<1>. HIDE DEF priority
<1>5. /\ Grave(priority(now)) => Grave(priority(before))
      /\ priority(before) \in {"INFO", "LOW"} => priority(now) \in {"INFO", "LOW"}
  BY <1>2, <1>4, SMT DEF Grave
<1>. QED  BY <1>5 DEF priority

(* The services are finitely many, as sorted() lists them.                   *)
LEMMA ServicesAreFinite == IsFiniteSet(Services)
<1>. DEFINE s == Sorted[Services]
<1>1. s \in Seq(Services) /\ \A x \in Services : \E i \in 1..Len(s) : s[i] = x
  BY SortedAssumption
<1>2. Len(s) \in Nat /\ s \in [1..Len(s) -> Services]
  BY <1>1
<1>3. s \in Surjection(1..Len(s), Services)
  BY <1>1, <1>2 DEF Surjection
<1>. QED  BY <1>2, <1>3, FS_NatSurjection DEF ExistsSurjection

(* What the pipeline tells the policy is valid evidence.                     *)
LEMMA EvidenceIsValid ==
  ASSUME BlastTypeOK, NEW out, out.risk \in 0..RiskOne, out.trust \in 0..100,
         out.level \in TrustLevel, out.confidence \in 0..100
  PROVE  PolicyInput(out) \in AuthorityPolicyInput /\ IsValid(PolicyInput(out))
<1>. DEFINE in == PolicyInput(out)
<1>1. in.topology \in TopologyAvailability
  BY DEF PolicyInput, BlastTypeOK, ServiceTopologyGraph, Availability, TopologyAvailability
<1>2. in.affected \in Nat /\ in.critical \in Nat
  <2>1. blast # None => blast.affected \in SUBSET Services /\ blast.critical \in SUBSET Services
    BY DEF BlastTypeOK, Report
  <2>2. blast # None => Cardinality(blast.affected) \in Nat /\ Cardinality(blast.critical) \in Nat
    BY <2>1, ServicesAreFinite, FS_Subset, FS_CardinalityType
  <2>. QED  BY <2>2 DEF PolicyInput
<1>3. /\ in.risk = out.risk /\ in.trust = out.trust /\ in.level = out.level
      /\ in.uncertainty = 10 /\ in.confidence = out.confidence
  BY DEF PolicyInput
<1>4. in = [risk |-> in.risk, trust |-> in.trust, level |-> in.level,
            uncertainty |-> in.uncertainty, confidence |-> in.confidence,
            topology |-> in.topology, affected |-> in.affected, critical |-> in.critical]
  BY DEF PolicyInput
<1>. HIDE DEF in
<1>5. in \in AuthorityPolicyInput
  <2>1. in.risk \in Int /\ in.trust \in Int /\ in.confidence \in Int
        /\ in.affected \in Int /\ in.critical \in Int /\ in.uncertainty \in Int
    BY <1>2, <1>3, RiskScale
  <2>. QED  BY <1>1, <1>3, <1>4, <2>1 DEF AuthorityPolicyInput
<1>6. IsValid(in)
  BY <1>2, <1>3, MissingAssumption DEF IsValid
<1>. QED  BY <1>5, <1>6 DEF in

(* The two passes of a published window compared.                            *)
LEMMA OrderedNeverWidens ==
  ASSUME WidthInv, BlastTypeOK, Published
  PROVE  /\ authority.permitted \subseteq PermittedActionClasses(PolicyInput(unrevised))
         /\ outputs.risk <= unrevised.risk
         /\ outputs.strategy = "ACT" => unrevised.strategy = "ACT"
         /\ outputs.strategy = "PREPARE" => unrevised.strategy # "MONITOR"
         /\ outputs.strategy # "MONITOR" => "GENERATE_RECOMMENDATION" \in authority.permitted
<1>1. PICK sigs \in Signatures, before \in 5..100 : \E now \in 5..before :
        /\ unrevised = Pipeline(sigs, before, TrustLevelOf(before))
        /\ outputs = Pipeline(sigs, now, TrustLevelOf(now))
  BY DEF WidthInv, Ordered, Published
<1>2. PICK now \in 5..before : outputs = Pipeline(sigs, now, TrustLevelOf(now))
  BY <1>1
<1>. DEFINE primary == PrimaryHypothesis(sigs)
            stage == primary.stage
            confidence == primary.confidence
            risk(trust) == ComputeRisk(stage, 2 * confidence, trust, TrustLevelOf(trust), 0)
            immediate == ImmediateEvidence(sigs)
            priority(trust) ==
              AssessPriority(stage, confidence, trust, TrustLevelOf(trust), immediate)
            strategy(trust) == Recommend(stage, priority(trust), TrustLevelOf(trust))
<1>3. stage \in Stage /\ confidence \in 0..100
  BY HypothesisType
<1>4. immediate \in BOOLEAN
  BY DEF ImmediateEvidence
<1>5. /\ outputs.trust = now /\ outputs.level = TrustLevelOf(now)
      /\ outputs.confidence = confidence /\ outputs.risk = risk(now)
      /\ outputs.strategy = strategy(now)
  BY <1>2 DEF Pipeline
<1>6. /\ unrevised.trust = before /\ unrevised.level = TrustLevelOf(before)
      /\ unrevised.confidence = confidence /\ unrevised.risk = risk(before)
      /\ unrevised.strategy = strategy(before)
  BY <1>1 DEF Pipeline
<1>. HIDE DEF stage, confidence, immediate
<1>7. risk(now) \in 0..RiskOne /\ risk(before) \in 0..RiskOne /\ risk(now) <= risk(before)
  BY <1>3, RiskIsMonotone
<1>8. ~Distrusted(TrustLevelOf(now)) /\ stage # "Unknown" =>
        /\ Grave(priority(now)) => Grave(priority(before))
        /\ priority(before) \in {"INFO", "LOW"} => priority(now) \in {"INFO", "LOW"}
  BY <1>3, <1>4, PriorityIsMonotone
<1>9. Distrusted(TrustLevelOf(before)) => Distrusted(TrustLevelOf(now))
  BY LevelsFollowTrust
<1>. HIDE DEF priority, risk
<1>10. /\ strategy(now) = "ACT" => strategy(before) = "ACT"
       /\ strategy(now) = "PREPARE" => strategy(before) # "MONITOR"
       /\ strategy(now) # "MONITOR" => ~Distrusted(TrustLevelOf(now))
  BY <1>8, <1>9 DEF Recommend, Grave
<1>. HIDE DEF strategy
<1>. DEFINE a == PolicyInput(outputs)
            b == PolicyInput(unrevised)
<1>11. a \in AuthorityPolicyInput /\ IsValid(a)
  <2>1. /\ outputs.risk \in 0..RiskOne /\ outputs.trust \in 0..100
        /\ outputs.level \in TrustLevel /\ outputs.confidence \in 0..100
    <3>1. TrustLevelOf(now) \in TrustLevel
      BY LevelsFollowTrust
    <3>2. now \in 0..100
      OBVIOUS
    <3>. QED  BY <1>3, <1>5, <1>7, <3>1, <3>2
  <2>. QED  BY <2>1, EvidenceIsValid
<1>12. b \in AuthorityPolicyInput /\ IsValid(b)
  <2>1. /\ unrevised.risk \in 0..RiskOne /\ unrevised.trust \in 0..100
        /\ unrevised.level \in TrustLevel /\ unrevised.confidence \in 0..100
    <3>1. TrustLevelOf(before) \in TrustLevel
      BY LevelsFollowTrust
    <3>2. before \in 0..100
      OBVIOUS
    <3>. QED  BY <1>3, <1>6, <1>7, <3>1, <3>2
  <2>. QED  BY <2>1, EvidenceIsValid
<1>13. /\ a.risk = outputs.risk /\ a.trust = now /\ a.level = outputs.level
       /\ a.confidence = confidence /\ a.uncertainty = 10
       /\ b.risk = unrevised.risk /\ b.trust = before /\ b.level = unrevised.level
       /\ b.confidence = confidence /\ b.uncertainty = 10
       /\ a.topology = b.topology /\ a.affected = b.affected /\ a.critical = b.critical
  BY <1>5, <1>6 DEF PolicyInput
<1>14. authority.permitted = PermittedActionClasses(a)
  BY DEF WidthInv, Evaluate
<1>. HIDE DEF a, b
<1>15. AtLeastAsGood(a, b)
  <2>1. a.trust <= b.trust /\ b.uncertainty <= a.uncertainty
    BY <1>13
  <2>2. a.confidence <= b.confidence
    BY <1>3, <1>13
  <2>3. a.risk <= b.risk
    BY <1>5, <1>6, <1>7, <1>13
  <2>4. a.affected <= b.affected
    BY <1>11, <1>13 DEF AuthorityPolicyInput
  <2>5. (b.level = "INSUFFICIENT" => a.level = "INSUFFICIENT") /\ (a.level = "HIGH" => b.level = "HIGH")
    BY <1>5, <1>6, <1>13, LevelsFollowTrust
  <2>. QED  BY <1>13, <2>1, <2>2, <2>3, <2>4, <2>5 DEF AtLeastAsGood
<1>16. PermittedActionClasses(a) \subseteq PermittedActionClasses(b)
  BY <1>11, <1>12, <1>15, PolicyIsMonotone
<1>17. ~Distrusted(TrustLevelOf(now)) => "GENERATE_RECOMMENDATION" \in PermittedActionClasses(a)
  <2>1. ~Distrusted(TrustLevelOf(now)) => RecommendationPermitted(a)
    <3>1. ~Distrusted(TrustLevelOf(now)) => now >= 45
      BY LevelsFollowTrust
    <3>2. a.level = TrustLevelOf(now)
      BY <1>5, <1>13
    <3>. QED  BY <1>13, <3>1, <3>2 DEF RecommendationPermitted, Distrusted
  <2>. QED  BY <1>11, <2>1, PermittedByCase
<1>. QED  BY <1>5, <1>6, <1>7, <1>10, <1>14, <1>16, <1>17 DEF b

(* Whatever evidence, penalty and graph: a contradicted forecast never widens *)
(* what may be done about a window, and what is recommended the policy        *)
(* permits to recommend.                                                      *)
THEOREM RevisionsOnlyNarrow == Spec => []RevisionNeverWidens
<1>1. Init => WidthInv /\ IndexOK
  BY DEF Init, EngineInit, WidthInv, IndexOK, Published
<1>2. (WidthInv /\ IndexOK) /\ [Next]_vars => (WidthInv /\ IndexOK)'
  BY WidthStep, IndexStep
<1>3. WidthInv /\ Inv => RevisionNeverWidens
  BY OrderedNeverWidens DEF Inv, RevisionNeverWidens
<1>. QED  BY <1>1, <1>2, <1>3, BlastInvariance, PTL DEF Spec

-------------------------------------------------------------------------------
(* The searches over the service graph.                                       *)
(*                                                                            *)
(* Upstream is least among what is closed under dependencies, so it is what   *)
(* paths lead to.  A listing of chains or of cycles is the union of its       *)
(* search over the walks that go on from a beginning; a search is defined by  *)
(* induction on the services its walk has not met, which is also how the      *)
(* depth-first search that marks is.  A mark of 2 is Sound: all that such a   *)
(* service needs is marked so and it is not upstream of itself; a mark of 1   *)
(* leads to the service that is visited.  The breadth-first search keeps what *)
(* its queue has served closed, and no longer than the services it can meet.  *)

-----------------------------------------------------------------------------
(* Numbers.                                                                 *)

(* A set of natural numbers has a least one.                                *)
LEMMA LeastIs ==
  ASSUME NEW S \in SUBSET Nat, S # {}
  PROVE  Min(S) \in S /\ \A x \in S : Min(S) <= x
<1>1. \E R : IsWellFoundedOn(R, Nat) /\ \A a, b \in Nat : a < b => <<a, b>> \in R
  <2> DEFINE R == OpToRel(<, Nat)
  <2>1. \A a, b \in Nat : a < b => <<a, b>> \in R
    BY DEF OpToRel
  <2>2. IsWellFoundedOn(R, Nat)
    BY NatLessThanWellFounded
  <2> HIDE DEF R
  <2> QED BY <2>1, <2>2
<1>2. PICK R : IsWellFoundedOn(R, Nat) /\ \A a, b \in Nat : a < b => <<a, b>> \in R
  BY <1>1
<1>3. PICK x \in S : \A y \in S : ~ (<<y, x>> \in R)
  <2>1. S \subseteq Nat /\ S # {}
    OBVIOUS
  <2>2. IsWellFoundedOn(R, Nat)
    BY <1>2
  <2>3. \E x \in S : \A y \in S : ~ (<<y, x>> \in R)
    BY ONLY <2>1, <2>2, WFMin
  <2> QED BY <2>3
<1>4. ASSUME NEW y \in S
      PROVE  x <= y
  <2>1. x \in Nat /\ y \in Nat
    BY <1>3
  <2>2. ~ (y < x)
    BY <1>2, <1>3, <2>1, Zenon
  <2> QED BY <2>1, <2>2
<1> QED BY <1>3, <1>4 DEF Min

(* Numbers up to a bound that hold 0, and with a number the next, hold all. *)
LEMMA UpToInduction ==
  ASSUME NEW N \in Nat, NEW S, 0 \in S, \A n \in 1..N : n - 1 \in S => n \in S
  PROVE  \A n \in 0..N : n \in S
<1> DEFINE bad == {n \in 0..N : n \notin S}
<1> SUFFICES ASSUME bad # {}
             PROVE  FALSE
  OBVIOUS
<1> DEFINE n == Min(bad)
<1>1. n \in bad /\ \A k \in bad : n <= k
  <2>1. bad \in SUBSET Nat
    OBVIOUS
  <2> HIDE DEF bad
  <2> QED BY <2>1, LeastIs
<1> HIDE DEF n
<1>2. n \in 0..N /\ n \notin S
  BY <1>1
<1>3. n # 0
  BY <1>2
<1>4. n \in 1..N /\ n - 1 \in 0..N /\ n - 1 \notin bad
  BY <1>1, <1>2, <1>3
<1> QED BY <1>2, <1>4

-----------------------------------------------------------------------------
(* Paths.                                                                   *)

(* A graph whose edges join its own services.                               *)
IsGraph(g) == g \in ServiceTopologyGraph /\ g.edges \subseteq g.nodes \X g.nodes

(* What a graph is made of.                                                 *)
LEMMA GraphIs ==
  ASSUME NEW g, IsGraph(g)
  PROVE  /\ g.nodes \in SUBSET Services /\ IsFiniteSet(g.nodes) /\ Cardinality(g.nodes) \in Nat
         /\ \A a, b : Edge(g, a, b) => a \in g.nodes /\ b \in g.nodes
         /\ \A s : GetDependencies(g, s) = {b \in g.nodes : Edge(g, s, b)}
<1>1. g.nodes \in SUBSET Services /\ g.edges \subseteq g.nodes \X g.nodes
  BY DEF IsGraph, ServiceTopologyGraph
<1>2. IsFiniteSet(g.nodes)
  BY <1>1, ServicesAreFinite, FS_Subset
<1>3. Cardinality(g.nodes) \in Nat
  BY <1>2, FS_CardinalityType
<1>4. \A a, b : Edge(g, a, b) => a \in g.nodes /\ b \in g.nodes
  BY <1>1 DEF Edge
<1>5. \A s : GetDependencies(g, s) = {b \in g.nodes : Edge(g, s, b)}
  BY <1>1, <1>4 DEF GetDependencies
<1> QED BY <1>1, <1>2, <1>3, <1>4, <1>5

(* A path: services of the graph, each once, each needing the next.         *)
IsPath(g, p) ==
  /\ p \in Seq(g.nodes) /\ Len(p) \in Nat \ {0} /\ DOMAIN p = 1..Len(p)
  /\ \A i \in 1..Len(p) : p[i] \in g.nodes
  /\ \A i, j \in 1..Len(p) : p[i] = p[j] => i = j
  /\ \A i \in 1..(Len(p) - 1) : Edge(g, p[i], p[i + 1])

(* The simple paths are the paths, and none is longer than the graph.       *)
LEMMA PathsAre ==
  ASSUME NEW g, IsGraph(g)
  PROVE  \A p : p \in SimplePaths(g) <=> IsPath(g, p) /\ Len(p) <= Cardinality(g.nodes)
<1>1. Cardinality(g.nodes) \in Nat
  BY GraphIs
<1>2. ASSUME NEW p \in SimplePaths(g)
      PROVE  IsPath(g, p) /\ Len(p) <= Cardinality(g.nodes)
  <2>1. PICK n \in 1..Cardinality(g.nodes) : p \in [1..n -> g.nodes]
    BY <1>2 DEF SimplePaths
  <2>2. n \in Nat /\ n # 0 /\ p \in Seq(g.nodes) /\ Len(p) = n
    BY <1>1, <2>1
  <2>3. DOMAIN p = 1..n /\ \A i \in 1..n : p[i] \in g.nodes
    BY <2>1
  <2>4. IsInjective(p) /\ \A i \in 1..(n - 1) : Edge(g, p[i], p[i + 1])
    BY <1>2, <2>2 DEF SimplePaths
  <2>5. \A i, j \in 1..n : p[i] = p[j] => i = j
    BY <2>3, <2>4 DEF IsInjective
  <2> QED BY <2>1, <2>2, <2>3, <2>4, <2>5 DEF IsPath
<1>3. ASSUME NEW p, IsPath(g, p), Len(p) <= Cardinality(g.nodes)
      PROVE  p \in SimplePaths(g)
  <2>1. Len(p) \in 1..Cardinality(g.nodes) /\ p \in [1..Len(p) -> g.nodes]
    BY <1>1, <1>3 DEF IsPath
  <2>2. IsInjective(p) /\ \A i \in 1..(Len(p) - 1) : Edge(g, p[i], p[i + 1])
    BY <1>3 DEF IsPath, IsInjective
  <2> QED BY <2>1, <2>2 DEF SimplePaths
<1> QED BY <1>2, <1>3

(* A path is no longer than the graph.                                      *)
LEMMA PathsAreShort ==
  ASSUME NEW g, IsGraph(g), NEW p, IsPath(g, p)
  PROVE  Len(p) <= Cardinality(g.nodes)
<1>1. p \in Injection(1..Len(p), g.nodes)
  BY DEF IsPath, Injection, IsInjective
<1>2. IsFiniteSet(g.nodes) /\ Len(p) \in Nat
  BY GraphIs DEF IsPath
<1>3. IsFiniteSet(1..Len(p)) /\ Cardinality(1..Len(p)) = Len(p)
  <2>1. \A n \in Nat : IsFiniteSet(1..n) /\ Cardinality(1..n) = n
    <3>1. ASSUME NEW n \in Nat
          PROVE  IsFiniteSet(1..n) /\ Cardinality(1..n) = n
      BY FS_Interval
    <3> QED BY <3>1
  <2> QED BY <1>2, <2>1
<1> QED BY <1>1, <1>2, <1>3, FS_Injection

(* A sequence of one.                                                       *)
LEMMA OneAlone ==
  ASSUME NEW S, NEW s \in S
  PROVE  <<s>> \in Seq(S) /\ Len(<<s>>) = 1 /\ <<s>>[1] = s /\ DOMAIN <<s>> = 1..1
<1>1. <<s>> \in Seq(S) /\ Len(<<s>>) = 1 /\ <<s>>[1] = s
  OBVIOUS
<1> QED BY <1>1, LenProperties

(* The beginning of a sequence.                                             *)
LEMMA BeginsAre ==
  ASSUME NEW S, NEW p \in Seq(S), NEW k \in 1..Len(p)
  PROVE  /\ SubSeq(p, 1, k) \in Seq(S) /\ Len(SubSeq(p, 1, k)) = k
         /\ \A i \in 1..k : SubSeq(p, 1, k)[i] = p[i]
<1>1. /\ Len(p) \in Nat /\ 1 \in Int /\ k \in Int /\ 1 <= k
      /\ \A i \in 1..k : p[i] \in S
  BY LenProperties, ElementOfSeq
<1> DEFINE q == SubSeq(p, 1, k)
<1>2. /\ q \in Seq(S) /\ Len(q) = IF 1 <= k THEN k - 1 + 1 ELSE 0
      /\ \A i \in 1..(k - 1 + 1) : q[i] = p[1 + i - 1]
  BY <1>1, SubSeqProperties
<1> HIDE DEF q
<1>3. q \in Seq(S) /\ Len(q) = k /\ \A i \in 1..k : q[i] = p[i]
  BY <1>1, <1>2
<1> QED BY <1>3 DEF q

(* A service alone is a path.                                               *)
LEMMA OneIsPath ==
  ASSUME NEW g, IsGraph(g), NEW s \in g.nodes
  PROVE  IsPath(g, <<s>>) /\ Len(<<s>>) = 1 /\ <<s>>[1] = s
<1> DEFINE p == <<s>>
<1>2. p \in Seq(g.nodes) /\ Len(p) = 1 /\ p[1] = s /\ DOMAIN p = 1..1
  BY OneAlone
<1> HIDE DEF p
<1>3. IsPath(g, p)
  BY <1>2 DEF IsPath
<1> QED BY <1>2, <1>3 DEF p

(* A path grows by a service its last one needs and that is not on it.      *)
LEMMA PathGrows ==
  ASSUME NEW g, IsGraph(g), NEW p, IsPath(g, p), NEW b,
         Edge(g, p[Len(p)], b), \A i \in 1..Len(p) : p[i] # b
  PROVE  /\ IsPath(g, Append(p, b)) /\ Len(Append(p, b)) = Len(p) + 1
         /\ Append(p, b)[Len(p) + 1] = b
         /\ \A i \in 1..Len(p) : Append(p, b)[i] = p[i]
<1> DEFINE q == Append(p, b)
           n == Len(p)
<1>1. p \in Seq(g.nodes) /\ n \in Nat \ {0} /\ b \in g.nodes
  BY GraphIs DEF IsPath
<1>2. /\ q \in Seq(g.nodes) /\ Len(q) = n + 1 /\ q[n + 1] = b
      /\ DOMAIN q = 1..(n + 1)
      /\ \A i \in 1..n : q[i] = p[i]
  BY <1>1, AppendProperties, LenProperties
<1>3. /\ \A i \in 1..n : p[i] \in g.nodes /\ p[i] # b
      /\ \A i, j \in 1..n : p[i] = p[j] => i = j
      /\ \A i \in 1..(n - 1) : Edge(g, p[i], p[i + 1])
      /\ Edge(g, p[n], b)
  BY DEF IsPath
<1> HIDE DEF q, n
<1>4. \A i \in 1..(n + 1) : i \in 1..n \/ i = n + 1
  BY <1>1
<1>5. \A i \in 1..(n + 1) : q[i] \in g.nodes
  BY <1>1, <1>2, <1>3, <1>4
<1>6. \A i, j \in 1..(n + 1) : q[i] = q[j] => i = j
  BY <1>2, <1>3, <1>4
<1>7. \A i \in 1..n : Edge(g, q[i], q[i + 1])
  <2> SUFFICES ASSUME NEW i \in 1..n
               PROVE  Edge(g, q[i], q[i + 1])
    OBVIOUS
  <2>1. CASE i = n
    BY <1>1, <1>2, <1>3, <2>1
  <2>2. CASE i # n
    <3>1. i \in 1..(n - 1) /\ i + 1 \in 1..n
      BY <1>1, <2>2
    <3> QED BY <1>2, <1>3, <3>1
  <2> QED BY <2>1, <2>2
<1>8. Len(q) - 1 = n /\ Len(q) \in Nat \ {0}
  BY <1>1, <1>2
<1>9. IsPath(g, q)
  BY <1>2, <1>5, <1>6, <1>7, <1>8 DEF IsPath
<1> QED BY <1>2, <1>9 DEF q, n

(* The beginning of a path is a path.                                       *)
LEMMA PathBegins ==
  ASSUME NEW g, IsGraph(g), NEW p, IsPath(g, p), NEW k \in 1..Len(p)
  PROVE  /\ IsPath(g, SubSeq(p, 1, k)) /\ Len(SubSeq(p, 1, k)) = k
         /\ \A i \in 1..k : SubSeq(p, 1, k)[i] = p[i]
<1> DEFINE q == SubSeq(p, 1, k)
           n == Len(p)
<1>1. /\ n \in Nat \ {0} /\ k \in 1..n
      /\ \A i \in 1..n : p[i] \in g.nodes
      /\ \A i, j \in 1..n : p[i] = p[j] => i = j
      /\ \A i \in 1..(n - 1) : Edge(g, p[i], p[i + 1])
  BY DEF IsPath
<1>2. /\ q \in Seq(g.nodes) /\ Len(q) = k
      /\ \A i \in 1..k : q[i] = p[i]
  BY BeginsAre DEF IsPath
<1>3. DOMAIN q = 1..k
  BY <1>2, LenProperties
<1> HIDE DEF q, n
<1>4. k \in Nat \ {0} /\ 1..k \subseteq 1..n
      /\ \A i \in 1..(k - 1) : i \in 1..(n - 1) /\ i \in 1..k /\ i + 1 \in 1..k
  BY <1>1
<1>5. IsPath(g, q)
  BY <1>1, <1>2, <1>3, <1>4 DEF IsPath
<1> QED BY <1>2, <1>5 DEF q

-----------------------------------------------------------------------------
(* What is upstream.                                                        *)

(* Upstream of a service is what the last service of a path from it needs.  *)
LEMMA UpstreamIs ==
  ASSUME NEW g, IsGraph(g), NEW s
  PROVE  \A b : b \in Upstream(g, s) <=>
                   \E p : IsPath(g, p) /\ p[1] = s /\ Edge(g, p[Len(p)], b)
<1> SUFFICES ASSUME NEW b
             PROVE  b \in Upstream(g, s) <=>
                      \E p : IsPath(g, p) /\ p[1] = s /\ Edge(g, p[Len(p)], b)
  OBVIOUS
<1>1. b \in Upstream(g, s) <=>
        b \in g.nodes /\ \E p \in SimplePaths(g) : p[1] = s /\ Edge(g, p[Len(p)], b)
  BY DEF Upstream, Last
<1>2. \A p : p \in SimplePaths(g) <=> IsPath(g, p)
  BY PathsAre, PathsAreShort
<1>3. \A p : Edge(g, p[Len(p)], b) => b \in g.nodes
  BY GraphIs
<1> QED BY <1>1, <1>2, <1>3

(* What a service needs is upstream of it, and so is what an upstream one   *)
(* needs.                                                                   *)
LEMMA UpstreamGoesOn ==
  ASSUME NEW g, IsGraph(g), NEW s \in g.nodes
  PROVE  /\ \A b : Edge(g, s, b) => b \in Upstream(g, s)
         /\ \A b, c : b \in Upstream(g, s) /\ Edge(g, b, c) => c \in Upstream(g, s)
<1>1. ASSUME NEW b, Edge(g, s, b)
      PROVE  b \in Upstream(g, s)
  BY <1>1, OneIsPath, UpstreamIs
<1>2. ASSUME NEW b, NEW c, b \in Upstream(g, s), Edge(g, b, c)
      PROVE  c \in Upstream(g, s)
  <2>1. PICK p : IsPath(g, p) /\ p[1] = s /\ Edge(g, p[Len(p)], b)
    BY <1>2, UpstreamIs
  <2>2. Len(p) \in Nat \ {0}
    BY <2>1 DEF IsPath
  <2>3. CASE \E i \in 1..Len(p) : p[i] = b
    <3>1. PICK i \in 1..Len(p) : p[i] = b
      BY <2>3
    <3>2. /\ IsPath(g, SubSeq(p, 1, i)) /\ Len(SubSeq(p, 1, i)) = i
          /\ \A j \in 1..i : SubSeq(p, 1, i)[j] = p[j]
      BY <2>1, PathBegins
    <3>3. 1 \in 1..i /\ i \in 1..i
      BY <2>2
    <3>4. SubSeq(p, 1, i)[1] = s /\ SubSeq(p, 1, i)[Len(SubSeq(p, 1, i))] = b
      BY <2>1, <3>1, <3>2, <3>3
    <3> QED BY <1>2, <3>2, <3>4, UpstreamIs
  <2>4. CASE \A i \in 1..Len(p) : p[i] # b
    <3>1. /\ IsPath(g, Append(p, b)) /\ Len(Append(p, b)) = Len(p) + 1
          /\ Append(p, b)[Len(p) + 1] = b
          /\ \A i \in 1..Len(p) : Append(p, b)[i] = p[i]
      BY <2>1, <2>4, PathGrows
    <3>2. 1 \in 1..Len(p)
      BY <2>2
    <3>3. PICK q : IsPath(g, q) /\ q[1] = s /\ q[Len(q)] = b
      BY <2>1, <3>1, <3>2
    <3> QED BY <1>2, <3>3, UpstreamIs
  <2> QED BY <2>3, <2>4
<1> QED BY <1>1, <1>2

(* A set that holds what a service needs, and what its own members need,    *)
(* holds everything upstream.                                               *)
LEMMA UpstreamIsLeast ==
  ASSUME NEW g, IsGraph(g), NEW s, NEW S, \A b : Edge(g, s, b) => b \in S,
         \A a \in S : \A b : Edge(g, a, b) => b \in S
  PROVE  Upstream(g, s) \subseteq S
<1> SUFFICES ASSUME NEW b \in Upstream(g, s)
             PROVE  b \in S
  OBVIOUS
<1>1. PICK p : IsPath(g, p) /\ p[1] = s /\ Edge(g, p[Len(p)], b)
  BY UpstreamIs
<1> DEFINE n == Len(p)
           good == {k \in 0..n : k = 0 \/ \A c : Edge(g, p[k], c) => c \in S}
<1>2. n \in Nat \ {0} /\ \A i \in 1..(n - 1) : Edge(g, p[i], p[i + 1])
  BY <1>1 DEF IsPath
<1>3. 0 \in good
  BY <1>2
<1>4. ASSUME NEW k \in 1..n, k - 1 \in good
      PROVE  k \in good
  <2>1. CASE k = 1
    BY <1>1, <1>2, <2>1
  <2>2. CASE k # 1
    <3>1. k - 1 \in 1..(n - 1) /\ k - 1 + 1 = k /\ k - 1 # 0
      BY <1>2, <2>2
    <3>2. Edge(g, p[k - 1], p[k])
      BY <1>2, <3>1
    <3>3. p[k] \in S
      BY <1>4, <3>1, <3>2
    <3> QED BY <3>3
  <2> QED BY <2>1, <2>2
<1> HIDE DEF good
<1>5. \A k \in 0..n : k \in good
  BY <1>2, <1>3, <1>4, UpToInduction
<1>6. n \in good /\ n # 0
  BY <1>2, <1>5
<1> QED BY <1>1, <1>6 DEF good

(* Walks that go on from p by what next allows after each beginning.        *)
Extensions(next, p) ==
  {q \in Seq(Services) :
     /\ Len(p) <= Len(q) /\ \A i \in 1..Len(p) : q[i] = p[i]
     /\ \A i \in Len(p)..(Len(q) - 1) : q[i + 1] \in next[SubSeq(q, 1, i)]}

(* A depth-first search that collects here at each walk it makes.           *)
IsSearch(f, here, next) ==
  f = [p \in Seq(Services) |-> here[p] \union UNION {f[Append(p, n)] : n \in next[p]}]

(* What such a search collects.                                             *)
Collected(here, next, p) == UNION {here[q] : q \in Extensions(next, p)}

(* A walk goes on by one service at a time.                                 *)
LEMMA ExtensionsAre ==
  ASSUME NEW next, NEW p \in Seq(Services), next[p] \subseteq Services
  PROVE  Extensions(next, p) =
           {p} \union UNION {Extensions(next, Append(p, n)) : n \in next[p]}
<1> DEFINE m == Len(p)
<1>1. m \in Nat
  BY LenProperties
<1>2. ASSUME NEW n \in next[p]
      PROVE  /\ Append(p, n) \in Seq(Services) /\ Len(Append(p, n)) = m + 1
             /\ Append(p, n)[m + 1] = n /\ \A i \in 1..m : Append(p, n)[i] = p[i]
  BY AppendProperties
<1>3. ASSUME NEW q \in Seq(Services), m <= Len(q), \A i \in 1..m : q[i] = p[i]
      PROVE  /\ Len(q) \in Nat /\ (Len(q) = m => q = p)
             /\ SubSeq(q, 1, m) = p
  <2>1. Len(q) \in Nat
    BY LenProperties
  <2>2. Len(q) = m => q = p
    BY <1>3, SeqEqual
  <2>3. SubSeq(q, 1, m) = p
    <3>1. CASE m = 0
      <4>1. SubSeq(q, 1, 0) = <<>>
        BY SubSeqEmpty
      <4>2. p = <<>>
        BY <3>1, EmptySeq
      <4> QED BY <3>1, <4>1, <4>2
    <3>2. CASE m # 0
      <4>1. m \in 1..Len(q)
        BY <1>1, <1>3, <2>1, <3>2
      <4>2. /\ SubSeq(q, 1, m) \in Seq(Services) /\ Len(SubSeq(q, 1, m)) = m
            /\ \A i \in 1..m : SubSeq(q, 1, m)[i] = q[i]
        BY <4>1, BeginsAre
      <4> DEFINE b == SubSeq(q, 1, m)
      <4>3. b \in Seq(Services) /\ Len(b) = Len(p) /\ \A i \in 1..Len(b) : b[i] = p[i]
        BY <1>3, <4>2
      <4> HIDE DEF b
      <4>4. b = p
        BY <4>3, SeqEqual
      <4> QED BY <4>4 DEF b
    <3> QED BY <3>1, <3>2
  <2> QED BY <2>1, <2>2, <2>3
<1>4. ASSUME NEW q \in Extensions(next, p), q # p
      PROVE  \E n \in next[p] : q \in Extensions(next, Append(p, n))
  <2>1. /\ q \in Seq(Services) /\ m <= Len(q) /\ \A i \in 1..m : q[i] = p[i]
        /\ \A i \in m..(Len(q) - 1) : q[i + 1] \in next[SubSeq(q, 1, i)]
    BY <1>4 DEF Extensions
  <2>2. Len(q) \in Nat /\ Len(q) # m /\ SubSeq(q, 1, m) = p
    BY <1>3, <1>4, <2>1
  <2>3. m \in m..(Len(q) - 1)
    BY <1>1, <2>1, <2>2
  <2>4. q[m + 1] \in next[p]
    BY <2>1, <2>2, <2>3
  <2> DEFINE n == q[m + 1]
             a == Append(p, n)
  <2>5. a \in Seq(Services) /\ Len(a) = m + 1 /\ a[m + 1] = n /\ \A i \in 1..m : a[i] = p[i]
    BY <1>2, <2>4
  <2> HIDE DEF a, m
  <2>6. Len(a) <= Len(q) /\ \A i \in Len(a)..(Len(q) - 1) : i \in m..(Len(q) - 1)
    BY <1>1, <2>2, <2>1, <2>5
  <2>7. \A i \in 1..Len(a) : q[i] = a[i]
    <3>1. \A i \in 1..Len(a) : i \in 1..m \/ i = m + 1
      BY <1>1, <2>5
    <3> QED BY <2>1, <2>5, <3>1
  <2>8. q \in Extensions(next, a)
    BY <2>1, <2>6, <2>7 DEF Extensions
  <2> QED BY <2>4, <2>8 DEF a
<1>5. p \in Extensions(next, p)
  <2>1. m..(m - 1) = {} /\ m <= m
    BY <1>1
  <2> QED BY <2>1 DEF Extensions
<1>6. ASSUME NEW n \in next[p], NEW q \in Extensions(next, Append(p, n))
      PROVE  q \in Extensions(next, p)
  <2> DEFINE a == Append(p, n)
  <2>1. a \in Seq(Services) /\ Len(a) = m + 1 /\ a[m + 1] = n /\ \A i \in 1..m : a[i] = p[i]
    BY <1>2
  <2>2. /\ q \in Seq(Services) /\ Len(a) <= Len(q) /\ \A i \in 1..Len(a) : q[i] = a[i]
        /\ \A i \in Len(a)..(Len(q) - 1) : q[i + 1] \in next[SubSeq(q, 1, i)]
    BY <1>6 DEF Extensions
  <2>3. Len(q) \in Nat
    BY <2>2, LenProperties
  <2> HIDE DEF a
  <2>4. m <= Len(q) /\ 1..m \subseteq 1..Len(a) /\ m + 1 \in 1..Len(a)
    BY <1>1, <2>1, <2>2, <2>3
  <2>5. \A i \in 1..m : q[i] = p[i]
    BY <2>1, <2>2, <2>4
  <2>6. SubSeq(q, 1, m) = p /\ q[m + 1] = n
    BY <1>3, <2>1, <2>2, <2>4, <2>5
  <2>7. \A i \in m..(Len(q) - 1) : i = m \/ i \in Len(a)..(Len(q) - 1)
    BY <1>1, <2>1, <2>3
  <2>8. \A i \in m..(Len(q) - 1) : q[i + 1] \in next[SubSeq(q, 1, i)]
    BY <2>2, <2>6, <2>7
  <2> QED BY <2>2, <2>4, <2>5, <2>8 DEF Extensions
<1> HIDE DEF m
<1>7. Extensions(next, p) \subseteq
        {p} \union UNION {Extensions(next, Append(p, n)) : n \in next[p]}
  BY <1>4
<1>8. UNION {Extensions(next, Append(p, n)) : n \in next[p]} \subseteq Extensions(next, p)
  BY <1>6
<1> QED BY <1>5, <1>7, <1>8

(* What is collected is what is here and what is collected one further on.  *)
LEMMA CollectedIs ==
  ASSUME NEW here, NEW next, NEW p \in Seq(Services), next[p] \subseteq Services
  PROVE  Collected(here, next, p) =
           here[p] \union UNION {Collected(here, next, Append(p, n)) : n \in next[p]}
<1>1. \A q : q \in Extensions(next, p) <=>
               q = p \/ \E n \in next[p] : q \in Extensions(next, Append(p, n))
  BY ExtensionsAre
<1>2. ASSUME NEW x
      PROVE  x \in Collected(here, next, p) <=>
               x \in here[p] \/ \E n \in next[p] : x \in Collected(here, next, Append(p, n))
  <2>1. x \in Collected(here, next, p) <=> \E q \in Extensions(next, p) : x \in here[q]
    BY DEF Collected
  <2>2. \A n : x \in Collected(here, next, Append(p, n)) <=>
                 \E q \in Extensions(next, Append(p, n)) : x \in here[q]
    BY DEF Collected
  <2> QED BY <1>1, <2>1, <2>2
<1>3. ASSUME NEW x
      PROVE  x \in here[p] \union UNION {Collected(here, next, Append(p, n)) : n \in next[p]} <=>
               x \in here[p] \/ \E n \in next[p] : x \in Collected(here, next, Append(p, n))
  OBVIOUS
<1> QED BY <1>2, <1>3

(* The search's recursion has a solution.                                   *)
LEMMA SearchExists ==
  ASSUME NEW here, NEW next, \A p \in Seq(Services) : next[p] \subseteq Services
  PROVE  \E f : IsSearch(f, here, next)
<1> DEFINE f == [p \in Seq(Services) |-> Collected(here, next, p)]
<1>1. ASSUME NEW p \in Seq(Services)
      PROVE  f[p] = here[p] \union UNION {f[Append(p, n)] : n \in next[p]}
  <2>1. \A n \in next[p] : Append(p, n) \in Seq(Services)
    BY AppendProperties
  <2>2. \A n \in next[p] : f[Append(p, n)] = Collected(here, next, Append(p, n))
    BY <2>1
  <2>3. f[p] = Collected(here, next, p)
    OBVIOUS
  <2> HIDE DEF f
  <2>4. {f[Append(p, n)] : n \in next[p]} = {Collected(here, next, Append(p, n)) : n \in next[p]}
    BY <2>2
  <2>5. Collected(here, next, p) =
          here[p] \union UNION {Collected(here, next, Append(p, n)) : n \in next[p]}
    BY CollectedIs
  <2> QED BY <2>3, <2>4, <2>5
<1>2. f = [p \in Seq(Services) |-> f[p]]
  OBVIOUS
<1> HIDE DEF f
<1>3. f = [p \in Seq(Services) |-> here[p] \union UNION {f[Append(p, n)] : n \in next[p]}]
  BY <1>1, <1>2
<1> QED BY <1>3 DEF IsSearch

(* A search that never takes a service twice collects this.                 *)
LEMMA SearchFinds ==
  ASSUME NEW f, NEW here, NEW next, IsSearch(f, here, next),
         \A p \in Seq(Services) : next[p] \subseteq Services \ ToSet(p)
  PROVE  \A p \in Seq(Services) : f[p] = Collected(here, next, p)
<1> DEFINE left(p) == Services \ ToSet(p)
           N == Cardinality(Services)
           good == {k \in 0..N : \A p \in Seq(Services) :
                      Cardinality(left(p)) <= k => f[p] = Collected(here, next, p)}
<1>1. N \in Nat
  BY ServicesAreFinite, FS_CardinalityType
<1>2. ASSUME NEW p \in Seq(Services)
      PROVE  /\ IsFiniteSet(left(p)) /\ Cardinality(left(p)) \in Nat /\ Cardinality(left(p)) <= N
  BY ServicesAreFinite, FS_Subset, FS_CardinalityType
<1>3. ASSUME NEW p \in Seq(Services), NEW n \in next[p]
      PROVE  /\ Append(p, n) \in Seq(Services)
             /\ Cardinality(left(Append(p, n))) = Cardinality(left(p)) - 1
  <2>1. n \in Services /\ n \in left(p)
    OBVIOUS
  <2>2. /\ Append(p, n) \in Seq(Services) /\ Len(Append(p, n)) = Len(p) + 1
        /\ Append(p, n)[Len(p) + 1] = n
        /\ \A i \in 1..Len(p) : Append(p, n)[i] = p[i]
    BY <2>1, AppendProperties
  <2>3. DOMAIN Append(p, n) = 1..(Len(p) + 1) /\ DOMAIN p = 1..Len(p) /\ Len(p) \in Nat
    BY <2>2, LenProperties
  <2> DEFINE a == Append(p, n)
             m == Len(p)
  <2>4. \A s : (\E i \in DOMAIN a : a[i] = s) <=> s = n \/ \E i \in DOMAIN p : p[i] = s
    <3>1. \A i : i \in 1..(m + 1) <=> i \in 1..m \/ i = m + 1
      BY <2>3
    <3> HIDE DEF a, m
    <3> QED BY <2>2, <2>3, <3>1 DEF a, m
  <2>5. \A s : s \in ToSet(a) <=> s = n \/ s \in ToSet(p)
    <3> HIDE DEF a
    <3> QED BY <2>4 DEF ToSet
  <2> HIDE DEF a, m
  <2>6. Services \ ToSet(a) = (Services \ ToSet(p)) \ {n}
    BY <2>5
  <2>7. Cardinality((Services \ ToSet(p)) \ {n}) = Cardinality(Services \ ToSet(p)) - 1
    BY <1>2, <2>1, FS_RemoveElement
  <2> QED BY <2>2, <2>6, <2>7 DEF a
<1>4. ASSUME NEW p \in Seq(Services),
             \A n \in next[p] : f[Append(p, n)] = Collected(here, next, Append(p, n))
      PROVE  f[p] = Collected(here, next, p)
  <2>1. f[p] = here[p] \union UNION {f[Append(p, n)] : n \in next[p]}
    BY DEF IsSearch
  <2>2. {f[Append(p, n)] : n \in next[p]} = {Collected(here, next, Append(p, n)) : n \in next[p]}
    BY <1>4
  <2>3. next[p] \subseteq Services
    OBVIOUS
  <2>4. Collected(here, next, p) =
          here[p] \union UNION {Collected(here, next, Append(p, n)) : n \in next[p]}
    BY <2>3, CollectedIs
  <2> QED BY <2>1, <2>2, <2>4
<1>5. 0 \in good
  <2> SUFFICES ASSUME NEW p \in Seq(Services), Cardinality(left(p)) <= 0
               PROVE  f[p] = Collected(here, next, p)
    BY <1>1
  <2>1. ASSUME NEW n \in next[p]
        PROVE  FALSE
    <3>1. Append(p, n) \in Seq(Services) /\ Cardinality(left(Append(p, n))) = Cardinality(left(p)) - 1
      BY <1>3
    <3>2. Cardinality(left(p)) \in Nat /\ Cardinality(left(Append(p, n))) \in Nat
      BY <1>2, <3>1
    <3> HIDE DEF left
    <3> QED BY <3>1, <3>2
  <2> QED BY <1>4, <2>1
<1>6. ASSUME NEW k \in 1..N, k - 1 \in good
      PROVE  k \in good
  <2> SUFFICES ASSUME NEW p \in Seq(Services), Cardinality(left(p)) <= k
               PROVE  f[p] = Collected(here, next, p)
    BY <1>1
  <2>1. ASSUME NEW n \in next[p]
        PROVE  f[Append(p, n)] = Collected(here, next, Append(p, n))
    <3>1. Append(p, n) \in Seq(Services) /\ Cardinality(left(Append(p, n))) = Cardinality(left(p)) - 1
      BY <1>3
    <3>2. Cardinality(left(p)) \in Nat
      BY <1>2
    <3>4. k \in Nat
      BY <1>1
    <3>3. Cardinality(left(Append(p, n))) <= k - 1
      <4> HIDE DEF left
      <4> QED BY <3>1, <3>2, <3>4
    <3> QED BY <1>6, <3>1, <3>3
  <2> QED BY <1>4, <2>1
<1> HIDE DEF good
<1>7. \A k \in 0..N : k \in good
  BY <1>1, <1>5, <1>6, UpToInduction
<1>8. N \in good
  BY <1>1, <1>7
<1> QED BY <1>2, <1>8 DEF good

(* The members of a listing.                                                *)
LEMMA ToSetIs ==
  ASSUME NEW S, NEW q \in Seq(S)
  PROVE  \A s : s \in ToSet(q) <=> \E i \in 1..Len(q) : q[i] = s
<1>1. DOMAIN q = 1..Len(q)
  BY LenProperties
<1> QED BY <1>1 DEF ToSet

(* A sequence over the set its members are in.                              *)
LEMMA SeqOver ==
  ASSUME NEW S, NEW T, NEW q \in Seq(S), \A i \in 1..Len(q) : q[i] \in T
  PROVE  q \in Seq(T)
<1>1. Len(q) \in Nat /\ q \in [1..Len(q) -> S]
  BY LenProperties
<1>2. q \in [1..Len(q) -> T]
  BY <1>1
<1> QED BY <1>1, <1>2

(* The walks from a service that each time take a service not yet taken,    *)
(* allowed after each beginning, are paths.                                 *)
LEMMA WalksArePaths ==
  ASSUME NEW g, IsGraph(g), NEW s \in g.nodes, NEW next,
         \A p \in Seq(Services) : Len(p) \in Nat \ {0} =>
            next[p] \subseteq GetDependencies(g, p[Len(p)]) \ ToSet(p),
         NEW q \in Extensions(next, <<s>>)
  PROVE  /\ IsPath(g, q) /\ q[1] = s /\ q \in Seq(Services)
         /\ \A i \in 1..(Len(q) - 1) : q[i + 1] \in next[SubSeq(q, 1, i)]
<1> DEFINE n == Len(q)
<1>1. s \in Services /\ Len(<<s>>) = 1 /\ <<s>>[1] = s
  BY GraphIs, OneAlone
<1>2. /\ q \in Seq(Services) /\ 1 <= Len(q) /\ q[1] = s
      /\ \A i \in 1..(Len(q) - 1) : q[i + 1] \in next[SubSeq(q, 1, i)]
  <2> DEFINE p == <<s>>
  <2>1. /\ q \in Seq(Services) /\ Len(p) <= Len(q) /\ \A i \in 1..Len(p) : q[i] = p[i]
        /\ \A i \in Len(p)..(Len(q) - 1) : q[i + 1] \in next[SubSeq(q, 1, i)]
    BY DEF Extensions
  <2>2. Len(p) = 1 /\ p[1] = s
    BY <1>1
  <2> HIDE DEF p
  <2> QED BY <2>1, <2>2
<1>3. n \in Nat \ {0} /\ DOMAIN q = 1..n
  BY <1>2, LenProperties
<1>4. ASSUME NEW i \in 1..(n - 1)
      PROVE  /\ Edge(g, q[i], q[i + 1]) /\ q[i + 1] \in g.nodes
             /\ \A j \in 1..i : q[j] # q[i + 1]
  <2> DEFINE b == SubSeq(q, 1, i)
  <2>1. i \in 1..n /\ i \in Nat \ {0} /\ i \in 1..i
    BY <1>3
  <2>2. b \in Seq(Services) /\ Len(b) = i /\ \A j \in 1..i : b[j] = q[j]
    BY <1>2, <2>1, BeginsAre
  <2>3. q[i + 1] \in next[b]
    BY <1>2
  <2> HIDE DEF b, n
  <2>4. q[i + 1] \in GetDependencies(g, b[Len(b)]) /\ q[i + 1] \notin ToSet(b)
    BY <2>1, <2>2, <2>3
  <2>5. b[Len(b)] = q[i]
    BY <2>1, <2>2
  <2>6. q[i + 1] \in GetDependencies(g, q[i])
    BY <2>4, <2>5
  <2>7. \A j \in 1..i : b[j] # q[i + 1]
    BY <2>2, <2>4, ToSetIs
  <2> QED BY <2>2, <2>6, <2>7, GraphIs
<1> HIDE DEF n
<1>5. \A i \in 1..n : i = 1 \/ (i - 1 \in 1..(n - 1) /\ i - 1 + 1 = i)
  BY <1>3
<1>6. \A i \in 1..n : q[i] \in g.nodes
  BY <1>2, <1>4, <1>5
<1>7. \A i, j \in 1..n : i < j => q[i] # q[j]
  <2> SUFFICES ASSUME NEW i \in 1..n, NEW j \in 1..n, i < j
               PROVE  q[i] # q[j]
    OBVIOUS
  <2>1. j - 1 \in 1..(n - 1) /\ j - 1 + 1 = j /\ i \in 1..(j - 1)
    BY <1>3
  <2> QED BY <1>4, <2>1
<1>8. \A i, j \in 1..n : q[i] = q[j] => i = j
  <2>1. \A i, j \in 1..n : i < j \/ j < i \/ i = j
    BY <1>3
  <2> QED BY <1>7, <2>1
<1>9. q \in Seq(g.nodes)
  BY <1>2, <1>3, <1>6, SeqOver DEF n
<1>10. IsPath(g, q)
  BY <1>3, <1>4, <1>6, <1>8, <1>9 DEF IsPath, n
<1> QED BY <1>2, <1>10 DEF n

(* And every path is such a walk if each of its services is allowed there.  *)
LEMMA PathsAreWalks ==
  ASSUME NEW g, IsGraph(g), NEW next, NEW q, IsPath(g, q),
         \A i \in 1..(Len(q) - 1) : q[i + 1] \in next[SubSeq(q, 1, i)]
  PROVE  q \in Extensions(next, <<q[1]>>)
<1> DEFINE p == <<q[1]>>
<1>1. q \in Seq(g.nodes) /\ Len(q) \in Nat \ {0} /\ g.nodes \subseteq Services
  BY GraphIs DEF IsPath
<1>2. q \in Seq(Services)
  BY <1>1, SeqMonotonic
<1>3. q[1] \in Services
  BY <1>1, <1>2, ElementOfSeq
<1>4. Len(p) = 1 /\ p[1] = q[1]
  BY <1>3, OneAlone
<1> HIDE DEF p
<1>5. q \in Extensions(next, p)
  BY <1>1, <1>2, <1>4 DEF Extensions
<1> QED BY <1>5 DEF p

(* The chains are all the simple paths.                                     *)
LEMMA ChainsAreExact ==
  ASSUME NEW g, IsGraph(g), NEW a \in g.nodes, NEW b \in g.nodes
  PROVE  GetDependencyChain(g, a, b) = {p \in SimplePaths(g) : p[1] = a /\ Last(p) = b}
<1> DEFINE here == [path \in Seq(Services) |-> IF Last(path) = b THEN {path} ELSE {}]
           next == [path \in Seq(Services) |->
                      IF Last(path) = b THEN {} ELSE GetDependencies(g, Last(path)) \ ToSet(path)]
           D == CHOOSE f : f = [path \in Seq(Services) |->
                  IF Last(path) = b THEN {path}
                  ELSE UNION {f[Append(path, n)] : n \in GetDependencies(g, Last(path)) \ ToSet(path)}]
<1>1. \A p \in Seq(Services) :
        /\ here[p] = IF p[Len(p)] = b THEN {p} ELSE {}
        /\ next[p] = IF p[Len(p)] = b THEN {} ELSE GetDependencies(g, p[Len(p)]) \ ToSet(p)
  BY DEF Last
<1>2. \A f : IsSearch(f, here, next) <=>
        f = [path \in Seq(Services) |->
               IF Last(path) = b THEN {path}
               ELSE UNION {f[Append(path, n)] : n \in GetDependencies(g, Last(path)) \ ToSet(path)}]
  <2> SUFFICES ASSUME NEW f
               PROVE  [path \in Seq(Services) |->
                         here[path] \union UNION {f[Append(path, n)] : n \in next[path]}] =
                      [path \in Seq(Services) |->
                         IF Last(path) = b THEN {path}
                         ELSE UNION {f[Append(path, n)] :
                                       n \in GetDependencies(g, Last(path)) \ ToSet(path)}]
    BY DEF IsSearch
  <2>1. ASSUME NEW path \in Seq(Services)
        PROVE  here[path] \union UNION {f[Append(path, n)] : n \in next[path]} =
                 IF Last(path) = b THEN {path}
                 ELSE UNION {f[Append(path, n)] :
                               n \in GetDependencies(g, Last(path)) \ ToSet(path)}
    <3>1. CASE Last(path) = b
      <4>1. here[path] = {path} /\ next[path] = {}
        BY <1>1, <3>1 DEF Last
      <4> HIDE DEF here, next
      <4> QED BY <3>1, <4>1
    <3>2. CASE Last(path) # b
      <4>1. here[path] = {} /\ next[path] = GetDependencies(g, Last(path)) \ ToSet(path)
        BY <1>1, <3>2 DEF Last
      <4> HIDE DEF here, next
      <4> QED BY <3>2, <4>1
    <3> QED BY <3>1, <3>2
  <2> HIDE DEF here, next
  <2> QED BY <2>1
<1>3. GetDependencyChain(g, a, b) = D[<<a>>]
  BY DEF GetDependencyChain
<1> HIDE DEF here, next
<1>4. \A p \in Seq(Services) : next[p] \subseteq Services \ ToSet(p)
  BY <1>1 DEF GetDependencies
<1>5. \E f : IsSearch(f, here, next)
  BY <1>4, SearchExists
<1>6. IsSearch(D, here, next)
  BY <1>2, <1>5
<1> HIDE DEF D
<1>7. a \in Services /\ <<a>> \in Seq(Services)
  BY GraphIs, OneAlone
<1>8. D[<<a>>] = Collected(here, next, <<a>>)
  BY <1>4, <1>6, <1>7, SearchFinds
<1>9. \A p \in Seq(Services) : Len(p) \in Nat \ {0} =>
         next[p] \subseteq GetDependencies(g, p[Len(p)]) \ ToSet(p)
  BY <1>1
<1>10. \A p : p \in SimplePaths(g) <=> IsPath(g, p)
  BY PathsAre, PathsAreShort
<1>11. ASSUME NEW x \in Collected(here, next, <<a>>)
       PROVE  IsPath(g, x) /\ x[1] = a /\ x[Len(x)] = b
  <2>1. PICK q \in Extensions(next, <<a>>) : x \in here[q]
    BY DEF Collected
  <2>2. IsPath(g, q) /\ q[1] = a /\ q \in Seq(Services)
    BY <1>9, WalksArePaths
  <2>3. x = q /\ q[Len(q)] = b
    BY <1>1, <2>1, <2>2
  <2> QED BY <2>2, <2>3
<1>12. ASSUME NEW q, IsPath(g, q), q[1] = a, q[Len(q)] = b
       PROVE  q \in Collected(here, next, <<a>>)
  <2> DEFINE n == Len(q)
  <2>1. q \in Seq(Services) /\ n \in Nat \ {0}
    BY <1>12, GraphIs, SeqMonotonic DEF IsPath
  <2>2. ASSUME NEW i \in 1..(n - 1)
        PROVE  q[i + 1] \in next[SubSeq(q, 1, i)]
    <3> DEFINE c == SubSeq(q, 1, i)
    <3>1. i \in 1..n /\ i + 1 \in 1..n /\ n \in 1..n /\ i # n /\ i \in 1..i
          /\ \A j \in 1..i : j \in 1..n /\ j # i + 1
      BY <2>1
    <3>2. c \in Seq(Services) /\ Len(c) = i /\ \A j \in 1..i : c[j] = q[j]
      BY <2>1, <3>1, BeginsAre
    <3>3. /\ Edge(g, q[i], q[i + 1]) /\ \A j, k \in 1..n : q[j] = q[k] => j = k
      BY <1>12 DEF IsPath
    <3> HIDE DEF c, n
    <3>4. c[Len(c)] = q[i] /\ q[i] # q[n]
      BY <3>1, <3>2, <3>3
    <3>5. q[i] # b
      BY <1>12, <3>4 DEF n
    <3>6. next[c] = GetDependencies(g, q[i]) \ ToSet(c)
      BY <1>1, <3>2, <3>4, <3>5
    <3>7. q[i + 1] \notin ToSet(c)
      BY <3>1, <3>2, <3>3, ToSetIs
    <3>8. q[i + 1] \in GetDependencies(g, q[i])
      BY <3>3, GraphIs
    <3> QED BY <3>6, <3>7, <3>8 DEF c
  <2>3. q \in Extensions(next, <<a>>)
    BY <1>12, <2>2, PathsAreWalks
  <2>4. q \in here[q]
    BY <1>1, <1>12, <2>1
  <2> QED BY <2>3, <2>4 DEF Collected
<1>13. \A x : x \in Collected(here, next, <<a>>) <=> IsPath(g, x) /\ x[1] = a /\ x[Len(x)] = b
  BY <1>11, <1>12
<1> QED BY <1>3, <1>8, <1>10, <1>13 DEF Last

(* How a set is listed.                                                     *)
LEMMA ListingIs ==
  ASSUME NEW S \in SUBSET Services
  PROVE  /\ Sorted[S] \in Seq(S) /\ Sorted[S] \in Seq(Services) /\ Len(Sorted[S]) \in Nat
         /\ \A i \in 1..Len(Sorted[S]) : Sorted[S][i] \in S
         /\ \A s \in S : \E i \in 1..Len(Sorted[S]) : Sorted[S][i] = s
         /\ \A i, j \in 1..Len(Sorted[S]) : Sorted[S][i] = Sorted[S][j] => i = j
         /\ ToSet(Sorted[S]) = S
<1> DEFINE q == Sorted[S]
<1>1. q \in Seq(S) /\ \A s \in S : \E i \in 1..Len(q) : q[i] = s
  BY SortedAssumption
<1>2. q \in Seq(Services)
  BY <1>1, SeqMonotonic
<1>3. Len(q) \in Nat /\ \A i \in 1..Len(q) : q[i] \in S
  BY <1>1, LenProperties, ElementOfSeq
<1>4. \A i, j \in 1..Len(q) : i < j => q[i] # q[j]
  BY SortingAssumption
<1>5. ToSet(q) = S
  <2>1. \A s : s \in ToSet(q) <=> \E i \in 1..Len(q) : q[i] = s
    BY <1>1, ToSetIs
  <2> HIDE DEF q
  <2> QED BY <1>1, <1>3, <2>1
<1> HIDE DEF q
<1>6. \A i, j \in 1..Len(q) : q[i] = q[j] => i = j
  BY <1>3, <1>4
<1> QED BY <1>1, <1>2, <1>3, <1>5, <1>6 DEF q

(* Of two services that are listed the one way in one set, no set lists the *)
(* other first.                                                             *)
LEMMA ListedOneWay ==
  ASSUME NEW S \in SUBSET Services, NEW T \in SUBSET Services, NEW x, NEW y,
         NEW i \in 1..Len(Sorted[S]), NEW j \in 1..Len(Sorted[S]),
         NEW k \in 1..Len(Sorted[T]), NEW l \in 1..Len(Sorted[T]),
         Sorted[S][i] = x, Sorted[S][j] = y, Sorted[T][k] = x, Sorted[T][l] = y,
         i < j, l < k
  PROVE  FALSE
<1>1. Sorted[S][i] # Sorted[S][j] /\ Sorted[{x, y}] = <<x, y>>
  <2>1. /\ Sorted[S][i] # Sorted[S][j]
        /\ Sorted[{Sorted[S][i], Sorted[S][j]}] = <<Sorted[S][i], Sorted[S][j]>>
    BY SortingAssumption
  <2> QED BY <2>1, Zenon
<1>2. Sorted[{y, x}] = <<y, x>>
  <2>1. Sorted[{Sorted[T][l], Sorted[T][k]}] = <<Sorted[T][l], Sorted[T][k]>>
    BY SortingAssumption
  <2> QED BY <2>1, Zenon
<1>3. {x, y} = {y, x}
  OBVIOUS
<1>4. <<x, y>> = <<y, x>>
  BY <1>1, <1>2, <1>3
<1>5. x = y
  BY <1>4
<1> QED BY <1>1, <1>5

(* The first of a part is the one that comes first in the whole.            *)
LEMMA FirstOfPart ==
  ASSUME NEW T \in SUBSET Services, NEW S \in SUBSET T,
         NEW i \in 1..Len(Sorted[T]), Sorted[T][i] \in S
  PROVE  Head(Sorted[S]) = Sorted[T][i] <=>
           \A k \in 1..Len(Sorted[T]) : Sorted[T][k] \in S => i <= k
<1> DEFINE q == Sorted[S]
           x == Sorted[T][i]
           h == q[1]
<1>1. S \in SUBSET Services
  OBVIOUS
<1>2. PICK j \in 1..Len(q) : q[j] = x
  BY <1>1, ListingIs
<1>3. Len(q) \in Nat /\ 1 \in 1..Len(q) /\ Len(Sorted[T]) \in Nat /\ q \in Seq(S)
  BY <1>1, <1>2, ListingIs
<1>4. Head(q) = h
  BY <1>3
<1>5. h \in S
  BY <1>1, <1>3, ListingIs
<1>6. PICK m \in 1..Len(Sorted[T]) : Sorted[T][m] = h
  <2>1. h \in T
    BY <1>5
  <2> HIDE DEF h
  <2> QED BY <2>1, ListingIs
<1>7. ASSUME h = x, NEW k \in 1..Len(Sorted[T]), Sorted[T][k] \in S, ~ (i <= k)
      PROVE  FALSE
  <2>1. PICK l \in 1..Len(q) : q[l] = Sorted[T][k]
    BY <1>1, <1>7, ListingIs
  <2>2. k < i
    BY <1>3, <1>7
  <2>3. Sorted[T][k] # x
    BY <2>2, SortingAssumption
  <2>4. l # 1
    BY <1>7, <2>1, <2>3
  <2>5. 1 < l
    BY <1>3, <2>1, <2>4
  <2> HIDE DEF q, h, x
  <2> QED BY <1>1, <1>3, <1>7, <2>1, <2>2, <2>5, ListedOneWay DEF q, h, x
<1>8. ASSUME \A k \in 1..Len(Sorted[T]) : Sorted[T][k] \in S => i <= k, h # x
      PROVE  FALSE
  <2>1. i <= m /\ m # i
    BY <1>5, <1>6, <1>8
  <2>2. i < m
    BY <1>3, <1>6, <2>1
  <2>3. j # 1
    BY <1>2, <1>8
  <2>4. 1 < j
    BY <1>3, <1>2, <2>3
  <2> HIDE DEF q, h, x
  <2> QED BY <1>1, <1>2, <1>3, <1>6, <2>2, <2>4, ListedOneWay DEF q, h, x
<1> QED BY <1>4, <1>7, <1>8

(* A cycle that starts at its least service is written from there.          *)
LEMMA NormalizedIs ==
  ASSUME NEW q \in Seq(Services), Len(q) # 0, q[1] = Head(Sorted[ToSet(q)])
  PROVE  Normalized(q) = Append(q, q[1])
<1> DEFINE I == {i \in DOMAIN q : q[i] = Head(Sorted[ToSet(q)])}
           n == Len(q)
<1>1. n \in Nat /\ n # 0 /\ DOMAIN q = 1..n
  BY LenProperties
<1>2. 1 \in I /\ I \in SUBSET Nat /\ \A i \in I : 1 <= i
  BY <1>1
<1>3. Min(I) = 1
  <2> HIDE DEF I
  <2>1. I # {} /\ I \in SUBSET Nat
    BY <1>2
  <2>2. Min(I) \in I /\ \A x \in I : Min(I) <= x
    BY <2>1, LeastIs
  <2>3. \A v \in Nat : v <= 1 /\ 1 <= v => v = 1
    OBVIOUS
  <2> QED BY <1>2, <2>2, <2>3
<1>4. Normalized(q) = SubSeq(q, 1, n) \o SubSeq(q, 1, 1)
  <2> HIDE DEF n
  <2> QED BY <1>3 DEF Normalized, n
<1>5. SubSeq(q, 1, n) = q
  BY SubSeqFull
<1>6. SubSeq(q, 1, 1) = <<q[1]>>
  <2> DEFINE b == SubSeq(q, 1, 1)
             c == <<q[1]>>
  <2>1. 1 \in 1..n /\ q[1] \in Services
    BY <1>1, ElementOfSeq
  <2>2. b \in Seq(Services) /\ Len(b) = 1 /\ \A i \in 1..1 : b[i] = q[i]
    BY <2>1, BeginsAre
  <2>3. c \in Seq(Services) /\ Len(c) = 1 /\ c[1] = q[1]
    BY <2>1, OneAlone
  <2> HIDE DEF b, c
  <2>4. Len(b) = Len(c) /\ \A i \in 1..Len(b) : b[i] = c[i]
    BY <2>2, <2>3
  <2> QED BY <2>2, <2>3, <2>4, SeqEqual DEF b, c
<1>7. q \o <<q[1]>> = Append(q, q[1])
  <2>1. 1 \in 1..n /\ q[1] \in Services
    BY <1>1, ElementOfSeq
  <2> QED BY <2>1, AppendIsConcat
<1> QED BY <1>4, <1>5, <1>6, <1>7

(* A closed path of two services or more from start that meets none of the  *)
(* visited ones again.                                                      *)
IsLoop(g, start, visited, q) ==
  /\ IsPath(g, q) /\ q[1] = start /\ Len(q) >= 2 /\ Edge(g, q[Len(q)], start)
  /\ \A i \in 2..Len(q) : q[i] \notin visited

(* A search from start finds the closed paths that avoid the earlier starts.*)
LEMMA CyclesFromIs ==
  ASSUME NEW g, IsGraph(g), NEW start \in g.nodes, NEW visited, start \in visited
  PROVE  \A x : x \in CyclesFrom(g, start, visited) <=>
                  \E q : IsLoop(g, start, visited, q) /\ x = Normalized(q)
<1> DEFINE here == [path \in Seq(Services) |->
                      IF start \in GetDependencies(g, Last(path)) /\ Len(path) >= 2
                      THEN {Normalized(path)} ELSE {}]
           next == [path \in Seq(Services) |->
                      GetDependencies(g, Last(path)) \ (ToSet(path) \union visited)]
           D == CHOOSE f : f = [path \in Seq(Services) |->
                  UNION {IF n = start /\ Len(path) >= 2 THEN {Normalized(path)}
                         ELSE IF n \in ToSet(path) \union visited THEN {} ELSE f[Append(path, n)] :
                         n \in GetDependencies(g, Last(path))}]
<1>1. \A p \in Seq(Services) :
        /\ here[p] = IF start \in GetDependencies(g, p[Len(p)]) /\ Len(p) >= 2
                     THEN {Normalized(p)} ELSE {}
        /\ next[p] = GetDependencies(g, p[Len(p)]) \ (ToSet(p) \union visited)
  BY DEF Last
<1> HIDE DEF here, next
<1>2. \A f : IsSearch(f, here, next) <=>
        f = [path \in Seq(Services) |->
               UNION {IF n = start /\ Len(path) >= 2 THEN {Normalized(path)}
                      ELSE IF n \in ToSet(path) \union visited THEN {} ELSE f[Append(path, n)] :
                      n \in GetDependencies(g, Last(path))}]
  <2> SUFFICES ASSUME NEW f
               PROVE  IsSearch(f, here, next) <=>
                      f = [path \in Seq(Services) |->
                             UNION {IF n = start /\ Len(path) >= 2 THEN {Normalized(path)}
                                    ELSE IF n \in ToSet(path) \union visited THEN {}
                                    ELSE f[Append(path, n)] :
                                    n \in GetDependencies(g, Last(path))}]
    OBVIOUS
  <2>1. ASSUME NEW path \in Seq(Services)
        PROVE  here[path] \union UNION {f[Append(path, n)] : n \in next[path]} =
                 UNION {IF n = start /\ Len(path) >= 2 THEN {Normalized(path)}
                        ELSE IF n \in ToSet(path) \union visited THEN {}
                        ELSE f[Append(path, n)] :
                        n \in GetDependencies(g, Last(path))}
    <3> DEFINE G == GetDependencies(g, Last(path))
               V == ToSet(path) \union visited
               long == Len(path) >= 2
               z == Normalized(path)
    <3>1. here[path] = IF start \in G /\ long THEN {z} ELSE {}
      BY <1>1 DEF Last
    <3>2. next[path] = G \ V
      BY <1>1 DEF Last
    <3>3. start \in V
      OBVIOUS
    <3> HIDE DEF G, V, long, z
    <3>4. ASSUME NEW x, x \in here[path] \union UNION {f[Append(path, n)] : n \in next[path]}
          PROVE  x \in UNION {IF n = start /\ long THEN {z}
                              ELSE IF n \in V THEN {} ELSE f[Append(path, n)] : n \in G}
      <4>1. CASE x \in here[path]
        <5>1. start \in G /\ long /\ x = z
          BY <3>1, <4>1
        <5> QED BY <5>1
      <4>2. CASE \E n \in next[path] : x \in f[Append(path, n)]
        <5>1. PICK n \in next[path] : x \in f[Append(path, n)]
          BY <4>2
        <5>2. n \in G /\ n \notin V /\ n # start
          BY <3>2, <3>3, <5>1
        <5> QED BY <5>1, <5>2
      <4> QED BY <3>4, <4>1, <4>2
    <3>5. ASSUME NEW x, x \in UNION {IF n = start /\ long THEN {z}
                              ELSE IF n \in V THEN {} ELSE f[Append(path, n)] : n \in G}
          PROVE  x \in here[path] \union UNION {f[Append(path, n)] : n \in next[path]}
      <4>1. PICK n \in G : x \in IF n = start /\ long THEN {z}
                                 ELSE IF n \in V THEN {} ELSE f[Append(path, n)]
        BY <3>5
      <4>2. CASE n = start /\ long
        BY <3>1, <4>1, <4>2
      <4>3. CASE ~ (n = start /\ long)
        <5>1. n \notin V /\ x \in f[Append(path, n)]
          BY <4>1, <4>3
        <5> QED BY <3>2, <5>1
      <4> QED BY <4>2, <4>3
    <3>6. here[path] \union UNION {f[Append(path, n)] : n \in next[path]} =
            UNION {IF n = start /\ long THEN {z}
                   ELSE IF n \in V THEN {} ELSE f[Append(path, n)] : n \in G}
      BY <3>4, <3>5
    <3> QED BY <3>6 DEF G, V, long, z
  <2> DEFINE X == [path \in Seq(Services) |->
                    here[path] \union UNION {f[Append(path, n)] : n \in next[path]}]
             Y == [path \in Seq(Services) |->
                    UNION {IF n = start /\ Len(path) >= 2 THEN {Normalized(path)}
                           ELSE IF n \in ToSet(path) \union visited THEN {}
                           ELSE f[Append(path, n)] :
                           n \in GetDependencies(g, Last(path))}]
  <2>2. X = Y
    BY <2>1
  <2>3. IsSearch(f, here, next) <=> f = X
    BY DEF IsSearch
  <2> HIDE DEF X
  <2>4. IsSearch(f, here, next) <=> f = Y
    BY <2>2, <2>3
  <2> QED BY <2>4
<1>3. CyclesFrom(g, start, visited) = D[<<start>>]
  BY DEF CyclesFrom
<1>4. \A p \in Seq(Services) : next[p] \subseteq Services \ ToSet(p)
  BY <1>1 DEF GetDependencies
<1>5. \E f : IsSearch(f, here, next)
  BY <1>4, SearchExists
<1>6. IsSearch(D, here, next)
  BY <1>2, <1>5
<1> HIDE DEF D
<1>7. start \in Services /\ <<start>> \in Seq(Services)
  BY GraphIs, OneAlone
<1>8. D[<<start>>] = Collected(here, next, <<start>>)
  BY <1>4, <1>6, <1>7, SearchFinds
<1>9. \A p \in Seq(Services) : Len(p) \in Nat \ {0} =>
         next[p] \subseteq GetDependencies(g, p[Len(p)]) \ ToSet(p)
  BY <1>1
<1>10. ASSUME NEW x \in Collected(here, next, <<start>>)
       PROVE  \E q : IsLoop(g, start, visited, q) /\ x = Normalized(q)
  <2>1. PICK q \in Extensions(next, <<start>>) : x \in here[q]
    BY DEF Collected
  <2>2. /\ IsPath(g, q) /\ q[1] = start /\ q \in Seq(Services)
        /\ \A i \in 1..(Len(q) - 1) : q[i + 1] \in next[SubSeq(q, 1, i)]
    BY <1>9, WalksArePaths
  <2>3. x = Normalized(q) /\ Len(q) >= 2 /\ start \in GetDependencies(g, q[Len(q)])
    BY <1>1, <2>1, <2>2
  <2>4. Edge(g, q[Len(q)], start)
    BY <2>3, GraphIs
  <2>5. ASSUME NEW i \in 2..Len(q)
        PROVE  q[i] \notin visited
    <3>1. Len(q) \in Nat
      BY <2>2, LenProperties
    <3>2. i - 1 \in 1..(Len(q) - 1) /\ i - 1 + 1 = i /\ i - 1 \in 1..Len(q)
      BY <3>1
    <3>3. SubSeq(q, 1, i - 1) \in Seq(Services)
      BY <2>2, <3>2, BeginsAre
    <3>4. q[i] \in next[SubSeq(q, 1, i - 1)]
      BY <2>2, <3>2
    <3> QED BY <1>1, <3>3, <3>4
  <2> QED BY <2>2, <2>3, <2>4, <2>5 DEF IsLoop
<1>11. ASSUME NEW q, IsLoop(g, start, visited, q)
       PROVE  Normalized(q) \in Collected(here, next, <<start>>)
  <2> DEFINE n == Len(q)
  <2>1. IsPath(g, q) /\ q[1] = start /\ n >= 2 /\ Edge(g, q[n], start)
        /\ \A i \in 2..n : q[i] \notin visited
    BY <1>11 DEF IsLoop
  <2>2. q \in Seq(Services) /\ n \in Nat \ {0}
    BY <2>1, GraphIs, SeqMonotonic DEF IsPath
  <2>3. ASSUME NEW i \in 1..(n - 1)
        PROVE  q[i + 1] \in next[SubSeq(q, 1, i)]
    <3> DEFINE c == SubSeq(q, 1, i)
    <3>1. i \in 1..n /\ i + 1 \in 2..n /\ i + 1 \in 1..n /\ i \in 1..i
          /\ \A j \in 1..i : j \in 1..n /\ j # i + 1
      BY <2>2
    <3>2. c \in Seq(Services) /\ Len(c) = i /\ \A j \in 1..i : c[j] = q[j]
      BY <2>2, <3>1, BeginsAre
    <3>3. /\ Edge(g, q[i], q[i + 1]) /\ \A j, k \in 1..n : q[j] = q[k] => j = k
      BY <2>1 DEF IsPath
    <3> HIDE DEF c, n
    <3>4. c[Len(c)] = q[i]
      BY <3>1, <3>2
    <3>5. next[c] = GetDependencies(g, q[i]) \ (ToSet(c) \union visited)
      BY <1>1, <3>2, <3>4
    <3>6. q[i + 1] \notin ToSet(c)
      BY <3>1, <3>2, <3>3, ToSetIs
    <3>7. q[i + 1] \in GetDependencies(g, q[i])
      BY <3>3, GraphIs
    <3>8. q[i + 1] \notin visited
      BY <2>1, <3>1
    <3> QED BY <3>5, <3>6, <3>7, <3>8 DEF c
  <2>4. q \in Extensions(next, <<start>>)
    BY <2>1, <2>3, PathsAreWalks
  <2>5. start \in GetDependencies(g, q[n])
    BY <2>1, GraphIs
  <2>6. Normalized(q) \in here[q]
    BY <1>1, <2>1, <2>2, <2>5
  <2> QED BY <2>4, <2>6 DEF Collected
<1> QED BY <1>3, <1>8, <1>10, <1>11

(* Every elementary cycle of two services or more is found, once, and       *)
(* written from its least service on.                                       *)
LEMMA CyclesAreExact ==
  ASSUME NEW g, IsGraph(g)
  PROVE  FindCycles(g) = {c \in ElementaryCycles(g) : Len(c) > 2}
<1> DEFINE order == Sorted[g.nodes]
           before(i) == {order[k] : k \in 1..i}
           IsCycle(q) == /\ IsPath(g, q) /\ Len(q) >= 2 /\ Edge(g, q[Len(q)], q[1])
                         /\ q[1] = Head(Sorted[ToSet(q)])
<1>1. /\ g.nodes \in SUBSET Services /\ Len(order) \in Nat
      /\ \A i \in 1..Len(order) : order[i] \in g.nodes
      /\ \A s \in g.nodes : \E i \in 1..Len(order) : order[i] = s
      /\ \A i, j \in 1..Len(order) : order[i] = order[j] => i = j
  BY GraphIs, ListingIs
<1>2. \A p : p \in SimplePaths(g) <=> IsPath(g, p)
  BY PathsAre, PathsAreShort
<1>3. ASSUME NEW q, IsPath(g, q)
      PROVE  /\ ToSet(q) \in SUBSET g.nodes /\ q \in Seq(Services) /\ Len(q) # 0
             /\ q[1] \in ToSet(q) /\ Len(q) \in Nat
             /\ \A s : s \in ToSet(q) <=> \E j \in 1..Len(q) : q[j] = s
  <2>1. /\ q \in Seq(g.nodes) /\ Len(q) \in Nat \ {0} /\ \A i \in 1..Len(q) : q[i] \in g.nodes
    BY <1>3 DEF IsPath
  <2>2. \A s : s \in ToSet(q) <=> \E j \in 1..Len(q) : q[j] = s
    BY <2>1, ToSetIs
  <2>3. 1 \in 1..Len(q)
    BY <2>1
  <2>4. q \in Seq(Services)
    BY <1>1, <2>1, SeqMonotonic
  <2> QED BY <2>1, <2>2, <2>3, <2>4
<1>4. ASSUME NEW q, NEW i \in 1..Len(order), IsPath(g, q), q[1] = order[i]
      PROVE  q[1] = Head(Sorted[ToSet(q)]) <=> \A j \in 2..Len(q) : q[j] \notin before(i)
  <2> DEFINE S == ToSet(q)
  <2>1. S \in SUBSET g.nodes /\ order[i] \in S
    BY <1>3, <1>4
  <2>2. Head(Sorted[S]) = order[i] <=> \A k \in 1..Len(order) : order[k] \in S => i <= k
    BY <1>1, <2>1, FirstOfPart
  <2>3. Len(q) \in Nat /\ Len(q) # 0 /\ \A s : s \in S <=> \E j \in 1..Len(q) : q[j] = s
    BY <1>3, <1>4
  <2>4. \A j, k \in 1..Len(q) : q[j] = q[k] => j = k
    BY <1>4 DEF IsPath
  <2>5. ASSUME \A k \in 1..Len(order) : order[k] \in S => i <= k,
               NEW j \in 2..Len(q), q[j] \in before(i)
        PROVE  FALSE
    <3>1. PICK k \in 1..i : order[k] = q[j]
      BY <2>5
    <3>2. j \in 1..Len(q) /\ 1 \in 1..Len(q) /\ j # 1
      BY <2>3
    <3>3. k \in 1..Len(order) /\ k <= i
      BY <1>1, <3>1
    <3>4. i <= k
      BY <2>3, <2>5, <3>1, <3>2, <3>3
    <3>5. k = i
      BY <1>1, <3>3, <3>4
    <3> QED BY <1>4, <2>4, <3>1, <3>2, <3>5
  <2>6. ASSUME \A j \in 2..Len(q) : q[j] \notin before(i),
               NEW k \in 1..Len(order), order[k] \in S, ~ (i <= k)
        PROVE  FALSE
    <3>1. PICK j \in 1..Len(q) : q[j] = order[k]
      BY <2>3, <2>6
    <3>2. k \in 1..i /\ k # i
      BY <1>1, <2>6
    <3>3. j # 1
      BY <1>1, <1>4, <3>1, <3>2
    <3>4. j \in 2..Len(q)
      BY <2>3, <3>1, <3>3
    <3> QED BY <2>6, <3>1, <3>2, <3>4
  <2> HIDE DEF S, before
  <2> QED BY <1>4, <2>2, <2>5, <2>6 DEF S
<1>5. \A i \in 1..Len(order) : order[i] \in before(i)
  <2>1. \A i \in 1..Len(order) : i \in 1..i
    BY <1>1
  <2> QED BY <2>1
<1>6. \A x : x \in FindCycles(g) <=>
               \E i \in 1..Len(order) : x \in CyclesFrom(g, order[i], before(i))
  BY DEF FindCycles
<1> HIDE DEF order, before
<1>7. ASSUME NEW x, x \in FindCycles(g)
      PROVE  \E q : IsCycle(q) /\ x = Append(q, q[1])
  <2>1. PICK i \in 1..Len(order) : x \in CyclesFrom(g, order[i], before(i))
    BY <1>6, <1>7
  <2>2. PICK q : IsLoop(g, order[i], before(i), q) /\ x = Normalized(q)
    BY <1>1, <1>5, <2>1, CyclesFromIs
  <2>3. /\ IsPath(g, q) /\ q[1] = order[i] /\ Len(q) >= 2 /\ Edge(g, q[Len(q)], q[1])
        /\ \A j \in 2..Len(q) : q[j] \notin before(i)
    BY <2>2 DEF IsLoop
  <2>4. IsCycle(q)
    BY <1>4, <2>3
  <2>5. x = Append(q, q[1])
    BY <1>3, <2>2, <2>4, NormalizedIs
  <2> QED BY <2>4, <2>5
<1>8. ASSUME NEW q, IsCycle(q)
      PROVE  Append(q, q[1]) \in FindCycles(g)
  <2>1. q[1] \in g.nodes
    BY <1>3, <1>8
  <2>2. PICK i \in 1..Len(order) : order[i] = q[1]
    BY <1>1, <2>1
  <2>3. IsLoop(g, order[i], before(i), q)
    BY <1>4, <1>8, <2>2 DEF IsLoop
  <2>4. Normalized(q) \in CyclesFrom(g, order[i], before(i))
    BY <1>1, <1>5, <2>3, CyclesFromIs
  <2>5. Normalized(q) = Append(q, q[1])
    BY <1>3, <1>8, NormalizedIs
  <2> QED BY <1>6, <2>4, <2>5
<1>9. \A q : IsPath(g, q) => /\ Len(Append(q, q[1])) > 2 <=> Len(q) >= 2
                            /\ Last(q) = q[Len(q)]
  <2>1. ASSUME NEW q, IsPath(g, q)
        PROVE  Len(Append(q, q[1])) = Len(q) + 1 /\ Len(q) \in Nat
    BY <1>3, <2>1
  <2>2. \A n \in Nat : n + 1 > 2 <=> n >= 2
    OBVIOUS
  <2> QED BY <2>1, <2>2 DEF Last
<1>10. \A x : x \in ElementaryCycles(g) <=>
         \E q : /\ IsPath(g, q) /\ Edge(g, q[Len(q)], q[1]) /\ q[1] = Head(Sorted[ToSet(q)])
               /\ x = Append(q, q[1])
  BY <1>2, <1>9 DEF ElementaryCycles
<1>11. ASSUME NEW x, x \in FindCycles(g)
       PROVE  x \in ElementaryCycles(g) /\ Len(x) > 2
  BY <1>7, <1>9, <1>10, <1>11
<1>12. ASSUME NEW x, x \in ElementaryCycles(g), Len(x) > 2
       PROVE  x \in FindCycles(g)
  BY <1>8, <1>9, <1>10, <1>12
<1> QED BY <1>11, <1>12

Calls == Services \X Marks
Outcome == [found : BOOLEAN, marks : Marks]
White(m) == {s \in Services : m[s] = 0}

(* The services a call may yet visit besides its own.                       *)
LeftBy(c) == White(c[2]) \ {c[1]}

(* What a search makes of one more service.                                 *)
Seen(dfs, acc, v) ==
  IF acc.found \/ acc.marks[v] = 2 THEN acc
  ELSE IF acc.marks[v] = 1 THEN [acc EXCEPT !.found = TRUE]
  ELSE dfs[<<v, acc.marks>>]

IsLooking(u, dfs, a, services, N) ==
  u = [i \in 0..N |-> IF i = 0 THEN a
                      ELSE Seen(dfs, u[i - 1], services[i])]

(* The recursion through the services has a solution.                       *)
LEMMA LookingExists ==
  ASSUME NEW dfs, NEW a, NEW services, NEW N \in Nat
  PROVE  \E u : IsLooking(u, dfs, a, services, N)
<1> DEFINE S == {n \in 0..N : \E u : IsLooking(u, dfs, a, services, n)}
<1>1. 0 \in S
  <2>1. IsLooking([k \in 0..0 |-> a], dfs, a, services, 0)
    BY DEF IsLooking
  <2> QED BY <2>1
<1>2. ASSUME NEW n \in 1..N, n - 1 \in S
      PROVE  n \in S
  <2>1. PICK u : IsLooking(u, dfs, a, services, n - 1)
    BY <1>2
  <2> DEFINE v == [k \in 0..n |-> IF k = n THEN Seen(dfs, u[n - 1], services[n]) ELSE u[k]]
  <2>2. \A k \in 0..(n - 1) : u[k] = IF k = 0 THEN a ELSE Seen(dfs, u[k - 1], services[k])
    BY <2>1 DEF IsLooking
  <2>3. /\ v = [k \in 0..n |-> v[k]] /\ v[n] = Seen(dfs, u[n - 1], services[n])
        /\ \A k \in 0..(n - 1) : v[k] = u[k]
    OBVIOUS
  <2> HIDE DEF v
  <2>4. \A k \in 0..n : v[k] = IF k = 0 THEN a ELSE Seen(dfs, v[k - 1], services[k])
    <3> SUFFICES ASSUME NEW k \in 0..n
                 PROVE  v[k] = IF k = 0 THEN a ELSE Seen(dfs, v[k - 1], services[k])
      OBVIOUS
    <3>1. CASE k = n
      <4>1. k # 0 /\ k - 1 = n - 1 /\ n - 1 \in 0..(n - 1)
        BY <3>1
      <4> QED BY <2>3, <3>1, <4>1
    <3>2. CASE k # n
      <4>1. k \in 0..(n - 1) /\ (k # 0 => k - 1 \in 0..(n - 1))
        BY <3>2
      <4> QED BY <2>2, <2>3, <4>1
    <3> QED BY <3>1, <3>2
  <2>5. IsLooking(v, dfs, a, services, n)
    BY <2>3, <2>4 DEF IsLooking
  <2> QED BY <2>5
<1> HIDE DEF S
<1>3. \A n \in 0..N : n \in S
  BY <1>1, <1>2, UpToInduction
<1> QED BY <1>3 DEF S

(* The services are looked at one by one.                                   *)
Looks(u, dfs, marks, services) ==
  /\ LookAt(dfs, marks, services) = u[Len(services)]
  /\ u[0] = [found |-> FALSE, marks |-> marks]
  /\ \A k \in 1..Len(services) : u[k] = Seen(dfs, u[k - 1], services[k])

(* There is such a row of looks.                                            *)
LEMMA LookAtIs ==
  ASSUME NEW dfs, NEW marks, NEW services, Len(services) \in Nat
  PROVE  \E u : Looks(u, dfs, marks, services)
<1> DEFINE N == Len(services)
           a == [found |-> FALSE, marks |-> marks]
           body(f) == [i \in 0..N |-> IF i = 0 THEN a ELSE Seen(dfs, f[i - 1], services[i])]
           u == CHOOSE f : f = body(f)
<1>1. u = body(u)
  <2>1. \E f : f = body(f)
    <3> HIDE DEF N, a
    <3>1. N \in Nat
      BY DEF N
    <3>2. PICK f : IsLooking(f, dfs, a, services, N)
      BY <3>1, LookingExists
    <3>3. f = body(f)
      BY <3>2 DEF IsLooking
    <3> HIDE DEF body
    <3> QED BY <3>3
  <2> HIDE DEF body
  <2> QED BY <2>1, Zenon
<1>2. LookAt(dfs, marks, services) = u[N]
  BY DEF LookAt, Seen
<1> HIDE DEF u, a
<1>3. \A k \in 0..N : u[k] = IF k = 0 THEN a ELSE Seen(dfs, u[k - 1], services[k])
  BY <1>1
<1> HIDE DEF N, body
<1>4. u[0] = a /\ \A k \in 1..N : u[k] = Seen(dfs, u[k - 1], services[k])
  BY <1>3 DEF N
<1>5. Looks(u, dfs, marks, services)
  BY <1>2, <1>4 DEF Looks, N, a
<1> QED BY <1>5

(* A call answers, and takes no service's mark away.                        *)
Keeps(f, c) == f[c] \in Outcome /\ White(f[c].marks) \subseteq White(c[2])

(* A call on a service not visited has fewer left than there were.          *)
LEMMA FewerAreLeft ==
  ASSUME NEW m \in Marks, NEW v \in Services, m[v] = 0
  PROVE  /\ <<v, m>> \in Calls
         /\ Cardinality(White(m)) \in Nat
         /\ Cardinality(LeftBy(<<v, m>>)) \in Nat
         /\ Cardinality(LeftBy(<<v, m>>)) < Cardinality(White(m))
<1>1. IsFiniteSet(White(m)) /\ v \in White(m)
  BY ServicesAreFinite, FS_Subset DEF White
<1>2. LeftBy(<<v, m>>) = White(m) \ {v}
  BY DEF LeftBy
<1>3. /\ Cardinality(White(m)) \in Nat /\ IsFiniteSet(White(m) \ {v})
      /\ Cardinality(White(m) \ {v}) = Cardinality(White(m)) - 1
  BY <1>1, FS_CardinalityType, FS_RemoveElement
<1>4. Cardinality(White(m) \ {v}) \in Nat
  BY <1>3, FS_CardinalityType
<1>5. \A x, y \in Nat : y = x - 1 => y < x
  OBVIOUS
<1> QED BY <1>2, <1>3, <1>4, <1>5 DEF Calls

(* Fewer marks missing are fewer services not visited.                      *)
LEMMA WhiteIsFinite ==
  ASSUME NEW m, NEW n, White(m) \subseteq White(n)
  PROVE  /\ Cardinality(White(m)) \in Nat /\ Cardinality(White(n)) \in Nat
         /\ Cardinality(White(m)) <= Cardinality(White(n))
         /\ Cardinality(White(n)) <= Cardinality(Services) /\ Cardinality(Services) \in Nat
<1>1. White(n) \subseteq Services
  BY DEF White
<1>2. IsFiniteSet(White(n)) /\ IsFiniteSet(White(m))
  BY <1>1, ServicesAreFinite, FS_Subset
<1> QED BY <1>1, <1>2, ServicesAreFinite, FS_Subset, FS_CardinalityType

(* Searches that answer alike where fewer than N are left look alike at     *)
(* services where no more than N are.                                       *)
LEMMA LookAtAgrees ==
  ASSUME NEW N \in Nat, NEW f, NEW h, NEW marks \in Marks, NEW services \in Seq(Services),
         Cardinality(White(marks)) <= N,
         \A c \in Calls : Cardinality(LeftBy(c)) < N => Keeps(f, c) /\ h[c] = f[c]
  PROVE  /\ LookAt(h, marks, services) = LookAt(f, marks, services)
         /\ LookAt(f, marks, services) \in Outcome
         /\ White(LookAt(f, marks, services).marks) \subseteq White(marks)
<1> DEFINE n == Len(services)
           a == [found |-> FALSE, marks |-> marks]
<1>1. n \in Nat /\ \A i \in 1..n : services[i] \in Services
  BY LenProperties, ElementOfSeq
<1>2. PICK u : /\ LookAt(f, marks, services) = u[n] /\ u[0] = a
               /\ \A k \in 1..n : u[k] = Seen(f, u[k - 1], services[k])
  <2>1. Len(services) \in Nat
    BY <1>1
  <2>2. PICK u : Looks(u, f, marks, services)
    BY <2>1, LookAtIs
  <2> QED BY <2>2 DEF Looks
<1>3. PICK w : /\ LookAt(h, marks, services) = w[n] /\ w[0] = a
               /\ \A k \in 1..n : w[k] = Seen(h, w[k - 1], services[k])
  <2>1. Len(services) \in Nat
    BY <1>1
  <2>2. PICK w : Looks(w, h, marks, services)
    BY <2>1, LookAtIs
  <2> QED BY <2>2 DEF Looks
<1> DEFINE good == {k \in 0..n : /\ u[k] \in Outcome /\ w[k] = u[k]
                                 /\ White(u[k].marks) \subseteq White(marks)}
<1>4. 0 \in good
  <2>1. a \in Outcome /\ a.marks = marks
    BY DEF Outcome
  <2> HIDE DEF a, n
  <2> QED BY <1>1, <1>2, <1>3, <2>1
<1>5. ASSUME NEW k \in 1..n, k - 1 \in good
      PROVE  k \in good
  <2> DEFINE acc == u[k - 1]
             v == services[k]
  <2>1. /\ acc \in Outcome /\ w[k - 1] = acc /\ White(acc.marks) \subseteq White(marks)
        /\ v \in Services /\ k \in 0..n
        /\ u[k] = Seen(f, acc, v) /\ w[k] = Seen(h, acc, v)
    BY <1>1, <1>2, <1>3, <1>5
  <2>2. acc.found \in BOOLEAN /\ acc.marks \in Marks /\ acc.marks[v] \in 0..2
    BY <2>1 DEF Outcome, Marks
  <2> HIDE DEF acc, v
  <2>3. CASE acc.found \/ acc.marks[v] = 2
    <3>1. u[k] = acc /\ w[k] = acc
      BY <2>1, <2>3 DEF Seen
    <3> QED BY <2>1, <3>1
  <2>4. CASE ~ acc.found /\ acc.marks[v] = 1
    <3>1. u[k] = [acc EXCEPT !.found = TRUE] /\ w[k] = u[k]
      BY <2>1, <2>4 DEF Seen
    <3>2. u[k] \in Outcome /\ u[k].marks = acc.marks
      BY <2>1, <3>1 DEF Outcome
    <3> QED BY <2>1, <3>1, <3>2
  <2>5. CASE ~ acc.found /\ acc.marks[v] = 0
    <3> DEFINE c == <<v, acc.marks>>
    <3>1. u[k] = f[c] /\ w[k] = h[c]
      BY <2>1, <2>5 DEF Seen
    <3>2. /\ c \in Calls /\ Cardinality(White(acc.marks)) \in Nat
          /\ Cardinality(LeftBy(c)) \in Nat
          /\ Cardinality(LeftBy(c)) < Cardinality(White(acc.marks))
      BY <2>1, <2>2, <2>5, FewerAreLeft
    <3>3. /\ Cardinality(White(marks)) \in Nat
          /\ Cardinality(White(acc.marks)) <= Cardinality(White(marks))
      BY <2>1, WhiteIsFinite
    <3>4. Cardinality(LeftBy(c)) < N
      <4> HIDE DEF c
      <4> QED BY <3>2, <3>3
    <3>5. Keeps(f, c) /\ h[c] = f[c] /\ c[2] = acc.marks
      BY <3>2, <3>4
    <3> HIDE DEF c
    <3> QED BY <2>1, <3>1, <3>5 DEF Keeps
  <2> QED BY <2>2, <2>3, <2>4, <2>5
<1> HIDE DEF good, n
<1>6. \A k \in 0..n : k \in good
  BY <1>1, <1>4, <1>5, UpToInduction
<1>7. n \in good
  BY <1>1, <1>6
<1> QED BY <1>2, <1>3, <1>7 DEF good

(* What a call does.                                                        *)
VisitOf(f, g, c) ==
  LET end == LookAt(f, [c[2] EXCEPT ![c[1]] = 1], Sorted[GetDependencies(g, c[1])])
  IN IF end.found THEN end ELSE [end EXCEPT !.marks = [@ EXCEPT ![c[1]] = 2]]

IsVisit(f, g) == f = [call \in Services \X Marks |-> VisitOf(f, g, call)]

(* What a call is left with.                                                *)
LEMMA CallIs ==
  ASSUME NEW g, NEW c \in Calls
  PROVE  /\ c[1] \in Services /\ c[2] \in Marks
         /\ [c[2] EXCEPT ![c[1]] = 1] \in Marks
         /\ White([c[2] EXCEPT ![c[1]] = 1]) = LeftBy(c)
         /\ Cardinality(LeftBy(c)) \in Nat /\ Cardinality(LeftBy(c)) <= Cardinality(Services)
         /\ Sorted[GetDependencies(g, c[1])] \in Seq(Services)
<1>1. c[1] \in Services /\ c[2] \in Marks
  BY DEF Calls
<1> DEFINE m == [c[2] EXCEPT ![c[1]] = 1]
<1>2. /\ m \in Marks /\ m[c[1]] = 1
      /\ \A s \in Services : s # c[1] => m[s] = c[2][s]
  BY <1>1 DEF Marks
<1> HIDE DEF m
<1>3. White(m) = LeftBy(c)
  BY <1>2 DEF White, LeftBy
<1>4. /\ Cardinality(White(m)) \in Nat /\ Cardinality(White(m)) <= Cardinality(Services)
  BY WhiteIsFinite
<1>5. GetDependencies(g, c[1]) \in SUBSET Services
  BY DEF GetDependencies
<1>6. Sorted[GetDependencies(g, c[1])] \in Seq(Services)
  BY <1>5, ListingIs
<1> QED BY <1>1, <1>2, <1>3, <1>4, <1>6 DEF m

(* A call depends on calls with fewer left alone, and keeps what they keep. *)
LEMMA VisitAgrees ==
  ASSUME NEW g, NEW f, NEW h, NEW c \in Calls,
         \A d \in Calls : Cardinality(LeftBy(d)) < Cardinality(LeftBy(c)) =>
            Keeps(f, d) /\ h[d] = f[d]
  PROVE  /\ VisitOf(h, g, c) = VisitOf(f, g, c)
         /\ VisitOf(f, g, c) \in Outcome
         /\ White(VisitOf(f, g, c).marks) \subseteq White(c[2])
<1> DEFINE u == c[1]
           m == [c[2] EXCEPT ![u] = 1]
           q == Sorted[GetDependencies(g, u)]
           r == LookAt(f, m, q)
           N == Cardinality(LeftBy(c))
<1>1. /\ u \in Services /\ c[2] \in Marks /\ m \in Marks /\ White(m) = LeftBy(c)
      /\ N \in Nat /\ q \in Seq(Services)
  BY CallIs
<1>2. Cardinality(White(m)) <= N
  BY <1>1
<1> HIDE DEF u, m, q
<1>3. LookAt(h, m, q) = r /\ r \in Outcome /\ White(r.marks) \subseteq White(m)
  <2> HIDE DEF N
  <2>1. \A d \in Calls : Cardinality(LeftBy(d)) < N => Keeps(f, d) /\ h[d] = f[d]
    BY DEF N
  <2> QED BY <1>1, <1>2, <2>1, LookAtAgrees
<1>4. VisitOf(f, g, c) = IF r.found THEN r ELSE [r EXCEPT !.marks = [@ EXCEPT ![u] = 2]]
  BY DEF VisitOf, u, m, q
<1>5. VisitOf(h, g, c) = IF r.found THEN r ELSE [r EXCEPT !.marks = [@ EXCEPT ![u] = 2]]
  BY <1>3 DEF VisitOf, u, m, q
<1> HIDE DEF r
<1>6. White(m) \subseteq White(c[2])
  BY <1>1 DEF LeftBy
<1>7. CASE r.found
  <2>1. VisitOf(f, g, c) = r
    BY <1>4, <1>7
  <2> QED BY <1>3, <1>4, <1>5, <1>6, <2>1
<1>8. CASE ~ r.found
  <2> DEFINE e == [r EXCEPT !.marks = [@ EXCEPT ![u] = 2]]
             M == [r.marks EXCEPT ![u] = 2]
  <2>1. r.marks \in Marks /\ e \in Outcome /\ e.marks = M
    BY <1>1, <1>3 DEF Outcome, Marks
  <2>2. M[u] = 2 /\ \A s \in Services : s # u => M[s] = r.marks[s]
    BY <1>1, <2>1 DEF Marks
  <2> HIDE DEF M
  <2>3. White(M) \subseteq White(r.marks)
    BY <2>2 DEF White
  <2>4. VisitOf(f, g, c) = e /\ VisitOf(h, g, c) = e
    BY <1>4, <1>5, <1>8
  <2> HIDE DEF e
  <2> QED BY <1>3, <1>6, <2>1, <2>3, <2>4
<1> QED BY <1>7, <1>8

(* The search's recursion has a solution.                                   *)
LEMMA VisitExists ==
  ASSUME NEW g
  PROVE  \E f : IsVisit(f, g)
<1> DEFINE N == Cardinality(Services)
           good == {k \in 0..(N + 1) : \E f : \A c \in Calls :
                      Cardinality(LeftBy(c)) < k => f[c] = VisitOf(f, g, c) /\ Keeps(f, c)}
<1>1. N \in Nat
  BY ServicesAreFinite, FS_CardinalityType
<1>2. \A c \in Calls : Cardinality(LeftBy(c)) \in Nat /\ Cardinality(LeftBy(c)) <= N
  BY CallIs
<1> HIDE DEF N
<1>3. 0 \in good
  <2>1. \A c \in Calls : ~ (Cardinality(LeftBy(c)) < 0)
    BY <1>2
  <2> QED BY <1>1, <2>1
<1>4. ASSUME NEW k \in 1..(N + 1), k - 1 \in good
      PROVE  k \in good
  <2>1. PICK f : \A c \in Calls :
          Cardinality(LeftBy(c)) < k - 1 => f[c] = VisitOf(f, g, c) /\ Keeps(f, c)
    BY <1>4
  <2> DEFINE h == [c \in Calls |-> VisitOf(f, g, c)]
  <2>2. ASSUME NEW c \in Calls, Cardinality(LeftBy(c)) < k
        PROVE  h[c] = VisitOf(h, g, c) /\ Keeps(h, c)
    <3>1. ASSUME NEW d \in Calls, Cardinality(LeftBy(d)) < Cardinality(LeftBy(c))
          PROVE  Keeps(f, d) /\ h[d] = f[d]
      <4>1. \A x, y \in Nat : x < y /\ y < k => x < k - 1
        BY <1>1
      <4>2. Cardinality(LeftBy(d)) < k - 1
        BY <1>2, <2>2, <3>1, <4>1
      <4> QED BY <2>1, <4>2
    <3>2. h[c] = VisitOf(f, g, c)
      OBVIOUS
    <3> HIDE DEF h
    <3>3. /\ VisitOf(h, g, c) = VisitOf(f, g, c) /\ VisitOf(f, g, c) \in Outcome
          /\ White(VisitOf(f, g, c).marks) \subseteq White(c[2])
      BY <3>1, VisitAgrees
    <3> QED BY <3>2, <3>3 DEF Keeps
  <2> HIDE DEF h
  <2>3. k \in 0..(N + 1)
    BY <1>1
  <2> QED BY <2>2, <2>3
<1> HIDE DEF good
<1>5. \A k \in 0..(N + 1) : k \in good
  BY <1>1, <1>3, <1>4, UpToInduction
<1>6. N + 1 \in good
  BY <1>1, <1>5
<1>7. PICK f : \A c \in Calls :
        Cardinality(LeftBy(c)) < N + 1 => f[c] = VisitOf(f, g, c) /\ Keeps(f, c)
  BY <1>6 DEF good
<1>8. \A c \in Calls : f[c] = VisitOf(f, g, c) /\ Keeps(f, c)
  <2>1. \A x \in Nat : x <= N => x < N + 1
    BY <1>1
  <2> QED BY <1>2, <1>7, <2>1
<1> DEFINE h == [c \in Calls |-> f[c]]
<1>9. ASSUME NEW c \in Calls
      PROVE  h[c] = VisitOf(h, g, c)
  <2>1. \A d \in Calls : Keeps(f, d) /\ h[d] = f[d]
    BY <1>8
  <2> HIDE DEF h
  <2>2. VisitOf(h, g, c) = VisitOf(f, g, c)
    BY <2>1, VisitAgrees
  <2> QED BY <1>8, <2>1, <2>2
<1>10. h = [c \in Calls |-> h[c]]
  OBVIOUS
<1> HIDE DEF h
<1>11. h = [c \in Calls |-> VisitOf(h, g, c)]
  BY <1>9, <1>10
<1> QED BY <1>11 DEF IsVisit, Calls

Cyclic(g) == \E s \in g.nodes : s \in Upstream(g, s)

(* A service whose search is done has all it needs done, and is not one of  *)
(* its own dependencies.                                                    *)
Sound(g, m) ==
  \A s \in Services : m[s] = 2 =>
    /\ s \in g.nodes /\ s \notin Upstream(g, s)
    /\ \A b : Edge(g, s, b) => m[b] = 2

(* The services on the stack lead to v.                                     *)
Leads(g, m, v) == \A s \in Services : m[s] = 1 => s \in g.nodes /\ v \in Upstream(g, s)

(* A search leaves the stack as it was and what is done done.               *)
After(m, n) ==
  \A s \in Services : (m[s] = 2 => n[s] = 2) /\ (n[s] = 1 <=> m[s] = 1)

(* What a search made with marks m answers.                                 *)
Tells(g, m, r) ==
  IF r.found THEN Cyclic(g) ELSE Sound(g, r.marks) /\ After(m, r.marks)

(* What a call on a service of the graph that is not visited answers.       *)
Right(f, g, c) ==
  c[1] \in g.nodes /\ c[2][c[1]] = 0 /\ Sound(g, c[2]) /\ Leads(g, c[2], c[1]) =>
    /\ Tells(g, c[2], f[c])
    /\ ~ f[c].found => f[c].marks[c[1]] = 2

(* So do the services looked at in turn, and all of them are done.          *)
LEMMA LookAtTells ==
  ASSUME NEW g, IsGraph(g), NEW N \in Nat, NEW f, NEW marks \in Marks, NEW services \in Seq(g.nodes),
         Cardinality(White(marks)) <= N,
         \A c \in Calls : Cardinality(LeftBy(c)) < N => Keeps(f, c) /\ Right(f, g, c),
         Sound(g, marks), \A i \in 1..Len(services) : Leads(g, marks, services[i])
  PROVE  /\ Tells(g, marks, LookAt(f, marks, services))
         /\ ~ LookAt(f, marks, services).found =>
              \A i \in 1..Len(services) : LookAt(f, marks, services).marks[services[i]] = 2
<1> DEFINE n == Len(services)
           a == [found |-> FALSE, marks |-> marks]
<1>1. /\ n \in Nat /\ g.nodes \subseteq Services
      /\ \A i \in 1..n : services[i] \in Services /\ services[i] \in g.nodes
  BY GraphIs, LenProperties, ElementOfSeq
<1>2. PICK u : /\ LookAt(f, marks, services) = u[n] /\ u[0] = a
               /\ \A k \in 1..n : u[k] = Seen(f, u[k - 1], services[k])
  <2>1. Len(services) \in Nat
    BY <1>1
  <2>2. PICK u : Looks(u, f, marks, services)
    BY <2>1, LookAtIs
  <2> QED BY <2>2 DEF Looks
<1> DEFINE good == {k \in 0..n :
             /\ u[k] \in Outcome /\ White(u[k].marks) \subseteq White(marks)
             /\ Tells(g, marks, u[k])
             /\ ~ u[k].found => \A i \in 1..k : u[k].marks[services[i]] = 2}
<1>3. 0 \in good
  <2>1. a \in Outcome /\ a.marks = marks /\ ~ a.found
    BY DEF Outcome
  <2>2. After(marks, marks)
    BY DEF After
  <2> HIDE DEF a, n
  <2> QED BY <1>1, <1>2, <2>1, <2>2 DEF Tells
<1>4. ASSUME NEW k \in 1..n, k - 1 \in good
      PROVE  k \in good
  <2> DEFINE acc == u[k - 1]
             v == services[k]
             j == k - 1
  <2>1. /\ acc \in Outcome /\ White(acc.marks) \subseteq White(marks)
        /\ v \in Services /\ v \in g.nodes /\ k \in 0..n /\ u[k] = Seen(f, acc, v)
        /\ Tells(g, marks, acc) /\ Leads(g, marks, v)
        /\ ~ acc.found => \A i \in 1..j : acc.marks[services[i]] = 2
    BY <1>1, <1>2, <1>4
  <2>2. acc.found \in BOOLEAN /\ acc.marks \in Marks /\ acc.marks[v] \in 0..2
    BY <2>1 DEF Outcome, Marks
  <2>3. \A i \in 1..k : i \in 1..j \/ i = k
    BY <1>1
  <2>4. \A i \in 1..j : i \in 1..n
    BY <1>1
  <2> HIDE DEF acc, v, j
  <2>5. CASE acc.found
    <3>1. u[k] = acc
      BY <2>1, <2>5 DEF Seen
    <3> QED BY <2>1, <2>5, <3>1
  <2>6. CASE ~ acc.found /\ acc.marks[v] = 2
    <3>1. u[k] = acc
      BY <2>1, <2>6 DEF Seen
    <3>2. \A i \in 1..k : acc.marks[services[i]] = 2
      BY <2>1, <2>3, <2>6 DEF v
    <3> QED BY <2>1, <3>1, <3>2
  <2>7. CASE ~ acc.found /\ acc.marks[v] = 1
    <3>1. u[k] = [acc EXCEPT !.found = TRUE]
      BY <2>1, <2>7 DEF Seen
    <3>2. u[k] \in Outcome /\ u[k].marks = acc.marks /\ u[k].found
      BY <2>1, <3>1 DEF Outcome
    <3>3. marks[v] = 1
      BY <2>1, <2>7 DEF Tells, After
    <3>4. v \in Upstream(g, v)
      BY <2>1, <3>3 DEF Leads
    <3>5. Tells(g, marks, u[k])
      BY <2>1, <3>2, <3>4 DEF Tells, Cyclic
    <3> QED BY <2>1, <3>2, <3>5
  <2>8. CASE ~ acc.found /\ acc.marks[v] = 0
    <3> DEFINE c == <<v, acc.marks>>
    <3>1. u[k] = f[c]
      BY <2>1, <2>8 DEF Seen
    <3>2. /\ c \in Calls /\ Cardinality(White(acc.marks)) \in Nat
          /\ Cardinality(LeftBy(c)) \in Nat
          /\ Cardinality(LeftBy(c)) < Cardinality(White(acc.marks))
      BY <2>1, <2>2, <2>8, FewerAreLeft
    <3>3. /\ Cardinality(White(marks)) \in Nat
          /\ Cardinality(White(acc.marks)) <= Cardinality(White(marks))
      BY <2>1, WhiteIsFinite
    <3>4. Cardinality(LeftBy(c)) < N
      <4> HIDE DEF c
      <4> QED BY <3>2, <3>3
    <3>5. Keeps(f, c) /\ Right(f, g, c) /\ c[2] = acc.marks /\ c[1] = v
      BY <3>2, <3>4
    <3> HIDE DEF c
    <3>6. Sound(g, acc.marks) /\ After(marks, acc.marks)
      BY <2>1, <2>8 DEF Tells
    <3>7. Leads(g, acc.marks, v)
      BY <2>1, <3>6 DEF Leads, After
    <3>8. Tells(g, acc.marks, f[c]) /\ (~ f[c].found => f[c].marks[v] = 2)
      BY <2>1, <2>8, <3>5, <3>6, <3>7 DEF Right
    <3>9. Tells(g, marks, u[k])
      BY <3>1, <3>6, <3>8 DEF Tells, After
    <3>10. u[k] \in Outcome /\ White(u[k].marks) \subseteq White(marks)
      BY <2>1, <3>1, <3>5 DEF Keeps
    <3>11. ASSUME ~ u[k].found, NEW i \in 1..k
           PROVE  u[k].marks[services[i]] = 2
      <4>1. CASE i = k
        BY <3>1, <3>8, <3>11, <4>1 DEF v
      <4>2. CASE i # k
        <5>1. i \in 1..j /\ services[i] \in Services
          BY <1>1, <2>3, <2>4, <4>2
        <5>2. acc.marks[services[i]] = 2
          BY <2>1, <2>8, <5>1
        <5>3. After(acc.marks, u[k].marks)
          BY <3>1, <3>8, <3>11 DEF Tells
        <5> QED BY <5>1, <5>2, <5>3 DEF After
      <4> QED BY <4>1, <4>2
    <3> QED BY <2>1, <3>9, <3>10, <3>11
  <2> QED BY <2>2, <2>5, <2>6, <2>7, <2>8
<1> HIDE DEF good, n
<1>5. \A k \in 0..n : k \in good
  BY <1>1, <1>3, <1>4, UpToInduction
<1>6. n \in good
  BY <1>1, <1>5
<1> QED BY <1>2, <1>6 DEF good, n

(* A call that can rely on the calls it makes is right.                     *)
LEMMA VisitIsRight ==
  ASSUME NEW g, IsGraph(g), NEW f, NEW c \in Calls, f[c] = VisitOf(f, g, c),
         \A d \in Calls : Cardinality(LeftBy(d)) < Cardinality(LeftBy(c)) =>
            Keeps(f, d) /\ Right(f, g, d)
  PROVE  Keeps(f, c) /\ Right(f, g, c)
<1> DEFINE u == c[1]
           n == c[2]
           m == [n EXCEPT ![u] = 1]
           q == Sorted[GetDependencies(g, u)]
           r == LookAt(f, m, q)
           N == Cardinality(LeftBy(c))
<1>1. Keeps(f, c)
  <2>1. \A d \in Calls : Cardinality(LeftBy(d)) < Cardinality(LeftBy(c)) =>
            Keeps(f, d) /\ f[d] = f[d]
    OBVIOUS
  <2>2. VisitOf(f, g, c) \in Outcome /\ White(VisitOf(f, g, c).marks) \subseteq White(c[2])
    BY <2>1, VisitAgrees
  <2> QED BY <2>2 DEF Keeps
<1>2. /\ u \in Services /\ n \in Marks /\ m \in Marks /\ White(m) = LeftBy(c)
      /\ N \in Nat
  BY CallIs
<1>3. m[u] = 1 /\ \A s \in Services : s # u => m[s] = n[s]
  BY <1>2 DEF Marks
<1>4. /\ GetDependencies(g, u) \in SUBSET g.nodes /\ g.nodes \in SUBSET Services
      /\ \A b : b \in GetDependencies(g, u) <=> Edge(g, u, b)
  <2>1. GetDependencies(g, u) = {b \in g.nodes : Edge(g, u, b)} /\ g.nodes \in SUBSET Services
        /\ \A b : Edge(g, u, b) => b \in g.nodes
    BY GraphIs
  <2> QED BY <2>1
<1>5. /\ q \in Seq(g.nodes) /\ \A i \in 1..Len(q) : Edge(g, u, q[i])
      /\ \A b : Edge(g, u, b) => \E i \in 1..Len(q) : q[i] = b
  <2> DEFINE D == GetDependencies(g, u)
  <2>1. D \in SUBSET Services
    BY <1>4
  <2>2. /\ Sorted[D] \in Seq(D) /\ \A i \in 1..Len(Sorted[D]) : Sorted[D][i] \in D
        /\ \A s \in D : \E i \in 1..Len(Sorted[D]) : Sorted[D][i] = s
    BY <2>1, ListingIs
  <2> HIDE DEF D
  <2>3. Sorted[D] \in Seq(g.nodes)
    BY <1>4, <2>2, SeqMonotonic DEF D
  <2>4. \A b : b \in D <=> Edge(g, u, b)
    BY <1>4 DEF D
  <2>5. /\ \A i \in 1..Len(Sorted[D]) : Edge(g, u, Sorted[D][i])
        /\ \A b : Edge(g, u, b) => \E i \in 1..Len(Sorted[D]) : Sorted[D][i] = b
    BY <2>2, <2>4
  <2> QED BY <2>3, <2>5 DEF D
<1>6. f[c] = IF r.found THEN r ELSE [r EXCEPT !.marks = [@ EXCEPT ![u] = 2]]
  BY DEF VisitOf
<1> SUFFICES ASSUME u \in g.nodes, n[u] = 0, Sound(g, n), Leads(g, n, u)
             PROVE  /\ Tells(g, n, f[c])
                    /\ ~ f[c].found => f[c].marks[u] = 2
  BY <1>1 DEF Right
<1> HIDE DEF u, n, m, q
<1>7. Sound(g, m)
  <2> SUFFICES ASSUME NEW s \in Services, m[s] = 2
               PROVE  /\ s \in g.nodes /\ s \notin Upstream(g, s)
                      /\ \A b : Edge(g, s, b) => m[b] = 2
    BY DEF Sound
  <2>1. n[s] = 2
    BY <1>3
  <2>2. /\ s \in g.nodes /\ s \notin Upstream(g, s)
        /\ \A b : Edge(g, s, b) => n[b] = 2
    BY <2>1 DEF Sound
  <2>3. \A b : Edge(g, s, b) => b \in Services
    BY GraphIs
  <2> QED BY <1>3, <2>2, <2>3
<1>8. ASSUME NEW i \in 1..Len(q)
      PROVE  Leads(g, m, q[i])
  <2> DEFINE v == q[i]
  <2>1. Edge(g, u, v)
    BY <1>5
  <2> HIDE DEF v
  <2> SUFFICES ASSUME NEW s \in Services, m[s] = 1
               PROVE  s \in g.nodes /\ v \in Upstream(g, s)
    BY DEF Leads, v
  <2>2. CASE s = u
    <3>1. v \in Upstream(g, u)
      BY <2>1, UpstreamGoesOn
    <3> QED BY <2>2, <3>1
  <2>3. CASE s # u
    <3>1. n[s] = 1
      BY <1>3, <2>3
    <3>2. s \in g.nodes /\ u \in Upstream(g, s)
      BY <3>1 DEF Leads
    <3>3. v \in Upstream(g, s)
      BY <2>1, <3>2, UpstreamGoesOn
    <3> QED BY <3>2, <3>3
  <2> QED BY <2>2, <2>3
<1>9. /\ Tells(g, m, r) /\ r \in Outcome
      /\ ~ r.found => \A i \in 1..Len(q) : r.marks[q[i]] = 2
  <2>1. Cardinality(White(m)) <= N
    BY <1>2
  <2> HIDE DEF N
  <2>2. \A d \in Calls : Cardinality(LeftBy(d)) < N => Keeps(f, d) /\ Right(f, g, d)
    BY DEF N
  <2>3. Tells(g, m, r) /\ (~ r.found => \A i \in 1..Len(q) : r.marks[q[i]] = 2)
    BY <1>2, <1>5, <1>7, <1>8, <2>1, <2>2, LookAtTells
  <2>4. q \in Seq(Services)
    BY <1>4, <1>5, SeqMonotonic
  <2>5. r \in Outcome
    <3>1. \A d \in Calls : Cardinality(LeftBy(d)) < N => Keeps(f, d) /\ f[d] = f[d]
      BY <2>2
    <3> QED BY <1>2, <2>1, <2>4, <3>1, LookAtAgrees
  <2> QED BY <2>3, <2>5
<1> HIDE DEF r
<1>10. CASE r.found
  <2>1. f[c] = r
    BY <1>6, <1>10
  <2> QED BY <1>9, <1>10, <2>1 DEF Tells
<1>11. CASE ~ r.found
  <2> DEFINE e == [r EXCEPT !.marks = [@ EXCEPT ![u] = 2]]
             k == r.marks
             M == [k EXCEPT ![u] = 2]
  <2>1. k \in Marks /\ e.marks = M /\ e.found = r.found
    BY <1>2, <1>9 DEF Outcome, Marks
  <2>2. M[u] = 2 /\ \A s \in Services : s # u => M[s] = k[s]
    BY <1>2, <2>1 DEF Marks
  <2>3. f[c] = e
    BY <1>6, <1>11
  <2>4. Sound(g, k) /\ After(m, k) /\ \A i \in 1..Len(q) : k[q[i]] = 2
    BY <1>9, <1>11 DEF Tells
  <2> HIDE DEF M, e, k
  <2>5. k[u] = 1
    BY <1>2, <1>3, <2>4 DEF After
  <2>6. \A b : Edge(g, u, b) => k[b] = 2
    BY <1>5, <2>4
  <2>7. u \notin Upstream(g, u)
    <3> DEFINE S == {b \in Services : k[b] = 2}
    <3>1. \A a, b : Edge(g, a, b) => b \in Services
      BY GraphIs
    <3>2. \A b : Edge(g, u, b) => b \in S
      BY <2>6, <3>1
    <3>3. \A a \in S : \A b : Edge(g, a, b) => b \in S
      BY <2>4, <3>1 DEF Sound
    <3>4. u \notin S
      BY <2>5
    <3> HIDE DEF S
    <3>5. Upstream(g, u) \subseteq S
      BY <3>2, <3>3, UpstreamIsLeast
    <3> QED BY <3>4, <3>5
  <2>8. \A b \in Services : k[b] = 2 => M[b] = 2
    BY <2>2
  <2>9. \A s, b : Edge(g, s, b) => b \in Services
    BY GraphIs
  <2>10. Sound(g, M)
    <3> SUFFICES ASSUME NEW s \in Services, M[s] = 2
                 PROVE  /\ s \in g.nodes /\ s \notin Upstream(g, s)
                        /\ \A b : Edge(g, s, b) => M[b] = 2
      BY DEF Sound
    <3>1. CASE s = u
      BY <2>6, <2>7, <2>8, <2>9, <3>1
    <3>2. CASE s # u
      <4>1. k[s] = 2
        BY <2>2, <3>2
      <4>2. /\ s \in g.nodes /\ s \notin Upstream(g, s)
            /\ \A b : Edge(g, s, b) => k[b] = 2
        BY <2>4, <4>1 DEF Sound
      <4> QED BY <2>8, <2>9, <4>2
    <3> QED BY <3>1, <3>2
  <2>11. After(n, M)
    <3> SUFFICES ASSUME NEW s \in Services
                 PROVE  (n[s] = 2 => M[s] = 2) /\ (M[s] = 1 <=> n[s] = 1)
      BY DEF After
    <3>1. CASE s = u
      BY <2>2, <3>1
    <3>2. CASE s # u
      <4>1. M[s] = k[s] /\ m[s] = n[s]
        BY <1>3, <2>2, <3>2
      <4> QED BY <2>4, <4>1 DEF After
    <3> QED BY <3>1, <3>2
  <2> QED BY <1>11, <2>1, <2>2, <2>3, <2>10, <2>11 DEF Tells
<1> QED BY <1>10, <1>11

(* has_cycle says whether a service is upstream of itself.                  *)
LEMMA HasCycleIsExact ==
  ASSUME NEW g, IsGraph(g)
  PROVE  HasCycle(g) <=> Cyclic(g)
<1> DEFINE f == CHOOSE f : f = [call \in Services \X Marks |->
                   LET u == call[1]
                       end == LookAt(f, [call[2] EXCEPT ![u] = 1], Sorted[GetDependencies(g, u)])
                   IN IF end.found THEN end ELSE [end EXCEPT !.marks = [@ EXCEPT ![u] = 2]]]
           r == LookAt(f, Unvisited, Sorted[g.nodes])
           N == Cardinality(Services)
<1>1. HasCycle(g) <=> r.found
  BY DEF HasCycle
<1>2. \E h : IsVisit(h, g)
  BY VisitExists
<1>3. IsVisit(f, g)
  BY <1>2 DEF IsVisit, VisitOf
<1> HIDE DEF f
<1>4. \A c \in Calls : f[c] = VisitOf(f, g, c)
  BY <1>3 DEF IsVisit, Calls
<1>5. N \in Nat
  BY ServicesAreFinite, FS_CardinalityType
<1>6. \A c \in Calls : Cardinality(LeftBy(c)) \in Nat /\ Cardinality(LeftBy(c)) <= N
  BY CallIs
<1> DEFINE good == {k \in 0..(N + 1) : \A c \in Calls :
                      Cardinality(LeftBy(c)) < k => Keeps(f, c) /\ Right(f, g, c)}
<1> HIDE DEF N
<1>7. 0 \in good
  <2>1. \A c \in Calls : ~ (Cardinality(LeftBy(c)) < 0)
    BY <1>6
  <2> QED BY <1>5, <2>1
<1>8. ASSUME NEW k \in 1..(N + 1), k - 1 \in good
      PROVE  k \in good
  <2>1. ASSUME NEW c \in Calls, Cardinality(LeftBy(c)) < k
        PROVE  Keeps(f, c) /\ Right(f, g, c)
    <3>1. ASSUME NEW d \in Calls, Cardinality(LeftBy(d)) < Cardinality(LeftBy(c))
          PROVE  Keeps(f, d) /\ Right(f, g, d)
      <4>1. \A x, y \in Nat : x < y /\ y < k => x < k - 1
        BY <1>5
      <4>2. Cardinality(LeftBy(d)) < k - 1
        BY <1>6, <2>1, <3>1, <4>1
      <4> QED BY <1>8, <4>2
    <3> QED BY <1>4, <3>1, VisitIsRight
  <2>2. k \in 0..(N + 1)
    BY <1>5
  <2> QED BY <2>1, <2>2
<1> HIDE DEF good
<1>9. \A k \in 0..(N + 1) : k \in good
  BY <1>5, <1>7, <1>8, UpToInduction
<1>10. N + 1 \in good
  BY <1>5, <1>9
<1>11. \A c \in Calls : Cardinality(LeftBy(c)) < N + 1 => Keeps(f, c) /\ Right(f, g, c)
  BY <1>10 DEF good
<1>12. /\ Unvisited \in Marks /\ N + 1 \in Nat /\ Cardinality(White(Unvisited)) <= N + 1
       /\ \A s \in Services : Unvisited[s] = 0
  <2>1. Cardinality(White(Unvisited)) \in Nat /\ Cardinality(White(Unvisited)) <= N
    BY WhiteIsFinite DEF N
  <2>2. Unvisited \in Marks /\ \A s \in Services : Unvisited[s] = 0
    BY DEF Unvisited, Marks
  <2>3. \A x \in Nat : x <= N => x <= N + 1
    BY <1>5
  <2> QED BY <1>5, <2>1, <2>2, <2>3
<1>13. Sound(g, Unvisited) /\ \A v : Leads(g, Unvisited, v)
  BY <1>12 DEF Sound, Leads
<1>14. /\ g.nodes \in SUBSET Services /\ Sorted[g.nodes] \in Seq(g.nodes)
       /\ \A s \in g.nodes : \E i \in 1..Len(Sorted[g.nodes]) : Sorted[g.nodes][i] = s
  BY GraphIs, ListingIs
<1>15. /\ Tells(g, Unvisited, r)
       /\ ~ r.found => \A i \in 1..Len(Sorted[g.nodes]) : r.marks[Sorted[g.nodes][i]] = 2
  <2> DEFINE K == N + 1
             q == Sorted[g.nodes]
             m == Unvisited
  <2>1. /\ K \in Nat /\ m \in Marks /\ q \in Seq(g.nodes) /\ Cardinality(White(m)) <= K
        /\ \A c \in Calls : Cardinality(LeftBy(c)) < K => Keeps(f, c) /\ Right(f, g, c)
        /\ Sound(g, m) /\ \A i \in 1..Len(q) : Leads(g, m, q[i])
    BY <1>11, <1>12, <1>13, <1>14
  <2> HIDE DEF K, q, m
  <2>2. /\ Tells(g, m, LookAt(f, m, q))
        /\ ~ LookAt(f, m, q).found => \A i \in 1..Len(q) : LookAt(f, m, q).marks[q[i]] = 2
    BY <2>1, LookAtTells
  <2> QED BY <2>2 DEF q, m
<1> HIDE DEF r
<1>16. CASE r.found
  BY <1>1, <1>15, <1>16 DEF Tells
<1>17. CASE ~ r.found
  <2>1. \A s \in g.nodes : r.marks[s] = 2 /\ s \in Services
    BY <1>14, <1>15, <1>17
  <2>2. Sound(g, r.marks)
    BY <1>15, <1>17 DEF Tells
  <2>3. \A s \in g.nodes : s \notin Upstream(g, s)
    BY <2>1, <2>2 DEF Sound
  <2> QED BY <1>1, <1>17, <2>3 DEF Cyclic
<1> QED BY <1>16, <1>17

(* A service and what is upstream of it.                                    *)
Reach(g, s) == {s} \union Upstream(g, s)

(* These are the services that paths lead to.                               *)
LEMMA ReachIs ==
  ASSUME NEW g, IsGraph(g), NEW s \in g.nodes
  PROVE  \A b : b \in Reach(g, s) <=> \E p : IsPath(g, p) /\ p[1] = s /\ p[Len(p)] = b
<1>1. ASSUME NEW b, b \in Reach(g, s)
      PROVE  \E p : IsPath(g, p) /\ p[1] = s /\ p[Len(p)] = b
  <2>1. CASE b = s
    BY <2>1, OneIsPath
  <2>2. CASE b # s
    <3>1. b \in Upstream(g, s)
      BY <1>1, <2>2 DEF Reach
    <3>2. PICK p : IsPath(g, p) /\ p[1] = s /\ Edge(g, p[Len(p)], b)
      BY <3>1, UpstreamIs
    <3>3. Len(p) \in Nat \ {0}
      BY <3>2 DEF IsPath
    <3>4. CASE \E i \in 1..Len(p) : p[i] = b
      <4>1. PICK i \in 1..Len(p) : p[i] = b
        BY <3>4
      <4>2. /\ IsPath(g, SubSeq(p, 1, i)) /\ Len(SubSeq(p, 1, i)) = i
            /\ \A j \in 1..i : SubSeq(p, 1, i)[j] = p[j]
        BY <3>2, PathBegins
      <4>3. 1 \in 1..i /\ i \in 1..i
        BY <3>3
      <4> QED BY <3>2, <4>1, <4>2, <4>3
    <3>5. CASE \A i \in 1..Len(p) : p[i] # b
      <4>1. /\ IsPath(g, Append(p, b)) /\ Len(Append(p, b)) = Len(p) + 1
            /\ Append(p, b)[Len(p) + 1] = b
            /\ \A i \in 1..Len(p) : Append(p, b)[i] = p[i]
        BY <3>2, <3>5, PathGrows
      <4>2. 1 \in 1..Len(p)
        BY <3>3
      <4> QED BY <3>2, <4>1, <4>2
    <3> QED BY <3>4, <3>5
  <2> QED BY <2>1, <2>2
<1>2. ASSUME NEW p, IsPath(g, p), p[1] = s
      PROVE  p[Len(p)] \in Reach(g, s)
  <2>1. Len(p) \in Nat \ {0} /\ \A i \in 1..(Len(p) - 1) : Edge(g, p[i], p[i + 1])
    BY <1>2 DEF IsPath
  <2>2. CASE Len(p) = 1
    BY <1>2, <2>2 DEF Reach
  <2>3. CASE Len(p) # 1
    <3> DEFINE k == Len(p) - 1
               q == SubSeq(p, 1, k)
    <3>1. k \in 1..Len(p) /\ k \in 1..(Len(p) - 1) /\ k + 1 = Len(p) /\ 1 \in 1..k /\ k \in 1..k
      <4>1. \A x \in Nat \ {0} : x # 1 =>
              /\ x - 1 \in 1..x /\ x - 1 \in 1..(x - 1) /\ x - 1 + 1 = x /\ 1 \in 1..(x - 1)
        OBVIOUS
      <4> QED BY <2>1, <2>3, <4>1
    <3>2. IsPath(g, q) /\ Len(q) = k /\ \A j \in 1..k : q[j] = p[j]
      BY <1>2, <3>1, PathBegins
    <3> HIDE DEF k, q
    <3>3. q[1] = s /\ Edge(g, q[Len(q)], p[Len(p)])
      BY <1>2, <2>1, <3>1, <3>2
    <3>4. p[Len(p)] \in Upstream(g, s)
      BY <3>2, <3>3, UpstreamIs
    <3> QED BY <3>4 DEF Reach
  <2> QED BY <2>2, <2>3
<1> QED BY <1>1, <1>2

(* The distance is the length of a shortest path.                           *)
LEMMA HopsAre ==
  ASSUME NEW g, IsGraph(g), NEW s \in g.nodes, NEW b \in Reach(g, s)
  PROVE  /\ Hops(g, s, b) \in Nat
         /\ \E p : IsPath(g, p) /\ p[1] = s /\ p[Len(p)] = b /\ Len(p) = Hops(g, s, b)
         /\ \A p : IsPath(g, p) /\ p[1] = s /\ p[Len(p)] = b => Hops(g, s, b) <= Len(p)
<1> DEFINE I == {Len(p) : p \in {q \in SimplePaths(g) : q[1] = s /\ q[Len(q)] = b}}
<1>1. \A p : p \in SimplePaths(g) <=> IsPath(g, p)
  BY PathsAre, PathsAreShort
<1>2. \A x : x \in I <=> \E p : IsPath(g, p) /\ p[1] = s /\ p[Len(p)] = b /\ Len(p) = x
  BY <1>1
<1>3. Hops(g, s, b) = Min(I)
  BY DEF Hops, Last
<1>4. PICK p : IsPath(g, p) /\ p[1] = s /\ p[Len(p)] = b
  BY ReachIs
<1>5. \A x \in I : x \in Nat
  BY <1>2 DEF IsPath
<1> HIDE DEF I
<1>6. I \in SUBSET Nat /\ I # {}
  BY <1>2, <1>4, <1>5
<1>7. Min(I) \in I /\ \A x \in I : Min(I) <= x
  BY <1>6, LeastIs
<1> QED BY <1>2, <1>3, <1>6, <1>7

(* A dependency is one further at most, and every service but the first is  *)
(* a dependency of a nearer one.                                            *)
LEMMA HopsGrow ==
  ASSUME NEW g, IsGraph(g), NEW s \in g.nodes
  PROVE  /\ \A b \in Reach(g, s) : Hops(g, s, b) \in Nat
         /\ \A a \in Reach(g, s) : \A b : Edge(g, a, b) =>
              b \in Reach(g, s) /\ Hops(g, s, b) <= Hops(g, s, a) + 1
         /\ \A b \in Reach(g, s) : b # s =>
              \E a \in Reach(g, s) : Edge(g, a, b) /\ Hops(g, s, a) < Hops(g, s, b)
<1>1. \A b \in Reach(g, s) : Hops(g, s, b) \in Nat
  BY HopsAre
<1>2. ASSUME NEW a \in Reach(g, s), NEW b, Edge(g, a, b)
      PROVE  b \in Reach(g, s) /\ Hops(g, s, b) <= Hops(g, s, a) + 1
  <2>1. b \in Reach(g, s)
    BY <1>2, UpstreamGoesOn DEF Reach
  <2>2. PICK p : IsPath(g, p) /\ p[1] = s /\ p[Len(p)] = a /\ Len(p) = Hops(g, s, a)
    BY HopsAre
  <2>3. Len(p) \in Nat \ {0}
    BY <2>2 DEF IsPath
  <2>4. CASE \E i \in 1..Len(p) : p[i] = b
    <3>1. PICK i \in 1..Len(p) : p[i] = b
      BY <2>4
    <3>2. /\ IsPath(g, SubSeq(p, 1, i)) /\ Len(SubSeq(p, 1, i)) = i
          /\ \A j \in 1..i : SubSeq(p, 1, i)[j] = p[j]
      BY <2>2, PathBegins
    <3>3. 1 \in 1..i /\ i \in 1..i /\ i <= Len(p) + 1
      BY <2>3
    <3>4. Hops(g, s, b) <= i
      <4>1. PICK q : IsPath(g, q) /\ q[1] = s /\ q[Len(q)] = b /\ Len(q) = i
        BY <2>2, <3>1, <3>2, <3>3
      <4>2. Hops(g, s, b) <= Len(q)
        BY <2>1, <4>1, HopsAre
      <4> QED BY <4>1, <4>2
    <3>5. \A x, y, z \in Nat : x <= y /\ y <= z => x <= z
      OBVIOUS
    <3> QED BY <1>1, <2>1, <2>2, <2>3, <3>3, <3>4
  <2>5. CASE \A i \in 1..Len(p) : p[i] # b
    <3>1. p[Len(p)] = a
      BY <2>2
    <3>2. /\ IsPath(g, Append(p, b)) /\ Len(Append(p, b)) = Len(p) + 1
          /\ Append(p, b)[Len(p) + 1] = b
          /\ \A i \in 1..Len(p) : Append(p, b)[i] = p[i]
      BY <1>2, <2>2, <2>5, PathGrows
    <3>3. 1 \in 1..Len(p)
      BY <2>3
    <3>4. PICK q : IsPath(g, q) /\ q[1] = s /\ q[Len(q)] = b /\ Len(q) = Len(p) + 1
      BY <2>2, <3>2, <3>3
    <3>5. Hops(g, s, b) <= Len(q)
      BY <2>1, <3>4, HopsAre
    <3> QED BY <2>1, <2>2, <3>4, <3>5
  <2> QED BY <2>1, <2>4, <2>5
<1>3. ASSUME NEW b \in Reach(g, s), b # s
      PROVE  \E a \in Reach(g, s) : Edge(g, a, b) /\ Hops(g, s, a) < Hops(g, s, b)
  <2>1. PICK p : IsPath(g, p) /\ p[1] = s /\ p[Len(p)] = b /\ Len(p) = Hops(g, s, b)
    BY HopsAre
  <2>2. Len(p) \in Nat \ {0} /\ \A i \in 1..(Len(p) - 1) : Edge(g, p[i], p[i + 1])
    BY <2>1 DEF IsPath
  <2>3. Len(p) # 1
    BY <1>3, <2>1
  <2> DEFINE k == Len(p) - 1
             q == SubSeq(p, 1, k)
             a == p[k]
  <2>4. k \in 1..Len(p) /\ k \in 1..(Len(p) - 1) /\ k + 1 = Len(p) /\ 1 \in 1..k /\ k \in 1..k
        /\ k \in Nat /\ k < Len(p)
    <3>1. \A x \in Nat \ {0} : x # 1 =>
            /\ x - 1 \in 1..x /\ x - 1 \in 1..(x - 1) /\ x - 1 + 1 = x /\ 1 \in 1..(x - 1)
            /\ x - 1 \in Nat /\ x - 1 < x
      OBVIOUS
    <3> QED BY <2>2, <2>3, <3>1
  <2>5. IsPath(g, q) /\ Len(q) = k /\ \A j \in 1..k : q[j] = p[j]
    BY <2>1, <2>4, PathBegins
  <2> HIDE DEF k, q
  <2>6. q[1] = s /\ q[Len(q)] = a /\ Edge(g, a, b)
    BY <2>1, <2>2, <2>4, <2>5
  <2>7. a \in Reach(g, s)
    BY <2>5, <2>6, ReachIs
  <2>8. Hops(g, s, a) <= k
    BY <2>5, <2>6, <2>7, HopsAre
  <2>9. Hops(g, s, a) \in Nat
    BY <1>1, <2>7
  <2>10. Hops(g, s, a) < Hops(g, s, b)
    BY <2>1, <2>2, <2>4, <2>8, <2>9
  <2> QED BY <2>6, <2>7, <2>10
<1> QED BY <1>1, <1>2, <1>3

(* The n services met so far, the first k of them expanded, are reached,    *)
(* nearest first, and none is more than one further than one not expanded.  *)
Explored(g, s, k, q, n) ==
  /\ n \in Nat /\ 1 <= n /\ q[1] = s
  /\ \A i \in 1..n : q[i] \in Reach(g, s)
  /\ \A i, j \in 1..n : q[i] = q[j] => i = j
  /\ \A i \in 1..n : i <= k => \A b : Edge(g, q[i], b) => \E j \in 1..n : q[j] = b
  /\ \A i, j \in 1..n : i <= j => Hops(g, s, q[i]) <= Hops(g, s, q[j])
  /\ \A i, j \in 1..n : k <= i => Hops(g, s, q[j]) <= Hops(g, s, q[i]) + 1

(* Whatever is no further than the next to expand has been met.             *)
LEMMA NearOnesAreMet ==
  ASSUME NEW g, IsGraph(g), NEW s \in g.nodes, NEW k \in Nat \ {0}, NEW q, NEW n,
         Explored(g, s, k - 1, q, n), k <= n,
         NEW b \in Reach(g, s), Hops(g, s, b) <= Hops(g, s, q[k])
  PROVE  \E i \in 1..n : q[i] = b
<1> DEFINE far == {c \in Reach(g, s) : Hops(g, s, c) <= Hops(g, s, q[k]) /\ \A i \in 1..n : q[i] # c}
           I == {Hops(g, s, c) : c \in far}
<1> SUFFICES ASSUME far # {}
             PROVE  FALSE
  OBVIOUS
<1>1. /\ n \in Nat /\ 1 <= n /\ q[1] = s /\ k \in 1..n
      /\ \A i \in 1..n : q[i] \in Reach(g, s)
      /\ \A i \in 1..n : i <= k - 1 => \A c : Edge(g, q[i], c) => \E j \in 1..n : q[j] = c
      /\ \A i, j \in 1..n : i <= j => Hops(g, s, q[i]) <= Hops(g, s, q[j])
  BY DEF Explored
<1>2. /\ \A c \in Reach(g, s) : Hops(g, s, c) \in Nat
      /\ \A c \in Reach(g, s) : c # s =>
           \E a \in Reach(g, s) : Edge(g, a, c) /\ Hops(g, s, a) < Hops(g, s, c)
  BY HopsGrow
<1>3. I \in SUBSET Nat /\ I # {}
  BY <1>2
<1>4. Min(I) \in I /\ \A x \in I : Min(I) <= x
  <2> HIDE DEF I
  <2> QED BY <1>3, LeastIs
<1>5. PICK c \in far : \A d \in far : Hops(g, s, c) <= Hops(g, s, d)
  <2> HIDE DEF far
  <2> QED BY <1>4
<1>6. /\ c \in Reach(g, s) /\ Hops(g, s, c) <= Hops(g, s, q[k]) /\ \A i \in 1..n : q[i] # c
  BY <1>5
<1>7. c # s
  BY <1>1, <1>6
<1>8. PICK a \in Reach(g, s) : Edge(g, a, c) /\ Hops(g, s, a) < Hops(g, s, c)
  BY <1>2, <1>6, <1>7
<1>9. /\ Hops(g, s, a) \in Nat /\ Hops(g, s, c) \in Nat /\ Hops(g, s, q[k]) \in Nat
  BY <1>1, <1>2, <1>6
<1>10. Hops(g, s, a) <= Hops(g, s, q[k]) /\ ~ (Hops(g, s, c) <= Hops(g, s, a))
       /\ Hops(g, s, a) < Hops(g, s, q[k])
  BY <1>6, <1>8, <1>9
<1>11. a \notin far
  BY <1>5, <1>10
<1>12. PICK i \in 1..n : q[i] = a
  BY <1>10, <1>11
<1>13. i <= k - 1
  <2>1. ~ (k <= i)
    BY <1>1, <1>9, <1>10, <1>12
  <2> QED BY <1>1, <2>1
<1>14. \E j \in 1..n : q[j] = c
  BY <1>1, <1>8, <1>12, <1>13
<1> QED BY <1>6, <1>14

(* The m services of t are what the k-th of q needs beyond the n of q, and   *)
(* come after these in r.                                                   *)
Joins(g, k, q, n, t, m, r) ==
  /\ \A i \in 1..m : Edge(g, q[k], t[i]) /\ \A j \in 1..n : q[j] # t[i]
  /\ \A i, j \in 1..m : t[i] = t[j] => i = j
  /\ \A b : Edge(g, q[k], b) => (\E j \in 1..n : q[j] = b) \/ \E i \in 1..m : t[i] = b
  /\ \A i \in 1..n : r[i] = q[i]
  /\ \A i \in 1..m : r[n + i] = t[i]

(* Expanding one service more.                                              *)
LEMMA ExploredGoesOn ==
  ASSUME NEW g, IsGraph(g), NEW s \in g.nodes, NEW k \in Nat \ {0}, NEW q, NEW n,
         Explored(g, s, k - 1, q, n), k <= n,
         NEW t, NEW m \in Nat, NEW r, Joins(g, k, q, n, t, m, r)
  PROVE  Explored(g, s, k, r, n + m)
<1> DEFINE h(b) == Hops(g, s, b)
<1>0. /\ \A i \in 1..m : Edge(g, q[k], t[i]) /\ \A j \in 1..n : q[j] # t[i]
      /\ \A i, j \in 1..m : t[i] = t[j] => i = j
      /\ \A b : Edge(g, q[k], b) => (\E j \in 1..n : q[j] = b) \/ \E i \in 1..m : t[i] = b
      /\ \A i \in 1..n : r[i] = q[i]
      /\ \A i \in 1..m : r[n + i] = t[i]
  BY DEF Joins
<1>1. /\ n \in Nat /\ 1 <= n /\ q[1] = s /\ k \in 1..n
      /\ \A i \in 1..n : q[i] \in Reach(g, s)
      /\ \A i, j \in 1..n : q[i] = q[j] => i = j
      /\ \A i \in 1..n : i <= k - 1 => \A c : Edge(g, q[i], c) => \E j \in 1..n : q[j] = c
      /\ \A i, j \in 1..n : i <= j => h(q[i]) <= h(q[j])
      /\ \A i, j \in 1..n : k - 1 <= i => h(q[j]) <= h(q[i]) + 1
  BY DEF Explored
<1>2. /\ \A b \in Reach(g, s) : h(b) \in Nat
      /\ \A a \in Reach(g, s) : \A b : Edge(g, a, b) => b \in Reach(g, s) /\ h(b) <= h(a) + 1
  BY HopsGrow
<1> DEFINE x == h(q[k])
<1>3. x \in Nat
  BY <1>1, <1>2
<1>4. ASSUME NEW i \in 1..m
      PROVE  t[i] \in Reach(g, s) /\ h(t[i]) = x + 1
  <2>1. t[i] \in Reach(g, s) /\ h(t[i]) <= x + 1 /\ h(t[i]) \in Nat
    BY <1>0, <1>1, <1>2
  <2>2. ~ (h(t[i]) <= x)
    <3>1. ASSUME h(t[i]) <= x
          PROVE  FALSE
      BY <1>0, <2>1, <3>1, NearOnesAreMet
    <3> QED BY <3>1
  <2> HIDE DEF x, h
  <2> QED BY <1>3, <2>1, <2>2
<1> HIDE DEF h, x
<1>5. ASSUME NEW i \in 1..(n + m)
      PROVE  \/ i \in 1..n /\ r[i] = q[i]
             \/ i - n \in 1..m /\ r[i] = t[i - n] /\ ~ (i <= n)
  <2>1. CASE i <= n
    <3>1. i \in 1..n
      BY <2>1
    <3> QED BY <1>0, <3>1
  <2>2. CASE ~ (i <= n)
    <3>1. i - n \in 1..m /\ n + (i - n) = i
      BY <1>1, <2>2
    <3> QED BY <1>0, <2>2, <3>1
  <2> QED BY <2>1, <2>2
<1>6. \A i \in 1..n : i \in 1..(n + m)
  BY <1>1
<1>7. \A i \in 1..m : n + i \in 1..(n + m)
  BY <1>1
<1>8. \A i \in 1..(n + m) : r[i] \in Reach(g, s) /\ h(r[i]) \in Nat
  BY <1>1, <1>2, <1>4, <1>5
<1>9. \A i \in 1..n, j \in 1..m : q[i] # t[j]
  BY <1>0
<1>10. \A i, j \in 1..(n + m) : r[i] = r[j] => i = j
  <2> SUFFICES ASSUME NEW i \in 1..(n + m), NEW j \in 1..(n + m), r[i] = r[j]
               PROVE  i = j
    OBVIOUS
  <2>1. CASE i \in 1..n /\ r[i] = q[i]
    <3>1. CASE j \in 1..n /\ r[j] = q[j]
      BY <1>1, <2>1, <3>1
    <3>2. CASE j - n \in 1..m /\ r[j] = t[j - n]
      BY <1>9, <2>1, <3>2
    <3> QED BY <1>5, <3>1, <3>2
  <2>2. CASE i - n \in 1..m /\ r[i] = t[i - n]
    <3>1. CASE j \in 1..n /\ r[j] = q[j]
      BY <1>9, <2>2, <3>1
    <3>2. CASE j - n \in 1..m /\ r[j] = t[j - n]
      <4>1. i - n = j - n
        BY <1>0, <2>2, <3>2
      <4> QED BY <1>1, <4>1
    <3> QED BY <1>5, <3>1, <3>2
  <2> QED BY <1>5, <2>1, <2>2
<1>11. ASSUME NEW i \in 1..(n + m), i <= k, NEW b, Edge(g, r[i], b)
       PROVE  \E j \in 1..(n + m) : r[j] = b
  <2>1. i \in 1..n /\ r[i] = q[i] /\ (i = k \/ i <= k - 1)
    BY <1>1, <1>5, <1>11
  <2>2. (\E j \in 1..n : q[j] = b) \/ \E j \in 1..m : t[j] = b
    BY <1>0, <1>1, <1>11, <2>1
  <2>3. CASE \E j \in 1..n : q[j] = b
    BY <1>0, <1>6, <2>3
  <2>4. CASE \E j \in 1..m : t[j] = b
    BY <1>0, <1>7, <2>4
  <2> QED BY <2>2, <2>3, <2>4
<1>12. ASSUME NEW j \in 1..n
       PROVE  h(q[j]) <= x + 1 /\ h(q[j]) \in Nat /\ (k <= j => x <= h(q[j]))
  <2>1. k - 1 <= k
    BY <1>1
  <2> QED BY <1>1, <1>2, <2>1 DEF x
<1>13. \A i, j \in 1..(n + m) : i <= j => h(r[i]) <= h(r[j])
  <2> SUFFICES ASSUME NEW i \in 1..(n + m), NEW j \in 1..(n + m), i <= j
               PROVE  h(r[i]) <= h(r[j])
    OBVIOUS
  <2>1. CASE j \in 1..n /\ r[j] = q[j]
    <3>1. i \in 1..n /\ r[i] = q[i]
      BY <1>1, <1>5, <2>1
    <3> QED BY <1>1, <2>1, <3>1
  <2>2. CASE j - n \in 1..m /\ r[j] = t[j - n]
    <3>1. h(r[j]) = x + 1
      BY <1>4, <2>2
    <3>2. CASE i \in 1..n /\ r[i] = q[i]
      BY <1>12, <3>1, <3>2
    <3>3. CASE i - n \in 1..m /\ r[i] = t[i - n]
      BY <1>3, <1>4, <3>1, <3>3
    <3> QED BY <1>5, <3>2, <3>3
  <2> QED BY <1>5, <2>1, <2>2
<1>14. \A i, j \in 1..(n + m) : k <= i => h(r[j]) <= h(r[i]) + 1
  <2> SUFFICES ASSUME NEW i \in 1..(n + m), NEW j \in 1..(n + m), k <= i
               PROVE  h(r[j]) <= h(r[i]) + 1
    OBVIOUS
  <2>1. h(r[j]) <= x + 1 /\ h(r[j]) \in Nat
    <3>1. CASE j \in 1..n /\ r[j] = q[j]
      BY <1>12, <3>1
    <3>2. CASE j - n \in 1..m /\ r[j] = t[j - n]
      BY <1>3, <1>4, <3>2
    <3> QED BY <1>5, <3>1, <3>2
  <2>2. x <= h(r[i]) /\ h(r[i]) \in Nat
    <3>1. CASE i \in 1..n /\ r[i] = q[i]
      BY <1>12, <3>1
    <3>2. CASE i - n \in 1..m /\ r[i] = t[i - n]
      BY <1>3, <1>4, <3>2
    <3> QED BY <1>5, <3>1, <3>2
  <2>3. \A a, b, c \in Nat : a <= c + 1 /\ c <= b => a <= b + 1
    OBVIOUS
  <2> QED BY <1>3, <2>1, <2>2, <2>3
<1>15. n + m \in Nat /\ 1 <= n + m /\ r[1] = s
  <2>1. 1 \in 1..n /\ n + m \in Nat /\ 1 <= n + m
    BY <1>1
  <2> QED BY <1>0, <1>1, <2>1
<1> QED BY <1>8, <1>10, <1>11, <1>13, <1>14, <1>15 DEF Explored, h

(* What the k-th service to leave the queue adds.                           *)
More(g, node, result, k) ==
  LET current == IF k = 1 THEN node ELSE result[k - 1]
  IN IF k - 1 > Len(result) THEN result
     ELSE result \o Sorted[GetDependencies(g, current) \ (ToSet(result) \union {node})]

IsFinding(u, g, node, N) ==
  u = [k \in 0..N |-> IF k = 0 THEN <<>> ELSE More(g, node, u[k - 1], k)]

(* The recursion through the queue has a solution.                          *)
LEMMA FindingExists ==
  ASSUME NEW g, NEW node, NEW N \in Nat
  PROVE  \E u : IsFinding(u, g, node, N)
<1> DEFINE S == {n \in 0..N : \E u : IsFinding(u, g, node, n)}
<1>1. 0 \in S
  <2>1. IsFinding([k \in 0..0 |-> <<>>], g, node, 0)
    BY DEF IsFinding
  <2> QED BY <2>1
<1>2. ASSUME NEW n \in 1..N, n - 1 \in S
      PROVE  n \in S
  <2>1. PICK u : IsFinding(u, g, node, n - 1)
    BY <1>2
  <2> DEFINE v == [k \in 0..n |-> IF k = n THEN More(g, node, u[n - 1], n) ELSE u[k]]
  <2>2. \A k \in 0..(n - 1) : u[k] = IF k = 0 THEN <<>> ELSE More(g, node, u[k - 1], k)
    BY <2>1 DEF IsFinding
  <2>3. /\ v = [k \in 0..n |-> v[k]] /\ v[n] = More(g, node, u[n - 1], n)
        /\ \A k \in 0..(n - 1) : v[k] = u[k]
    OBVIOUS
  <2> HIDE DEF v
  <2>4. \A k \in 0..n : v[k] = IF k = 0 THEN <<>> ELSE More(g, node, v[k - 1], k)
    <3> SUFFICES ASSUME NEW k \in 0..n
                 PROVE  v[k] = IF k = 0 THEN <<>> ELSE More(g, node, v[k - 1], k)
      OBVIOUS
    <3>1. CASE k = n
      <4>1. k # 0 /\ k - 1 = n - 1 /\ n - 1 \in 0..(n - 1)
        BY <3>1
      <4> QED BY <2>3, <3>1, <4>1
    <3>2. CASE k # n
      <4>1. k \in 0..(n - 1) /\ (k # 0 => k - 1 \in 0..(n - 1))
        BY <3>2
      <4> QED BY <2>2, <2>3, <4>1
    <3> QED BY <3>1, <3>2
  <2>5. IsFinding(v, g, node, n)
    BY <2>3, <2>4 DEF IsFinding
  <2> QED BY <2>5
<1> HIDE DEF S
<1>3. \A n \in 0..N : n \in S
  BY <1>1, <1>2, UpToInduction
<1> QED BY <1>3 DEF S

(* The services leave the queue one by one.                                 *)
LEMMA FoundIs ==
  ASSUME NEW g, NEW node \in g.nodes, Cardinality(g.nodes) \in Nat
  PROVE  \E u : /\ GetTransitiveDependencies(g, node) = u[Cardinality(g.nodes)]
                /\ u[0] = <<>>
                /\ \A k \in 1..Cardinality(g.nodes) : u[k] = More(g, node, u[k - 1], k)
<1> DEFINE N == Cardinality(g.nodes)
           body(f) == [k \in 0..N |-> IF k = 0 THEN <<>> ELSE More(g, node, f[k - 1], k)]
           u == CHOOSE f : f = body(f)
<1>1. u = body(u)
  <2>1. \E f : f = body(f)
    <3> HIDE DEF N
    <3>1. N \in Nat
      BY DEF N
    <3>2. PICK f : IsFinding(f, g, node, N)
      BY <3>1, FindingExists
    <3>3. f = body(f)
      BY <3>2 DEF IsFinding
    <3> HIDE DEF body
    <3> QED BY <3>3
  <2> HIDE DEF body
  <2> QED BY <2>1, Zenon
<1>2. GetTransitiveDependencies(g, node) = u[N]
  BY DEF GetTransitiveDependencies, More
<1> HIDE DEF u
<1>3. \A k \in 0..N : u[k] = IF k = 0 THEN <<>> ELSE More(g, node, u[k - 1], k)
  BY <1>1
<1> HIDE DEF N, body
<1>4. u[0] = <<>> /\ \A k \in 1..N : u[k] = More(g, node, u[k - 1], k)
  BY <1>3 DEF N
<1> QED BY <1>2, <1>4 DEF N

(* The root and what was found, in the order they leave the queue.          *)
Line(s, r) == [j \in 1..(Len(r) + 1) |-> IF j = 1 THEN s ELSE r[j - 1]]

(* One service's turn keeps to the order.                                   *)
LEMMA MoreIsExplored ==
  ASSUME NEW g, IsGraph(g), NEW s \in g.nodes, NEW k \in Nat \ {0}, NEW r \in Seq(g.nodes),
         Explored(g, s, k - 1, Line(s, r), Len(r) + 1)
  PROVE  /\ More(g, s, r, k) \in Seq(g.nodes)
         /\ Explored(g, s, k, Line(s, More(g, s, r, k)), Len(More(g, s, r, k)) + 1)
<1> DEFINE l == Len(r)
           n == l + 1
           q == Line(s, r)
<1>1. l \in Nat /\ n \in Nat /\ \A j \in 1..l : r[j] \in g.nodes
  BY LenProperties, ElementOfSeq
<1>2. q[1] = s /\ \A j \in 1..n : j # 1 => j - 1 \in 1..l /\ q[j] = r[j - 1]
  BY <1>1 DEF Line
<1>3. CASE l < k - 1
  <2>1. More(g, s, r, k) = r
    <3>1. k - 1 > Len(r)
      BY <1>1, <1>3
    <3> QED BY <3>1 DEF More
  <2>2. \A i \in 1..n : i <= k - 1 /\ ~ (k <= i)
    BY <1>1, <1>3
  <2>3. Explored(g, s, k - 1, q, n)
    OBVIOUS
  <2> HIDE DEF q, n
  <2>4. Explored(g, s, k, q, n)
    BY <2>2, <2>3 DEF Explored
  <2> QED BY <2>1, <2>4 DEF q, n
<1>4. CASE ~ (l < k - 1)
  <2>1. k \in 1..n /\ k <= n
    BY <1>1, <1>4
  <2> DEFINE D == GetDependencies(g, q[k]) \ (ToSet(r) \union {s})
             t == Sorted[D]
             m == Len(t)
             z == r \o t
  <2>2. More(g, s, r, k) = z
    <3>1. q[k] = IF k = 1 THEN s ELSE r[k - 1]
      BY <1>2, <2>1
    <3>2. ~ (k - 1 > Len(r))
      BY <1>1, <1>4
    <3> HIDE DEF q
    <3> QED BY <3>1, <3>2 DEF More
  <2>3. \A b : b \in GetDependencies(g, q[k]) <=> Edge(g, q[k], b)
    <3> HIDE DEF q
    <3>1. \A b : Edge(g, q[k], b) => b \in g.nodes
      BY GraphIs
    <3>2. GetDependencies(g, q[k]) = {b \in g.nodes : Edge(g, q[k], b)}
      BY GraphIs
    <3> QED BY <3>1, <3>2
  <2>4. GetDependencies(g, q[k]) \subseteq g.nodes /\ g.nodes \subseteq Services
    <3> HIDE DEF q
    <3> QED BY <2>3, GraphIs
  <2>5. /\ t \in Seq(D) /\ m \in Nat
        /\ \A i \in 1..m : t[i] \in D
        /\ \A b \in D : \E i \in 1..m : t[i] = b
        /\ \A i, j \in 1..m : t[i] = t[j] => i = j
    <3>1. D \in SUBSET Services
      BY <2>4
    <3> HIDE DEF D
    <3> QED BY <3>1, ListingIs
  <2>6. \A b : b \in ToSet(r) <=> \E j \in 1..l : r[j] = b
    BY ToSetIs
  <2>7. \A b : b \in ToSet(r) \union {s} <=> \E j \in 1..n : q[j] = b
    <3>1. 1 \in 1..n /\ \A j \in 1..l : j + 1 \in 1..n /\ j + 1 # 1 /\ j + 1 - 1 = j
      BY <1>1
    <3>2. \A j \in 1..l : q[j + 1] = r[j]
      BY <1>2, <3>1
    <3> HIDE DEF q, n, l
    <3>3. ASSUME NEW b, NEW j \in 1..n, q[j] = b
          PROVE  b = s \/ \E i \in 1..l : r[i] = b
      BY <1>2, <3>3
    <3>4. \A b : (b = s \/ \E i \in 1..l : r[i] = b) => \E j \in 1..n : q[j] = b
      BY <1>2, <3>1, <3>2
    <3> QED BY <2>6, <3>3, <3>4
  <2>8. t \in Seq(g.nodes)
    <3>1. D \subseteq g.nodes
      BY <2>4
    <3> HIDE DEF D, t
    <3> QED BY <2>5, <3>1, SeqMonotonic
  <2> HIDE DEF t, m
  <2>9. /\ z \in Seq(g.nodes) /\ Len(z) = l + m
        /\ \A i \in 1..(l + m) : z[i] = IF i <= l THEN r[i] ELSE t[i - l]
    BY <2>8, ConcatProperties DEF m
  <2> DEFINE y == Line(s, z)
  <2>10. y = [j \in 1..(n + m) |-> IF j = 1 THEN s ELSE z[j - 1]]
    <3>1. Len(z) + 1 = n + m
      BY <1>1, <2>5, <2>9
    <3> HIDE DEF n, z
    <3> QED BY <3>1 DEF Line
  <2> HIDE DEF y, z
  <2>11. \A i \in 1..n : y[i] = q[i]
    <3> SUFFICES ASSUME NEW i \in 1..n
                 PROVE  y[i] = q[i]
      OBVIOUS
    <3>1. i \in 1..(n + m)
      BY <1>1, <2>5
    <3>2. CASE i = 1
      BY <1>2, <2>10, <3>1, <3>2
    <3>3. CASE i # 1
      <4>1. i - 1 \in 1..(l + m) /\ i - 1 <= l
        BY <1>1, <2>5, <3>3
      <4>2. y[i] = z[i - 1] /\ z[i - 1] = r[i - 1]
        BY <2>9, <2>10, <3>1, <3>3, <4>1
      <4> QED BY <1>2, <3>3, <4>2
    <3> QED BY <3>2, <3>3
  <2>12. \A i \in 1..m : y[n + i] = t[i]
    <3> SUFFICES ASSUME NEW i \in 1..m
                 PROVE  y[n + i] = t[i]
      OBVIOUS
    <3>1. /\ n + i \in 1..(n + m) /\ n + i # 1 /\ n + i - 1 = l + i
          /\ l + i \in 1..(l + m) /\ ~ (l + i <= l) /\ l + i - l = i
      BY <1>1, <2>5
    <3> HIDE DEF n
    <3>2. \A p \in 1..(n + m) : p # 1 => y[p] = z[p - 1]
      BY <2>10
    <3> DEFINE p == n + i
    <3>3. y[p] = z[l + i]
      <4>1. p \in 1..(n + m) /\ p # 1 /\ p - 1 = l + i
        BY <1>1, <2>5 DEF n
      <4> HIDE DEF p
      <4> QED BY <3>2, <4>1
    <3>4. z[l + i] = IF l + i <= l THEN r[l + i] ELSE t[l + i - l]
      BY <2>9, <3>1
    <3>5. z[l + i] = t[i]
      BY <3>1, <3>4
    <3> QED BY <3>3, <3>5
  <2>13. \A i \in 1..m : Edge(g, q[k], t[i]) /\ \A j \in 1..n : q[j] # t[i]
    BY <2>3, <2>5, <2>7
  <2>14. \A b : Edge(g, q[k], b) => (\E j \in 1..n : q[j] = b) \/ \E i \in 1..m : t[i] = b
    BY <2>3, <2>5, <2>7
  <2>15. Explored(g, s, k - 1, q, n)
    OBVIOUS
  <2> HIDE DEF D, n, q
  <2>16. Explored(g, s, k, y, n + m)
    <3>1. Joins(g, k, q, n, t, m, y)
      BY <2>5, <2>11, <2>12, <2>13, <2>14 DEF Joins
    <3> QED BY <2>1, <2>5, <2>15, <3>1, ExploredGoesOn
  <2>17. Len(z) + 1 = n + m
    BY <1>1, <2>5, <2>9 DEF n
  <2> QED BY <2>2, <2>9, <2>16, <2>17 DEF y
<1> QED BY <1>3, <1>4

(* Everything upstream is found, once and nearest first.                    *)
LEMMA TransitiveIsExact ==
  ASSUME NEW g, IsGraph(g), NEW s \in g.nodes
  PROVE  LET found == GetTransitiveDependencies(g, s) IN
         /\ ToSet(found) = Upstream(g, s) \ {s} /\ IsInjective(found)
         /\ \A i \in 2..Len(found) : Hops(g, s, found[i - 1]) <= Hops(g, s, found[i])
<1> DEFINE N == Cardinality(g.nodes)
<1>1. N \in Nat /\ IsFiniteSet(g.nodes) /\ g.nodes \subseteq Services
  BY GraphIs
<1>2. PICK u : /\ GetTransitiveDependencies(g, s) = u[N] /\ u[0] = <<>>
               /\ \A k \in 1..N : u[k] = More(g, s, u[k - 1], k)
  BY <1>1, FoundIs
<1> HIDE DEF N
<1> DEFINE good == {k \in 0..N : /\ u[k] \in Seq(g.nodes)
                                 /\ Explored(g, s, k, Line(s, u[k]), Len(u[k]) + 1)}
<1>3. 0 \in good
  <2> DEFINE r == <<>>
             q == Line(s, r)
  <2>1. r \in Seq(g.nodes) /\ Len(r) = 0
    OBVIOUS
  <2>2. Len(r) + 1 = 1 /\ q[1] = s
    BY <2>1 DEF Line
  <2>3. Hops(g, s, s) \in Nat /\ s \in Reach(g, s)
    BY HopsGrow DEF Reach
  <2>4. Hops(g, s, s) <= Hops(g, s, s) /\ Hops(g, s, s) <= Hops(g, s, s) + 1
    BY <2>3
  <2>5. \A i \in 1..1 : i = 1 /\ ~ (i <= 0)
    OBVIOUS
  <2> HIDE DEF q
  <2>6. Explored(g, s, 0, q, 1)
    BY <2>2, <2>3, <2>4, <2>5 DEF Explored
  <2>7. 0 \in 0..N /\ u[0] = r
    BY <1>1, <1>2
  <2> HIDE DEF r
  <2> QED BY <2>1, <2>2, <2>6, <2>7 DEF q
<1>4. ASSUME NEW k \in 1..N, k - 1 \in good
      PROVE  k \in good
  <2> DEFINE r == u[k - 1]
  <2>1. r \in Seq(g.nodes) /\ Explored(g, s, k - 1, Line(s, r), Len(r) + 1)
    BY <1>4
  <2>2. u[k] = More(g, s, r, k) /\ k \in Nat \ {0} /\ k \in 0..N
    BY <1>1, <1>2
  <2> HIDE DEF r
  <2>3. /\ More(g, s, r, k) \in Seq(g.nodes)
        /\ Explored(g, s, k, Line(s, More(g, s, r, k)), Len(More(g, s, r, k)) + 1)
    BY <2>1, <2>2, MoreIsExplored
  <2> QED BY <2>2, <2>3
<1> HIDE DEF good
<1>5. \A k \in 0..N : k \in good
  BY <1>1, <1>3, <1>4, UpToInduction
<1>6. N \in good
  BY <1>1, <1>5
<1> DEFINE r == u[N]
           l == Len(r)
           n == l + 1
           q == Line(s, r)
<1>7. r \in Seq(g.nodes) /\ Explored(g, s, N, q, n)
  BY <1>6 DEF good
<1>8. l \in Nat /\ DOMAIN r = 1..l /\ (\A i \in 1..l : r[i] \in g.nodes)
      /\ \A b : b \in ToSet(r) <=> \E i \in 1..l : r[i] = b
  BY <1>7, LenProperties, ElementOfSeq, ToSetIs
<1> HIDE DEF r
<1>9. q[1] = s /\ n \in Nat /\ \A j \in 1..l : j + 1 \in 1..n /\ q[j + 1] = r[j]
  BY <1>8 DEF Line
<1>10. \A j \in 1..n : j = 1 \/ (j - 1 \in 1..l /\ q[j] = r[j - 1])
  BY <1>8 DEF Line
<1> HIDE DEF q, n, l
<1>11. /\ \A i \in 1..n : q[i] \in Reach(g, s)
       /\ \A i, j \in 1..n : q[i] = q[j] => i = j
       /\ \A i \in 1..n : i <= N => \A b : Edge(g, q[i], b) => \E j \in 1..n : q[j] = b
       /\ \A i, j \in 1..n : i <= j => Hops(g, s, q[i]) <= Hops(g, s, q[j])
       /\ 1 <= n /\ 1 \in 1..n
  BY <1>7, <1>9 DEF Explored
<1>12. \A i \in 1..n : q[i] \in g.nodes
  BY <1>8, <1>9, <1>10
<1>13. n <= N
  <2> DEFINE f == [i \in 1..n |-> q[i]]
  <2>1. f \in Injection(1..n, g.nodes)
    BY <1>11, <1>12 DEF Injection, IsInjective
  <2>2. IsFiniteSet(1..n) /\ Cardinality(1..n) = n
    BY <1>9, FS_Interval
  <2> HIDE DEF f
  <2>3. Cardinality(1..n) <= Cardinality(g.nodes)
    BY <1>1, <2>1, FS_Injection
  <2> QED BY <2>2, <2>3 DEF N
<1>14. \A i \in 1..n : i <= N
  BY <1>1, <1>9, <1>13
<1> DEFINE Q == {q[i] : i \in 1..n}
<1>15. Upstream(g, s) \subseteq Q
  <2>1. \A a \in Q : \A b : Edge(g, a, b) => b \in Q
    BY <1>11, <1>14
  <2>2. s \in Q
    BY <1>9, <1>11
  <2> HIDE DEF Q
  <2>3. \A b : Edge(g, s, b) => b \in Q
    BY <2>1, <2>2
  <2> QED BY <2>1, <2>3, UpstreamIsLeast
<1>16. \A j \in 1..l : r[j] # s /\ r[j] \in Upstream(g, s)
  <2> SUFFICES ASSUME NEW j \in 1..l
               PROVE  r[j] # s /\ r[j] \in Upstream(g, s)
    OBVIOUS
  <2>1. j + 1 \in 1..n /\ q[j + 1] = r[j] /\ j + 1 # 1
    BY <1>8, <1>9
  <2>2. r[j] \in Reach(g, s) /\ q[j + 1] # q[1]
    BY <1>11, <2>1
  <2> QED BY <1>9, <2>1, <2>2 DEF Reach
<1>17. ToSet(r) = Upstream(g, s) \ {s}
  <2>1. ASSUME NEW b \in Upstream(g, s), b # s
        PROVE  b \in ToSet(r)
    <3>1. PICK j \in 1..n : q[j] = b
      BY <1>15, <2>1
    <3>2. j # 1
      BY <1>9, <2>1, <3>1
    <3> QED BY <1>8, <1>10, <3>1, <3>2
  <2>2. ASSUME NEW b \in ToSet(r)
        PROVE  b \in Upstream(g, s) \ {s}
    BY <1>8, <1>16
  <2> QED BY <2>1, <2>2
<1>18. IsInjective(r)
  <2> SUFFICES ASSUME NEW i \in 1..l, NEW j \in 1..l, r[i] = r[j]
               PROVE  i = j
    BY <1>8 DEF IsInjective
  <2>1. i + 1 = j + 1
    BY <1>9, <1>11
  <2> QED BY <1>8, <2>1
<1>19. \A i \in 2..l : Hops(g, s, r[i - 1]) <= Hops(g, s, r[i])
  <2> SUFFICES ASSUME NEW i \in 2..l
               PROVE  Hops(g, s, r[i - 1]) <= Hops(g, s, r[i])
    OBVIOUS
  <2>1. i \in 1..l /\ i - 1 \in 1..l /\ i - 1 + 1 = i /\ i <= i + 1
    BY <1>8
  <2>2. i \in 1..n /\ q[i] = r[i - 1] /\ i + 1 \in 1..n /\ q[i + 1] = r[i]
    BY <1>9, <2>1
  <2>3. Hops(g, s, q[i]) <= Hops(g, s, q[i + 1])
    BY <1>11, <2>1, <2>2
  <2> QED BY <2>2, <2>3
<1> QED BY <1>2, <1>17, <1>18, <1>19 DEF r, l

(* A listing is as long as what it lists is large.                          *)
LEMMA ListingLength ==
  ASSUME NEW S \in SUBSET Services
  PROVE  Len(Sorted[S]) = Cardinality(S)
<1> DEFINE q == Sorted[S]
           n == Len(q)
           f == [i \in 1..n |-> q[i]]
<1>1. /\ n \in Nat /\ \A i \in 1..n : q[i] \in S
      /\ \A s \in S : \E i \in 1..n : q[i] = s
      /\ \A i, j \in 1..n : q[i] = q[j] => i = j
  BY ListingIs
<1> HIDE DEF q, n
<1>2. f \in Surjection(1..n, S)
  BY <1>1 DEF Surjection
<1>3. f \in Injection(1..n, S)
  BY <1>1 DEF Injection, IsInjective
<1>4. IsFiniteSet(1..n) /\ Cardinality(1..n) = n
  BY <1>1, FS_Interval
<1> HIDE DEF f
<1>5. Cardinality(S) = Cardinality(1..n)
  BY <1>2, <1>3, <1>4, FS_Surjection
<1> QED BY <1>4, <1>5 DEF n, q

(* A concatenation has the members of both.                                 *)
LEMMA ConcatHolds ==
  ASSUME NEW S, NEW p \in Seq(S), NEW q \in Seq(S)
  PROVE  /\ p \o q \in Seq(S)
         /\ \A x : x \in ToSet(p \o q) <=> x \in ToSet(p) \/ x \in ToSet(q)
<1> DEFINE m == Len(p)
           n == Len(q)
           r == p \o q
<1>1. /\ m \in Nat /\ n \in Nat /\ r \in Seq(S) /\ Len(r) = m + n
      /\ \A i \in 1..(m + n) : r[i] = IF i <= m THEN p[i] ELSE q[i - m]
  BY LenProperties, ConcatProperties
<1>2. \A x : x \in ToSet(p) <=> \E i \in 1..m : p[i] = x
  BY ToSetIs
<1>3. \A x : x \in ToSet(q) <=> \E i \in 1..n : q[i] = x
  BY ToSetIs
<1>4. \A x : x \in ToSet(r) <=> \E i \in 1..(m + n) : r[i] = x
  <2>1. \A x : x \in ToSet(r) <=> \E i \in 1..Len(r) : r[i] = x
    BY <1>1, ToSetIs
  <2> QED BY <1>1, <2>1
<1> HIDE DEF m, n, r
<1>5. ASSUME NEW i \in 1..(m + n)
      PROVE  (i \in 1..m /\ r[i] = p[i]) \/ (i - m \in 1..n /\ r[i] = q[i - m])
  BY <1>1
<1>6. ASSUME NEW i \in 1..m
      PROVE  i \in 1..(m + n) /\ r[i] = p[i]
  BY <1>1
<1>7. ASSUME NEW i \in 1..n
      PROVE  m + i \in 1..(m + n) /\ r[m + i] = q[i]
  <2>1. m + i \in 1..(m + n) /\ ~ (m + i <= m) /\ m + i - m = i
    BY <1>1
  <2>2. r[m + i] = IF m + i <= m THEN p[m + i] ELSE q[m + i - m]
    BY <1>1, <2>1
  <2> QED BY <2>1, <2>2
<1>8. \A x : x \in ToSet(r) <=> x \in ToSet(p) \/ x \in ToSet(q)
  BY <1>2, <1>3, <1>4, <1>5, <1>6, <1>7
<1> QED BY <1>1, <1>8 DEF r

IsFlattening(u, seqs, N) ==
  u = [i \in 1..N |-> IF i = 1 THEN seqs[i] ELSE u[i - 1] \o seqs[i]]

(* The recursion through the sequences has a solution.                      *)
LEMMA FlatteningExists ==
  ASSUME NEW seqs, NEW N \in Nat
  PROVE  \E u : IsFlattening(u, seqs, N)
<1> DEFINE S == {n \in 0..N : \E u : IsFlattening(u, seqs, n)}
<1>1. 0 \in S
  <2>1. 1..0 = {}
    OBVIOUS
  <2>2. IsFlattening([k \in 1..0 |-> <<>>], seqs, 0)
    BY <2>1 DEF IsFlattening
  <2> QED BY <2>2
<1>2. ASSUME NEW n \in 1..N, n - 1 \in S
      PROVE  n \in S
  <2>1. PICK u : IsFlattening(u, seqs, n - 1)
    BY <1>2
  <2> DEFINE w == IF n = 1 THEN seqs[n] ELSE u[n - 1] \o seqs[n]
             v == [k \in 1..n |-> IF k = n THEN w ELSE u[k]]
  <2>2. \A k \in 1..(n - 1) : u[k] = IF k = 1 THEN seqs[k] ELSE u[k - 1] \o seqs[k]
    BY <2>1 DEF IsFlattening
  <2>3. /\ v = [k \in 1..n |-> v[k]]
        /\ v[n] = w
        /\ \A k \in 1..(n - 1) : v[k] = u[k]
    <3> HIDE DEF w
    <3> QED OBVIOUS
  <2> HIDE DEF v
  <2>4. \A k \in 1..n : v[k] = IF k = 1 THEN seqs[k] ELSE v[k - 1] \o seqs[k]
    <3> SUFFICES ASSUME NEW k \in 1..n
                 PROVE  v[k] = IF k = 1 THEN seqs[k] ELSE v[k - 1] \o seqs[k]
      OBVIOUS
    <3>1. CASE k = n
      <4>1. k # 1 => k - 1 = n - 1 /\ n - 1 \in 1..(n - 1)
        BY <3>1
      <4> QED BY <2>3, <3>1, <4>1
    <3>2. CASE k # n
      <4>1. k \in 1..(n - 1) /\ (k # 1 => k - 1 \in 1..(n - 1))
        BY <3>2
      <4> QED BY <2>2, <2>3, <4>1
    <3> QED BY <3>1, <3>2
  <2>5. IsFlattening(v, seqs, n)
    BY <2>3, <2>4 DEF IsFlattening
  <2> QED BY <2>5
<1> HIDE DEF S
<1>3. \A n \in 0..N : n \in S
  BY <1>1, <1>2, UpToInduction
<1> QED BY <1>3 DEF S

(* A flattened sequence has the members of its sequences.                   *)
LEMMA FlattenHolds ==
  ASSUME NEW S, NEW N \in Nat, NEW seqs \in [1..N -> Seq(S)]
  PROVE  \A x : x \in ToSet(FlattenSeq(seqs)) <=> \E i \in 1..N : x \in ToSet(seqs[i])
<1>1. seqs \in Seq(Seq(S)) /\ Len(seqs) = N
  OBVIOUS
<1>2. CASE N = 0
  <2>1. FlattenSeq(seqs) = seqs
    BY <1>1, <1>2 DEF FlattenSeq
  <2>2. \A x : ~ \E i \in 1..N : x = seqs[i]
    BY <1>2
  <2>3. \A x : x \in ToSet(seqs) <=> \E i \in 1..N : seqs[i] = x
    BY <1>1, ToSetIs
  <2> QED BY <1>2, <2>1, <2>3
<1>3. CASE N # 0
  <2> DEFINE body(f) == [i \in 1..N |-> IF i = 1 THEN seqs[i] ELSE f[i - 1] \o seqs[i]]
             u == CHOOSE f : f = body(f)
  <2>1. u = body(u)
    <3>1. \E f : f = body(f)
      <4>1. PICK f : IsFlattening(f, seqs, N)
        BY FlatteningExists
      <4>2. f = body(f)
        BY <4>1 DEF IsFlattening
      <4> HIDE DEF body
      <4> QED BY <4>2
    <3> HIDE DEF body
    <3> QED BY <3>1, Zenon
  <2>2. FlattenSeq(seqs) = u[N]
    BY <1>1, <1>3 DEF FlattenSeq
  <2> HIDE DEF u
  <2>3. \A k \in 1..N : u[k] = IF k = 1 THEN seqs[k] ELSE u[k - 1] \o seqs[k]
    BY <2>1
  <2> HIDE DEF body
  <2> DEFINE good == {k \in 0..N : k # 0 =>
                        /\ u[k] \in Seq(S)
                        /\ \A x : x \in ToSet(u[k]) <=> \E i \in 1..k : x \in ToSet(seqs[i])}
  <2>4. 0 \in good
    OBVIOUS
  <2>5. ASSUME NEW k \in 1..N, k - 1 \in good
        PROVE  k \in good
    <3>1. k \in 0..N /\ seqs[k] \in Seq(S)
      OBVIOUS
    <3>2. CASE k = 1
      <4>1. u[1] = seqs[1]
        BY <2>3, <3>2
      <4>2. \A i \in 1..1 : i = 1
        OBVIOUS
      <4>3. 1 \in 1..1
        OBVIOUS
      <4> QED BY <3>1, <3>2, <4>1, <4>2, <4>3
    <3>3. CASE k # 1
      <4> DEFINE j == k - 1
      <4>1. j # 0 /\ k # 0 /\ \A i : i \in 1..k <=> i \in 1..j \/ i = k
        BY <3>3
      <4>2. u[k] = u[j] \o seqs[k]
        BY <2>3, <3>3
      <4>3. u[j] \in Seq(S) /\ \A x : x \in ToSet(u[j]) <=> \E i \in 1..j : x \in ToSet(seqs[i])
        BY <2>5, <4>1
      <4> HIDE DEF j
      <4>4. /\ u[k] \in Seq(S)
            /\ \A x : x \in ToSet(u[k]) <=> x \in ToSet(u[j]) \/ x \in ToSet(seqs[k])
        BY <3>1, <4>2, <4>3, ConcatHolds
      <4>5. \A x : x \in ToSet(u[k]) <=> \E i \in 1..k : x \in ToSet(seqs[i])
        BY <4>1, <4>3, <4>4
      <4> QED BY <3>1, <4>4, <4>5
    <3> QED BY <3>2, <3>3
  <2> HIDE DEF good
  <2>6. \A k \in 0..N : k \in good
    BY <2>4, <2>5, UpToInduction
  <2>7. N \in good
    BY <2>6
  <2> QED BY <1>3, <2>2, <2>7 DEF good
<1> QED BY <1>2, <1>3

(* The listed edges are the edges.                                          *)
LEMMA EdgesAreListed ==
  ASSUME NEW g, IsGraph(g)
  PROVE  ToSet(GetAllEdges(g)) = g.edges
<1> DEFINE N == Cardinality(g.nodes)
           order == Sorted[g.nodes]
           row == [i \in 1..N |->
                     [k \in 1..Cardinality(GetDependencies(g, order[i])) |->
                        <<order[i], Sorted[GetDependencies(g, order[i])][k]>>]]
           P == Services \X Services
<1>1. /\ N \in Nat /\ g.nodes \in SUBSET Services
      /\ \A a, b : Edge(g, a, b) => a \in g.nodes /\ b \in g.nodes
      /\ \A s : GetDependencies(g, s) = {b \in g.nodes : Edge(g, s, b)}
  BY GraphIs
<1>2. Len(order) = N
  BY <1>1, ListingLength
<1>3. /\ \A i \in 1..N : order[i] \in g.nodes
      /\ \A s \in g.nodes : \E i \in 1..N : order[i] = s
  <2>1. /\ \A i \in 1..Len(order) : order[i] \in g.nodes
        /\ \A s \in g.nodes : \E i \in 1..Len(order) : order[i] = s
    BY <1>1, ListingIs
  <2> QED BY <1>2, <2>1
<1>4. GetAllEdges(g) = FlattenSeq(row)
  BY DEF GetAllEdges
<1> HIDE DEF N, order
<1>5. ASSUME NEW i \in 1..N
      PROVE  /\ row[i] \in Seq(P)
             /\ \A x : x \in ToSet(row[i]) <=> \E b \in g.nodes : Edge(g, order[i], b) /\ x = <<order[i], b>>
  <2> DEFINE s == order[i]
             D == GetDependencies(g, s)
             m == Cardinality(D)
             t == Sorted[D]
             e == [k \in 1..m |-> <<s, t[k]>>]
  <2>1. row[i] = e
    OBVIOUS
  <2>2. s \in Services /\ D \in SUBSET Services /\ D = {b \in g.nodes : Edge(g, s, b)}
    BY <1>1, <1>3
  <2> HIDE DEF s, D, row
  <2>3. /\ Len(t) \in Nat /\ Len(t) = m /\ \A k \in 1..Len(t) : t[k] \in D
        /\ \A b \in D : \E k \in 1..Len(t) : t[k] = b
    BY <2>2, ListingIs, ListingLength
  <2>4. m \in Nat /\ (\A k \in 1..m : t[k] \in D) /\ \A b \in D : \E k \in 1..m : t[k] = b
    BY <2>3
  <2> HIDE DEF m, t
  <2>5. e \in [1..m -> P] /\ DOMAIN e = 1..m /\ \A k \in 1..m : e[k] = <<s, t[k]>>
    BY <2>2, <2>4
  <2> HIDE DEF e
  <2>6. e \in Seq(P)
    BY <2>4, <2>5
  <2>7. \A x : x \in ToSet(e) <=> \E k \in 1..m : e[k] = x
    BY <2>5 DEF ToSet
  <2>8. \A x : x \in ToSet(e) <=> \E b \in D : x = <<s, b>>
    <3>1. ASSUME NEW x, x \in ToSet(e)
          PROVE  \E b \in D : x = <<s, b>>
      <4>1. PICK k \in 1..m : e[k] = x
        BY <2>7, <3>1
      <4>2. x = <<s, t[k]>> /\ t[k] \in D
        BY <2>4, <2>5, <4>1
      <4> QED BY <4>2
    <3>2. ASSUME NEW b \in D
          PROVE  <<s, b>> \in ToSet(e)
      <4>1. PICK k \in 1..m : t[k] = b
        BY <2>4
      <4>2. e[k] = <<s, b>>
        BY <2>5, <4>1
      <4> QED BY <2>7, <4>2
    <3> QED BY <3>1, <3>2
  <2>9. \A x : x \in ToSet(e) <=> \E b \in g.nodes : Edge(g, s, b) /\ x = <<s, b>>
    BY <2>2, <2>8
  <2> QED BY <2>1, <2>6, <2>9 DEF s
<1>6. row \in [1..N -> Seq(P)]
  <2>1. row = [i \in 1..N |-> row[i]]
    OBVIOUS
  <2> HIDE DEF row, P
  <2> QED BY <1>5, <2>1
<1> HIDE DEF row, P
<1>7. \A x : x \in ToSet(FlattenSeq(row)) <=> \E i \in 1..N : x \in ToSet(row[i])
  BY <1>1, <1>6, FlattenHolds
<1>8. \A x : x \in ToSet(FlattenSeq(row)) <=>
               \E a, b \in g.nodes : Edge(g, a, b) /\ x = <<a, b>>
  <2>1. ASSUME NEW x, x \in ToSet(FlattenSeq(row))
        PROVE  \E a, b \in g.nodes : Edge(g, a, b) /\ x = <<a, b>>
    BY <1>3, <1>5, <1>7, <2>1
  <2>2. ASSUME NEW a \in g.nodes, NEW b \in g.nodes, Edge(g, a, b)
        PROVE  <<a, b>> \in ToSet(FlattenSeq(row))
    <3>1. PICK i \in 1..N : order[i] = a
      BY <1>3
    <3>2. <<a, b>> \in ToSet(row[i])
      BY <1>5, <2>2, <3>1
    <3> QED BY <1>7, <3>2
  <2> QED BY <2>1, <2>2
<1>9. g.edges \subseteq g.nodes \X g.nodes
  BY DEF IsGraph
<1>10. \A x : x \in g.edges <=> \E a, b \in g.nodes : Edge(g, a, b) /\ x = <<a, b>>
  <2>1. ASSUME NEW x \in g.edges
        PROVE  \E a, b \in g.nodes : Edge(g, a, b) /\ x = <<a, b>>
    <3>1. PICK a \in g.nodes, b \in g.nodes : x = <<a, b>>
      BY <1>9
    <3> QED BY <3>1 DEF Edge
  <2> QED BY <2>1 DEF Edge
<1> QED BY <1>4, <1>8, <1>10

(* A graph is its four fields.                                              *)
LEMMA GraphFields ==
  ASSUME NEW g \in ServiceTopologyGraph
  PROVE  g = [availability |-> g.availability, nodes |-> g.nodes, edges |-> g.edges,
              snapshotTaken |-> g.snapshotTaken]
BY DEF ServiceTopologyGraph

(* A graph survives its dictionary.                                         *)
LEMMA DictionariesAreExact ==
  ASSUME NEW g, IsGraph(g)
  PROVE  DictionariesKeepGraphs(g)
<1> DEFINE h == [g EXCEPT !.snapshotTaken = FALSE]
           nodes == Sorted[g.nodes]
           edges == GetAllEdges(g)
<1>1. /\ g \in ServiceTopologyGraph /\ g.nodes \in SUBSET Services
      /\ g.edges \subseteq g.nodes \X g.nodes
  BY GraphIs DEF IsGraph
<1>2. ToSet(nodes) = g.nodes
  BY <1>1, ListingIs
<1>3. ToSet(edges) = g.edges
  BY EdgesAreListed
<1>4. \A e \in g.edges : {e[1], e[2]} \subseteq g.nodes
  BY <1>1
<1> HIDE DEF nodes, edges
<1>5. \A a : FromDict([availability |-> a, nodes |-> nodes, edges |-> edges]) =
               [availability |-> a, nodes |-> g.nodes, edges |-> g.edges, snapshotTaken |-> FALSE]
  BY <1>2, <1>3, <1>4 DEF FromDict
<1>6. h = [availability |-> g.availability, nodes |-> g.nodes, edges |-> g.edges,
           snapshotTaken |-> FALSE]
  <2>1. /\ h \in ServiceTopologyGraph /\ h.availability = g.availability /\ h.nodes = g.nodes
        /\ h.edges = g.edges /\ h.snapshotTaken = FALSE
    BY <1>1 DEF ServiceTopologyGraph
  <2> HIDE DEF h
  <2> QED BY <2>1, GraphFields
<1>7. ToDict(g) = [availability |-> g.availability, nodes |-> nodes, edges |-> edges]
  BY DEF ToDict, nodes, edges
<1>8. FromDict(ToDict(g)) = h
  BY <1>5, <1>6, <1>7
<1>9. ToSnapshot(h) = ToSnapshot(g)
  <2>1. h.availability = g.availability /\ h.nodes = g.nodes /\ h.edges = g.edges
    BY <1>6
  <2> HIDE DEF h
  <2>2. \A s : GetDependencies(h, s) = GetDependencies(g, s)
    BY <2>1 DEF GetDependencies, Edge
  <2>3. GetAllEdges(h) = GetAllEdges(g)
    BY <2>1, <2>2 DEF GetAllEdges
  <2> QED BY <2>1, <2>3 DEF ToSnapshot
<1>10. CreatePartial(nodes, ToDict(g).edges) =
         [g EXCEPT !.availability = "PARTIAL", !.snapshotTaken = FALSE]
  <2>1. ToDict(g).edges = edges
    BY <1>7
  <2>2. CreatePartial(nodes, edges) =
          [availability |-> "PARTIAL", nodes |-> g.nodes, edges |-> g.edges, snapshotTaken |-> FALSE]
    BY <1>5 DEF CreatePartial
  <2>3. [g EXCEPT !.availability = "PARTIAL", !.snapshotTaken = FALSE] =
          [availability |-> "PARTIAL", nodes |-> g.nodes, edges |-> g.edges, snapshotTaken |-> FALSE]
    <3> DEFINE p == [g EXCEPT !.availability = "PARTIAL", !.snapshotTaken = FALSE]
    <3>1. /\ p \in ServiceTopologyGraph /\ p.availability = "PARTIAL" /\ p.nodes = g.nodes
          /\ p.edges = g.edges /\ p.snapshotTaken = FALSE
      BY <1>1 DEF ServiceTopologyGraph, Availability
    <3> HIDE DEF p
    <3>2. p = [availability |-> "PARTIAL", nodes |-> g.nodes, edges |-> g.edges,
               snapshotTaken |-> FALSE]
      BY <3>1, GraphFields
    <3> QED BY <3>2 DEF p
  <2> QED BY <2>1, <2>2, <2>3
<1> QED BY <1>8, <1>9, <1>10 DEF DictionariesKeepGraphs, nodes

(* The searches give exact answers on every graph.                          *)
LEMMA AnswersAreExact ==
  ASSUME NEW g, IsGraph(g)
  PROVE  /\ TransitiveDependenciesAreUpstream(g) /\ ChainsAreThePaths(g)
         /\ CyclesAreFound(g) /\ DictionariesKeepGraphs(g)
<1>1. TransitiveDependenciesAreUpstream(g)
  BY TransitiveIsExact DEF TransitiveDependenciesAreUpstream
<1>2. ChainsAreThePaths(g)
  BY ChainsAreExact DEF ChainsAreThePaths
<1>3. CyclesAreFound(g)
  BY HasCycleIsExact, CyclesAreExact DEF CyclesAreFound, Cyclic
<1> QED BY <1>1, <1>2, <1>3, DictionariesAreExact

(* Whatever is assessed, every search of the graph it is assessed against     *)
(* answers as the paths of that graph do: has_cycle tells whether there is a  *)
(* cycle, of one service too, and find_cycles lists each elementary cycle of  *)
(* two services or more, get_dependency_chain every chain, each once, and     *)
(* get_transitive_dependencies is what is upstream.                           *)
THEOREM GraphSearchesAreExact == Spec => []GraphAnswersAreExact
<1>1. Inv => GraphAnswersAreExact
  BY AnswersAreExact DEF Inv, BlastTypeOK, IsGraph, GraphAnswersAreExact
<1>. QED  BY <1>1, BlastInvariance, PTL DEF Spec
===============================================================================
