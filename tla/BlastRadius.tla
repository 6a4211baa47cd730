----------------------------- MODULE BlastRadius -----------------------------
(***************************************************************************)
(* core/topology/graph.py (ServiceTopologyGraph) and                       *)
(* core/blastradius/engine.py (BlastRadiusEngine.assess).                  *)
(*                                                                         *)
(* A graph of services is built node by node and edge by edge; an          *)
(* assessment then walks from a root service against the dependencies and  *)
(* reports every service it reaches, with its distance.  One step takes    *)
(* one service from the walk's queue.                                      *)
(***************************************************************************)
EXTENDS Naturals, Sequences, FiniteSets

CONSTANTS
  Services,   \* identifiers a service node may have
  Critical,   \* services whose level is CRITICAL or whose criticality is at least 0.85
  Sorted,     \* [set of services |-> its members as sorted() lists them]
  None        \* no snapshot id yet, no root, no assessment

ASSUME ServicesAssumption == Critical \subseteq Services /\ None \notin Services \union Nat

\* sorted() lists every member of a set, and nothing else.
ASSUME SortedAssumption ==
  \A S \in SUBSET Services :
    /\ Sorted[S] \in Seq(S)
    /\ \A s \in S : \E i \in 1..Len(Sorted[S]) : Sorted[S][i] = s

VARIABLES
  graph,    \* the ServiceTopologyGraph
  walk,     \* the assessment under way, None when there is none
  blast     \* the last BlastRadiusAssessment, None before the first

blastVars == <<graph, walk, blast>>

Availability == {"KNOWN", "PARTIAL", "UNAVAILABLE"}
BlastRadiusStatus == {"COMPLETE", "PARTIAL", "UNAVAILABLE", "ROOT_NOT_FOUND"}

\* <<a, b>> \in edges: a DEPENDS ON b.  Relationship types are left out: the
\* traversals collect neighbours into a set whatever the type.
ServiceTopologyGraph ==
  [availability : Availability, nodes : SUBSET Services,
   edges : SUBSET (Services \X Services), snapshotTaken : BOOLEAN]

\* The distance of every service reached, the root's being 0, and None for the
\* others: the code's visited set is the reached ones.
Depths == [Services -> Nat \union {None}]
Reached(depths) == {s \in Services : depths[s] # None}

\* queue: reached services still to be expanded.
Walk == [root : Services, depths : Depths, queue : Seq(Services)]

Report == [status : BlastRadiusStatus, root : Services, depths : Depths,
           direct : SUBSET Services, affected : SUBSET Services, critical : SUBSET Services]

GraphInit ==
  \E a \in Availability :
    graph = [availability |-> a, nodes |-> {}, edges |-> {}, snapshotTaken |-> FALSE]

NoAssessment == walk = None /\ blast = None

AddNode(s) == graph' = [graph EXCEPT !.nodes = @ \union {s}]

\* Raises ValueError unless both ends are registered.  A service may depend on
\* itself, and dependencies may be cyclic.
AddDependency(a, b) ==
  /\ a \in graph.nodes /\ b \in graph.nodes
  /\ graph' = [graph EXCEPT !.edges = @ \union {<<a, b>>}]

\* Mutant: edges followed the wrong way.
GetDependenciesInstead(s) == {a \in Services : <<s, a>> \in graph.edges}

GetDependents(s) == {a \in Services : <<a, s>> \in graph.edges}

\* The graph is built before it is handed to an engine; nothing edits it later.
Build ==
  /\ walk = None /\ blast = None
  /\ \/ \E s \in Services : AddNode(s)
     \/ \E a, b \in Services : AddDependency(a, b)
  /\ UNCHANGED <<walk, blast>>

Unresolved(status, root) ==
  [status |-> status, root |-> root, depths |-> [s \in Services |-> None],
   direct |-> {}, affected |-> {}, critical |-> {}]

\* Without availability nothing of the graph is looked at; a missing root is
\* reported, not made up.  Taking the snapshot id comes before both.
Assess(root) ==
  /\ walk = None
  /\ graph' = [graph EXCEPT !.snapshotTaken = TRUE]
  /\ \/ /\ graph.availability = "UNAVAILABLE"
        /\ blast' = Unresolved("UNAVAILABLE", root)
        /\ UNCHANGED walk
     \/ /\ graph.availability # "UNAVAILABLE" /\ root \notin graph.nodes
        /\ blast' = Unresolved("ROOT_NOT_FOUND", root)
        /\ UNCHANGED walk
     \/ /\ graph.availability # "UNAVAILABLE" /\ root \in graph.nodes
        /\ walk' = [root |-> root, queue |-> <<root>>,
                    depths |-> [s \in Services |-> IF s = root THEN 0 ELSE None]]
        /\ UNCHANGED blast

Fresh == GetDependents(Head(walk.queue)) \ Reached(walk.depths)

\* Mutants: depths are written before the visited check; the head is not removed.
ExpandReassigns ==
  /\ walk # None /\ walk.queue # <<>>
  /\ walk' = [walk EXCEPT
       !.queue = Tail(@) \o Sorted[Fresh],
       !.depths = [s \in Services |->
                     IF s \in GetDependents(Head(walk.queue))
                     THEN @[Head(walk.queue)] + 1 ELSE @[s]]]
  /\ UNCHANGED <<graph, blast>>

ExpandPeeks ==
  /\ walk # None /\ walk.queue # <<>>
  /\ walk' = [walk EXCEPT
       !.queue = @ \o Sorted[Fresh],
       !.depths = [s \in Services |->
                     IF s \in Fresh THEN @[Head(walk.queue)] + 1 ELSE @[s]]]
  /\ UNCHANGED <<graph, blast>>

\* The dequeued service's dependents not met before join the queue, one deeper.
Expand ==
  /\ walk # None /\ walk.queue # <<>>
  /\ walk' = [walk EXCEPT
       !.queue = Tail(@) \o Sorted[Fresh],
       !.depths = [s \in Services |->
                     IF s \in Fresh THEN @[Head(walk.queue)] + 1 ELSE @[s]]]
  /\ UNCHANGED <<graph, blast>>

Conclude ==
  /\ walk # None /\ walk.queue = <<>>
  /\ LET affected == Reached(walk.depths) \ {walk.root} IN
     blast' = [status |-> IF graph.availability = "KNOWN" THEN "COMPLETE" ELSE "PARTIAL",
               root |-> walk.root, depths |-> walk.depths,
               direct |-> GetDependents(walk.root) \ {walk.root},
               affected |-> affected, critical |-> affected \intersect Critical]
  /\ walk' = None
  /\ UNCHANGED graph

BlastInit == GraphInit /\ NoAssessment

BlastNext == Build \/ (\E root \in Services : Assess(root)) \/ Expand \/ Conclude

BlastSpec == BlastInit /\ [][BlastNext]_blastVars

-----------------------------------------------------------------------------
(* Properties.                                                             *)

(* The graph, the walk and the assessment are well formed; edges join       *)
(* registered services.                                                    *)
BlastTypeOK ==
  /\ graph \in ServiceTopologyGraph
  /\ graph.edges \subseteq graph.nodes \X graph.nodes
  /\ walk \in Walk \union {None}
  /\ blast \in Report \union {None}

ClosedUnderDependents(S) == \A e \in graph.edges : e[2] \in S => e[1] \in S

Walked == blast # None /\ blast.status \in {"COMPLETE", "PARTIAL"}

(* get_transitive_dependents and assess promise all downstream services and  *)
(* no other, on cyclic graphs too: the root with the affected services is    *)
(* the least set that holds the root and every dependent of its members.     *)
AffectedIsLeastClosed ==
  Walked =>
    /\ blast.root \notin blast.affected
    /\ ClosedUnderDependents(blast.affected \union {blast.root})
    /\ \A S \in SUBSET Services :
         blast.root \in S /\ ClosedUnderDependents(S) => blast.affected \subseteq S

(* "Breadth-First Search following incoming edges guarantees shortest path   *)
(* distance": an affected service is one deeper than some service it depends *)
(* on, no more than one deeper than any, and depth 1 is direct dependence.   *)
DepthsAreShortest ==
  Walked =>
    /\ Reached(blast.depths) = blast.affected \union {blast.root}
    /\ blast.depths[blast.root] = 0
    /\ \A s \in blast.affected :
         \E e \in graph.edges : /\ e[1] = s /\ e[2] \in Reached(blast.depths)
                               /\ blast.depths[s] = blast.depths[e[2]] + 1
    /\ \A e \in graph.edges :
         e[2] \in Reached(blast.depths) => blast.depths[e[1]] <= blast.depths[e[2]] + 1
    /\ blast.direct = {s \in blast.affected : blast.depths[s] = 1}

(* A finished walk reports exactly the services downstream of its root, at  *)
(* their shortest distances, on any graph.                                  *)
ImpactIsExact == AffectedIsLeastClosed /\ DepthsAreShortest
=============================================================================
