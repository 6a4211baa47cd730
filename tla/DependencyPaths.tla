--------------------------- MODULE DependencyPaths ---------------------------
(***************************************************************************)
(* The queries of core/topology/graph.py on a finished ServiceTopologyGraph *)
(* (transitive dependencies, dependency chains, cycles), its conversion to *)
(* and from a dictionary, and the graphs of core/topology/builder.py.      *)
(*                                                                         *)
(* Each query is a depth-first or breadth-first search with its own visited *)
(* set; the operators keep that bookkeeping and are compared with the       *)
(* definition of what they look for.                                       *)
(***************************************************************************)
EXTENDS BlastRadius, SequencesExt

\* sorted() lists a member once, and each two in the order they always have.
ASSUME SortingAssumption ==
  \A S \in SUBSET Services : \A i, j \in 1..Len(Sorted[S]) : i < j =>
    /\ Sorted[S][i] # Sorted[S][j]
    /\ Sorted[{Sorted[S][i], Sorted[S][j]}] = <<Sorted[S][i], Sorted[S][j]>>

Edge(g, a, b) == <<a, b>> \in g.edges

GetDependencies(g, s) == {b \in Services : Edge(g, s, b)}

\* found[k]: the result when k services have left the queue, which is the part
\* of <<node>> \o result not yet expanded; no service joins it twice.
GetTransitiveDependencies(g, node) ==
  LET found[k \in 0..Cardinality(g.nodes)] ==
        IF k = 0 THEN <<>>
        ELSE LET result == found[k - 1]
                 current == IF k = 1 THEN node ELSE result[k - 1]
             IN IF k - 1 > Len(result) THEN result
                ELSE result \o Sorted[GetDependencies(g, current) \ (ToSet(result) \union {node})]
  IN IF node \in g.nodes THEN found[Cardinality(g.nodes)] ELSE <<>>

\* All acyclic paths; the code lists them in order, each once.
GetDependencyChain(g, source, target) ==
  LET Dfs[path \in Seq(Services)] ==
        IF Last(path) = target THEN {path}
        ELSE UNION {Dfs[Append(path, n)] : n \in GetDependencies(g, Last(path)) \ ToSet(path)}
  IN IF {source, target} \subseteq g.nodes THEN Dfs[<<source>>] ELSE {}

\* A search marks a service 1 while it is on the stack and 2 when it is done.
Marks == [Services -> 0..2]
Unvisited == [s \in Services |-> 0]

\* Services looked at in their order, until one is met that is on the stack.
LookAt(dfs, marks, services) ==
  LET seen[i \in 0..Len(services)] ==
        IF i = 0 THEN [found |-> FALSE, marks |-> marks]
        ELSE LET acc == seen[i - 1] v == services[i] IN
             IF acc.found \/ acc.marks[v] = 2 THEN acc
             ELSE IF acc.marks[v] = 1 THEN [acc EXCEPT !.found = TRUE]
             ELSE dfs[<<v, acc.marks>>]
  IN seen[Len(services)]

\* Between two searches from the top no service is on the stack.
HasCycle(g) ==
  LET Dfs[call \in Services \X Marks] ==
        LET u == call[1]
            end == LookAt(Dfs, [call[2] EXCEPT ![u] = 1], Sorted[GetDependencies(g, u)])
        IN IF end.found THEN end ELSE [end EXCEPT !.marks = [@ EXCEPT ![u] = 2]]
  IN LookAt(Dfs, Unvisited, Sorted[g.nodes]).found

\* The cycle's nodes from the least one on, and that one again.
Normalized(body) ==
  LET first == Min({i \in DOMAIN body : body[i] = Head(Sorted[ToSet(body)])})
  IN SubSeq(body, first, Len(body)) \o SubSeq(body, 1, first)

\* Mutant: two services that need each other are no cycle.
CyclesOfThreeFrom(g, start, visited) ==
  LET Dfs[path \in Seq(Services)] ==
        UNION {IF n = start /\ Len(path) > 2 THEN {Normalized(path)}
               ELSE IF n \in ToSet(path) \union visited THEN {} ELSE Dfs[Append(path, n)] :
               n \in GetDependencies(g, Last(path))}
  IN Dfs[<<start>>]

\* visited: the starts of this search and of the searches before it.
CyclesFrom(g, start, visited) ==
  LET Dfs[path \in Seq(Services)] ==
        UNION {IF n = start /\ Len(path) >= 2 THEN {Normalized(path)}
               ELSE IF n \in ToSet(path) \union visited THEN {} ELSE Dfs[Append(path, n)] :
               n \in GetDependencies(g, Last(path))}
  IN Dfs[<<start>>]

FindCycles(g) ==
  LET order == Sorted[g.nodes]
  IN UNION {CyclesFrom(g, order[i], {order[k] : k \in 1..i}) : i \in 1..Len(order)}

\* Sorted by source and target.
GetAllEdges(g) ==
  FlattenSeq([i \in 1..Cardinality(g.nodes) |->
    LET source == Sorted[g.nodes][i] IN
    [k \in 1..Cardinality(GetDependencies(g, source)) |->
       <<source, Sorted[GetDependencies(g, source)][k]>>]])

\* The snapshot an audit keeps, its hash being over exactly this.
ToSnapshot(g) ==
  [availability |-> g.availability, nodes |-> Sorted[g.nodes], edges |-> GetAllEdges(g)]

\* to_dict lists nodes and edges in order; from_dict starts from an empty graph
\* without a snapshot id and raises where an edge names a node not yet listed.
ToDict(g) ==
  [availability |-> g.availability, nodes |-> Sorted[g.nodes], edges |-> GetAllEdges(g)]

FromDict(data) ==
  LET nodes == ToSet(data.nodes)
  IN IF \A e \in ToSet(data.edges) : {e[1], e[2]} \subseteq nodes
     THEN [availability |-> data.availability, nodes |-> nodes, edges |-> ToSet(data.edges),
           snapshotTaken |-> FALSE]
     ELSE None

CreateUnavailable ==
  [availability |-> "UNAVAILABLE", nodes |-> {}, edges |-> {}, snapshotTaken |-> FALSE]
CreatePartial(nodes, edges) ==
  FromDict([availability |-> "PARTIAL", nodes |-> nodes, edges |-> edges])

-----------------------------------------------------------------------------
(* Properties.                                                             *)

SimplePaths(g) ==
  {p \in UNION {[1..n -> g.nodes] : n \in 1..Cardinality(g.nodes)} :
     IsInjective(p) /\ \A i \in 1..(Len(p) - 1) : Edge(g, p[i], p[i + 1])}

\* The services reached from s in one step or more.
Upstream(g, s) ==
  {b \in g.nodes : \E p \in SimplePaths(g) : p[1] = s /\ Edge(g, Last(p), b)}

Hops(g, s, b) ==
  Min({Len(p) : p \in {q \in SimplePaths(g) : q[1] = s /\ Last(q) = b}})

(* A walk upstream lists every other service the node depends on, directly  *)
(* or not, once and nearest first, cycles or not.                           *)
TransitiveDependenciesAreUpstream(g) ==
  \A s \in g.nodes :
    LET found == GetTransitiveDependencies(g, s) IN
    /\ ToSet(found) = Upstream(g, s) \ {s} /\ IsInjective(found)
    /\ \A i \in 2..Len(found) : Hops(g, s, found[i - 1]) <= Hops(g, s, found[i])

(* The chains between two services are all the acyclic paths between them.  *)
ChainsAreThePaths(g) ==
  \A a, b \in g.nodes :
    GetDependencyChain(g, a, b) = {p \in SimplePaths(g) : p[1] = a /\ Last(p) = b}

\* The elementary directed cycles, each from its least service on; that of a
\* service that depends on itself is one of them.
ElementaryCycles(g) ==
  {Append(p, p[1]) : p \in {q \in SimplePaths(g) :
     Edge(g, Last(q), q[1]) /\ q[1] = Head(Sorted[ToSet(q)])}}

(* has_cycle says whether any service reaches itself, a service that depends *)
(* on itself included; find_cycles lists each elementary cycle of two        *)
(* services or more, and no others.                                          *)
CyclesAreFound(g) ==
  /\ HasCycle(g) <=> \E s \in g.nodes : s \in Upstream(g, s)
  /\ FindCycles(g) = {c \in ElementaryCycles(g) : Len(c) > 2}

(* A graph read back from its dictionary is the graph without its snapshot  *)
(* id, and its snapshot has the same hash; a partial one of the same nodes  *)
(* and edges differs by what it says of its availability alone.             *)
DictionariesKeepGraphs(g) ==
  /\ FromDict(ToDict(g)) = [g EXCEPT !.snapshotTaken = FALSE]
  /\ ToSnapshot(FromDict(ToDict(g))) = ToSnapshot(g)
  /\ CreatePartial(Sorted[g.nodes], ToDict(g).edges) =
       [g EXCEPT !.availability = "PARTIAL", !.snapshotTaken = FALSE]

(* The searches of ServiceTopologyGraph are exact on every graph that is     *)
(* built, cyclic ones too: they answer as the paths of the graph do, and     *)
(* only find_cycles answers less than its documentation promises, by the     *)
(* cycles of one service.                                                    *)
GraphAnswersAreExact ==
  walk = None /\ blast = None =>
    /\ TransitiveDependenciesAreUpstream(graph) /\ ChainsAreThePaths(graph)
    /\ CyclesAreFound(graph) /\ DictionariesKeepGraphs(graph)

(* "Find elementary directed cycles" (find_cycles).  Fails: add_dependency   *)
(* lets a service depend on itself, has_cycle then answers True, and         *)
(* find_cycles lists no cycle of one service.                                *)
EveryCycleIsListed ==
  walk = None /\ blast = None => FindCycles(graph) = ElementaryCycles(graph)
=============================================================================
