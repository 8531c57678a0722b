-------------------------------- MODULE Graph --------------------------------
(***************************************************************************)
(* Directed graphs (include/club/graph.h): a set of nodes and, for nodes   *)
(* that have any, the set of the nodes their edges lead to.                *)
(***************************************************************************)
EXTENDS Integers, FiniteSets, Functions

NoGraph == [nodes |-> {}, edges |-> <<>>]

\* edges.find(id)
Peers(graph, id) == IF id \in DOMAIN graph.edges THEN graph.edges[id] ELSE {}

add_edge(graph, from, to) ==
  [nodes |-> graph.nodes \cup {from, to},
   edges |-> [i \in DOMAIN graph.edges \cup {from} |->
                IF i = from THEN Peers(graph, from) \cup {to} ELSE graph.edges[i]]]

remove_edge(graph, from, to) ==
  IF to \notin Peers(graph, from) THEN graph
  ELSE IF graph.edges[from] = {to}
  THEN [graph EXCEPT !.edges = Restrict(@, DOMAIN @ \ {from})]
  ELSE [graph EXCEPT !.edges[from] = @ \ {to}]

\* A round of the loop of remove_unreachable_nodes: the nodes that were to be visited
\* are reached, and their peers are to be visited next.
Visit(graph, r) ==
  LET nodes == r.nodes \cup r.to_visit
  IN  [nodes |-> nodes, to_visit |-> (UNION {Peers(graph, i) : i \in r.to_visit}) \ nodes]

\* What the loop has reached when none is left to visit.  (Every round before that
\* reaches a node more, and later ones would change nothing.)
Reached(graph, pivot) ==
  LET n == Cardinality(graph.nodes)
      round[k \in 0..n] == IF k = 0 THEN [nodes |-> {}, to_visit |-> {pivot}]
                           ELSE Visit(graph, round[k - 1])
  IN  round[n].nodes

\* Mutant: the edges out of the nodes that go stay.
KeepEdges(graph, pivot) ==
  [graph EXCEPT !.nodes = Reached(graph, pivot)]

\* What is left; the code returns the other nodes.
remove_unreachable_nodes(graph, pivot) ==
  IF pivot \notin graph.nodes THEN NoGraph
  ELSE LET nodes == Reached(graph, pivot)
       IN  [nodes |-> nodes, edges |-> Restrict(graph.edges, DOMAIN graph.edges \cap nodes)]
===============================================================================
