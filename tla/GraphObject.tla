----------------------------- MODULE GraphObject -----------------------------
(***************************************************************************)
(* A Graph that is built and taken apart, next to a plain relation.        *)
(***************************************************************************)
EXTENDS Graph

CONSTANTS Ids

VARIABLES
  graph,
  known,   \* the nodes it should have,
  links    \* and the edges

graphVars == <<graph, known, links>>

GraphInit == graph = NoGraph /\ known = {} /\ links = {}

AddEdge(from, to) ==
  /\ graph' = add_edge(graph, from, to)
  /\ known' = known \cup {from, to}
  /\ links' = links \cup {<<from, to>>}

RemoveEdge(from, to) ==
  /\ graph' = remove_edge(graph, from, to)
  /\ links' = links \ {<<from, to>>}
  /\ UNCHANGED known

\* The nodes that are in every set that contains the pivot and that no edge leaves.
ReachableFrom(pivot) ==
  {id \in known : \A set \in SUBSET known :
     pivot \in set /\ (\A link \in links : link[1] \in set => link[2] \in set) => id \in set}

RemoveUnreachable(pivot) ==
  /\ graph' = remove_unreachable_nodes(graph, pivot)
  /\ known' = IF pivot \in known THEN ReachableFrom(pivot) ELSE {}
  /\ links' = {link \in links : link[1] \in known'}

GraphNext ==
  \/ \E from, to \in Ids : AddEdge(from, to) \/ RemoveEdge(from, to)
  \/ \E pivot \in Ids : RemoveUnreachable(pivot)

GraphSpec == GraphInit /\ [][GraphNext]_graphVars
-------------------------------------------------------------------------------
\* remove_unreachable_nodes keeps what can be reached from the pivot and the edges
\* between those nodes, and no operation leaves a dangling edge or an empty set of
\* edges, so that operator== compares graphs.
GraphAgrees ==
  /\ graph.nodes = known
  /\ {e \in Ids \X Ids : e[2] \in Peers(graph, e[1])} = links
  /\ \A i \in DOMAIN graph.edges : graph.edges[i] # {} /\ graph.edges[i] \subseteq known
===============================================================================
