---------------------------- MODULE NetworkProofs ----------------------------
(***************************************************************************)
(* The graph of a configuration, and the flood of an unreliable broadcast  *)
(* along it.                                                               *)
(*                                                                         *)
(* A Graph agrees with a plain relation, however it was built, for any set *)
(* of identifiers.                                                         *)
(*                                                                         *)
(* GraphAgrees is inductive with the types of its variables.  The work is  *)
(* in remove_unreachable_nodes: what its rounds reach can be reached       *)
(* (VisitSound), every round but the last ones reaches a node more         *)
(* (VisitGrows), so that in the end nothing is left to visit, and what has *)
(* been reached is closed under the edges.                                 *)
(*                                                                         *)
(* A broadcast floods the network along tables that every hub computes for *)
(* itself.  FloodCovers speaks of the end.  FloodInv says where the copies *)
(* are: when the tables agree, whoever has sent to their targets has left  *)
(* a copy with each of these or on the way there, and without odd cycles   *)
(* just one.  The work is in recalculate: whoever is first visited in a    *)
(* round is served by a hub of the round before (Served), so that the      *)
(* targets, followed from the source, come to all that can be reached      *)
(* (Coverage); and without odd cycles by no other hub (OneServer).         *)
(***************************************************************************)
EXTENDS GraphObject, UnreliableBroadcast, TLAPS, FiniteSetTheorems, WellFoundedInduction

(* The graph.                                                              *)

\* A graph over the nodes in `known'.
GraphOver(g, nodes) ==
  /\ g = [nodes |-> g.nodes, edges |-> g.edges]
  /\ g.nodes = nodes
  /\ g.edges = [i \in DOMAIN g.edges |-> g.edges[i]]
  /\ DOMAIN g.edges \subseteq nodes
  /\ \A i \in DOMAIN g.edges : g.edges[i] # {} /\ g.edges[i] \subseteq nodes

\* It has the edges in `edges'.
HasEdges(g, edges) == \A i, j : j \in Peers(g, i) <=> <<i, j>> \in edges

GraphInv ==
  /\ known \subseteq Ids /\ IsFiniteSet(known)
  /\ links \subseteq known \X known
  /\ GraphOver(graph, known)
  /\ HasEdges(graph, links)

\* Induction over the natural numbers.
LEMMA Induction ==
  ASSUME NEW S, 0 \in S, \A k \in Nat : k \in S => k + 1 \in S
  PROVE  Nat \subseteq S
<1> SUFFICES ASSUME Nat \ S # {} PROVE FALSE
  OBVIOUS
<1> DEFINE T == Nat \ S
           R == {ss \in Nat \X Nat : ss[1] < ss[2]}
<1>1. OpToRel(<, Nat) = R
  BY DEF OpToRel
<1>2. IsWellFoundedOn(R, Nat) /\ T \subseteq Nat /\ T # {}
  BY <1>1, NatLessThanWellFounded, Zenon
<1> HIDE DEF R
<1>3. PICK m \in T : \A y \in T : ~(<<y, m>> \in R)
  BY <1>2, WFMin, Zenon
<1>4. m # 0 /\ m \in Nat /\ m - 1 \in Nat /\ (m - 1) + 1 = m
  BY <1>3
<1>5. <<m - 1, m>> \in R
  BY <1>4 DEF R
<1>6. m - 1 \in S
  BY <1>3, <1>4, <1>5
<1> QED
  BY <1>3, <1>4, <1>6
-------------------------------------------------------------------------------
(* remove_unreachable_nodes.                                               *)

\* The function that the rounds of the loop define.
IsRounds(g, start, n, f) == f = [k \in 0..n |-> IF k = 0 THEN start ELSE Visit(g, f[k - 1])]

\* There is such a function.
LEMMA RoundsExist ==
  ASSUME NEW g, NEW start, NEW n \in Nat
  PROVE  \E f : IsRounds(g, start, n, f)
<1> DEFINE S == {m \in Nat : \E f : IsRounds(g, start, m, f)}
<1>1. 0 \in S
  <2> DEFINE f == [k \in 0..0 |-> start]
  <2>1. IsRounds(g, start, 0, f)
    BY DEF IsRounds
  <2> QED
    BY <2>1
<1>2. ASSUME NEW k \in Nat, k \in S PROVE k + 1 \in S
  <2>1. PICK f : IsRounds(g, start, k, f)
    BY <1>2
  <2> DEFINE h == [i \in 0..(k + 1) |-> IF i = k + 1 THEN Visit(g, f[k]) ELSE f[i]]
  <2>2. IsRounds(g, start, k + 1, h)
    BY <2>1 DEF IsRounds
  <2> QED
    BY <2>2
<1> HIDE DEF S
<1>3. n \in S
  BY <1>1, <1>2, Induction
<1> QED
  BY <1>3 DEF S

\* What holds of the loop between two rounds: it has reached and is to visit only nodes that
\* are in every set of nodes that contains the pivot and that no edge leaves, and what
\* has been reached leads only to what has been or is to be.
Closed(g, set) == \A i \in set : Peers(g, i) \subseteq set
Sound(g, pivot, r) ==
  /\ r.nodes \cup r.to_visit \subseteq g.nodes
  /\ r.nodes \cap r.to_visit = {}
  /\ pivot \in r.nodes \cup r.to_visit
  /\ \A set : pivot \in set /\ Closed(g, set) => r.nodes \cup r.to_visit \subseteq set
  /\ \A i \in r.nodes : Peers(g, i) \subseteq r.nodes \cup r.to_visit

\* A round keeps it so.
LEMMA VisitSound ==
  ASSUME NEW g, GraphOver(g, g.nodes), NEW pivot, NEW r, Sound(g, pivot, r)
  PROVE  Sound(g, pivot, Visit(g, r)) /\ Visit(g, r).nodes = r.nodes \cup r.to_visit
<1> DEFINE v == Visit(g, r)
           U == UNION {Peers(g, i) : i \in r.to_visit}
<1>1. v.nodes = r.nodes \cup r.to_visit /\ v.to_visit = U \ (r.nodes \cup r.to_visit)
  BY DEF Visit
<1>2. \A i : Peers(g, i) \subseteq g.nodes
  BY DEF GraphOver, Peers
<1>8. \A x : x \in U <=> \E i \in r.to_visit : x \in Peers(g, i)
  OBVIOUS
<1> HIDE DEF v, U
<1>7. \A x : x \in v.to_visit <=>
              x \notin v.nodes /\ \E i \in r.to_visit : x \in Peers(g, i)
  BY <1>1, <1>8
<1>3. v.nodes \cup v.to_visit \subseteq g.nodes /\ v.nodes \cap v.to_visit = {}
  BY <1>1, <1>2, <1>7 DEF Sound
<1>4. pivot \in v.nodes \cup v.to_visit
  BY <1>1 DEF Sound
<1>5. ASSUME NEW set, pivot \in set, Closed(g, set) PROVE v.nodes \cup v.to_visit \subseteq set
  <2>1. r.nodes \cup r.to_visit \subseteq set
    BY <1>5 DEF Sound
  <2> QED
    BY <1>1, <1>5, <1>7, <2>1 DEF Closed
<1>6. ASSUME NEW i \in v.nodes PROVE Peers(g, i) \subseteq v.nodes \cup v.to_visit
  <2>1. CASE i \in r.nodes
    BY <1>1, <2>1 DEF Sound
  <2>2. CASE i \in r.to_visit
    BY <1>7, <2>2
  <2> QED
    BY <1>1, <1>6, <2>1, <2>2
<1> QED
  BY <1>1, <1>3, <1>4, <1>5, <1>6 DEF Sound, v

\* While something is left to visit, k rounds have reached k nodes.
Grows(r, k) == r.to_visit = {} \/ k <= Cardinality(r.nodes)

\* A round that visits anything reaches a node more.
LEMMA VisitGrows ==
  ASSUME NEW g, GraphOver(g, g.nodes), IsFiniteSet(g.nodes), NEW pivot, NEW r,
         Sound(g, pivot, r), NEW k \in Nat, Grows(r, k)
  PROVE  Grows(Visit(g, r), k + 1)
<1> DEFINE v == Visit(g, r)
<1>1. /\ v.nodes = r.nodes \cup r.to_visit
      /\ v.to_visit = (UNION {Peers(g, i) : i \in r.to_visit}) \ (r.nodes \cup r.to_visit)
  BY DEF Visit
<1> HIDE DEF v
<1>2. CASE r.to_visit = {}
  BY <1>1, <1>2 DEF Grows, v
<1>3. CASE r.to_visit # {}
  <2>1. IsFiniteSet(v.nodes)
    BY <1>1, FS_Subset DEF Sound
  <2>2. r.nodes \in SUBSET v.nodes /\ r.nodes # v.nodes
    BY <1>1, <1>3 DEF Sound
  <2>3. /\ Cardinality(v.nodes) \in Nat /\ Cardinality(r.nodes) \in Nat
        /\ Cardinality(r.nodes) <= Cardinality(v.nodes)
        /\ Cardinality(r.nodes) # Cardinality(v.nodes)
    BY <2>1, <2>2, FS_Subset, FS_CardinalityType
  <2>4. k <= Cardinality(r.nodes)
    BY <1>3 DEF Grows
  <2>5. k + 1 <= Cardinality(v.nodes)
    BY <2>3, <2>4
  <2> QED
    BY <2>5 DEF Grows, v
<1> QED
  BY <1>2, <1>3

\* remove_unreachable_nodes reaches the least set that has the pivot and that no edge leaves.
LEMMA ReachedIsLeast ==
  ASSUME NEW g, GraphOver(g, g.nodes), IsFiniteSet(g.nodes), NEW pivot \in g.nodes
  PROVE  /\ pivot \in Reached(g, pivot) /\ Reached(g, pivot) \subseteq g.nodes
         /\ Closed(g, Reached(g, pivot))
         /\ \A set : pivot \in set /\ Closed(g, set) => Reached(g, pivot) \subseteq set
<1> DEFINE n == Cardinality(g.nodes)
           start == [nodes |-> {}, to_visit |-> {pivot}]
<1>0. n \in Nat
  BY FS_CardinalityType
<1>1. \E f : IsRounds(g, start, n, f) /\ Reached(g, pivot) = f[n].nodes
  <2>1. \E f : f = [k \in 0..n |-> IF k = 0 THEN start ELSE Visit(g, f[k - 1])]
    <3> HIDE DEF n, start
    <3>1. \E f : IsRounds(g, start, n, f)
      BY <1>0, RoundsExist
    <3> QED
      BY <3>1, Zenon DEF IsRounds
  <2> DEFINE h == CHOOSE f : f = [k \in 0..n |-> IF k = 0 THEN start ELSE Visit(g, f[k - 1])]
  <2>2. Reached(g, pivot) = h[n].nodes
    BY DEF Reached
  <2>3. h = [k \in 0..n |-> IF k = 0 THEN start ELSE Visit(g, h[k - 1])]
    BY <2>1, Zenon
  <2> HIDE DEF h
  <2>4. IsRounds(g, start, n, h)
    BY <2>3, Zenon DEF IsRounds
  <2> QED
    BY <2>2, <2>4
<1>2. PICK f : IsRounds(g, start, n, f) /\ Reached(g, pivot) = f[n].nodes
  BY <1>1
<1>3. Sound(g, pivot, start) /\ Grows(start, 0)
  BY FS_EmptySet DEF Sound, Grows
<1> HIDE DEF n, start
<1> DEFINE S == {k \in Nat : k <= n => Sound(g, pivot, f[k]) /\ Grows(f[k], k)}
<1>4. 0 \in S
  <2>1. f[0] = start
    BY <1>0, <1>2 DEF IsRounds
  <2> QED
    BY <1>3, <2>1
<1>5. ASSUME NEW k \in Nat, k \in S PROVE k + 1 \in S
  <2> SUFFICES ASSUME k + 1 <= n PROVE Sound(g, pivot, f[k + 1]) /\ Grows(f[k + 1], k + 1)
    OBVIOUS
  <2>1. Sound(g, pivot, f[k]) /\ Grows(f[k], k)
    BY <1>0, <1>5
  <2>2. f[k + 1] = Visit(g, f[k])
    <3>1. k + 1 \in 0..n /\ k + 1 # 0 /\ (k + 1) - 1 = k
      BY <1>0
    <3> QED
      BY <1>2, <3>1, Zenon DEF IsRounds
  <2> QED
    BY <2>1, <2>2, VisitSound, VisitGrows
<1> HIDE DEF S
<1>6. n \in S /\ n <= n
  BY <1>0, <1>4, <1>5, Induction
<1> DEFINE r == f[n]
<1>7. Sound(g, pivot, r) /\ Grows(r, n)
  BY <1>6 DEF S
<1> HIDE DEF r
<1>8. r.to_visit = {}
  <2> SUFFICES ASSUME r.to_visit # {} PROVE FALSE
    OBVIOUS
  <2>1. r.nodes \in SUBSET g.nodes /\ r.nodes # g.nodes
    BY <1>7 DEF Sound
  <2>2. Cardinality(r.nodes) <= n /\ Cardinality(r.nodes) # n /\ Cardinality(r.nodes) \in Nat
    BY <2>1, FS_Subset, FS_CardinalityType DEF n
  <2>3. n <= Cardinality(r.nodes)
    BY <1>7 DEF Grows
  <2> QED
    BY <1>0, <2>2, <2>3
<1>9. Reached(g, pivot) = r.nodes
  BY <1>2 DEF r
<1> QED
  BY <1>7, <1>8, <1>9 DEF Sound, Closed
-------------------------------------------------------------------------------
(* The operations.                                                         *)

\* The peers of the nodes of a graph are its edges.
LEMMA PeersFacts ==
  ASSUME NEW g, NEW nodes, GraphOver(g, nodes)
  PROVE  \A i : /\ Peers(g, i) \subseteq nodes
                /\ Peers(g, i) # {} <=> i \in DOMAIN g.edges
                /\ i \in DOMAIN g.edges => Peers(g, i) = g.edges[i]
BY DEF GraphOver, Peers

\* Graph::add_edge
LEMMA AddEdgeStep ==
  ASSUME GraphInv, NEW from \in Ids, NEW to \in Ids, AddEdge(from, to)
  PROVE  GraphInv'
<1> DEFINE e == [i \in DOMAIN graph.edges \cup {from} |->
                   IF i = from THEN Peers(graph, from) \cup {to} ELSE graph.edges[i]]
<1>1. graph'.nodes = known' /\ graph'.edges = e /\ graph' = [nodes |-> known', edges |-> e]
  BY DEF AddEdge, add_edge, GraphInv, GraphOver
<1>2. known' = known \cup {from, to} /\ links' = links \cup {<<from, to>>}
  BY DEF AddEdge
<1>3. GraphOver(graph, known) /\ HasEdges(graph, links) /\ IsFiniteSet(known)
      /\ known \subseteq Ids /\ links \subseteq known \X known
  BY DEF GraphInv
<1>4. DOMAIN e = DOMAIN graph.edges \cup {from}
      /\ \A i \in DOMAIN e : e[i] = IF i = from THEN Peers(graph, from) \cup {to} ELSE graph.edges[i]
  OBVIOUS
<1>5. e = [i \in DOMAIN e |-> e[i]]
  OBVIOUS
<1> HIDE DEF e
<1>6. IsFiniteSet(known')
  <2>1. IsFiniteSet((known \cup {from}) \cup {to})
    BY <1>3, FS_AddElement, Zenon
  <2>2. (known \cup {from}) \cup {to} = known'
    BY <1>2
  <2> QED
    BY <2>1, <2>2
<1>7. GraphOver(graph', known')
  <2>1. DOMAIN e \subseteq known'
    BY <1>2, <1>3, <1>4 DEF GraphOver
  <2>2. ASSUME NEW i \in DOMAIN e PROVE e[i] # {} /\ e[i] \subseteq known'
    BY <1>2, <1>3, <1>4, PeersFacts DEF GraphOver
  <2> QED
    BY <1>1, <1>5, <2>1, <2>2 DEF GraphOver
<1>8. HasEdges(graph', links')
  <2> SUFFICES ASSUME NEW i, NEW j PROVE j \in Peers(graph', i) <=> <<i, j>> \in links'
    BY Zenon DEF HasEdges
  <2>1. Peers(graph', i) = IF i = from THEN Peers(graph, from) \cup {to} ELSE Peers(graph, i)
    BY <1>1, <1>4 DEF Peers
  <2>2. j \in Peers(graph, i) <=> <<i, j>> \in links
    BY <1>3 DEF HasEdges
  <2> QED
    BY <1>2, <2>1, <2>2
<1> QED
  BY <1>2, <1>3, <1>6, <1>7, <1>8 DEF GraphInv

\* Graph::remove_edge
LEMMA RemoveEdgeStep ==
  ASSUME GraphInv, NEW from \in Ids, NEW to \in Ids, RemoveEdge(from, to)
  PROVE  GraphInv'
<1>1. /\ graph' = remove_edge(graph, from, to)
      /\ known' = known /\ links' = links \ {<<from, to>>}
  BY DEF RemoveEdge
<1>2. /\ GraphOver(graph, known) /\ HasEdges(graph, links) /\ IsFiniteSet(known)
      /\ known \subseteq Ids /\ links \subseteq known \X known
  BY DEF GraphInv
<1> DEFINE left(i) == IF i = from THEN Peers(graph, i) \ {to} ELSE Peers(graph, i)
<1>3. /\ GraphOver(graph', known)
      /\ \A i : Peers(graph', i) = left(i)
  <2>1. CASE to \notin Peers(graph, from)
    BY <1>1, <1>2, <2>1 DEF remove_edge
  <2>2. CASE to \in Peers(graph, from) /\ graph.edges[from] = {to}
    <3> DEFINE e == [i \in DOMAIN graph.edges \ {from} |-> graph.edges[i]]
    <3>1. graph' = [graph EXCEPT !.edges = e]
      BY <1>1, <2>2 DEF remove_edge, Restrict
    <3>2. /\ graph' = [nodes |-> known, edges |-> e]
      BY <1>2, <3>1 DEF GraphOver
    <3>3. /\ e = [i \in DOMAIN e |-> e[i]] /\ DOMAIN e = DOMAIN graph.edges \ {from}
          /\ \A i \in DOMAIN e : e[i] = graph.edges[i]
      OBVIOUS
    <3> HIDE DEF e
    <3>4. GraphOver(graph', known)
      BY <1>2, <3>2, <3>3 DEF GraphOver
    <3>5. ASSUME NEW i PROVE Peers(graph', i) = left(i)
      <4>1. Peers(graph, from) = {to}
        BY <1>2, <2>2 DEF Peers
      <4> QED
        BY <3>2, <3>3, <4>1 DEF Peers
    <3> QED
      BY <3>4, <3>5
  <2>3. CASE to \in Peers(graph, from) /\ graph.edges[from] # {to}
    <3> DEFINE e == [graph.edges EXCEPT ![from] = @ \ {to}]
    <3>1. graph' = [graph EXCEPT !.edges = e]
      BY <1>1, <1>2, <2>3 DEF remove_edge, GraphOver
    <3>2. /\ graph' = [nodes |-> known, edges |-> e]
      BY <1>2, <3>1 DEF GraphOver
    <3>3. /\ e = [i \in DOMAIN e |-> e[i]] /\ DOMAIN e = DOMAIN graph.edges
          /\ \A i \in DOMAIN e : e[i] = IF i = from THEN graph.edges[from] \ {to} ELSE graph.edges[i]
      BY <1>2, Zenon DEF GraphOver
    <3> HIDE DEF e
    <3>6. /\ from \in DOMAIN graph.edges /\ to \in graph.edges[from]
          /\ Peers(graph, from) = graph.edges[from]
      BY <2>3 DEF Peers
    <3>7. graph.edges[from] \ {to} # {}
      BY <2>3, <3>6
    <3>4. GraphOver(graph', known)
      BY <1>2, <3>2, <3>3, <3>7 DEF GraphOver
    <3>5. ASSUME NEW i PROVE Peers(graph', i) = left(i)
      BY <3>2, <3>3, <3>6 DEF Peers
    <3> QED
      BY <3>4, <3>5
  <2> QED
    BY <2>1, <2>2, <2>3
<1>4. HasEdges(graph', links')
  <2> SUFFICES ASSUME NEW i, NEW j PROVE j \in Peers(graph', i) <=> <<i, j>> \in links'
    BY Zenon DEF HasEdges
  <2>1. j \in Peers(graph, i) <=> <<i, j>> \in links
    BY <1>2 DEF HasEdges
  <2>2. Peers(graph', i) = left(i)
    BY <1>3
  <2> QED
    BY <1>1, <2>1, <2>2
<1> QED
  BY <1>1, <1>2, <1>3, <1>4 DEF GraphInv

\* Graph::remove_unreachable_nodes
LEMMA RemoveUnreachableStep ==
  ASSUME GraphInv, NEW pivot \in Ids, RemoveUnreachable(pivot)
  PROVE  GraphInv'
<1>1. /\ graph' = remove_unreachable_nodes(graph, pivot)
      /\ known' = IF pivot \in known THEN ReachableFrom(pivot) ELSE {}
      /\ links' = {link \in links : link[1] \in known'}
  BY DEF RemoveUnreachable
<1>2. /\ GraphOver(graph, known) /\ HasEdges(graph, links) /\ IsFiniteSet(known)
      /\ known \subseteq Ids /\ links \subseteq known \X known /\ graph.nodes = known
  BY DEF GraphInv, GraphOver
<1>3. CASE pivot \notin known
  <2>1. graph' = [nodes |-> {}, edges |-> <<>>] /\ known' = {} /\ links' = {}
    BY <1>1, <1>2, <1>3 DEF remove_unreachable_nodes, NoGraph
  <2>2. GraphOver(graph', known') /\ HasEdges(graph', links')
    BY <2>1 DEF GraphOver, HasEdges, Peers
  <2> QED
    BY <2>1, <2>2, FS_EmptySet DEF GraphInv
<1>4. CASE pivot \in known
  <2> DEFINE R == Reached(graph, pivot)
             e == [i \in DOMAIN graph.edges \cap R |-> graph.edges[i]]
  <2>1. /\ pivot \in R /\ R \subseteq known /\ Closed(graph, R)
        /\ \A set : pivot \in set /\ Closed(graph, set) => R \subseteq set
    BY <1>2, <1>4, ReachedIsLeast
  <2>2. graph' = [nodes |-> R, edges |-> e]
    BY <1>1, <1>2, <1>4 DEF remove_unreachable_nodes, Restrict
  <2>3. /\ e = [i \in DOMAIN e |-> e[i]] /\ DOMAIN e = DOMAIN graph.edges \cap R
        /\ \A i \in DOMAIN e : e[i] = graph.edges[i]
    OBVIOUS
  <2> HIDE DEF R, e
  <2>4. \A set \in SUBSET known :
          (\A link \in links : link[1] \in set => link[2] \in set) <=> Closed(graph, set)
    <3> SUFFICES ASSUME NEW set \in SUBSET known
                 PROVE  (\A link \in links : link[1] \in set => link[2] \in set)
                          <=> Closed(graph, set)
      OBVIOUS
    <3>1. ASSUME \A link \in links : link[1] \in set => link[2] \in set
          PROVE  Closed(graph, set)
      <4> SUFFICES ASSUME NEW i \in set, NEW j \in Peers(graph, i) PROVE j \in set
        BY DEF Closed
      <4>1. <<i, j>> \in links
        BY <1>2 DEF HasEdges
      <4> QED
        BY <3>1, <4>1
    <3>2. ASSUME Closed(graph, set), NEW link \in links, link[1] \in set PROVE link[2] \in set
      <4>1. link = <<link[1], link[2]>>
        BY <1>2
      <4>2. link[2] \in Peers(graph, link[1])
        BY <1>2, <4>1 DEF HasEdges
      <4> QED
        BY <3>2, <4>2 DEF Closed
    <3> QED
      BY <3>1, <3>2
  <2>5. known' = R
    <3>1. known' = {id \in known : \A set \in SUBSET known :
                      pivot \in set /\ Closed(graph, set) => id \in set}
      BY <1>1, <1>4, <2>4 DEF ReachableFrom
    <3>2. R \in SUBSET known
      BY <2>1
    <3>3. known' \subseteq R
      BY <2>1, <3>1, <3>2
    <3>4. R \subseteq known'
      BY <2>1, <3>1
    <3> QED
      BY <3>3, <3>4
  <2>6. \A i \in R : Peers(graph, i) \subseteq R
    BY <2>1 DEF Closed
  <2>7. GraphOver(graph', known')
    <3>1. ASSUME NEW i \in DOMAIN e PROVE e[i] # {} /\ e[i] \subseteq R
      <4>1. e[i] = Peers(graph, i) /\ i \in R /\ e[i] # {}
        BY <1>2, <2>3 DEF GraphOver, Peers
      <4> QED
        BY <2>6, <4>1
    <3> QED
      BY <2>2, <2>3, <2>5, <3>1 DEF GraphOver
  <2>8. HasEdges(graph', links')
    <3> SUFFICES ASSUME NEW i, NEW j PROVE j \in Peers(graph', i) <=> <<i, j>> \in links'
      BY Zenon DEF HasEdges
    <3>1. j \in Peers(graph, i) <=> <<i, j>> \in links
      BY <1>2 DEF HasEdges
    <3>2. Peers(graph', i) = IF i \in R THEN Peers(graph, i) ELSE {}
      BY <2>2, <2>3 DEF Peers
    <3>3. <<i, j>> \in links' <=> <<i, j>> \in links /\ i \in R
      BY <1>1, <2>5
    <3> QED
      BY <3>1, <3>2, <3>3
  <2>9. links' \subseteq known' \X known'
    <3> SUFFICES ASSUME NEW link \in links' PROVE link \in known' \X known'
      OBVIOUS
    <3>1. link = <<link[1], link[2]>> /\ link \in links /\ link[1] \in R
      BY <1>1, <1>2, <2>5
    <3>2. link[2] \in Peers(graph, link[1])
      BY <1>2, <3>1 DEF HasEdges
    <3> QED
      BY <2>5, <2>6, <3>1, <3>2
  <2>10. IsFiniteSet(known')
    BY <1>2, <2>1, <2>5, FS_Subset
  <2> QED
    BY <1>2, <2>1, <2>5, <2>7, <2>8, <2>9, <2>10 DEF GraphInv
<1> QED
  BY <1>3, <1>4
-------------------------------------------------------------------------------
\* add_edge, remove_edge and remove_unreachable_nodes: whatever they are applied to and in
\* whatever order, the graph has the nodes and the edges that it should have.
THEOREM GraphIsRelation == GraphSpec => []GraphAgrees
<1>1. GraphInit => GraphInv
  BY FS_EmptySet DEF GraphInit, GraphInv, NoGraph, GraphOver, HasEdges, Peers
<1>2. GraphInv /\ [GraphNext]_graphVars => GraphInv'
  <2> SUFFICES ASSUME GraphInv, [GraphNext]_graphVars PROVE GraphInv'
    OBVIOUS
  <2>1. CASE UNCHANGED graphVars
    BY <2>1 DEF graphVars, GraphInv
  <2>2. CASE GraphNext
    BY <2>2, AddEdgeStep, RemoveEdgeStep, RemoveUnreachableStep DEF GraphNext
  <2> QED
    BY <2>1, <2>2
<1>3. GraphInv => GraphAgrees
  <2> SUFFICES ASSUME GraphInv PROVE GraphAgrees
    OBVIOUS
  <2>1. \A e \in Ids \X Ids : e[2] \in Peers(graph, e[1]) <=> e \in links
    <3>1. \A i, j : j \in Peers(graph, i) <=> <<i, j>> \in links
      BY Zenon DEF GraphInv, HasEdges
    <3>2. \A e \in Ids \X Ids : e = <<e[1], e[2]>>
      OBVIOUS
    <3> QED
      BY <3>1, <3>2
  <2>2. links \subseteq Ids \X Ids
    BY DEF GraphInv
  <2>3. {e \in Ids \X Ids : e[2] \in Peers(graph, e[1])} = links
    BY <2>1, <2>2
  <2> QED
    BY <2>3 DEF GraphInv, GraphOver, GraphAgrees
<1> QED
  BY <1>1, <1>2, <1>3, PTL DEF GraphSpec
-------------------------------------------------------------------------------
(* The rounds of recalculate.                                              *)

\* The function that the rounds of recalculate define.
IsSearch(g, start, n, f) == f = [k \in 0..n |-> IF k = 0 THEN start ELSE Onward(g, f[k - 1])]
Start(source) == [visited |-> {}, layer |-> {source}]

\* There is such a function.
LEMMA SearchExists ==
  ASSUME NEW g, NEW start, NEW n \in Nat
  PROVE  \E f : IsSearch(g, start, n, f)
<1> DEFINE S == {m \in Nat : \E f : IsSearch(g, start, m, f)}
<1>1. 0 \in S
  <2> DEFINE f == [k \in 0..0 |-> start]
  <2>1. IsSearch(g, start, 0, f)
    BY DEF IsSearch
  <2> QED
    BY <2>1
<1>2. ASSUME NEW k \in Nat, k \in S PROVE k + 1 \in S
  <2>1. PICK f : IsSearch(g, start, k, f)
    BY <1>2
  <2> DEFINE h == [i \in 0..(k + 1) |-> IF i = k + 1 THEN Onward(g, f[k]) ELSE f[i]]
  <2>2. IsSearch(g, start, k + 1, h)
    BY <2>1 DEF IsSearch
  <2> QED
    BY <2>2
<1> HIDE DEF S
<1>3. n \in S
  BY <1>1, <1>2, Induction
<1> QED
  BY <1>3 DEF S

\* It is what Rounds chooses.
LEMMA RoundsIsSearch ==
  ASSUME NEW g, NEW source, Cardinality(g.nodes) \in Nat
  PROVE  IsSearch(g, Start(source), Cardinality(g.nodes), Rounds(g, source))
<1> DEFINE n == Cardinality(g.nodes)
           start == Start(source)
           h == CHOOSE f : f = [k \in 0..n |-> IF k = 0 THEN start ELSE Onward(g, f[k - 1])]
<1>1. Rounds(g, source) = h
  BY DEF Rounds, Start
<1>2. \E f : f = [k \in 0..n |-> IF k = 0 THEN start ELSE Onward(g, f[k - 1])]
  <2>1. n \in Nat
    OBVIOUS
  <2> HIDE DEF n, start
  <2>2. \E f : IsSearch(g, start, n, f)
    BY <2>1, SearchExists
  <2> QED
    BY <2>2, Zenon DEF IsSearch
<1>3. h = [k \in 0..n |-> IF k = 0 THEN start ELSE Onward(g, h[k - 1])]
  BY <1>2
<1> HIDE DEF h
<1> QED
  BY <1>1, <1>3 DEF IsSearch

\* The rounds, element by element.
Layered(g, source, n, f) ==
  /\ \A x : x \notin f[0].visited /\ (x \in f[0].layer <=> x = source)
  /\ \A k \in 0..(n - 1) : \A x :
       /\ x \in f[k + 1].visited <=> x \in f[k].visited \/ x \in f[k].layer
       /\ x \in f[k + 1].layer <=>
            \E i \in f[k].layer : x \in Peers(g, i) /\ x \notin f[k].visited
                                  /\ ~(x \in f[k].layer /\ x <= i)

\* A search has such rounds.
LEMMA SearchIsLayered ==
  ASSUME NEW g, NEW source, NEW n \in Nat, NEW f,
         IsSearch(g, Start(source), n, f)
  PROVE  Layered(g, source, n, f)
<1>0. \A i \in 0..n : f[i] = IF i = 0 THEN Start(source) ELSE Onward(g, f[i - 1])
  BY Zenon DEF IsSearch
<1>1. f[0] = Start(source)
  BY <1>0
<1>2. ASSUME NEW k \in 0..(n - 1) PROVE f[k + 1] = Onward(g, f[k])
  <2>1. k + 1 \in 0..n /\ k + 1 # 0 /\ (k + 1) - 1 = k
    OBVIOUS
  <2> QED
    BY <1>0, <2>1
<1>3. ASSUME NEW k \in 0..(n - 1), NEW x
      PROVE  /\ x \in f[k + 1].visited <=> x \in f[k].visited \/ x \in f[k].layer
             /\ x \in f[k + 1].layer <=>
                  \E i \in f[k].layer : x \in Peers(g, i) /\ x \notin f[k].visited
                                        /\ ~(x \in f[k].layer /\ x <= i)
  <2> DEFINE r == f[k]
             V == r.visited
             L == r.layer
  <2>0. f[k + 1] = Onward(g, r)
    BY <1>2
  <2> HIDE DEF r
  <2>1. f[k + 1].visited = V \cup L /\ f[k + 1].layer = Round(g, V, L, L)
    BY <2>0 DEF Onward
  <2> HIDE DEF V, L
  <2>2. x \in Round(g, V, L, L) <=>
          \E i \in L : x \in Peers(g, i) /\ x \notin V /\ ~(x \in L /\ x <= i)
    BY DEF Round
  <2>3. x \in f[k + 1].layer <=>
          \E i \in L : x \in Peers(g, i) /\ x \notin V /\ ~(x \in L /\ x <= i)
    BY <2>1, <2>2
  <2> QED
    BY <2>1, <2>3 DEF V, L, r
<1> QED
  BY <1>1, <1>3 DEF Layered, Start

\* What is visited before a round is what the earlier ones have visited.
LEMMA VisitedIs ==
  ASSUME NEW g, NEW source, NEW n \in Nat, NEW f, Layered(g, source, n, f)
  PROVE  \A k \in 0..n : \A x : x \in f[k].visited <=> \E j \in 0..(k - 1) : x \in f[j].layer
<1> DEFINE S == {k \in Nat : k <= n =>
                   \A x : x \in f[k].visited <=> \E j \in 0..(k - 1) : x \in f[j].layer}
<1>1. 0 \in S
  BY DEF Layered
<1>2. ASSUME NEW k \in Nat, k \in S PROVE k + 1 \in S
  <2> SUFFICES ASSUME k + 1 <= n, NEW x
               PROVE  x \in f[k + 1].visited <=> \E j \in 0..((k + 1) - 1) : x \in f[j].layer
    OBVIOUS
  <2>1. k \in 0..(n - 1)
    OBVIOUS
  <2>2. x \in f[k].visited <=> \E j \in 0..(k - 1) : x \in f[j].layer
    BY <1>2, <2>1
  <2>3. x \in f[k + 1].visited <=> x \in f[k].visited \/ x \in f[k].layer
    BY <2>1 DEF Layered
  <2>4. 0..((k + 1) - 1) = 0..(k - 1) \cup {k}
    BY <2>1
  <2> QED
    BY <2>2, <2>3, <2>4
<1> HIDE DEF S
<1>3. Nat \subseteq S
  BY <1>1, <1>2, Induction
<1> QED
  BY <1>3 DEF S

\* A set of numbers has a least element.
LEMMA LeastOf ==
  ASSUME NEW S, S \subseteq Nat, S # {}
  PROVE  \E m \in S : \A k \in S : m <= k
<1> DEFINE R == {ss \in Nat \X Nat : ss[1] < ss[2]}
<1>1. OpToRel(<, Nat) = R
  BY DEF OpToRel
<1>2. IsWellFoundedOn(R, Nat)
  BY <1>1, NatLessThanWellFounded, Zenon
<1> HIDE DEF R
<1>3. PICK m \in S : \A y \in S : ~(<<y, m>> \in R)
  BY <1>2, WFMin, Zenon
<1>4. \A y \in S : ~(y < m)
  BY <1>3, Zenon DEF R
<1> QED
  BY <1>3, <1>4

\* Node `x' is first visited in round k.
New(f, k, x) == x \in f[k].layer /\ x \notin f[k].visited

\* Whatever is visited is visited for the first time, in one round.
LEMMA FirstRound ==
  ASSUME NEW g, NEW source, NEW n \in Nat, NEW f, Layered(g, source, n, f),
         NEW k \in 0..n, NEW x \in f[k].layer
  PROVE  \E j \in 0..k : New(f, j, x)
<1> DEFINE S == {j \in 0..n : x \in f[j].layer}
<1>1. PICK m \in S : \A j \in S : m <= j
  <2>1. S \subseteq Nat /\ k \in S
    OBVIOUS
  <2> QED
    BY <2>1, LeastOf, Zenon
<1>2. m \in 0..k /\ x \in f[m].layer
  BY <1>1
<1>3. x \notin f[m].visited
  <2> SUFFICES ASSUME x \in f[m].visited PROVE FALSE
    OBVIOUS
  <2>1. PICK j \in 0..(m - 1) : x \in f[j].layer
    BY <1>2, VisitedIs
  <2>2. j \in 0..n /\ ~(m <= j)
    <3>1. m \in 0..n
      BY <1>1
    <3> QED
      BY <2>1, <3>1
  <2> QED
    BY <1>1, <2>1, <2>2
<1> QED
  BY <1>2, <1>3 DEF New

\* That is the earliest round it is in.
LEMMA NewIsLeast ==
  ASSUME NEW g, NEW source, NEW n \in Nat, NEW f, Layered(g, source, n, f),
         NEW k \in 0..n, NEW x, New(f, k, x), NEW j \in 0..n, x \in f[j].layer
  PROVE  k <= j
<1> SUFFICES ASSUME ~(k <= j) PROVE FALSE
  OBVIOUS
<1>1. j \in 0..(k - 1)
  OBVIOUS
<1>2. x \in f[k].visited
  BY <1>1, VisitedIs, Zenon
<1> QED
  BY <1>2 DEF New

\* The nodes of a round lead to nodes that are visited by the end of the next one.
LEMMA PeerReached ==
  ASSUME NEW g, NEW source, NEW n \in Nat, NEW f, Layered(g, source, n, f),
         NEW k \in 0..(n - 1), NEW u \in f[k].layer, NEW x \in Peers(g, u),
         x \notin f[k].visited, x \notin f[k].layer
  PROVE  New(f, k + 1, x)
BY DEF Layered, New

\* A node is first visited in the round after the one that first visits a node that leads
\* to it.
LEMMA ParentIsNew ==
  ASSUME NEW g, NEW source, NEW n \in Nat, NEW f, Layered(g, source, n, f),
         NEW k \in 0..(n - 1), NEW x, New(f, k + 1, x),
         NEW u \in f[k].layer, x \in Peers(g, u)
  PROVE  New(f, k, u)
<1> SUFFICES ASSUME u \in f[k].visited PROVE FALSE
  BY DEF New
<1>0. k \in 0..n
  OBVIOUS
<1>1. PICK j \in 0..(k - 1) : u \in f[j].layer
  BY <1>0, VisitedIs
<1>2. j \in 0..(n - 1) /\ j \in 0..((k + 1) - 1) /\ j + 1 \in 0..((k + 1) - 1) /\ k + 1 \in 0..n
  OBVIOUS
<1>3. \A i \in 0..((k + 1) - 1) : x \notin f[i].layer
  BY <1>2, VisitedIs, Zenon DEF New
<1>4. x \notin f[j].visited
  <2>1. j \in 0..n /\ \A i \in 0..(j - 1) : i \in 0..((k + 1) - 1)
    BY <1>2
  <2> QED
    BY <1>3, <2>1, VisitedIs, Zenon
<1>5. New(f, j + 1, x)
  BY <1>1, <1>2, <1>3, <1>4, PeerReached
<1> QED
  BY <1>2, <1>3, <1>5 DEF New

\* There is one, and a least one.
LEMMA LeastParent ==
  ASSUME NEW g, NEW source, NEW n \in Nat, NEW f, Layered(g, source, n, f),
         NEW k \in 0..(n - 1), f[k].layer \subseteq Nat, NEW x, New(f, k + 1, x)
  PROVE  \E u : /\ New(f, k, u) /\ x \in Peers(g, u)
                /\ \A i \in f[k].layer : x \in Peers(g, i) => u <= i
<1> DEFINE S == {i \in f[k].layer : x \in Peers(g, i)}
<1>1. S # {}
  BY DEF New, Layered
<1>2. PICK u \in S : \A i \in S : u <= i
  BY <1>1, LeastOf, Zenon
<1>3. New(f, k, u)
  BY <1>2, ParentIsNew
<1> QED
  BY <1>2, <1>3

\* How many rounds recalculate has at most, and the graphs it searches: finite, of numbers.
Size(g) == Cardinality(g.nodes)
Searchable(g, source) ==
  GraphOver(g, g.nodes) /\ IsFiniteSet(g.nodes) /\ g.nodes \subseteq Nat /\ source \in g.nodes

\* There are rounds in such a graph, and Rounds gives them.
LEMMA SearchFacts ==
  ASSUME NEW g, NEW source, Searchable(g, source)
  PROVE  /\ Size(g) \in Nat /\ Size(g) > 0
         /\ Layered(g, source, Size(g), Rounds(g, source))
<1>1. Size(g) \in Nat
  BY FS_CardinalityType DEF Searchable, Size
<1>2. Size(g) # 0
  <2>1. g.nodes # {}
    BY DEF Searchable
  <2> QED
    BY <2>1, FS_EmptySet DEF Searchable, Size
<1>3. IsSearch(g, Start(source), Size(g), Rounds(g, source))
  BY <1>1, RoundsIsSearch DEF Size
<1> QED
  BY <1>1, <1>2, <1>3, SearchIsLayered

\* The search stays in the graph.
LEMMA LayersInGraph ==
  ASSUME NEW g, NEW source, Searchable(g, source), NEW n \in Nat, NEW f,
         Layered(g, source, n, f)
  PROVE  \A k \in 0..n : f[k].layer \subseteq g.nodes /\ f[k].visited \subseteq g.nodes
<1> DEFINE S == {k \in Nat : k <= n => f[k].layer \subseteq g.nodes /\ f[k].visited \subseteq g.nodes}
<1>0. \A i : Peers(g, i) \subseteq g.nodes
  BY PeersFacts DEF Searchable
<1>1. 0 \in S
  BY DEF Layered, Searchable
<1>2. ASSUME NEW k \in Nat, k \in S PROVE k + 1 \in S
  <2> SUFFICES ASSUME k + 1 <= n
               PROVE  f[k + 1].layer \subseteq g.nodes /\ f[k + 1].visited \subseteq g.nodes
    OBVIOUS
  <2>1. k \in 0..(n - 1)
    OBVIOUS
  <2>2. f[k].layer \subseteq g.nodes /\ f[k].visited \subseteq g.nodes
    BY <1>2, <2>1
  <2>3. ASSUME NEW x \in f[k + 1].layer PROVE x \in g.nodes
    BY <1>0, <2>1, Zenon DEF Layered
  <2>4. ASSUME NEW x \in f[k + 1].visited PROVE x \in g.nodes
    BY <2>1, <2>2 DEF Layered
  <2> QED
    BY <2>3, <2>4
<1> HIDE DEF S
<1>3. Nat \subseteq S
  BY <1>1, <1>2, Induction
<1> QED
  BY <1>3 DEF S

\* While there are nodes that a round visits for the first time, k rounds have visited k
\* nodes: no node is first visited in the last round or after it.
LEMMA NewBound ==
  ASSUME NEW g, NEW source, Searchable(g, source), NEW f, Layered(g, source, Size(g), f),
         NEW k \in 0..Size(g), NEW x, New(f, k, x)
  PROVE  k < Size(g)
<1>0. Size(g) \in Nat
  BY SearchFacts
<1> DEFINE n == Size(g)
           S == {j \in Nat : j <= n => \A y : New(f, j, y) => j <= Cardinality(f[j].visited)}
<1> HIDE DEF n
<1>1. \A j \in 0..n : /\ IsFiniteSet(f[j].visited) /\ IsFiniteSet(f[j].layer)
                       /\ f[j].visited \subseteq g.nodes /\ f[j].layer \subseteq g.nodes
  <2>1. \A j \in 0..n : f[j].layer \subseteq g.nodes /\ f[j].visited \subseteq g.nodes
    BY <1>0, LayersInGraph DEF n
  <2>2. IsFiniteSet(g.nodes)
    BY DEF Searchable
  <2> QED
    BY <2>1, <2>2, FS_Subset
<1>2. 0 \in S
  <2>1. f[0].visited = {}
    BY DEF Layered
  <2> QED
    BY <2>1, FS_EmptySet
<1>3. ASSUME NEW j \in Nat, j \in S PROVE j + 1 \in S
  <2> SUFFICES ASSUME j + 1 <= n, NEW y, New(f, j + 1, y)
               PROVE  j + 1 <= Cardinality(f[j + 1].visited)
    OBVIOUS
  <2>1. j \in 0..(n - 1) /\ j \in 0..n /\ j + 1 \in 0..n
    BY <1>0 DEF n
  <2>2. f[j].layer \subseteq Nat
    BY <1>1, <2>1 DEF Searchable
  <2>3. PICK u : New(f, j, u)
    BY <1>0, <2>1, <2>2, LeastParent, Zenon DEF n
  <2>4. j <= Cardinality(f[j].visited)
    BY <1>3, <2>1, <2>3
  <2>5. \A z : z \in f[j + 1].visited <=> z \in f[j].visited \/ z \in f[j].layer
    BY <2>1 DEF Layered, n
  <2>6. f[j].visited \in SUBSET f[j + 1].visited /\ f[j].visited # f[j + 1].visited
    BY <2>3, <2>5 DEF New
  <2>7. /\ Cardinality(f[j].visited) \in Nat /\ Cardinality(f[j + 1].visited) \in Nat
        /\ Cardinality(f[j].visited) <= Cardinality(f[j + 1].visited)
        /\ Cardinality(f[j].visited) # Cardinality(f[j + 1].visited)
    BY <1>1, <2>1, <2>6, FS_Subset, FS_CardinalityType
  <2> QED
    BY <2>4, <2>7
<1> HIDE DEF S
<1>4. k \in S /\ k <= n /\ k \in 0..n
  BY <1>0, <1>2, <1>3, Induction DEF n
<1>5. k <= Cardinality(f[k].visited)
  BY <1>4 DEF S
<1>6. f[k].visited \in SUBSET g.nodes /\ f[k].visited # g.nodes
  BY <1>1, <1>4 DEF New
<1>7. /\ Cardinality(f[k].visited) \in Nat /\ Cardinality(f[k].visited) <= n
      /\ Cardinality(f[k].visited) # n
  BY <1>6, FS_Subset, FS_CardinalityType DEF Searchable, n, Size
<1>8. k < n
  BY <1>0, <1>4, <1>5, <1>7 DEF n
<1> QED
  BY <1>8 DEF n

\* recalculate stops in the round that first visits `my_id'.
LEMMA RoundOfIs ==
  ASSUME NEW g, NEW source, Searchable(g, source), NEW my_id, NEW k \in 0..Size(g),
         New(Rounds(g, source), k, my_id)
  PROVE  RoundOf(g, my_id, source) = Rounds(g, source)[k]
<1> DEFINE r == Rounds(g, source)
           n == Size(g)
           found == {j \in 0..n : my_id \in r[j].layer}
           first == CHOOSE j \in found : \A m \in found : j <= m
<1>1. RoundOf(g, my_id, source) = IF found = {} THEN r[n] ELSE r[first]
  BY DEF RoundOf, Size
<1>2. Size(g) \in Nat /\ Layered(g, source, Size(g), r)
  BY SearchFacts
<1> HIDE DEF r, n
<1>3. k \in found
  BY DEF New, r, n
<1>4. \A j \in found : k <= j
  BY <1>2, NewIsLeast DEF r, n
<1>5. first \in found /\ \A m \in found : first <= m
  BY <1>3, <1>4
<1>6. first = k
  <2>1. first <= k /\ k <= first /\ first \in Nat /\ k \in Nat
    BY <1>2, <1>3, <1>4, <1>5 DEF n
  <2> HIDE DEF first
  <2> QED
    BY <2>1
<1> QED
  BY <1>1, <1>3, <1>6, Zenon DEF r

\* The peers that recalculate does not leave out: those that are not visited when the
\* search comes to `my_id', nor found by then.
Left(g, r, my_id, x) ==
  /\ x \in Peers(g, my_id) /\ x \notin r.visited /\ x # my_id
  /\ ~(x \in r.layer /\ x < my_id)
  /\ \A i \in r.layer : i < my_id => ~(x \in Peers(g, i) /\ ~(x \in r.layer /\ x <= i))

\* These are the targets that recalculate gives to `my_id'.
LEMMA RecalculateIs ==
  ASSUME NEW g, NEW source, Searchable(g, source), NEW my_id, NEW k \in 0..Size(g),
         New(Rounds(g, source), k, my_id)
  PROVE  \A x : x \in recalculate(g, my_id, source) <=> Left(g, Rounds(g, source)[k], my_id, x)
<1> DEFINE r == Rounds(g, source)[k]
           earlier == {i \in r.layer : i < my_id}
           V == r.visited
           L == r.layer
<1>1. RoundOf(g, my_id, source) = r /\ my_id \in r.layer
  BY RoundOfIs DEF New
<1> HIDE DEF r
<1>2. Visited(g, my_id, source) = V \cup earlier \cup {my_id} \cup Round(g, V, L, earlier)
  BY <1>1 DEF Visited
<1>3. \A i : i \in earlier <=> i \in L /\ i < my_id
  OBVIOUS
<1> HIDE DEF earlier, V, L
<1>4. \A x : x \in Round(g, V, L, earlier) <=>
        \E i \in earlier : x \in Peers(g, i) /\ x \notin V /\ ~(x \in L /\ x <= i)
  BY DEF Round
<1> DEFINE W == Round(g, V, L, earlier)
<1> HIDE DEF W
<1>5. ASSUME NEW x
      PROVE  x \in recalculate(g, my_id, source) <=>
               x \in Peers(g, my_id) /\ x \notin V /\ x \notin earlier /\ x # my_id /\ x \notin W
  BY <1>2 DEF recalculate, W
<1>6. ASSUME NEW x, x \notin V
      PROVE  x \notin W <=> \A i \in L : i < my_id => ~(x \in Peers(g, i) /\ ~(x \in L /\ x <= i))
  BY <1>3, <1>4, <1>6 DEF W
<1>7. ASSUME NEW x PROVE x \in recalculate(g, my_id, source) <=> Left(g, r, my_id, x)
  BY <1>3, <1>5, <1>6 DEF Left, V, L
<1> QED
  BY <1>7 DEF r

\* Whoever is first visited in a round is served by a hub that is first visited in the
\* round before.
LEMMA Served ==
  ASSUME NEW g, NEW source, Searchable(g, source), NEW k \in 0..(Size(g) - 1), NEW x,
         New(Rounds(g, source), k + 1, x)
  PROVE  \E u : New(Rounds(g, source), k, u) /\ x \in recalculate(g, u, source)
<1> DEFINE f == Rounds(g, source)
           n == Size(g)
<1>1. n \in Nat /\ Layered(g, source, n, f)
  BY SearchFacts
<1> HIDE DEF f, n
<1>2. k \in 0..(n - 1) /\ k \in 0..n /\ k + 1 \in 0..n /\ k \in 0..((k + 1) - 1) /\ New(f, k + 1, x)
  BY <1>1 DEF n, f
<1>3. f[k].layer \subseteq Nat
  BY <1>1, <1>2, LayersInGraph DEF Searchable
<1>4. PICK u : /\ New(f, k, u) /\ x \in Peers(g, u)
               /\ \A i \in f[k].layer : x \in Peers(g, i) => u <= i
  BY <1>1, <1>2, <1>3, LeastParent
<1>5. x \notin f[k].visited /\ x \notin f[k].layer
  BY <1>1, <1>2 DEF Layered, New
<1>6. u \in f[k].layer
  BY <1>4 DEF New
<1>7. \A i \in f[k].layer : i < u => ~(x \in Peers(g, i))
  BY <1>3, <1>4, <1>6
<1>8. Left(g, f[k], u, x)
  BY <1>4, <1>5, <1>6, <1>7 DEF Left
<1>9. x \in recalculate(g, u, source)
  BY <1>2, <1>4, <1>8, RecalculateIs DEF f, n
<1> QED
  BY <1>4, <1>9 DEF f

\* The nodes that the rounds visit.
Searched(g, source) == UNION {Rounds(g, source)[k].layer : k \in 0..Size(g)}

\* No edge leaves them.
LEMMA SearchedClosed ==
  ASSUME NEW g, NEW source, Searchable(g, source)
  PROVE  source \in Searched(g, source) /\ Closed(g, Searched(g, source))
<1> DEFINE f == Rounds(g, source)
           n == Size(g)
<1>1. n \in Nat /\ Layered(g, source, n, f)
  BY SearchFacts
<1>2. \A x : x \in Searched(g, source) <=> \E k \in 0..n : x \in f[k].layer
  BY DEF Searched
<1> HIDE DEF f, n
<1>3. source \in Searched(g, source)
  <2>1. source \in f[0].layer /\ 0 \in 0..n
    BY <1>1 DEF Layered
  <2> QED
    BY <1>2, <2>1
<1>4. ASSUME NEW u \in Searched(g, source), NEW x \in Peers(g, u)
      PROVE  x \in Searched(g, source)
  <2>1. PICK i \in 0..n : u \in f[i].layer
    BY <1>2
  <2>2. PICK k \in 0..i : New(f, k, u)
    BY <1>1, <2>1, FirstRound
  <2>3. k \in 0..n
    BY <1>1
  <2>4. k < n
    BY <2>2, <2>3, <1>1, NewBound DEF n, f
  <2>5. k \in 0..(n - 1) /\ k + 1 \in 0..n
    BY <1>1, <2>3, <2>4
  <2>6. CASE x \in f[k].visited
    <3>1. PICK j \in 0..(k - 1) : x \in f[j].layer
      BY <1>1, <2>3, <2>6, VisitedIs, Zenon
    <3>2. j \in 0..n
      BY <1>1, <2>3, <3>1
    <3> QED
      BY <1>2, <3>1, <3>2
  <2>7. CASE x \in f[k].layer
    BY <1>2, <2>3, <2>7
  <2>8. CASE x \notin f[k].visited /\ x \notin f[k].layer
    <3>1. u \in f[k].layer
      BY <2>2 DEF New
    <3>2. New(f, k + 1, x)
      BY <1>1, <2>5, <2>8, <3>1, PeerReached
    <3> QED
      BY <1>2, <2>5, <3>2 DEF New
  <2> QED
    BY <2>6, <2>7, <2>8
<1> QED
  BY <1>3, <1>4 DEF Closed

\* What has the source, and the targets of whatever it has, has all that can be reached.
LEMMA Coverage ==
  ASSUME NEW g, NEW source, Searchable(g, source), NEW Y, source \in Y,
         \A u \in Y : recalculate(g, u, source) \subseteq Y
  PROVE  Reached(g, source) \subseteq Y
<1> DEFINE f == Rounds(g, source)
           n == Size(g)
           S == {k \in Nat : k <= n => \A x : New(f, k, x) => x \in Y}
<1>1. n \in Nat /\ Layered(g, source, n, f)
  BY SearchFacts
<1>2. \A x : x \in Searched(g, source) <=> \E k \in 0..n : x \in f[k].layer
  BY DEF Searched
<1>3. Reached(g, source) \subseteq Searched(g, source)
  BY SearchedClosed, ReachedIsLeast DEF Searchable
<1> HIDE DEF f, n
<1>4. 0 \in S
  BY <1>1 DEF Layered, New
<1>5. ASSUME NEW k \in Nat, k \in S PROVE k + 1 \in S
  <2> SUFFICES ASSUME k + 1 <= n, NEW x, New(f, k + 1, x) PROVE x \in Y
    OBVIOUS
  <2>1. k \in 0..(n - 1) /\ k <= n
    BY <1>1
  <2>2. PICK u : New(f, k, u) /\ x \in recalculate(g, u, source)
    BY <2>1, Served DEF f, n
  <2>3. u \in Y
    BY <1>5, <2>1, <2>2
  <2> QED
    BY <2>2, <2>3
<1> HIDE DEF S
<1>6. Nat \subseteq S
  BY <1>4, <1>5, Induction
<1>7. ASSUME NEW x \in Searched(g, source) PROVE x \in Y
  <2>1. PICK k \in 0..n : x \in f[k].layer
    BY <1>2
  <2>2. PICK j \in 0..k : New(f, j, x)
    BY <1>1, <2>1, FirstRound
  <2>3. j \in S /\ j <= n
    BY <1>1, <1>6
  <2> QED
    BY <2>2, <2>3 DEF S
<1> QED
  BY <1>3, <1>7

\* The edges go from `set' to other nodes, and back.
TwoSides(g, set) == \A h : \A x \in Peers(g, h) : x \in set <=> h \notin set

\* Then a round visits nodes of one side only.
LEMMA OneSide ==
  ASSUME NEW g, NEW source, NEW n \in Nat, NEW f, Layered(g, source, n, f), NEW set,
         TwoSides(g, set)
  PROVE  \A k \in 0..n : \A x, y \in f[k].layer : x \in set <=> y \in set
<1> DEFINE S == {k \in Nat : k <= n => \A x, y \in f[k].layer : x \in set <=> y \in set}
<1>1. 0 \in S
  BY DEF Layered
<1>2. ASSUME NEW k \in Nat, k \in S PROVE k + 1 \in S
  <2> SUFFICES ASSUME k + 1 <= n, NEW x \in f[k + 1].layer, NEW y \in f[k + 1].layer
               PROVE  x \in set <=> y \in set
    OBVIOUS
  <2>1. k \in 0..(n - 1) /\ k <= n
    OBVIOUS
  <2>2. PICK u \in f[k].layer : x \in Peers(g, u)
    BY <2>1 DEF Layered
  <2>3. PICK w \in f[k].layer : y \in Peers(g, w)
    BY <2>1 DEF Layered
  <2>4. u \in set <=> w \in set
    BY <1>2, <2>1
  <2> QED
    BY <2>2, <2>3, <2>4 DEF TwoSides
<1> HIDE DEF S
<1>3. Nat \subseteq S
  BY <1>1, <1>2, Induction
<1> QED
  BY <1>3 DEF S

\* Where there is no odd cycle, no two hubs have the same target.
LEMMA OneServer ==
  ASSUME NEW g, NEW source, Searchable(g, source), NEW set, TwoSides(g, set),
         NEW u \in Searched(g, source), NEW w \in Searched(g, source), NEW x,
         x \in recalculate(g, u, source), x \in recalculate(g, w, source)
  PROVE  u = w
<1> DEFINE f == Rounds(g, source)
           n == Size(g)
<1>1. n \in Nat /\ Layered(g, source, n, f)
  BY SearchFacts
<1>2. \A y : y \in Searched(g, source) <=> \E k \in 0..n : y \in f[k].layer
  BY DEF Searched
<1> HIDE DEF f, n
<1>3. ASSUME NEW v \in Searched(g, source), x \in recalculate(g, v, source)
      PROVE  \E k \in 0..(n - 1) : /\ v \in f[k].layer /\ x \notin f[k].layer
                                   /\ Left(g, f[k], v, x) /\ New(f, k + 1, x)
  <2>1. PICK i \in 0..n : v \in f[i].layer
    BY <1>2
  <2>2. PICK k \in 0..i : New(f, k, v)
    BY <1>1, <2>1, FirstRound, Zenon
  <2>3. k \in 0..n
    BY <1>1
  <2>4. k < n
    BY <2>2, <2>3, <1>1, NewBound DEF n, f
  <2>5. k \in 0..(n - 1)
    BY <1>1, <2>3, <2>4
  <2>6. Left(g, f[k], v, x)
    BY <1>3, <2>2, <2>3, RecalculateIs DEF f, n
  <2>7. v \in f[k].layer /\ x \in Peers(g, v) /\ x \notin f[k].visited
    BY <2>2, <2>6, Zenon DEF New, Left
  <2>8. x \notin f[k].layer
    BY <1>1, <2>3, <2>7, OneSide, Zenon DEF TwoSides
  <2>9. New(f, k + 1, x)
    BY <1>1, <2>5, <2>7, <2>8, PeerReached, Zenon
  <2> QED
    BY <2>5, <2>6, <2>7, <2>8, <2>9, Zenon
<1>4. PICK k \in 0..(n - 1) : /\ u \in f[k].layer /\ x \notin f[k].layer
                              /\ Left(g, f[k], u, x) /\ New(f, k + 1, x)
  BY <1>3, Zenon
<1>5. PICK j \in 0..(n - 1) : /\ w \in f[j].layer /\ x \notin f[j].layer
                              /\ Left(g, f[j], w, x) /\ New(f, j + 1, x)
  BY <1>3
<1>6. k = j
  <2>1. k + 1 \in 0..n /\ j + 1 \in 0..n
    BY <1>1
  <2>2. x \in f[k + 1].layer /\ x \in f[j + 1].layer
    BY <1>4, <1>5 DEF New
  <2>3. k + 1 <= j + 1 /\ j + 1 <= k + 1
    BY <1>1, <1>4, <1>5, <2>1, <2>2, NewIsLeast, Zenon
  <2> QED
    BY <2>3
<1>7. u \in Nat /\ w \in Nat
  <2>1. k \in 0..n /\ j \in 0..n
    BY <1>1
  <2> QED
    BY <1>1, <1>4, <1>5, <2>1, LayersInGraph, Zenon DEF Searchable
<1>8. ~(u < w) /\ ~(w < u)
  BY <1>4, <1>5, <1>6 DEF Left
<1> QED
  BY <1>7, <1>8

\* The source is visited first: it is nobody's target.
LEMMA SourceLeftOut ==
  ASSUME NEW g, NEW source, Searchable(g, source), NEW u
  PROVE  source \notin recalculate(g, u, source)
<1> DEFINE f == Rounds(g, source)
           n == Size(g)
<1>1. n \in Nat /\ n > 0 /\ Layered(g, source, n, f)
  BY SearchFacts
<1>2. \A x : x \in Searched(g, source) <=> \E k \in 0..n : x \in f[k].layer
  BY DEF Searched
<1>3. CASE u \in Searched(g, source)
  <2> HIDE DEF f, n
  <2>1. PICK i \in 0..n : u \in f[i].layer
    BY <1>2, <1>3
  <2>2. PICK k \in 0..i : New(f, k, u)
    BY <1>1, <2>1, FirstRound
  <2>3. k \in 0..n
    BY <1>1
  <2>4. ~Left(g, f[k], u, source)
    <3>1. CASE k = 0
      <4>1. u = source
        BY <1>1, <2>2, <3>1 DEF New, Layered
      <4> QED
        BY <4>1 DEF Left
    <3>2. CASE k # 0
      <4>1. source \in f[0].layer /\ 0 \in 0..(k - 1)
        BY <1>1, <2>3, <3>2 DEF Layered
      <4>2. source \in f[k].visited
        BY <1>1, <2>3, <4>1, VisitedIs, Zenon
      <4> QED
        BY <4>2 DEF Left
    <3> QED
      BY <3>1, <3>2
  <2> QED
    BY <2>2, <2>3, <2>4, RecalculateIs DEF f, n
<1>4. CASE u \notin Searched(g, source)
  <2>1. \A k \in 0..n : u \notin f[k].layer
    BY <1>2, <1>4
  <2>2. RoundOf(g, u, source) = f[n]
    BY <2>1 DEF RoundOf, Size
  <2> HIDE DEF f, n
  <2>3. n \in 0..n /\ 0 \in 0..(n - 1)
    BY <1>1
  <2>4. Visited(g, u, source) = f[n].visited
    BY <2>1, <2>2, <2>3 DEF Visited
  <2>5. source \in f[n].visited
    <3>1. source \in f[0].layer
      BY <1>1 DEF Layered
    <3> QED
      BY <1>1, <2>3, <3>1, VisitedIs, Zenon
  <2> QED
    BY <2>4, <2>5 DEF recalculate
<1> QED
  BY <1>3, <1>4

\* All its peers are targets of the source.
LEMMA SourceTargets ==
  ASSUME NEW g, NEW source, Searchable(g, source)
  PROVE  \A x : x \in recalculate(g, source, source) <=> x \in Peers(g, source) /\ x # source
<1> DEFINE f == Rounds(g, source)
           n == Size(g)
<1>1. n \in Nat /\ Layered(g, source, n, f)
  BY SearchFacts
<1> HIDE DEF f, n
<1>2. 0 \in 0..n /\ New(f, 0, source)
  BY <1>1 DEF New, Layered
<1>3. \A x : x \in recalculate(g, source, source) <=> Left(g, f[0], source, x)
  BY <1>2, RecalculateIs DEF f, n
<1>4. source \in Nat /\ \A x : x \notin f[0].visited /\ (x \in f[0].layer <=> x = source)
  BY <1>1 DEF Layered, Searchable
<1>5. ASSUME NEW x PROVE Left(g, f[0], source, x) <=> x \in Peers(g, source) /\ x # source
  BY <1>4 DEF Left
<1> QED
  BY <1>3, <1>5
-------------------------------------------------------------------------------
(* The flood.                                                              *)

\* The targets of a hub in the new configuration, and whether it has sent to them.
Targets(u) == recalculate(acks_to_graph(scenario.new), u, scenario.source)
HasSent(u) == (u = scenario.source /\ counter # {}) \/ got[u] > 0

\* For everyone who has sent to their targets: each of these has the broadcast, or it is
\* on the way there.
CopyForAll ==
  \A u \in Hubs : HasSent(u) => \A v \in Targets(u) \ {u} : got[v] > 0 \/ flight[<<u, v>>] > 0

\* There is one copy for each hub: on the way from the one that has it as a target, or
\* received.
OneCopy ==
  /\ \A c \in Connections : flight[c] > 0 =>
       HasSent(c[1]) /\ c[2] \in Targets(c[1]) /\ got[c[2]] = 0 /\ flight[c] = 1
  /\ \A v \in Hubs : got[v] > 0 => got[v] = 1 /\ \E u \in Hubs : HasSent(u) /\ v \in Targets(u)
  /\ \A u \in Hubs : HasSent(u) => u \in Searched(acks_to_graph(scenario.new), scenario.source)

\* The types of what the invariant speaks of.
FloodTypes ==
  /\ scenario \in Plans
  /\ flight \in [Connections -> Nat]
  /\ got \in [Hubs -> 0..2]
  /\ drops \in Nat

\* The inductive invariant: the source neither has a copy nor is sent one, and when the
\* tables agree the copies are where the targets are.
FloodInv ==
  /\ FloodTypes
  /\ \A c \in Connections : c[2] = scenario.source => flight[c] = 0
  /\ got[scenario.source] = 0
  /\ Steady /\ drops = 0 => CopyForAll
  /\ Steady /\ Bipartite(scenario.new) => OneCopy

\* The graph of a configuration.
LEMMA ConfigGraph ==
  ASSUME NEW c, DOMAIN c \subseteq Hubs, \A h \in DOMAIN c : c[h] \subseteq Hubs
  PROVE  /\ GraphOver(acks_to_graph(c), acks_to_graph(c).nodes)
         /\ IsFiniteSet(acks_to_graph(c).nodes)
         /\ acks_to_graph(c).nodes \subseteq Nat
         /\ DOMAIN c \subseteq acks_to_graph(c).nodes
         /\ \A h : Peers(acks_to_graph(c), h) = IF h \in DOMAIN c THEN c[h] ELSE {}
<1> DEFINE N == DOMAIN c \cup UNION {c[h] : h \in DOMAIN c}
           e == [h \in {i \in DOMAIN c : c[i] # {}} |-> c[h]]
<1>1. acks_to_graph(c) = [nodes |-> N, edges |-> e]
  BY DEF acks_to_graph, Restrict
<1>2. /\ DOMAIN e = {i \in DOMAIN c : c[i] # {}}
      /\ \A h \in DOMAIN e : e[h] = c[h]
      /\ e = [h \in DOMAIN e |-> e[h]]
  OBVIOUS
<1>3. N \subseteq Hubs /\ DOMAIN c \subseteq N /\ \A h \in DOMAIN c : c[h] \subseteq N
  OBVIOUS
<1> HIDE DEF N, e
<1>4. acks_to_graph(c).nodes = N /\ acks_to_graph(c).edges = e
  BY <1>1
<1>5. GraphOver(acks_to_graph(c), N)
  BY <1>1, <1>2, <1>3, <1>4 DEF GraphOver
<1>6. IsFiniteSet(N) /\ N \subseteq Nat
  BY <1>3, FS_Subset, FloodAssumption, Zenon
<1>7. ASSUME NEW h PROVE Peers(acks_to_graph(c), h) = IF h \in DOMAIN c THEN c[h] ELSE {}
  BY <1>2, <1>4 DEF Peers
<1> QED
  BY <1>3, <1>4, <1>5, <1>6, <1>7

\* What the assumption says of a plan.
LEMMA PlanFacts ==
  ASSUME NEW p \in Plans
  PROVE  /\ p.source \in DOMAIN p.old /\ p.source \in Hubs
         /\ \A c \in {p.old, p.new, p.wired} :
              DOMAIN c \subseteq Hubs /\ \A h \in DOMAIN c : c[h] \subseteq Hubs
BY FloodAssumption

\* The table that everyone has when the network is steady.
LEMMA SteadyFacts ==
  ASSUME FloodTypes, Steady
  PROVE  /\ Searchable(acks_to_graph(scenario.new), scenario.source)
         /\ \A h : Table(h) = acks_to_graph(scenario.new)
         /\ \A h : \A x : x \in Peers(acks_to_graph(scenario.new), h) <=> IsConnected(h, x)
         /\ \A h : Peers(acks_to_graph(scenario.new), h) \subseteq Hubs
<1> DEFINE g == acks_to_graph(scenario.new)
<1>1. /\ DOMAIN scenario.new \subseteq Hubs
      /\ \A h \in DOMAIN scenario.new : scenario.new[h] \subseteq Hubs
      /\ scenario.source \in DOMAIN scenario.new
  BY PlanFacts DEF FloodTypes, Steady
<1>2. /\ GraphOver(g, g.nodes) /\ IsFiniteSet(g.nodes) /\ g.nodes \subseteq Nat
      /\ DOMAIN scenario.new \subseteq g.nodes
      /\ \A h : Peers(g, h) = IF h \in DOMAIN scenario.new THEN scenario.new[h] ELSE {}
  BY <1>1, ConfigGraph, Zenon
<1>3. Searchable(g, scenario.source)
  BY <1>1, <1>2 DEF Searchable
<1>4. \A h : Table(h) = g
  BY DEF Table, Config, Steady
<1> HIDE DEF g
<1>5. \A h : \A x : x \in Peers(g, h) <=> IsConnected(h, x)
  BY <1>2 DEF IsConnected, Steady
<1>6. \A h : Peers(g, h) \subseteq Hubs
  BY <1>1, <1>2
<1> QED
  BY <1>3, <1>4, <1>5, <1>6 DEF g

\* A hub sends: a copy goes to each of the targets that are connected, unless one is
\* dropped.
LEMMA SendingFacts ==
  ASSUME flight \in [Connections -> Nat], drops \in Nat, NEW h \in Hubs, NEW targets,
         NEW taken, \A c \in taken : flight[c] > 0, Sending(h, targets, taken)
  PROVE  /\ flight' \in [Connections -> Nat] /\ drops' \in Nat /\ (drops' = 0 => drops = 0)
         /\ \A c \in Connections : c[1] = h /\ c[2] \in targets /\ IsConnected(h, c[2]) =>
              /\ drops' = 0 => flight'[c] > 0
              /\ c \notin taken /\ flight[c] = 0 => flight'[c] \in {0, 1}
              /\ c \in taken => flight'[c] \in {flight[c] - 1, flight[c]}
         /\ \A c \in Connections : ~(c[1] = h /\ c[2] \in targets /\ IsConnected(h, c[2])) =>
              flight'[c] = IF c \in taken THEN flight[c] - 1 ELSE flight[c]
<1> DEFINE sent == {<<h, id>> : id \in {i \in targets : IsConnected(h, i)}}
           left == [c \in Connections |-> flight[c] - IF c \in taken THEN 1 ELSE 0]
<1>1. /\ flight' = [c \in Connections |->
                      IF c \in sent /\ left[c] < MaxCopies THEN left[c] + 1 ELSE left[c]]
      /\ drops' = IF \E c \in sent : left[c] = MaxCopies THEN drops + 1 ELSE drops
  BY DEF Sending
<1>2. \A c \in Connections : left[c] = (IF c \in taken THEN flight[c] - 1 ELSE flight[c])
                              /\ left[c] \in Nat
  <2> SUFFICES ASSUME NEW c \in Connections
               PROVE  left[c] = (IF c \in taken THEN flight[c] - 1 ELSE flight[c]) /\ left[c] \in Nat
    OBVIOUS
  <2>1. flight[c] \in Nat
    OBVIOUS
  <2>2. CASE c \in taken
    <3>1. flight[c] > 0 /\ left[c] = flight[c] - 1
      BY <2>2
    <3> QED
      BY <2>1, <2>2, <3>1
  <2>3. CASE c \notin taken
    <3>1. left[c] = flight[c] - 0
      BY <2>3
    <3> QED
      BY <2>1, <2>3, <3>1
  <2> QED
    BY <2>2, <2>3
<1>3. \A c \in Connections : c \in sent <=> c[1] = h /\ c[2] \in targets /\ IsConnected(h, c[2])
  <2> SUFFICES ASSUME NEW c \in Connections
               PROVE  c \in sent <=> c[1] = h /\ c[2] \in targets /\ IsConnected(h, c[2])
    OBVIOUS
  <2>1. c = <<c[1], c[2]>>
    BY DEF Connections
  <2> QED
    BY <2>1
<1> HIDE DEF sent, left
<1>4. MaxCopies \in Nat
  BY FloodAssumption
<1>5. flight' \in [Connections -> Nat]
  BY <1>1, <1>2
<1>6. drops' \in Nat /\ (drops' = 0 => drops = 0)
  BY <1>1
<1>7. ASSUME drops' = 0 PROVE \A c \in sent : left[c] # MaxCopies
  BY <1>1, <1>7
<1>8. ASSUME NEW c \in Connections, c \in sent
      PROVE  /\ drops' = 0 => flight'[c] > 0
             /\ c \notin taken /\ flight[c] = 0 => flight'[c] \in {0, 1}
             /\ c \in taken => flight'[c] \in {flight[c] - 1, flight[c]}
  <2>1. flight'[c] = IF left[c] < MaxCopies THEN left[c] + 1 ELSE left[c]
    BY <1>1, <1>8
  <2>2. left[c] = (IF c \in taken THEN flight[c] - 1 ELSE flight[c]) /\ left[c] \in Nat
        /\ flight[c] \in Nat
    BY <1>2
  <2>3. drops' = 0 => left[c] # MaxCopies
    BY <1>7, <1>8
  <2> HIDE DEF left
  <2>4. drops' = 0 => flight'[c] > 0
    BY <1>4, <2>1, <2>2, <2>3
  <2>5. c \notin taken /\ flight[c] = 0 => flight'[c] \in {0, 1}
    BY <2>1, <2>2
  <2>6. c \in taken => flight'[c] \in {flight[c] - 1, flight[c]}
    BY <2>1, <2>2
  <2> QED
    BY <2>4, <2>5, <2>6
<1>9. ASSUME NEW c \in Connections, c \notin sent
      PROVE  flight'[c] = IF c \in taken THEN flight[c] - 1 ELSE flight[c]
  BY <1>1, <1>2, <1>9
<1> QED
  BY <1>3, <1>5, <1>6, <1>8, <1>9

\* Both kinds of facts about the targets of a steady network.
LEMMA TargetsFacts ==
  ASSUME FloodTypes, Steady
  PROVE  /\ \A u : \A x \in Targets(u) : IsConnected(u, x) /\ x \in Hubs
         /\ \A u : scenario.source \notin Targets(u)
         /\ \A x : IsConnected(scenario.source, x) /\ x # scenario.source => x \in Targets(scenario.source)
         /\ \A u : get_targets(u, scenario.source) = Targets(u)
         /\ \A u : scenario.source \in Table(u).nodes
<1> DEFINE g == acks_to_graph(scenario.new)
<1>1. /\ Searchable(g, scenario.source)
      /\ \A h : Table(h) = g
      /\ \A h : \A x : x \in Peers(g, h) <=> IsConnected(h, x)
      /\ \A h : Peers(g, h) \subseteq Hubs
  BY SteadyFacts
<1>2. \A u : Targets(u) = recalculate(g, u, scenario.source)
  BY DEF Targets
<1> HIDE DEF g
<1>3. \A u : Targets(u) \subseteq Peers(g, u)
  BY <1>2 DEF recalculate
<1>4. \A u : scenario.source \notin Targets(u)
  BY <1>1, <1>2, SourceLeftOut
<1>5. \A x : IsConnected(scenario.source, x) /\ x # scenario.source => x \in Targets(scenario.source)
  BY <1>1, <1>2, SourceTargets
<1>6. ASSUME NEW u PROVE get_targets(u, scenario.source) = Targets(u)
  <2>1. scenario.source \in g.nodes
    BY <1>1 DEF Searchable
  <2>2. CASE u \in g.nodes
    BY <1>1, <1>2, <2>1, <2>2 DEF get_targets
  <2>3. CASE u \notin g.nodes
    <3>1. Peers(g, u) = {}
      BY <1>1, <2>3 DEF Searchable, GraphOver, Peers
    <3> QED
      BY <1>1, <1>3, <2>3, <3>1 DEF get_targets
  <2> QED
    BY <2>2, <2>3
<1> QED
  BY <1>1, <1>3, <1>4, <1>5, <1>6, Zenon DEF Searchable

\* Without odd cycles a hub is the target of one other hub at most, and the targets of a hub
\* that the search visits are visited too.
LEMMA TargetsOnce ==
  ASSUME FloodTypes, Steady, Bipartite(scenario.new),
         NEW u \in Searched(acks_to_graph(scenario.new), scenario.source),
         NEW w \in Searched(acks_to_graph(scenario.new), scenario.source), NEW x
  PROVE  /\ x \in Targets(u) /\ x \in Targets(w) => u = w
         /\ x \in Targets(u) => x \in Searched(acks_to_graph(scenario.new), scenario.source)
<1> DEFINE g == acks_to_graph(scenario.new)
<1>1. /\ Searchable(g, scenario.source)
      /\ \A h : \A y : y \in Peers(g, h) <=> IsConnected(h, y)
      /\ \A h : Peers(g, h) \subseteq Hubs
  BY SteadyFacts
<1>2. \A v : Targets(v) = recalculate(g, v, scenario.source)
  BY DEF Targets
<1>3. u \in Searched(g, scenario.source) /\ w \in Searched(g, scenario.source)
  OBVIOUS
<1>4. PICK set \in SUBSET Hubs : \A h \in DOMAIN scenario.new :
        scenario.new[h] \subseteq IF h \in set THEN Hubs \ set ELSE set
  BY DEF Bipartite
<1> HIDE DEF g
<1>5. TwoSides(g, set)
  <2> SUFFICES ASSUME NEW h, NEW y \in Peers(g, h) PROVE y \in set <=> h \notin set
    BY DEF TwoSides
  <2>1. h \in DOMAIN scenario.new /\ y \in scenario.new[h]
    BY <1>1 DEF IsConnected, Steady
  <2> QED
    BY <1>4, <2>1
<1>6. x \in Targets(u) /\ x \in Targets(w) => u = w
  BY <1>1, <1>2, <1>3, <1>5, OneServer
<1>7. x \in Targets(u) => x \in Searched(g, scenario.source)
  BY <1>1, <1>2, <1>3, SearchedClosed DEF recalculate, Closed
<1> QED
  BY <1>6, <1>7 DEF g

\* hub::unreliable_broadcast
LEMMA BroadcastStep ==
  ASSUME FloodInv, unreliable_broadcast
  PROVE  FloodInv'
<1> DEFINE s == scenario.source
<1>1. /\ counter = {} /\ counter' # {} /\ Sending(s, Hubs, {})
      /\ scenario' = scenario /\ got' = got
  BY DEF unreliable_broadcast
<1>2. /\ FloodTypes /\ got[s] = 0
      /\ \A c \in Connections : c[2] = s => flight[c] = 0
      /\ flight \in [Connections -> Nat] /\ drops \in Nat /\ s \in Hubs
  BY PlanFacts DEF FloodInv, FloodTypes
<1>3. /\ flight' \in [Connections -> Nat] /\ drops' \in Nat /\ (drops' = 0 => drops = 0)
      /\ \A c \in Connections : c[1] = s /\ c[2] \in Hubs /\ IsConnected(s, c[2]) =>
           /\ drops' = 0 => flight'[c] > 0
           /\ flight[c] = 0 => flight'[c] \in {0, 1}
      /\ \A c \in Connections : ~(c[1] = s /\ c[2] \in Hubs /\ IsConnected(s, c[2])) =>
           flight'[c] = flight[c]
  <2>1. \A c \in {} : flight[c] > 0
    OBVIOUS
  <2> HIDE DEF s
  <2> QED
    BY <1>1, <1>2, <2>1, SendingFacts
<1>4. /\ \A u : Targets(u)' = Targets(u)
      /\ \A u : HasSent(u)' <=> HasSent(u) \/ u = s
      /\ ~HasSent(s)
      /\ Steady' <=> Steady
      /\ s' = s
  BY <1>1, <1>2 DEF Targets, HasSent, Steady
<1> HIDE DEF s
<1>5. FloodTypes'
  BY <1>1, <1>2, <1>3 DEF FloodTypes
<1>6. \A c \in Connections : c[2] = s => flight'[c] = 0
  BY <1>2, <1>3 DEF Connections
<1>7. ASSUME Steady, drops' = 0 PROVE CopyForAll'
  <2>1. CopyForAll
    BY <1>3, <1>7 DEF FloodInv
  <2>2. \A u : \A x \in Targets(u) : IsConnected(u, x) /\ x \in Hubs
    BY <1>2, <1>7, TargetsFacts
  <2> SUFFICES ASSUME NEW u \in Hubs, HasSent(u)', NEW v \in Targets(u), v # u
               PROVE  got[v] > 0 \/ flight'[<<u, v>>] > 0
    BY <1>1, <1>4 DEF CopyForAll
  <2>3. <<u, v>> \in Connections /\ <<u, v>>[1] = u /\ <<u, v>>[2] = v
    BY <2>2 DEF Connections
  <2>4. CASE u = s
    BY <1>3, <1>7, <2>2, <2>3, <2>4
  <2>5. CASE u # s
    <3>1. got[v] > 0 \/ flight[<<u, v>>] > 0
      BY <1>4, <2>1, <2>5 DEF CopyForAll
    <3>2. flight'[<<u, v>>] = flight[<<u, v>>]
      BY <1>3, <2>3, <2>5
    <3> QED
      BY <3>1, <3>2
  <2> QED
    BY <2>4, <2>5
<1>8. ASSUME Steady, Bipartite(scenario.new) PROVE OneCopy'
  <2> DEFINE R == Searched(acks_to_graph(scenario.new), s)
  <2>1. OneCopy
    BY <1>8 DEF FloodInv
  <2>2. \A x : IsConnected(s, x) /\ x # s => x \in Targets(s)
    BY <1>2, <1>8, TargetsFacts DEF s
  <2>3. s \in R
    BY <1>2, <1>8, SteadyFacts, SearchedClosed, Zenon DEF s
  <2>4. \A u \in Hubs : HasSent(u) => u \in R
    BY <2>1 DEF OneCopy, s
  <2>5. R' = R
    BY <1>1, <1>4
  <2>6. \A u, w \in R : \A x : x \in Targets(u) /\ x \in Targets(w) => u = w
    BY <1>2, <1>8, TargetsOnce, Zenon DEF s
  <2> HIDE DEF R
  <2>7. ASSUME NEW c \in Connections, flight'[c] > 0
        PROVE  (HasSent(c[1]) \/ c[1] = s) /\ c[2] \in Targets(c[1]) /\ got[c[2]] = 0 /\ flight'[c] = 1
    <3>0. c[1] # c[2] /\ c[2] \in Hubs
      BY DEF Connections
    <3>1. CASE c[1] = s
      <4>1. flight[c] = 0
        <5>1. ~(flight[c] > 0)
          BY <1>4, <2>1, <3>1 DEF OneCopy
        <5> QED
          BY <1>2, <5>1
      <4>2. IsConnected(s, c[2])
        BY <1>3, <2>7, <4>1
      <4>3. c[2] \in Targets(s)
        BY <2>2, <3>0, <3>1, <4>2
      <4>4. flight'[c] = 1
        BY <1>3, <2>7, <3>0, <3>1, <4>1, <4>2
      <4>5. ~(got[c[2]] > 0)
        <5> SUFFICES ASSUME got[c[2]] > 0 PROVE FALSE
          OBVIOUS
        <5>1. PICK u \in Hubs : HasSent(u) /\ c[2] \in Targets(u)
          BY <2>1, <3>0 DEF OneCopy
        <5>2. u = s
          BY <2>3, <2>4, <2>6, <4>3, <5>1
        <5> QED
          BY <1>4, <5>1, <5>2
      <4>6. got[c[2]] = 0
        BY <1>2, <3>0, <4>5 DEF FloodTypes
      <4> QED
        BY <3>1, <4>3, <4>4, <4>6
    <3>2. CASE c[1] # s
      <4>1. flight'[c] = flight[c]
        BY <1>3, <3>2
      <4> QED
        BY <2>1, <2>7, <4>1 DEF OneCopy
    <3> QED
      BY <3>1, <3>2
  <2>8. ASSUME NEW v \in Hubs, got[v] > 0
        PROVE  got[v] = 1 /\ \E u \in Hubs : HasSent(u) /\ v \in Targets(u)
    BY <2>1, <2>8 DEF OneCopy
  <2>9. ASSUME NEW u \in Hubs, HasSent(u) \/ u = s PROVE u \in R
    BY <2>3, <2>4, <2>9
  <2>10. \A c \in Connections : flight'[c] > 0 =>
           HasSent(c[1])' /\ c[2] \in Targets(c[1])' /\ got'[c[2]] = 0 /\ flight'[c] = 1
    BY <1>1, <1>4, <2>7, Zenon
  <2>11. \A v \in Hubs : got'[v] > 0 =>
           got'[v] = 1 /\ \E u \in Hubs : HasSent(u)' /\ v \in Targets(u)'
    BY <1>1, <1>4, <2>8
  <2>12. \A u \in Hubs : HasSent(u)' => u \in Searched(acks_to_graph(scenario'.new), scenario'.source)
    BY <1>1, <1>4, <2>9 DEF R, s
  <2> QED
    BY <2>10, <2>11, <2>12 DEF OneCopy
<1> QED
  BY <1>1, <1>2, <1>4, <1>5, <1>6, <1>7, <1>8, Zenon DEF FloodInv, s

\* hub::node_received_unreliable_broadcast
LEMMA ReceivedStep ==
  ASSUME FloodInv, NEW c0 \in Connections, node_received_unreliable_broadcast(c0)
  PROVE  FloodInv'
<1> DEFINE s == scenario.source
           h == c0[2]
           T == IF s \in Table(h).nodes THEN get_targets(h, s) ELSE {}
<1>0. c0[1] \in Hubs /\ h \in Hubs /\ c0[1] # h /\ c0 = <<c0[1], h>>
  BY DEF Connections
<1>1. /\ flight[c0] > 0 /\ scenario' = scenario /\ committed' = committed /\ counter' = counter
      /\ Sending(h, T, {c0})
      /\ s \in Table(h).nodes => got' = [got EXCEPT ![h] = More(@)]
      /\ s \notin Table(h).nodes => got' = got
  BY Zenon DEF node_received_unreliable_broadcast
<1>2. /\ FloodTypes /\ got[s] = 0
      /\ \A c \in Connections : c[2] = s => flight[c] = 0
      /\ flight \in [Connections -> Nat] /\ drops \in Nat /\ s \in Hubs
      /\ got \in [Hubs -> 0..2]
  BY PlanFacts DEF FloodInv, FloodTypes
<1>3. s \notin T
  <2> SUFFICES ASSUME s \in Table(h).nodes, h \in Table(h).nodes
               PROVE  s \notin recalculate(Table(h), h, s)
    BY DEF get_targets
  <2>1. Config(h) \in {scenario.old, scenario.new}
    BY DEF Config
  <2>2. DOMAIN Config(h) \subseteq Hubs /\ \A i \in DOMAIN Config(h) : Config(h)[i] \subseteq Hubs
    BY <1>2, <2>1, PlanFacts DEF FloodTypes
  <2>3. Searchable(Table(h), s)
    BY <2>2, ConfigGraph, Zenon DEF Table, Searchable
  <2> QED
    BY <2>3, SourceLeftOut
<1>4. h # s
  BY <1>1, <1>2
<1>5. /\ \A u : Targets(u)' = Targets(u)
      /\ Steady' <=> Steady
      /\ s' = s
  BY <1>1, Zenon DEF Targets, Steady
<1>6. /\ got' \in [Hubs -> 0..2]
      /\ \A i \in Hubs : i # h => got'[i] = got[i]
      /\ s \in Table(h).nodes => got'[h] = More(got[h])
  <2>1. got[h] \in 0..2 /\ More(got[h]) \in 0..2
    BY <1>0, <1>2 DEF More
  <2> HIDE DEF s, h, T
  <2>2. CASE s \in Table(h).nodes
    BY <1>0, <1>1, <1>2, <2>1, <2>2
  <2>3. CASE s \notin Table(h).nodes
    BY <1>0, <1>1, <1>2, <2>3
  <2> QED
    BY <2>2, <2>3
<1> HIDE DEF s, h, T
<1>7. /\ flight' \in [Connections -> Nat] /\ drops' \in Nat /\ (drops' = 0 => drops = 0)
      /\ \A c \in Connections : c[1] = h /\ c[2] \in T /\ IsConnected(h, c[2]) =>
           /\ drops' = 0 => flight'[c] > 0
           /\ flight[c] = 0 => flight'[c] \in {0, 1}
      /\ \A c \in Connections : ~(c[1] = h /\ c[2] \in T /\ IsConnected(h, c[2])) =>
           flight'[c] = IF c = c0 THEN flight[c] - 1 ELSE flight[c]
  <2>1. \A c \in {c0} : flight[c] > 0
    BY <1>1, Zenon
  <2>2. \A c \in Connections : c[1] = h => c \notin {c0}
    BY <1>0
  <2>3. \A c : c \in {c0} <=> c = c0
    OBVIOUS
  <2> DEFINE taken == {c0}
  <2> HIDE DEF taken
  <2>4. /\ flight' \in [Connections -> Nat] /\ drops' \in Nat /\ (drops' = 0 => drops = 0)
        /\ \A c \in Connections : c[1] = h /\ c[2] \in T /\ IsConnected(h, c[2]) =>
             /\ drops' = 0 => flight'[c] > 0
             /\ c \notin taken /\ flight[c] = 0 => flight'[c] \in {0, 1}
        /\ \A c \in Connections : ~(c[1] = h /\ c[2] \in T /\ IsConnected(h, c[2])) =>
             flight'[c] = IF c \in taken THEN flight[c] - 1 ELSE flight[c]
    <3>1. Sending(h, T, taken) /\ \A c \in taken : flight[c] > 0
      BY <1>1, <2>1 DEF taken
    <3> QED
      BY <1>0, <1>2, <3>1, SendingFacts
  <2> QED
    BY <2>2, <2>3, <2>4 DEF taken
<1>8. FloodTypes'
  BY <1>1, <1>2, <1>6, <1>7, Zenon DEF FloodTypes
<1>9. (\A c \in Connections : c[2] = s => flight'[c] = 0) /\ got'[s] = 0
  <2>1. ASSUME NEW c \in Connections, c[2] = s PROVE flight'[c] = 0
    <3>1. c # c0
      BY <1>4, <2>1 DEF h
    <3>2. flight'[c] = flight[c]
      BY <1>3, <1>7, <2>1, <3>1
    <3> QED
      BY <1>2, <2>1, <3>2
  <2> QED
    BY <1>2, <1>4, <1>6, <2>1
<1>10. ASSUME Steady
       PROVE  /\ T = Targets(h) /\ got'[h] = More(got[h]) /\ got'[h] > 0
              /\ \A u \in Hubs : HasSent(u)' <=> HasSent(u) \/ u = h
              /\ \A u : \A x \in Targets(u) : IsConnected(u, x) /\ x \in Hubs
  <2>1. /\ \A u : \A x \in Targets(u) : IsConnected(u, x) /\ x \in Hubs
        /\ get_targets(h, s) = Targets(h) /\ s \in Table(h).nodes
    BY <1>2, <1>10, TargetsFacts DEF s
  <2>2. T = Targets(h) /\ got'[h] = More(got[h])
    BY <1>6, <2>1 DEF T
  <2>3. got'[h] > 0
    BY <1>0, <1>2, <2>2 DEF More
  <2>4. ASSUME NEW u \in Hubs PROVE HasSent(u)' <=> HasSent(u) \/ u = h
    BY <1>1, <1>4, <1>6, <2>3, Zenon DEF HasSent, s
  <2> QED
    BY <2>1, <2>2, <2>3, <2>4, Zenon
<1>11. ASSUME Steady, drops' = 0 PROVE CopyForAll'
  <2>1. CopyForAll
    BY <1>7, <1>11 DEF FloodInv
  <2> SUFFICES ASSUME NEW u \in Hubs, HasSent(u)', NEW v \in Targets(u), v # u
               PROVE  got'[v] > 0 \/ flight'[<<u, v>>] > 0
    BY <1>5, Zenon DEF CopyForAll
  <2>2. /\ <<u, v>> \in Connections /\ <<u, v>>[1] = u /\ <<u, v>>[2] = v
        /\ v \in Hubs /\ IsConnected(u, v)
    BY <1>10, <1>11 DEF Connections
  <2>3. CASE u = h
    BY <1>7, <1>10, <1>11, <2>2, <2>3, Zenon
  <2>4. CASE v = h
    BY <1>10, <1>11, <2>4
  <2>5. CASE u # h /\ v # h
    <3>1. got[v] > 0 \/ flight[<<u, v>>] > 0
      BY <1>10, <1>11, <2>1, <2>5, Zenon DEF CopyForAll
    <3>2. flight'[<<u, v>>] = flight[<<u, v>>]
      BY <1>7, <2>2, <2>5 DEF h
    <3>3. got'[v] = got[v]
      BY <1>6, <2>2, <2>5
    <3> QED
      BY <3>1, <3>2, <3>3
  <2> QED
    BY <2>3, <2>4, <2>5
<1>12. ASSUME Steady, Bipartite(scenario.new) PROVE OneCopy'
  <2> DEFINE R == Searched(acks_to_graph(scenario.new), s)
  <2>1. OneCopy
    BY <1>12, Zenon DEF FloodInv
  <2>2. \A u \in Hubs : HasSent(u) => u \in R
    BY <2>1 DEF OneCopy, s
  <2>3. \A u, w \in R : \A x : x \in Targets(u) /\ x \in Targets(w) => u = w
    BY <1>2, <1>12, TargetsOnce, Zenon DEF s
  <2>14. \A u \in R : \A x \in Targets(u) : x \in R
    BY <1>2, <1>12, TargetsOnce, Zenon DEF s
  <2>4. HasSent(c0[1]) /\ h \in Targets(c0[1]) /\ got[h] = 0 /\ flight[c0] = 1
    BY <1>1, <2>1, Zenon DEF OneCopy, h
  <2> HIDE DEF R
  <2>5. h \in R /\ c0[1] \in R
    BY <1>0, <2>2, <2>4, <2>14
  <2>6. ~HasSent(h)
    BY <1>4, <2>4 DEF HasSent, s
  <2>7. got'[h] = 1
    BY <1>10, <1>12, <2>4 DEF More
  <2>8. ASSUME NEW c \in Connections, flight'[c] > 0
        PROVE  (HasSent(c[1]) \/ c[1] = h) /\ c[2] \in Targets(c[1]) /\ got'[c[2]] = 0 /\ flight'[c] = 1
    <3>0. c[1] # c[2] /\ c[2] \in Hubs /\ c[1] \in Hubs /\ c = <<c[1], c[2]>>
      BY DEF Connections
    <3>1. CASE c[1] = h
      <4>1. flight[c] = 0
        <5>1. ~(flight[c] > 0)
          BY <2>1, <2>6, <3>1, Zenon DEF OneCopy
        <5> QED
          BY <1>2, <5>1
      <4>2. c # c0
        BY <1>0, <3>1
      <4>3. c[2] \in Targets(h) /\ flight'[c] = 1
        BY <1>7, <1>10, <1>12, <2>8, <3>1, <4>1, <4>2
      <4>4. ~(got[c[2]] > 0)
        <5> SUFFICES ASSUME got[c[2]] > 0 PROVE FALSE
          OBVIOUS
        <5>1. PICK u \in Hubs : HasSent(u) /\ c[2] \in Targets(u)
          BY <2>1, <3>0 DEF OneCopy
        <5>2. u \in R
          BY <2>2, <5>1
        <5>3. u = h
          BY <2>3, <2>5, <4>3, <5>1, <5>2
        <5> QED
          BY <2>6, <5>1, <5>3
      <4>5. got'[c[2]] = 0
        <5>1. got[c[2]] = 0
          BY <1>2, <3>0, <4>4
        <5> QED
          BY <1>6, <3>0, <3>1, <5>1
      <4> QED
        BY <3>1, <4>3, <4>5
    <3>2. CASE c[1] # h
      <4>1. flight'[c] = IF c = c0 THEN flight[c] - 1 ELSE flight[c]
        BY <1>7, <3>2
      <4>2. c # c0
        BY <2>4, <2>8, <4>1
      <4>3. flight[c] > 0 /\ flight'[c] = flight[c]
        BY <2>8, <4>1, <4>2
      <4>4. HasSent(c[1]) /\ c[2] \in Targets(c[1]) /\ got[c[2]] = 0 /\ flight[c] = 1
        BY <2>1, <4>3 DEF OneCopy
      <4>5. c[2] # h
        <5> SUFFICES ASSUME c[2] = h PROVE FALSE
          OBVIOUS
        <5>0. c[1] \in R /\ h \in Targets(c[1])
          BY <2>2, <3>0, <4>4
        <5>1. c[1] = c0[1]
          BY <2>3, <2>4, <2>5, <5>0
        <5> QED
          BY <1>0, <3>0, <4>2, <5>1
      <4> QED
        BY <1>6, <3>0, <4>3, <4>4, <4>5
    <3> QED
      BY <3>1, <3>2
  <2>9. ASSUME NEW v \in Hubs, got'[v] > 0
        PROVE  got'[v] = 1 /\ \E u \in Hubs : HasSent(u) /\ v \in Targets(u)
    <3>1. CASE v = h
      BY <1>0, <2>4, <2>7, <3>1
    <3>2. CASE v # h
      <4>1. got'[v] = got[v]
        BY <1>6, <3>2
      <4> QED
        BY <2>1, <2>9, <4>1 DEF OneCopy
    <3> QED
      BY <3>1, <3>2
  <2>10. \A c \in Connections : flight'[c] > 0 =>
           HasSent(c[1])' /\ c[2] \in Targets(c[1])' /\ got'[c[2]] = 0 /\ flight'[c] = 1
    <3> SUFFICES ASSUME NEW c \in Connections, flight'[c] > 0
                 PROVE  HasSent(c[1])' /\ c[2] \in Targets(c[1])' /\ got'[c[2]] = 0 /\ flight'[c] = 1
      OBVIOUS
    <3>1. c[1] \in Hubs
      BY DEF Connections
    <3> QED
      BY <1>5, <1>10, <1>12, <2>8, <3>1, Zenon
  <2>11. \A v \in Hubs : got'[v] > 0 =>
           got'[v] = 1 /\ \E u \in Hubs : HasSent(u)' /\ v \in Targets(u)'
    BY <1>5, <1>10, <1>12, <2>9, Zenon
  <2>12. \A u \in Hubs : HasSent(u)' => u \in R
    BY <1>10, <1>12, <2>2, <2>5
  <2>13. \A u \in Hubs : HasSent(u)' => u \in Searched(acks_to_graph(scenario'.new), scenario'.source)
    BY <1>1, <2>12, Zenon DEF R, s
  <2> QED
    BY <2>10, <2>11, <2>13, Zenon DEF OneCopy
<1> QED
  BY <1>1, <1>5, <1>8, <1>9, <1>11, <1>12 DEF FloodInv, s

\* What does not change the broadcast, or loses it.
LEMMA OtherSteps ==
  ASSUME FloodInv,
         \/ SendCompleted \/ AbandonSend
         \/ \E c \in Connections : LosePacket(c)
         \/ \E h \in Hubs : on_commit_fuse(h)
         \/ UNCHANGED floodVars
  PROVE  FloodInv'
<1>1. ASSUME scenario' = scenario, flight' = flight, got' = got, drops' = drops,
             counter' # {} <=> counter # {}
      PROVE  FloodInv'
  <2>1. /\ \A u : Targets(u)' = Targets(u)
        /\ \A u : HasSent(u)' <=> HasSent(u)
        /\ Steady' <=> Steady
    BY <1>1 DEF Targets, HasSent, Steady
  <2>2. FloodTypes' /\ (CopyForAll' <=> CopyForAll) /\ (OneCopy' <=> OneCopy)
    <3>1. FloodTypes'
      BY <1>1 DEF FloodInv, FloodTypes
    <3>2. CopyForAll' <=> CopyForAll
      BY <1>1, <2>1 DEF CopyForAll
    <3>3. OneCopy' <=> OneCopy
      BY <1>1, <2>1, Zenon DEF OneCopy
    <3> QED
      BY <3>1, <3>2, <3>3
  <2> QED
    BY <1>1, <2>1, <2>2, Zenon DEF FloodInv
<1>2. CASE SendCompleted \/ AbandonSend
  <2>1. /\ scenario' = scenario /\ flight' = flight /\ got' = got /\ drops' = drops
        /\ counter' # {} /\ counter # {}
    BY <1>2, Zenon DEF SendCompleted, AbandonSend
  <2> QED
    BY <1>1, <2>1
<1>3. CASE UNCHANGED floodVars
  BY <1>1, <1>3 DEF floodVars
<1>4. ASSUME NEW h \in Hubs, on_commit_fuse(h) PROVE FloodInv'
  BY <1>1, <1>4 DEF on_commit_fuse
<1>5. ASSUME NEW c0 \in Connections, LosePacket(c0) PROVE FloodInv'
  <2>1. /\ flight[c0] > 0 /\ flight' = [flight EXCEPT ![c0] = @ - 1] /\ drops' = drops + 1
        /\ scenario' = scenario /\ got' = got /\ counter' = counter
    BY <1>5 DEF LosePacket
  <2>2. flight \in [Connections -> Nat] /\ drops \in Nat
    BY DEF FloodInv, FloodTypes
  <2>3. \A c \in Connections : flight'[c] = IF c = c0 THEN flight[c] - 1 ELSE flight[c]
    BY <2>1, <2>2
  <2>4. flight' \in [Connections -> Nat] /\ drops' \in Nat /\ drops' # 0
    BY <2>1, <2>2
  <2>5. FloodTypes'
    BY <2>1, <2>4 DEF FloodInv, FloodTypes
  <2>6. /\ \A u : Targets(u)' = Targets(u)
        /\ \A u : HasSent(u)' <=> HasSent(u)
        /\ Steady' <=> Steady
    BY <2>1, Zenon DEF Targets, HasSent, Steady
  <2>7. \A c \in Connections : c[2] = scenario.source => flight'[c] = 0
    <3>1. \A c \in Connections : c[2] = scenario.source => flight[c] = 0
      BY DEF FloodInv
    <3> QED
      BY <2>1, <2>3, <3>1
  <2>8. ASSUME OneCopy PROVE OneCopy'
    <3>1. \A c \in Connections : flight'[c] > 0 => c # c0 /\ flight[c] > 0 /\ flight'[c] = flight[c]
      <4>1. flight[c0] = 1
        BY <2>1, <2>8, Zenon DEF OneCopy
      <4> QED
        BY <2>3, <4>1
    <3> QED
      BY <2>1, <2>6, <2>8, <3>1, Zenon DEF OneCopy
  <2> QED
    BY <2>1, <2>4, <2>5, <2>6, <2>7, <2>8 DEF FloodInv
<1> QED
  BY <1>2, <1>3, <1>4, <1>5

\* An unreliable broadcast, in any network of any hubs: when the tables agree and nothing is
\* lost, it reaches every hub that a chain of connections leads to; it never comes back to
\* the hub that sent it, whatever the tables are; and where the tables agree and the network
\* has no odd cycle, nobody receives it twice, whatever is lost.
THEOREM FloodReachesAll == FloodSpec => []FloodCovers
<1>1. FloodInit => FloodInv
  <2> SUFFICES ASSUME FloodInit PROVE FloodInv
    OBVIOUS
  <2>1. FloodTypes
    BY DEF FloodInit, FloodTypes
  <2>2. scenario.source \in Hubs
    BY <2>1, PlanFacts DEF FloodTypes
  <2>3. got[scenario.source] = 0 /\ \A c \in Connections : flight[c] = 0
    BY <2>2 DEF FloodInit
  <2>4. \A u \in Hubs : ~HasSent(u) /\ ~(got[u] > 0)
    BY DEF FloodInit, HasSent
  <2>5. CopyForAll /\ OneCopy
    BY <2>3, <2>4 DEF CopyForAll, OneCopy
  <2> QED
    BY <2>1, <2>3, <2>5 DEF FloodInv
<1>2. FloodInv /\ [FloodNext]_floodVars => FloodInv'
  BY BroadcastStep, ReceivedStep, OtherSteps DEF FloodNext
<1>3. FloodInv => FloodCovers
  <2> SUFFICES ASSUME FloodInv PROVE FloodCovers
    OBVIOUS
  <2> DEFINE g == acks_to_graph(scenario.new)
             s == scenario.source
  <2>0. FloodTypes /\ got[s] = 0 /\ s \in Hubs /\ got \in [Hubs -> 0..2]
    BY PlanFacts DEF FloodInv, FloodTypes
  <2>1. ASSUME Steady, counter # {}, drops = 0, Quiet, NEW h \in Reached(g, s) \ {s}
        PROVE  got[h] > 0
    <3> DEFINE Y == {s} \cup {u \in Hubs : got[u] > 0}
    <3>1. CopyForAll
      BY <2>1, Zenon DEF FloodInv
    <3>2. ASSUME NEW u \in Y, NEW v \in recalculate(g, u, s) PROVE v \in Y
      <4>1. v \in Targets(u) /\ u \in Hubs /\ HasSent(u)
        BY <2>0, <2>1 DEF Targets, HasSent
      <4>2. v \in Hubs
        BY <2>0, <2>1, <4>1, TargetsFacts, Zenon
      <4>3. CASE u = v
        BY <4>3
      <4>4. CASE u # v
        <5>1. <<u, v>> \in Connections
          BY <4>1, <4>2, <4>4 DEF Connections
        <5>2. flight[<<u, v>>] = 0
          BY <2>1, <5>1 DEF Quiet
        <5>3. got[v] > 0
          BY <3>1, <4>1, <4>4, <5>2 DEF CopyForAll
        <5> QED
          BY <4>2, <5>3
      <4> QED
        BY <4>3, <4>4
    <3>3. Searchable(g, s)
      BY <2>0, <2>1, SteadyFacts
    <3> HIDE DEF g, s
    <3>4. Reached(g, s) \subseteq Y
      <4>1. s \in Y /\ \A u \in Y : recalculate(g, u, s) \subseteq Y
        BY <3>2
      <4> HIDE DEF Y
      <4> QED
        BY <3>3, <4>1, Coverage
    <3> QED
      BY <2>1, <3>4
  <2>2. ASSUME Steady, Bipartite(scenario.new), NEW h \in Hubs PROVE got[h] < 2
    <3>1. OneCopy /\ got[h] \in 0..2
      BY <2>0, <2>2 DEF FloodInv
    <3> QED
      BY <3>1 DEF OneCopy
  <2> QED
    BY <2>0, <2>1, <2>2 DEF FloodCovers
<1> QED
  BY <1>1, <1>2, <1>3, PTL DEF FloodSpec
===============================================================================
