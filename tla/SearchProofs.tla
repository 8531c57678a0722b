----------------------------- MODULE SearchProofs -----------------------------
EXTENDS AddressSearch, TLAPS, FiniteSetTheorems, WellFoundedInduction

LEMMA Induction ==
  ASSUME NEW S, 0 \in S, \A k \in Nat : k \in S => k + 1 \in S
  PROVE  Nat \subseteq S
<1> SUFFICES ASSUME Nat \ S # {} PROVE FALSE
  OBVIOUS
<1> DEFINE T == Nat \ S
           R == {ss \in Nat \X Nat : ss[1] < ss[2]}
<1>1. OpToRel(<, Nat) = R
  BY DEF OpToRel
<1>2. IsWellFoundedOn(R, Nat) /\ T \subseteq Nat /\ T # {}
  BY <1>1, NatLessThanWellFounded, Zenon
<1> HIDE DEF R
<1>3. PICK m \in T : \A y \in T : ~(<<y, m>> \in R)
  BY <1>2, WFMin, Zenon
<1>4. m # 0 /\ m \in Nat /\ m - 1 \in Nat /\ (m - 1) + 1 = m
  BY <1>3
<1>5. <<m - 1, m>> \in R
  BY <1>4 DEF R
<1>6. m - 1 \in S
  BY <1>3, <1>4, <1>5
<1> QED
  BY <1>3, <1>4, <1>6

(* The search for an address.                                              *)

\* How public the addresses of a kind are.
Level(a) ==
  CASE a = "unspecified"            -> 0
    [] a = "loopback"               -> 1
    [] a \in {"class_b", "class_c"} -> 2
    [] a = "class_a"                -> 3
    [] a = "link_local"             -> 4
    [] OTHER                        -> 5

\* What first_is_less_public compares, but for a class b and a class c address.
LEMMA LessPublicIs ==
  ASSUME NEW a \in AddressSet, NEW b \in AddressSet
  PROVE  /\ Level(a) \in Nat
         /\ first_is_less_public(a, b) <=> a # b /\ Level(a) <= Level(b)
<1>1. AddressSet = {"unspecified", "class_a", "loopback", "class_b", "class_c", "link_local", "v6"}
  BY DEF AddressSet, Addresses
<1> QED
  BY <1>1 DEF Level, first_is_less_public, IsV6

\* The one that MorePublic gives is as public as both.
LEMMA MorePublicIs ==
  ASSUME NEW a \in AddressSet, NEW b \in AddressSet
  PROVE  /\ MorePublic(a, b) \in {a, b}
         /\ Level(a) <= Level(MorePublic(a, b)) /\ Level(b) <= Level(MorePublic(a, b))
         /\ a # "unspecified" \/ b # "unspecified" => MorePublic(a, b) # "unspecified"
<1>1. /\ Level(a) \in Nat /\ Level(b) \in Nat
      /\ first_is_less_public(a, b) <=> a # b /\ Level(a) <= Level(b)
  BY LessPublicIs
<1>2. MorePublic(a, b) \in {a, b}
  BY DEF MorePublic
<1>3. Level(a) <= Level(MorePublic(a, b)) /\ Level(b) <= Level(MorePublic(a, b))
  BY <1>1 DEF MorePublic
<1>4. a # "unspecified" \/ b # "unspecified" => MorePublic(a, b) # "unspecified"
  BY DEF MorePublic, first_is_less_public
<1> QED
  BY <1>2, <1>3, <1>4

Edges == DOMAIN addresses

\* What add_connection stored.
Stored ==
  /\ IsFiniteSet(Edges)
  /\ \A e \in Edges : e = <<e[1], e[2]>>
  /\ addresses \in [Edges -> AddressSet]
  /\ \A e \in Edges : e[1] = Self => addresses[e] # "unspecified"

\* A chain of connections from this node, of n nodes, that does not come to the target.
Chain(p, n) ==
  /\ p \in [1..n -> (Nodes \cup {Self}) \ {Target}]
  /\ p[1] = Self
  /\ \A i \in 1..(n - 1) : <<p[i], p[i + 1]>> \in Edges
  /\ \A i, j \in 1..n : p[i] = p[j] => i = j

\* `a' is an address of the chain, and none is more public.
Best(a, p, n) ==
  /\ a # "unspecified"
  /\ \E i \in 1..(n - 1) : a = addresses[<<p[i], p[i + 1]>>]
  /\ \A i \in 1..(n - 1) : Level(addresses[<<p[i], p[i + 1]>>]) <= Level(a)

\* The value of most_public at the end of the chain.
Carries(a, p, n) == IF n = 1 THEN a = "unspecified" ELSE Best(a, p, n)

\* The chain with one node more.
Longer(p, n, id) == [i \in 1..(n + 1) |-> IF i = n + 1 THEN id ELSE p[i]]

\* The nodes that the outer k calls are for.
Froms(stack, k) == [i \in 1..k |-> stack[i].from]

\* What AddressFound says of an address.
Serves(a, p) ==
  /\ a \in AddressesOf(p) \ {"unspecified"}
  /\ \A b \in AddressesOf(p) : first_is_less_public(a, b) => first_is_less_public(b, a)

Frames == [from : Nodes \cup {Self}, most_public : AddressSet, rest : SUBSET Nodes]

\* The calls in progress go along a chain, and none of their nodes knows the target.
Stack(stack, seen) ==
  /\ stack \in Seq(Frames)
  /\ \A k \in 1..Len(stack) :
       /\ stack[k].from \in seen
       /\ <<stack[k].from, Target>> \notin Edges
       /\ \A id \in stack[k].rest : <<stack[k].from, id>> \in Edges
       /\ Chain(Froms(stack, k), k)
       /\ Carries(stack[k].most_public, Froms(stack, k), k)

\* The neighbors of a node that has been visited have been visited too, or a call
\* still has to come to them; unless the node knows the target.
Seen(stack, seen, res) ==
  \A v \in seen :
    \/ <<v, Target>> \in Edges /\ res # {}
    \/ /\ <<v, Target>> \notin Edges
       /\ \A id : <<v, id>> \in Edges =>
            \/ id \in seen
            \/ \E k \in 1..Len(stack) : stack[k].from = v /\ id \in stack[k].rest

\* Every result is the address of a path.
Results(res) == \A a \in res : a \in AddressSet /\ \E p \in Paths : Serves(a, p)

SearchInv ==
  /\ Stored
  /\ Target \notin visited
  /\ visited # {} => Self \in visited
  /\ visited = {} => frames = <<>> /\ found = <<>>
  /\ found # <<>> => frames = <<>>
  /\ Stack(frames, visited)
  /\ Seen(frames, visited, results)
  /\ Results(results)
  /\ AddressFound
-------------------------------------------------------------------------------
\* There are finitely many nodes.
LEMMA NodesFinite ==
  ASSUME Stored
  PROVE  IsFiniteSet(Nodes)
<1> DEFINE D == DOMAIN addresses
           A == {e[1] : e \in D}
           B == {e[2] : e \in D}
           f == [e \in D |-> e[1]]
           g == [e \in D |-> e[2]]
<1>0. IsFiniteSet(D)
  BY DEF Stored, Edges
<1>1. f \in Surjection(D, A) /\ g \in Surjection(D, B)
  BY Zenon DEF Surjection
<1>2. IsFiniteSet(A) /\ IsFiniteSet(B)
  BY <1>0, <1>1, FS_Surjection, Zenon
<1>3. Nodes = A \cup B
  BY DEF Nodes
<1> QED
  BY <1>2, <1>3, FS_Union, Zenon

\* Both ends of a connection are nodes.
LEMMA EdgeNodes ==
  ASSUME NEW a, NEW b, <<a, b>> \in Edges
  PROVE  a \in Nodes /\ b \in Nodes
BY DEF Nodes, Edges

\* Neighbors are connected.
LEMMA NeighborsAre ==
  ASSUME Stored, NEW id, NEW w
  PROVE  w \in Neighbors(id) <=> <<id, w>> \in Edges
<1>1. ASSUME w \in Neighbors(id) PROVE <<id, w>> \in Edges
  <2>1. PICK e \in Edges : e[1] = id /\ w = e[2]
    BY <1>1, Zenon DEF Neighbors, Edges
  <2>2. e = <<e[1], e[2]>>
    BY DEF Stored
  <2> QED
    BY <2>1, <2>2, Zenon
<1>2. ASSUME <<id, w>> \in Edges PROVE w \in Neighbors(id)
  BY <1>2 DEF Neighbors, Edges
<1> QED
  BY <1>1, <1>2

\* A chain goes on to a node that it has not come to.
LEMMA LongerChain ==
  ASSUME NEW n \in Nat \ {0}, NEW p, Chain(p, n), NEW id,
         <<p[n], id>> \in Edges, id # Target, \A i \in 1..n : p[i] # id
  PROVE  Chain(Longer(p, n, id), n + 1)
<1> DEFINE q == Longer(p, n, id)
<1>1. q = [i \in 1..(n + 1) |-> IF i = n + 1 THEN id ELSE p[i]]
  BY DEF Longer
<1> HIDE DEF q
<1>2. id \in Nodes
  BY EdgeNodes
<1>3. q \in [1..(n + 1) -> (Nodes \cup {Self}) \ {Target}]
  <2>1. ASSUME NEW i \in 1..(n + 1), i # n + 1 PROVE p[i] \in (Nodes \cup {Self}) \ {Target}
    BY <2>1 DEF Chain
  <2> QED
    BY <1>1, <1>2, <2>1
<1>4. q[1] = Self
  BY <1>1 DEF Chain
<1>5. ASSUME NEW i \in 1..n PROVE <<q[i], q[i + 1]>> \in Edges
  <2>1. CASE i = n
    BY <1>1, <2>1
  <2>2. CASE i # n
    BY <1>1, <2>2 DEF Chain
  <2> QED
    BY <2>1, <2>2
<1>6. ASSUME NEW i \in 1..(n + 1), NEW j \in 1..(n + 1), q[i] = q[j] PROVE i = j
  BY <1>1, <1>6 DEF Chain
<1>7. (n + 1) - 1 = n
  OBVIOUS
<1> QED
  BY <1>3, <1>4, <1>5, <1>6, <1>7 DEF Chain, q

\* What is carried there.
LEMMA LongerCarries ==
  ASSUME Stored, NEW n \in Nat \ {0}, NEW p, p[1] = Self,
         \A i \in 1..(n - 1) : <<p[i], p[i + 1]>> \in Edges,
         NEW a \in AddressSet, Carries(a, p, n), NEW id, <<p[n], id>> \in Edges
  PROVE  Best(MorePublic(addresses[<<p[n], id>>], a), Longer(p, n, id), n + 1)
<1> DEFINE q == Longer(p, n, id)
           ep == addresses[<<p[n], id>>]
           m == MorePublic(ep, a)
<1>1. ep \in AddressSet
  BY DEF Stored
<1>2. n = 1 => ep # "unspecified"
  BY DEF Stored
<1>3. n # 1 => Best(a, p, n)
  BY DEF Carries
<1>4. m \in {ep, a} /\ Level(ep) <= Level(m) /\ Level(a) <= Level(m)
  BY <1>1, MorePublicIs
<1>5. m # "unspecified"
  <2>1. ep # "unspecified" \/ a # "unspecified"
    BY <1>2, <1>3 DEF Best
  <2> QED
    BY <1>1, <2>1, MorePublicIs
<1>6. addresses[<<q[n], q[n + 1]>>] = ep
  BY DEF Longer
<1>7. \A i \in 1..(n - 1) : addresses[<<q[i], q[i + 1]>>] = addresses[<<p[i], p[i + 1]>>]
  <2>1. \A i \in 1..(n - 1) : q[i] = p[i] /\ q[i + 1] = p[i + 1]
    BY DEF Longer
  <2> QED
    BY <2>1, Zenon
<1> HIDE DEF q, ep, m
<1>8. \E i \in 1..n : m = addresses[<<q[i], q[i + 1]>>]
  <2>1. CASE m = ep
    BY <1>6, <2>1
  <2>2. CASE m = a /\ m # ep
    <3>1. n # 1
      BY <1>4, <1>5, <2>2 DEF Carries
    <3>2. PICK i \in 1..(n - 1) : a = addresses[<<p[i], p[i + 1]>>]
      BY <1>3, <3>1 DEF Best
    <3>3. i \in 1..n
      BY <3>2
    <3> QED
      BY <1>7, <2>2, <3>2, <3>3
  <2> QED
    BY <1>4, <2>1, <2>2
<1>9. ASSUME NEW i \in 1..n PROVE Level(addresses[<<q[i], q[i + 1]>>]) <= Level(m)
  <2>1. CASE i = n
    BY <1>4, <1>6, <2>1
  <2>2. CASE i # n
    <3>1. i \in 1..(n - 1) /\ n # 1
      BY <2>2
    <3> DEFINE b == addresses[<<p[i], p[i + 1]>>]
    <3>2. Level(b) <= Level(a)
      BY <1>3, <3>1 DEF Best
    <3>3. b \in AddressSet /\ m \in AddressSet
      BY <1>1, <1>4, <3>1 DEF Stored
    <3>4. Level(b) \in Nat /\ Level(a) \in Nat /\ Level(m) \in Nat
      BY <3>3, LessPublicIs, Zenon
    <3>5. Level(b) <= Level(m)
      BY <1>4, <3>2, <3>4
    <3> QED
      BY <1>7, <3>1, <3>5
  <2> QED
    BY <2>1, <2>2
<1>10. (n + 1) - 1 = n
  OBVIOUS
<1>11. Best(m, q, n + 1)
  BY <1>5, <1>8, <1>9, <1>10, Zenon DEF Best
<1> QED
  BY <1>11 DEF m, ep, q

\* A chain whose last node knows the target makes a path.
LEMMA PathFound ==
  ASSUME Stored, NEW n \in Nat \ {0}, NEW p, Chain(p, n),
         NEW a \in AddressSet, Carries(a, p, n), <<p[n], Target>> \in Edges
  PROVE  LET m == MorePublic(addresses[<<p[n], Target>>], a)
         IN  m \in AddressSet /\ \E q \in Paths : Serves(m, q)
<1> DEFINE q == Longer(p, n, Target)
           m == MorePublic(addresses[<<p[n], Target>>], a)
<1>0. m \in AddressSet
  <2>1. addresses[<<p[n], Target>>] \in AddressSet
    BY DEF Stored
  <2> QED
    BY <2>1, MorePublicIs
<1>1. Best(m, q, n + 1)
  BY LongerCarries DEF Chain
<1>2. q = [i \in 1..(n + 1) |-> IF i = n + 1 THEN Target ELSE p[i]]
  BY DEF Longer
<1> HIDE DEF q, m
<1>3. \A i \in 1..n : <<q[i], q[i + 1]>> \in Edges
  <2> TAKE i \in 1..n
  <2>1. CASE i = n
    BY <1>2, <2>1
  <2>2. CASE i # n
    BY <1>2, <2>2 DEF Chain
  <2> QED
    BY <2>1, <2>2
<1>4. ASSUME NEW i \in 1..(n + 1) PROVE q[i] \in Nodes
  <2>1. CASE i = n + 1
    <3>1. <<q[n], q[n + 1]>> \in Edges /\ n \in 1..n
      BY <1>3
    <3> QED
      BY <2>1, <3>1, EdgeNodes
  <2>2. CASE i # n + 1
    <3>1. <<q[i], q[i + 1]>> \in Edges
      BY <1>3, <2>2
    <3> QED
      BY <3>1, EdgeNodes
  <2> QED
    BY <2>1, <2>2
<1>5. q \in [1..(n + 1) -> Nodes]
  BY <1>2, <1>4
<1>6. \A i, j \in 1..(n + 1) : q[i] = q[j] => i = j
  <2> TAKE i, j \in 1..(n + 1)
  <2>1. \A k \in 1..n : p[k] # Target
    BY DEF Chain
  <2> QED
    BY <1>2, <2>1 DEF Chain
<1>7. n + 1 \in 2..Cardinality(Nodes)
  <2>1. q \in Injection(1..(n + 1), Nodes)
    BY <1>5, <1>6 DEF Injection, IsInjective
  <2>2. Cardinality(1..(n + 1)) <= Cardinality(Nodes)
    BY <2>1, NodesFinite, FS_Injection, Zenon
  <2>3. Cardinality(1..(n + 1)) = n + 1
    BY FS_Interval
  <2>4. Cardinality(Nodes) \in Nat
    BY NodesFinite, FS_CardinalityType, Zenon
  <2> QED
    BY <2>2, <2>3, <2>4
<1>8. Len(q) = n + 1 /\ Len(q) - 1 = n
  BY <1>5
<1>9. q \in Paths
  <2>1. q[1] = Self /\ q[Len(q)] = Target
    BY <1>2, <1>8 DEF Chain
  <2>2. \A i \in 1..(Len(q) - 1) : <<q[i], q[i + 1]>> \in DOMAIN addresses
    BY <1>3, <1>8 DEF Edges
  <2>3. q \in UNION {[1..k -> Nodes] : k \in 2..Cardinality(Nodes)}
    BY <1>5, <1>7, Zenon
  <2> QED
    BY <2>1, <2>2, <2>3, Zenon DEF Paths
<1>10. AddressesOf(q) = {addresses[<<q[i], q[i + 1]>>] : i \in 1..n}
  BY <1>8 DEF AddressesOf
<1>11. Serves(m, q)
  <2>1. m \in AddressesOf(q) \ {"unspecified"}
    <3>1. m # "unspecified" /\ \E i \in 1..n : m = addresses[<<q[i], q[i + 1]>>]
      BY <1>1, <1>8 DEF Best
    <3> QED
      BY <1>10, <3>1, Zenon
  <2>2. ASSUME NEW b \in AddressesOf(q), first_is_less_public(m, b)
        PROVE  first_is_less_public(b, m)
    <3>1. PICK i \in 1..n : b = addresses[<<q[i], q[i + 1]>>]
      BY <1>10
    <3>2. Level(b) <= Level(m)
      BY <1>1, <3>1 DEF Best
    <3>3. b \in AddressSet
      BY <1>3, <3>1 DEF Stored
    <3> QED
      BY <1>0, <2>2, <3>2, <3>3, LessPublicIs
  <2> QED
    BY <2>1, <2>2 DEF Serves
<1> QED
  BY <1>0, <1>9, <1>11 DEF m

\* The first k calls do not change when a call is added, or goes on to another neighbor.
LEMMA SameFroms ==
  ASSUME NEW s, NEW t, NEW k \in Nat, \A i \in 1..k : t[i].from = s[i].from
  PROVE  Froms(t, k) = Froms(s, k)
BY DEF Froms

\* Seen, where a neighbor may also be `id', for which the call is about to be made.
SeenBut(stack, id) ==
  \A v \in visited :
    \/ <<v, Target>> \in Edges /\ results # {}
    \/ /\ <<v, Target>> \notin Edges
       /\ \A w : <<v, w>> \in Edges =>
            \/ w \in visited \cup {id}
            \/ \E k \in 1..Len(stack) : stack[k].from = v /\ w \in stack[k].rest

\* With a new `id' the calls are a longer chain, which carries `mp'.
Extends(stack, id, mp) ==
  id \notin visited =>
    /\ Chain(Longer(Froms(stack, Len(stack)), Len(stack), id), Len(stack) + 1)
    /\ Carries(mp, Longer(Froms(stack, Len(stack)), Len(stack), id), Len(stack) + 1)

\* A call of find_addresses keeps what is known of the search.  `id' may be the
\* neighbor that the innermost call has just gone on to.
LEMMA CallStep ==
  ASSUME Stored, NEW stack, NEW id, NEW mp \in AddressSet,
         id \in Nodes \cup {Self}, id # Target, Target \notin visited,
         Stack(stack, visited), Results(results),
         SeenBut(stack, id), Extends(stack, id, mp), find_addresses(stack, id, mp)
  PROVE  /\ id \in visited' /\ Target \notin visited'
         /\ visited' = visited \cup {id}
         /\ Stack(frames', visited')
         /\ Seen(frames', visited', results')
         /\ Results(results')
<1> DEFINE n == Len(stack)
           p == Longer(Froms(stack, n), n, id)
           seen == visited \cup {id}
<1>0. n \in Nat /\ stack \in Seq(Frames)
  BY DEF Stack
<1>1. visited' = seen
  BY DEF find_addresses
<1>2. Stack(stack, seen)
  BY DEF Stack
<1>3. CASE id \in visited
  <2>1. frames' = stack /\ visited' = visited /\ results' = results
    BY <1>3 DEF find_addresses
  <2>2. Seen(stack, visited, results)
    BY <1>3 DEF Seen, SeenBut
  <2> QED
    BY <1>1, <1>3, <2>1, <2>2, Zenon
<1>4. CASE id \notin visited /\ <<id, Target>> \in Edges
  <2> DEFINE m == MorePublic(addresses[<<id, Target>>], mp)
  <2>1. frames' = stack /\ results' = results \cup {m}
    BY <1>4 DEF find_addresses, Edges
  <2>2. Chain(p, n + 1) /\ Carries(mp, p, n + 1)
    BY <1>4, Zenon DEF Extends
  <2>3. p[n + 1] = id
    BY <1>0 DEF Longer
  <2> HIDE DEF p, m
  <2>4. m \in AddressSet /\ \E q \in Paths : Serves(m, q)
    <3>1. n + 1 \in Nat \ {0} /\ <<p[n + 1], Target>> \in Edges
      BY <1>0, <1>4, <2>3
    <3>2. LET r == MorePublic(addresses[<<p[n + 1], Target>>], mp)
          IN  r \in AddressSet /\ \E q \in Paths : Serves(r, q)
      BY <2>2, <3>1, PathFound, Zenon
    <3> QED
      BY <2>3, <3>2 DEF m
  <2>5. Results(results')
    BY <2>1, <2>4 DEF Results
  <2>6. Seen(stack, seen, results')
    BY <1>4, <2>1, Zenon DEF Seen, SeenBut
  <2> QED
    BY <1>1, <1>2, <2>1, <2>5, <2>6
<1>5. CASE id \notin visited /\ <<id, Target>> \notin Edges
  <2> DEFINE f == [from |-> id, most_public |-> mp, rest |-> Neighbors(id)]
             t == Append(stack, f)
  <2>1. frames' = t /\ results' = results
    BY <1>5 DEF find_addresses, Edges
  <2>2. \A w : w \in f.rest <=> <<id, w>> \in Edges
    <3>1. f.rest = Neighbors(id)
      OBVIOUS
    <3> QED
      BY <3>1, NeighborsAre, Zenon
  <2>3. f \in Frames
    BY <2>2, EdgeNodes, Zenon DEF Frames
  <2>4. f.from = id /\ f.most_public = mp
    OBVIOUS
  <2> HIDE DEF f
  <2>5. /\ t \in Seq(Frames) /\ Len(t) = n + 1 /\ t[n + 1] = f
        /\ \A k \in 1..n : t[k] = stack[k]
    BY <1>0, <2>3
  <2> HIDE DEF t
  <2>6. Stack(t, seen)
    <3>1. ASSUME NEW k \in 1..n
          PROVE  /\ t[k].from \in seen
                 /\ <<t[k].from, Target>> \notin Edges
                 /\ \A w \in t[k].rest : <<t[k].from, w>> \in Edges
                 /\ Chain(Froms(t, k), k)
                 /\ Carries(t[k].most_public, Froms(t, k), k)
      <4>1. t[k] = stack[k]
        BY <2>5
      <4>2. Froms(t, k) = Froms(stack, k)
        <5>1. \A i \in 1..k : t[i].from = stack[i].from
          BY <1>0, <2>5
        <5>2. k \in Nat
          BY <1>0
        <5> QED
          BY <5>1, <5>2, SameFroms, Zenon
      <4> QED
        BY <1>2, <4>1, <4>2, Zenon DEF Stack
    <3>2. Froms(t, n + 1) = p
      BY <1>0, <2>4, <2>5 DEF Froms, Longer
    <3>3. /\ t[n + 1].from \in seen
          /\ <<t[n + 1].from, Target>> \notin Edges
          /\ \A w \in t[n + 1].rest : <<t[n + 1].from, w>> \in Edges
          /\ Chain(Froms(t, n + 1), n + 1)
          /\ Carries(t[n + 1].most_public, Froms(t, n + 1), n + 1)
      BY <1>5, <2>2, <2>4, <2>5, <3>2, Zenon DEF Extends
    <3>4. \A k \in 1..Len(t) : k \in 1..n \/ k = n + 1
      BY <1>0, <2>5
    <3>5. ASSUME NEW k \in 1..Len(t)
          PROVE  /\ t[k].from \in seen
                 /\ <<t[k].from, Target>> \notin Edges
                 /\ \A w \in t[k].rest : <<t[k].from, w>> \in Edges
                 /\ Chain(Froms(t, k), k)
                 /\ Carries(t[k].most_public, Froms(t, k), k)
      <4>1. CASE k \in 1..n
        BY <3>1, <4>1, Zenon
      <4>2. CASE k = n + 1
        BY <3>3, <4>2, Zenon
      <4> QED
        BY <3>4, <4>1, <4>2
    <3> QED
      BY <2>5, <3>5, Zenon DEF Stack
  <2>7. Seen(t, seen, results)
    <3> SUFFICES ASSUME NEW v \in seen
                 PROVE  \/ <<v, Target>> \in Edges /\ results # {}
                        \/ /\ <<v, Target>> \notin Edges
                           /\ \A w : <<v, w>> \in Edges =>
                                \/ w \in seen
                                \/ \E k \in 1..Len(t) : t[k].from = v /\ w \in t[k].rest
      BY Zenon DEF Seen
    <3>1. n + 1 \in 1..Len(t) /\ \A k \in 1..n : k \in 1..Len(t)
      BY <1>0, <2>5
    <3>2. CASE v = id
      BY <1>5, <2>2, <2>4, <2>5, <3>1, <3>2, Zenon
    <3>3. CASE v \in visited
      <4>1. ASSUME NEW w, NEW k \in 1..n, stack[k].from = v /\ w \in stack[k].rest
            PROVE  \E j \in 1..Len(t) : t[j].from = v /\ w \in t[j].rest
        <5>1. t[k] = stack[k] /\ k \in 1..Len(t)
          BY <2>5, <3>1
        <5> QED
          BY <4>1, <5>1, Zenon
      <4> QED
        BY <3>3, <4>1, Zenon DEF SeenBut
    <3> QED
      BY <3>2, <3>3, Zenon
  <2> QED
    BY <1>1, <2>1, <2>6, <2>7
<1> QED
  BY <1>3, <1>4, <1>5

\* The innermost call, after it has gone on to `id'.
LEMMA TopStep ==
  ASSUME Stored, Stack(frames, visited), frames # <<>>, Target \notin visited,
         NEW id \in frames[Len(frames)].rest
  PROVE  LET n     == Len(frames)
             top   == frames[n]
             stack == [frames EXCEPT ![n].rest = @ \ {id}]
             p     == Longer(Froms(stack, n), n, id)
             mp    == MorePublic(addresses[<<top.from, id>>], top.most_public)
         IN  /\ Len(stack) = n /\ n \in Nat \ {0}
             /\ mp \in AddressSet
             /\ <<top.from, id>> \in Edges /\ id # Target /\ id \in Nodes
             /\ Stack(stack, visited)
             /\ \A k \in 1..n : /\ stack[k].from = frames[k].from
                                /\ frames[k].rest \subseteq stack[k].rest \cup {id}
             /\ id \notin visited => Chain(p, n + 1) /\ Carries(mp, p, n + 1)
<1> DEFINE n == Len(frames)
           top == frames[n]
           f == [top EXCEPT !.rest = @ \ {id}]
           stack == [frames EXCEPT ![n].rest = @ \ {id}]
           p == Froms(frames, n)
           mp == MorePublic(addresses[<<top.from, id>>], top.most_public)
<1>1. frames \in Seq(Frames) /\ n \in Nat \ {0} /\ n \in 1..n
  BY DEF Stack
<1>2. top \in Frames
  BY <1>1
<1>3. /\ f \in Frames /\ f.from = top.from /\ f.most_public = top.most_public
      /\ f.rest = top.rest \ {id}
  BY <1>2 DEF Frames
<1>4. stack = [frames EXCEPT ![n] = f]
  OBVIOUS
<1> HIDE DEF f, stack
<1>5. /\ stack \in Seq(Frames) /\ Len(stack) = n /\ stack[n] = f
      /\ \A k \in 1..n : k # n => stack[k] = frames[k]
  BY <1>1, <1>3, <1>4
<1>6. \A k \in 1..n : /\ stack[k].from = frames[k].from
                      /\ stack[k].most_public = frames[k].most_public
                      /\ stack[k].rest \subseteq frames[k].rest
                      /\ frames[k].rest \subseteq stack[k].rest \cup {id}
  BY <1>3, <1>5
<1>7. \A k \in 1..n : Froms(stack, k) = Froms(frames, k)
  <2> TAKE k \in 1..n
  <2>1. \A i \in 1..k : stack[i].from = frames[i].from
    BY <1>1, <1>6
  <2>2. k \in Nat
    BY <1>1
  <2> QED
    BY <2>1, <2>2, SameFroms, Zenon
<1>8. Stack(stack, visited)
  <2>1. ASSUME NEW k \in 1..n
        PROVE  /\ stack[k].from \in visited
               /\ <<stack[k].from, Target>> \notin Edges
               /\ \A w \in stack[k].rest : <<stack[k].from, w>> \in Edges
               /\ Chain(Froms(stack, k), k)
               /\ Carries(stack[k].most_public, Froms(stack, k), k)
    BY <1>6, <1>7, Zenon DEF Stack
  <2> QED
    BY <1>5, <2>1, Zenon DEF Stack
<1>9. /\ <<top.from, id>> \in Edges /\ <<top.from, Target>> \notin Edges
      /\ Chain(p, n) /\ Carries(top.most_public, p, n)
  BY <1>1, Zenon DEF Stack
<1>10. id # Target /\ id \in Nodes
  BY <1>9, EdgeNodes, Zenon
<1>11. top.most_public \in AddressSet
  BY <1>2 DEF Frames
<1>12. mp \in AddressSet
  <2>1. addresses[<<top.from, id>>] \in AddressSet
    BY <1>9 DEF Stored
  <2> QED
    BY <1>11, <2>1, MorePublicIs, Zenon
<1>13. p[n] = top.from /\ \A i \in 1..n : p[i] \in visited
  BY <1>1, Zenon DEF Froms, Stack
<1>14. ASSUME id \notin visited
       PROVE  Chain(Longer(p, n, id), n + 1) /\ Carries(mp, Longer(p, n, id), n + 1)
  <2> HIDE DEF p
  <2>1. Chain(Longer(p, n, id), n + 1)
    BY <1>1, <1>9, <1>10, <1>13, <1>14, LongerChain, Zenon
  <2>2. p[1] = Self /\ \A i \in 1..(n - 1) : <<p[i], p[i + 1]>> \in Edges
    BY <1>9 DEF Chain
  <2>3. Best(mp, Longer(p, n, id), n + 1)
    BY <1>1, <1>9, <1>11, <1>13, <2>2, LongerCarries, Zenon
  <2>4. n + 1 # 1
    BY <1>1
  <2> QED
    BY <2>1, <2>3, <2>4, Zenon DEF Carries
<1>15. Froms(stack, n) = p
  BY <1>1, <1>7, Zenon
<1> HIDE DEF p, mp
<1> QED
  BY <1>1, <1>5, <1>6, <1>8, <1>9, <1>10, <1>12, <1>14, <1>15, Zenon DEF stack, mp

\* The loop of find_address, over the first n addresses.
IsPicks(set, n, f) ==
  f = [i \in 0..n |->
         IF i = 0 THEN "none"
         ELSE IF /\ Addresses[i] \in set
                 /\ f[i - 1] = "none" \/ first_is_less_public(Addresses[i], f[i - 1])
         THEN Addresses[i] ELSE f[i - 1]]

\* There is such a function.
LEMMA PicksExist ==
  ASSUME NEW set, NEW n \in Nat
  PROVE  \E f : IsPicks(set, n, f)
<1> DEFINE S == {m \in Nat : \E f : IsPicks(set, m, f)}
<1>1. 0 \in S
  <2> DEFINE f == [i \in 0..0 |-> "none"]
  <2>1. IsPicks(set, 0, f)
    BY DEF IsPicks
  <2> QED
    BY <2>1
<1>2. ASSUME NEW k \in Nat, k \in S PROVE k + 1 \in S
  <2>1. PICK f : IsPicks(set, k, f)
    BY <1>2
  <2> DEFINE a == IF /\ Addresses[k + 1] \in set
                     /\ f[k] = "none" \/ first_is_less_public(Addresses[k + 1], f[k])
                  THEN Addresses[k + 1] ELSE f[k]
             h == [i \in 0..(k + 1) |-> IF i = k + 1 THEN a ELSE f[i]]
  <2>2. /\ DOMAIN f = 0..k /\ f[0] = "none"
        /\ \A i \in 1..k :
             f[i] = IF /\ Addresses[i] \in set
                       /\ f[i - 1] = "none" \/ first_is_less_public(Addresses[i], f[i - 1])
                    THEN Addresses[i] ELSE f[i - 1]
    BY <2>1 DEF IsPicks
  <2> HIDE DEF a
  <2>3. ASSUME NEW i \in 1..(k + 1)
        PROVE  h[i] = IF /\ Addresses[i] \in set
                         /\ h[i - 1] = "none" \/ first_is_less_public(Addresses[i], h[i - 1])
                      THEN Addresses[i] ELSE h[i - 1]
    <3>1. CASE i = k + 1
      <4>1. h[i] = a /\ h[i - 1] = f[k]
        BY <3>1
      <4> QED
        BY <3>1, <4>1, Zenon DEF a
    <3>2. CASE i # k + 1
      <4>1. i \in 1..k /\ h[i] = f[i] /\ h[i - 1] = f[i - 1]
        BY <3>2
      <4> HIDE DEF h
      <4> QED
        BY <2>2, <4>1, Zenon
    <3> QED
      BY <3>1, <3>2
  <2>4. h[0] = "none"
    BY <2>2
  <2>5. h = [i \in 0..(k + 1) |-> h[i]]
    OBVIOUS
  <2> HIDE DEF h
  <2>6. \A i \in 0..(k + 1) : i = 0 \/ i \in 1..(k + 1)
    OBVIOUS
  <2>7. \A i \in 0..(k + 1) :
          h[i] = IF i = 0 THEN "none"
                 ELSE IF /\ Addresses[i] \in set
                         /\ h[i - 1] = "none" \/ first_is_less_public(Addresses[i], h[i - 1])
                 THEN Addresses[i] ELSE h[i - 1]
    BY <2>3, <2>4, <2>6
  <2>8. IsPicks(set, k + 1, h)
    BY <2>5, <2>7, Zenon DEF IsPicks
  <2> QED
    BY <2>8
<1> HIDE DEF S
<1>3. Nat \subseteq S
  BY <1>1, <1>2, Induction, Zenon
<1> QED
  BY <1>3 DEF S

\* find_address picks one of the results.
LEMMA PicksOne ==
  ASSUME NEW set, set # {}, set \subseteq AddressSet
  PROVE  Picks(set)[Len(Addresses)] \in set
<1> DEFINE n == Len(Addresses)
           f == Picks(set)
<1>0. n = 7 /\ \A a \in AddressSet : \E i \in 1..7 : a = Addresses[i]
  BY DEF Addresses, AddressSet
<1>1. IsPicks(set, n, f)
  <2>1. \E g : IsPicks(set, n, g)
    BY <1>0, PicksExist
  <2> DEFINE h == CHOOSE g : IsPicks(set, n, g)
  <2>2. IsPicks(set, n, h)
    BY <2>1, Zenon
  <2>3. f = h
    BY DEF Picks, IsPicks
  <2> QED
    BY <2>2, <2>3, Zenon
<1> HIDE DEF f, n
<1>2. f[0] = "none"
  BY <1>0, <1>1 DEF IsPicks
<1>3. ASSUME NEW i \in 1..7
      PROVE  f[i] = IF /\ Addresses[i] \in set
                       /\ f[i - 1] = "none" \/ first_is_less_public(Addresses[i], f[i - 1])
                    THEN Addresses[i] ELSE f[i - 1]
  BY <1>0, <1>1 DEF IsPicks
<1> DEFINE Q(i) == IF \E j \in 1..i : Addresses[j] \in set THEN f[i] \in set ELSE f[i] = "none"
           S == {i \in Nat : i <= 7 => Q(i)}
<1>4. 0 \in S
  BY <1>2
<1>5. ASSUME NEW k \in Nat, k \in S PROVE k + 1 \in S
  <2>1. SUFFICES ASSUME k + 1 <= 7 PROVE Q(k + 1)
    OBVIOUS
  <2>2. Q(k) /\ k + 1 \in 1..7 /\ (k + 1) - 1 = k
    BY <1>5, <2>1
  <2>3. f[k + 1] = IF /\ Addresses[k + 1] \in set
                      /\ f[k] = "none" \/ first_is_less_public(Addresses[k + 1], f[k])
                   THEN Addresses[k + 1] ELSE f[k]
    BY <1>3, <2>2
  <2>4. 1..(k + 1) = (1..k) \cup {k + 1}
    OBVIOUS
  <2> QED
    BY <2>2, <2>3, <2>4, Zenon
<1>6. 7 \in S
  <2> HIDE DEF S
  <2>1. Nat \subseteq S
    BY <1>4, <1>5, Induction, Zenon
  <2> QED
    BY <2>1
<1>7. \E j \in 1..7 : Addresses[j] \in set
  BY <1>0
<1>8. f[7] \in set
  BY <1>6, <1>7
<1> QED
  BY <1>0, <1>8 DEF f, n

\* When the search is over, all that a path goes through has been visited.
LEMMA PathVisited ==
  ASSUME Seen(<<>>, visited, {}), Self \in visited, NEW p \in Paths
  PROVE  FALSE
<1>1. PICK n \in 2..Cardinality(Nodes) : p \in [1..n -> Nodes]
  BY DEF Paths
<1>2. n \in Nat /\ n >= 2 /\ Len(p) = n
  <2>1. n \in Int /\ n >= 2
    OBVIOUS
  <2> QED
    BY <1>1, <2>1
<1>3. /\ p[1] = Self /\ p[n] = Target
      /\ \A i \in 1..(n - 1) : <<p[i], p[i + 1]>> \in Edges
  BY <1>2 DEF Paths, Edges
<1> DEFINE S == {i \in Nat : i + 1 < n => p[i + 1] \in visited}
<1>4. 0 \in S
  BY <1>3
<1>5. ASSUME NEW k \in Nat, k \in S PROVE k + 1 \in S
  <2>1. SUFFICES ASSUME (k + 1) + 1 < n PROVE p[(k + 1) + 1] \in visited
    OBVIOUS
  <2>2. k + 1 \in 1..(n - 1) /\ p[k + 1] \in visited
    BY <1>2, <1>5, <2>1
  <2>3. <<p[k + 1], p[(k + 1) + 1]>> \in Edges
    BY <1>3, <2>2
  <2>4. \A j \in 1..Len(<<>>) : FALSE
    OBVIOUS
  <2> QED
    BY <2>2, <2>3, <2>4, Zenon DEF Seen
<1>6. n - 2 \in Nat /\ (n - 2) + 1 = n - 1 /\ n - 1 < n /\ n - 1 \in 1..(n - 1) /\ (n - 1) + 1 = n
  BY <1>2
<1>7. n - 2 \in S
  <2> HIDE DEF S
  <2>1. Nat \subseteq S
    BY <1>4, <1>5, Induction, Zenon
  <2> QED
    BY <1>6, <2>1
<1>8. p[n - 1] \in visited
  BY <1>6, <1>7
<1>9. <<p[n - 1], Target>> \in Edges
  BY <1>3, <1>6
<1> QED
  BY <1>8, <1>9, Zenon DEF Seen

\* What find_address returns.
LEMMA ReturnStep ==
  ASSUME SearchInv, find_address
  PROVE  AddressFound'
<1> DEFINE a == IF results = {} THEN "unspecified" ELSE Picks(results)[Len(Addresses)]
<1>0. found' = <<a>> /\ addresses' = addresses /\ frames = <<>> /\ visited # {}
  BY DEF find_address
<1> HIDE DEF a
<1>1. found'[1] = a
  BY <1>0
<1>2. CASE results = {}
  <2>1. Seen(<<>>, visited, {}) /\ Self \in visited
    BY <1>0, <1>2 DEF SearchInv
  <2>2. Paths = {}
    BY <2>1, PathVisited, Zenon
  <2>3. Paths' = {}
    BY <1>0, <2>2, Zenon DEF Paths, Nodes
  <2>4. a = "unspecified"
    BY <1>2 DEF a
  <2> QED
    BY <1>1, <2>3, <2>4 DEF AddressFound
<1>3. CASE results # {}
  <2>1. \A b \in results : b \in AddressSet /\ \E p \in Paths : Serves(b, p)
    BY DEF SearchInv, Results
  <2>2. a \in results
    BY <1>3, <2>1, PicksOne DEF a
  <2>3. PICK p \in Paths : Serves(a, p)
    BY <2>1, <2>2
  <2>4. p \in Paths'
    BY <1>0, <2>3, Zenon DEF Paths, Nodes
  <2>5. AddressesOf(p)' = AddressesOf(p)
    BY <1>0 DEF AddressesOf
  <2> QED
    BY <1>1, <2>3, <2>4, <2>5, Zenon DEF AddressFound, Serves
<1> QED
  BY <1>2, <1>3

\* What is known of the search says the same while the addresses stay.
LEMMA SearchKept ==
  ASSUME addresses' = addresses
  PROVE  /\ Stored => Stored'
         /\ Stack(frames', visited') => Stack(frames, visited)'
         /\ Seen(frames', visited', results') => Seen(frames, visited, results)'
         /\ Results(results') => Results(results)'
<1>1. Edges' = Edges /\ Nodes' = Nodes
  BY DEF Edges, Nodes
<1>2. Stored => Stored'
  BY <1>1 DEF Stored
<1>3. Seen(frames', visited', results') => Seen(frames, visited, results)'
  BY <1>1 DEF Seen
<1>4. Results(results') => Results(results)'
  <2>1. Paths' = Paths
    BY <1>1 DEF Paths
  <2>2. \A a, p : Serves(a, p)' <=> Serves(a, p)
    BY DEF Serves, AddressesOf
  <2> QED
    BY <2>1, <2>2, Zenon DEF Results
<1>5. ASSUME Stack(frames', visited') PROVE Stack(frames, visited)'
  <2>1. Frames' = Frames
    BY <1>1 DEF Frames
  <2>2. ASSUME NEW k \in 1..Len(frames')
        PROVE  /\ frames'[k].from \in visited'
               /\ <<frames'[k].from, Target>> \notin Edges'
               /\ \A id \in frames'[k].rest : <<frames'[k].from, id>> \in Edges'
    BY <1>1, <1>5 DEF Stack
  <2>3. ASSUME NEW k \in 1..Len(frames') PROVE Chain(Froms(frames, k), k)'
    <3>1. Chain(Froms(frames', k), k)
      BY <1>5, Zenon DEF Stack
    <3> QED
      BY <1>1, <3>1, Zenon DEF Chain, Froms
  <2>4. ASSUME NEW k \in 1..Len(frames')
        PROVE  Carries(frames[k].most_public, Froms(frames, k), k)'
    <3>1. Carries(frames'[k].most_public, Froms(frames', k), k)
      BY <1>5, Zenon DEF Stack
    <3> QED
      BY <1>1, <3>1, Zenon DEF Carries, Best, Froms
  <2>5. frames' \in Seq(Frames')
    BY <1>5, <2>1 DEF Stack
  <2> QED
    BY <2>2, <2>3, <2>4, <2>5 DEF Stack
<1> QED
  BY <1>2, <1>3, <1>4, <1>5

\* The first call.
LEMMA StartStep ==
  ASSUME SearchInv, find_address_to
  PROVE  SearchInv'
<1>0. /\ visited = {} /\ frames = <<>> /\ found = <<>> /\ found' = <<>> /\ addresses' = addresses
      /\ find_addresses(<<>>, Self, "unspecified")
  BY DEF find_address_to, SearchInv
<1> DEFINE p == Longer(Froms(<<>>, 0), 0, Self)
<1>1. Stored /\ Stack(<<>>, visited) /\ Results(results) /\ Self # Target
  BY <1>0, SearchAssumption DEF SearchInv
<1>2. p = [i \in 1..1 |-> Self]
  BY DEF Longer
<1>3. Chain(p, 1) /\ Carries("unspecified", p, 1)
  BY <1>1, <1>2 DEF Chain, Carries
<1>4. Len(<<>>) = 0 /\ 0 + 1 = 1
  OBVIOUS
<1>5. "unspecified" \in AddressSet
  BY DEF AddressSet, Addresses
<1>6. SeenBut(<<>>, Self) /\ Extends(<<>>, Self, "unspecified")
  BY <1>0, <1>3, <1>4, Zenon DEF SeenBut, Extends
<1>7. /\ Self \in visited' /\ Target \notin visited'
      /\ Stack(frames', visited')
      /\ Seen(frames', visited', results')
      /\ Results(results')
  BY <1>0, <1>1, <1>5, <1>6, CallStep, Zenon
<1>8. AddressFound'
  BY <1>0 DEF AddressFound
<1> QED
  BY <1>0, <1>1, <1>7, <1>8, SearchKept DEF SearchInv

\* The next call, or the return from one.
LEMMA NeighborStep ==
  ASSUME SearchInv, NextNeighbor
  PROVE  SearchInv'
<1> DEFINE n == Len(frames)
           top == frames[n]
<1>0. /\ frames # <<>> /\ found = <<>> /\ found' = <<>> /\ addresses' = addresses
      /\ visited # {} /\ Self \in visited /\ Target \notin visited
      /\ Stored /\ Stack(frames, visited) /\ Seen(frames, visited, results) /\ Results(results)
  BY Zenon DEF NextNeighbor, SearchInv
<1>1. SUFFICES /\ visited \subseteq visited' /\ Target \notin visited'
               /\ Stack(frames', visited')
               /\ Seen(frames', visited', results')
               /\ Results(results')
  <2>1. AddressFound'
    BY <1>0 DEF AddressFound
  <2> QED
    BY <1>0, <1>1, <2>1, SearchKept DEF SearchInv
<1>2. ASSUME NEW id \in top.rest,
             find_addresses([frames EXCEPT ![n].rest = @ \ {id}], id,
                            MorePublic(addresses[<<top.from, id>>], top.most_public))
      PROVE  /\ visited \subseteq visited' /\ Target \notin visited'
             /\ Stack(frames', visited')
             /\ Seen(frames', visited', results')
             /\ Results(results')
  <2> DEFINE stack == [frames EXCEPT ![n].rest = @ \ {id}]
             p == Longer(Froms(stack, n), n, id)
             mp == MorePublic(addresses[<<top.from, id>>], top.most_public)
  <2>1. /\ Len(stack) = n
        /\ mp \in AddressSet
        /\ <<top.from, id>> \in Edges /\ id # Target /\ id \in Nodes
        /\ Stack(stack, visited)
        /\ \A k \in 1..n : /\ stack[k].from = frames[k].from
                           /\ frames[k].rest \subseteq stack[k].rest \cup {id}
        /\ id \notin visited => Chain(p, n + 1) /\ Carries(mp, p, n + 1)
    BY <1>0, TopStep, Zenon
  <2>2. find_addresses(stack, id, mp)
    BY <1>2
  <2> HIDE DEF stack, mp
  <2>3. SeenBut(stack, id)
    <3> SUFFICES ASSUME NEW v \in visited
                 PROVE  \/ <<v, Target>> \in Edges /\ results # {}
                        \/ /\ <<v, Target>> \notin Edges
                           /\ \A w : <<v, w>> \in Edges =>
                                \/ w \in visited \cup {id}
                                \/ \E k \in 1..Len(stack) : stack[k].from = v /\ w \in stack[k].rest
      BY Zenon DEF SeenBut
    <3>1. \/ <<v, Target>> \in Edges /\ results # {}
          \/ /\ <<v, Target>> \notin Edges
             /\ \A w : <<v, w>> \in Edges =>
                  \/ w \in visited
                  \/ \E k \in 1..n : frames[k].from = v /\ w \in frames[k].rest
      BY <1>0, Zenon DEF Seen
    <3>2. ASSUME NEW w, NEW k \in 1..n, frames[k].from = v /\ w \in frames[k].rest
          PROVE  w = id \/ \E j \in 1..Len(stack) : stack[j].from = v /\ w \in stack[j].rest
      <4>1. k \in 1..Len(stack) /\ stack[k].from = v /\ w \in stack[k].rest \cup {id}
        BY <2>1, <3>2
      <4> QED
        BY <4>1, Zenon
    <3> HIDE DEF n
    <3> QED
      BY <3>1, <3>2, Zenon
  <2>4. id \in Nodes \cup {Self}
    BY <2>1
  <2>5. Extends(stack, id, mp)
    BY <2>1, Zenon DEF Extends
  <2>6. /\ visited' = visited \cup {id} /\ Target \notin visited'
        /\ Stack(frames', visited')
        /\ Seen(frames', visited', results')
        /\ Results(results')
    BY <1>0, <2>1, <2>2, <2>3, <2>4, <2>5, CallStep, Zenon
  <2> QED
    BY <2>6
<1>3. ASSUME top.rest = {}, frames' = SubSeq(frames, 1, n - 1), visited' = visited, results' = results
      PROVE  Stack(frames', visited') /\ Seen(frames', visited', results')
  <2> DEFINE t == SubSeq(frames, 1, n - 1)
  <2>1. frames \in Seq(Frames) /\ n \in Nat \ {0}
    BY <1>0 DEF Stack
  <2> HIDE DEF n
  <2>2. t \in Seq(Frames) /\ Len(t) = n - 1 /\ \A k \in 1..(n - 1) : t[k] = frames[k]
    <3>1. n - 1 \in Nat /\ n - 1 <= Len(frames)
      BY <2>1 DEF n
    <3>2. DOMAIN t = 1..(n - 1) /\ Len(t) = n - 1
      BY <2>1, <3>1
    <3>3. ASSUME NEW k \in 1..(n - 1) PROVE t[k] = frames[k] /\ t[k] \in Frames
      BY <2>1, <3>1, <3>3
    <3>4. t \in Seq(Frames)
      BY <2>1, <3>1
    <3> QED
      BY <3>2, <3>3, <3>4
  <2> HIDE DEF t
  <2>3. ASSUME NEW k \in 1..(n - 1)
        PROVE  k \in 1..n /\ t[k] = frames[k] /\ Froms(t, k) = Froms(frames, k)
    <3>1. k \in 1..n /\ k \in Nat /\ t[k] = frames[k] /\ \A i \in 1..k : t[i].from = frames[i].from
      BY <2>1, <2>2
    <3> QED
      BY <3>1, SameFroms, Zenon
  <2>4. Stack(t, visited)
    <3>1. ASSUME NEW k \in 1..(n - 1)
          PROVE  /\ t[k].from \in visited
                 /\ <<t[k].from, Target>> \notin Edges
                 /\ \A w \in t[k].rest : <<t[k].from, w>> \in Edges
                 /\ Chain(Froms(t, k), k)
                 /\ Carries(t[k].most_public, Froms(t, k), k)
      <4>1. k \in 1..Len(frames) /\ t[k] = frames[k] /\ Froms(t, k) = Froms(frames, k)
        BY <2>3, Zenon DEF n
      <4> QED
        BY <1>0, <4>1, Zenon DEF Stack
    <3> QED
      BY <2>2, <3>1, Zenon DEF Stack
  <2>5. \A k \in 1..n : k \in 1..Len(t) \/ k = n
    BY <2>1, <2>2
  <2>6. Seen(t, visited, results)
    <3> SUFFICES ASSUME NEW v \in visited
                 PROVE  \/ <<v, Target>> \in Edges /\ results # {}
                        \/ /\ <<v, Target>> \notin Edges
                           /\ \A w : <<v, w>> \in Edges =>
                                \/ w \in visited
                                \/ \E k \in 1..Len(t) : t[k].from = v /\ w \in t[k].rest
      BY Zenon DEF Seen
    <3>1. \/ <<v, Target>> \in Edges /\ results # {}
          \/ /\ <<v, Target>> \notin Edges
             /\ \A w : <<v, w>> \in Edges =>
                  \/ w \in visited
                  \/ \E k \in 1..n : frames[k].from = v /\ w \in frames[k].rest
      BY <1>0, Zenon DEF Seen, n
    <3>2. ASSUME NEW w, NEW k \in 1..n, frames[k].from = v /\ w \in frames[k].rest
          PROVE  \E j \in 1..Len(t) : t[j].from = v /\ w \in t[j].rest
      <4>1. k # n
        BY <1>3, <3>2
      <4>2. k \in 1..Len(t) /\ t[k] = frames[k]
        BY <2>2, <2>5, <4>1
      <4> QED
        BY <3>2, <4>2, Zenon
    <3> QED
      BY <3>1, <3>2, Zenon
  <2> QED
    BY <1>3, <2>4, <2>6 DEF t
<1>4. \/ \E id \in top.rest :
           find_addresses([frames EXCEPT ![n].rest = @ \ {id}], id,
                          MorePublic(addresses[<<top.from, id>>], top.most_public))
      \/ top.rest = {} /\ frames' = SubSeq(frames, 1, n - 1) /\ visited' = visited /\ results' = results
  BY Zenon DEF NextNeighbor
<1>5. CASE \E id \in top.rest :
             find_addresses([frames EXCEPT ![n].rest = @ \ {id}], id,
                            MorePublic(addresses[<<top.from, id>>], top.most_public))
  BY <1>2, <1>5, Zenon
<1>6. CASE top.rest = {} /\ frames' = SubSeq(frames, 1, n - 1) /\ visited' = visited /\ results' = results
  BY <1>0, <1>3, <1>6
<1> QED
  BY <1>4, <1>5, <1>6, Zenon

\* The search finds an address exactly if a chain of connections leads to the target, and
\* one of such a chain with none clearly more public on it, in every graph of connections.
THEOREM SearchFinds == SearchSpec => []AddressFound
<1>1. SearchInit => SearchInv
  <2> SUFFICES ASSUME SearchInit PROVE SearchInv
    OBVIOUS
  <2>1. PICK t \in Topologies : addresses \in [t -> AddressSet]
    BY DEF SearchInit
  <2>2. Stored
    BY <2>1, SearchAssumption DEF SearchInit, Stored, Edges
  <2>3. Stack(<<>>, {}) /\ Seen(<<>>, {}, {}) /\ Results({})
    BY DEF Stack, Seen, Results
  <2>4. AddressFound
    BY DEF SearchInit, AddressFound
  <2> QED
    BY <2>2, <2>3, <2>4 DEF SearchInit, SearchInv
<1>2. SearchInv /\ [SearchNext]_searchVars => SearchInv'
  <2> SUFFICES ASSUME SearchInv, [SearchNext]_searchVars PROVE SearchInv'
    OBVIOUS
  <2>1. CASE find_address_to
    BY <2>1, StartStep
  <2>2. CASE NextNeighbor
    BY <2>2, NeighborStep
  <2>3. CASE find_address
    <3>1. /\ addresses' = addresses /\ frames' = frames /\ visited' = visited /\ results' = results
          /\ frames = <<>> /\ visited # {}
      BY <2>3 DEF find_address
    <3>2. AddressFound'
      BY <2>3, ReturnStep
    <3> QED
      BY <3>1, <3>2, SearchKept DEF SearchInv
  <2>4. CASE UNCHANGED searchVars
    <3>1. /\ addresses' = addresses /\ frames' = frames /\ visited' = visited /\ results' = results
          /\ found' = found
      BY <2>4 DEF searchVars
    <3>2. AddressFound'
      <4>1. Paths' = Paths
        BY <3>1 DEF Paths, Nodes
      <4>2. \A p : AddressesOf(p)' = AddressesOf(p)
        BY <3>1 DEF AddressesOf
      <4> QED
        BY <3>1, <4>1, <4>2 DEF SearchInv, AddressFound
    <3> QED
      BY <3>1, <3>2, SearchKept DEF SearchInv
  <2> QED
    BY <2>1, <2>2, <2>3, <2>4 DEF SearchNext
<1>3. SearchInv => AddressFound
  BY DEF SearchInv
<1> QED
  BY <1>1, <1>2, <1>3, PTL DEF SearchSpec
===============================================================================
