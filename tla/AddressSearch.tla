----------------------------- MODULE AddressSearch -----------------------------
(***************************************************************************)
(* hub::find_address_to: the search of an address for a node in the graph  *)
(* of who is connected to whom (src/club/connection_graph.cpp).  The       *)
(* recursion of find_addresses is the stack of its calls, and a step is    *)
(* one call, or the return from one.                                       *)
(***************************************************************************)
EXTENDS Integers, Sequences, FiniteSets

CONSTANTS
  Self,         \* the node that searches
  Target,       \* the node it wants to reach
  Topologies    \* sets of pairs <<from, to>>: who reports a connection to whom

\* A hub asks for another one.
ASSUME SearchAssumption ==
  /\ Self # Target
  /\ \A t \in Topologies : IsFiniteSet(t) /\ \A e \in t : e = <<e[1], e[2]>>

\* One address of every kind the code tells apart, in the order of std::set.
Addresses == <<"unspecified", "class_a", "loopback", "class_b", "class_c", "v6", "link_local">>
AddressSet == {Addresses[i] : i \in DOMAIN Addresses}

IsV6(a) == a \in {"link_local", "v6"}

\* Not asymmetric: a class b and a class c address are each below the other.
first_is_less_public(a1, a2) ==
  /\ a1 # a2
  /\ a2 # "unspecified"
  /\ \/ a1 = "unspecified"
     \/ a2 # "loopback" /\ \/ a1 = "loopback"
                           \/ ~IsV6(a1) /\ (IsV6(a2) \/ a1 \in {"class_b", "class_c"})
                           \/ a1 = "link_local" /\ IsV6(a2)

\* Mutant: the arms are swapped.
MorePrivate(ep, most_public) == IF first_is_less_public(ep, most_public) THEN ep ELSE most_public

\* What find_addresses carries along a path.
MorePublic(ep, most_public) == IF first_is_less_public(ep, most_public) THEN most_public ELSE ep
-------------------------------------------------------------------------------
VARIABLES
  addresses,    \* what add_connection stored: <<from, to>> -> address
  frames,       \* the calls of find_addresses that are in their loop: the arguments
                \* `from' and `most_public', and the neighbors still to come
  visited,      \* the two sets that all the calls share
  results,
  found         \* what find_address returned: <<>> before, <<address>> after

searchVars == <<addresses, frames, visited, results, found>>

\* Own connections without an address are left out; those of the peers are not.
SearchInit ==
  /\ \E t \in Topologies : addresses \in [t -> AddressSet]
  /\ \A e \in DOMAIN addresses : e[1] = Self => addresses[e] # "unspecified"
  /\ frames = <<>> /\ visited = {} /\ results = {} /\ found = <<>>

Neighbors(id) == {e[2] : e \in {x \in DOMAIN addresses : x[1] = id}}

\* get_sorted_neighbors: the one that comes next of those that are left, one that is not
\* more public than another (where the comparison means anything).
IsNext(from, id, rest) ==
  \A other \in rest :
    LET before == addresses[<<from, id>>]
        after  == addresses[<<from, other>>]
    IN  first_is_less_public(after, before) => first_is_less_public(before, after)

\* A call of find_addresses from `stack'.  A node without connections has no neighbors.
find_addresses(stack, from, most_public) ==
  \/ from \in visited /\ frames' = stack /\ UNCHANGED <<visited, results>>
  \/ /\ from \notin visited /\ visited' = visited \cup {from}
     /\ \/ /\ <<from, Target>> \in DOMAIN addresses
           /\ results' = results \cup {MorePublic(addresses[<<from, Target>>], most_public)}
           /\ frames' = stack
        \/ /\ <<from, Target>> \notin DOMAIN addresses
           /\ frames' = Append(stack, [from |-> from, most_public |-> most_public,
                                      rest |-> Neighbors(from)])
           /\ results' = results

\* hub::find_address_to, up to the first call.
find_address_to ==
  /\ visited = {}
  /\ find_addresses(<<>>, Self, "unspecified")
  /\ UNCHANGED <<addresses, found>>

\* The innermost call goes on to its next neighbor, or returns.
NextNeighbor ==
  /\ frames # <<>>
  /\ LET last == Len(frames)
         top  == frames[last]
     IN  \/ \E id \in top.rest :
              /\ IsNext(top.from, id, top.rest)
              /\ find_addresses([frames EXCEPT ![last].rest = @ \ {id}], id,
                                MorePublic(addresses[<<top.from, id>>], top.most_public))
         \/ top.rest = {} /\ frames' = SubSeq(frames, 1, last - 1) /\ UNCHANGED <<visited, results>>
  /\ UNCHANGED <<addresses, found>>

\* The loop of find_address, up to the i-th address: the most private one of `set'.
Picks(set) ==
  LET pick[i \in 0..Len(Addresses)] ==
        IF i = 0 THEN "none"
        ELSE IF /\ Addresses[i] \in set
                /\ pick[i - 1] = "none" \/ first_is_less_public(Addresses[i], pick[i - 1])
        THEN Addresses[i] ELSE pick[i - 1]
  IN  pick

\* find_address comes back.
find_address ==
  /\ visited # {} /\ frames = <<>> /\ found = <<>>
  /\ found' = <<IF results = {} THEN "unspecified" ELSE Picks(results)[Len(Addresses)]>>
  /\ UNCHANGED <<addresses, frames, visited, results>>

SearchNext == find_address_to \/ NextNeighbor \/ find_address
SearchSpec == SearchInit /\ [][SearchNext]_searchVars
-------------------------------------------------------------------------------
Nodes == UNION {{e[1], e[2]} : e \in DOMAIN addresses}

\* The paths that lead from this node to the target.
Paths ==
  {p \in UNION {[1..n -> Nodes] : n \in 2..Cardinality(Nodes)} :
     /\ p[1] = Self /\ p[Len(p)] = Target
     /\ \A i \in 1..(Len(p) - 1) : <<p[i], p[i + 1]>> \in DOMAIN addresses}

AddressesOf(p) == {addresses[<<p[i], p[i + 1]>>] : i \in 1..(Len(p) - 1)}

\* The search comes back with an address exactly if some chain of connections
\* leads to the target, and the address is one of a chain's, with none on that
\* chain clearly more public: the pruning by the one set of visited nodes, shared
\* by all the branches of the recursion, loses no target.
AddressFound ==
  found # <<>> =>
    IF Paths = {} THEN found[1] = "unspecified"
    ELSE \E p \in Paths :
           /\ found[1] \in AddressesOf(p) \ {"unspecified"}
           /\ \A a \in AddressesOf(p) :
                first_is_less_public(found[1], a) => first_is_less_public(a, found[1])
===============================================================================
