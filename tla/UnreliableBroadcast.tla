------------------------- MODULE UnreliableBroadcast -------------------------
(***************************************************************************)
(* hub::unreliable_broadcast: the packet floods the network along the      *)
(* tables that every hub computes, for every source, from the graph of the *)
(* last configuration it has committed                                     *)
(* (src/club/broadcast_routing_table.h).  The hubs commit the next         *)
(* configuration one after the other, so their tables need not agree.      *)
(***************************************************************************)
EXTENDS Graph

CONSTANTS
  Hubs,        \* uuids of the hubs, numbers
  Plans,       \* what may happen, records: the hub that broadcasts (`source'), the
               \* neighbors in two configurations (`old', `new') and of the sockets
               \* that are connected (`wired'), and how many packets may be `lost'
  MaxCopies    \* bound: copies on the way on one connection; more are lost

ASSUME FloodAssumption ==
  /\ IsFiniteSet(Hubs) /\ Hubs \subseteq Nat
  /\ MaxCopies \in Nat
  /\ \A p \in Plans :
       /\ p.source \in DOMAIN p.old /\ p.lost \in Nat
       /\ \A neighbors \in {p.old, p.new, p.wired} :
            /\ DOMAIN neighbors \subseteq Hubs
            /\ \A h \in DOMAIN neighbors : neighbors[h] \subseteq Hubs

VARIABLES
  scenario,    \* one of Plans
  committed,   \* the hubs that have committed the new configuration
  flight,      \* copies on the way, by connection
  got,         \* how often on_receive_unreliable was called: 0, 1, or 2 for more
  drops,       \* packets lost
  counter,     \* sends of the source that have not completed, none before the call
  abandoned,   \* those of them whose handler is never called
  told         \* how often its on_broadcast was called: 0, 1, or 2 for more

floodVars == <<scenario, committed, flight, got, drops, counter, abandoned, told>>

Connections == {c \in Hubs \X Hubs : c[1] # c[2]}
More(n) == IF n = 2 THEN 2 ELSE n + 1

FloodInit ==
  /\ scenario \in Plans
  /\ committed = {}
  /\ flight = [c \in Connections |-> 0]
  /\ got = [h \in Hubs |-> 0]
  /\ drops = 0 /\ counter = {} /\ abandoned = 0 /\ told = 0
-------------------------------------------------------------------------------
\* One round of the breadth-first search, over the ids of `layer' that are in `ids'
\* and in the order of the ids: the peers that are not visited by then.
Round(g, visited, layer, ids) ==
  UNION {Peers(g, i) \ (visited \cup {j \in layer : j <= i}) : i \in ids}

\* The rounds of the search from `source': what is visited before a round, and the layer
\* that it visits.  (In all but the last ones a node is visited that was not before, so
\* there are enough of them.)
Onward(g, r) ==
  [visited |-> r.visited \cup r.layer, layer |-> Round(g, r.visited, r.layer, r.layer)]
Rounds(g, source) ==
  LET round[n \in 0..Cardinality(g.nodes)] ==
        IF n = 0 THEN [visited |-> {}, layer |-> {source}] ELSE Onward(g, round[n - 1])
  IN  round

\* The round that reaches `my_id', or the last one if none does.
RoundOf(g, my_id, source) ==
  LET r     == Rounds(g, source)
      found == {n \in 0..Cardinality(g.nodes) : my_id \in r[n].layer}
  IN  IF found = {} THEN r[Cardinality(g.nodes)]
      ELSE r[CHOOSE n \in found : \A m \in found : n <= m]

\* What recalculate has visited at `finish'.
Visited(g, my_id, source) ==
  LET r       == RoundOf(g, my_id, source)
      earlier == {i \in r.layer : i < my_id}
  IN  IF my_id \notin r.layer THEN r.visited
      ELSE r.visited \cup earlier \cup {my_id} \cup Round(g, r.visited, r.layer, earlier)

\* Mutant: only what lies nearer to the source is left out.
RecalculateNearer(g, my_id, source) == Peers(g, my_id) \ RoundOf(g, my_id, source).visited

\* Mutant: the hubs that are as near to the source are left out, and so are those
\* that one of them could serve.
RecalculateFurther(g, my_id, source) ==
  LET r == RoundOf(g, my_id, source)
  IN  Peers(g, my_id) \
        (r.visited \cup r.layer \cup Round(g, r.visited, r.layer, r.layer \ {my_id}))

\* BroadcastRoutingTable::recalculate, for one source.
recalculate(g, my_id, source) == Peers(g, my_id) \ Visited(g, my_id, source)

\* acks_to_graph: the graph of a configuration has the neighbors of each member.
acks_to_graph(neighbors) ==
  [nodes |-> DOMAIN neighbors \cup UNION {neighbors[h] : h \in DOMAIN neighbors},
   edges |-> Restrict(neighbors, {h \in DOMAIN neighbors : neighbors[h] # {}})]

Config(h) == IF h \in committed THEN scenario.new ELSE scenario.old
Table(h) == acks_to_graph(Config(h))

\* get_targets; a source that is not in the graph has none.
get_targets(h, source) ==
  IF {h, source} \subseteq Table(h).nodes THEN recalculate(Table(h), h, source) ELSE {}

\* find_node and is_connected
IsConnected(h, id) == h \in DOMAIN scenario.wired /\ id \in scenario.wired[h]

\* Node::send_unreliable to each of `targets' that is connected, after `taken' left.
Sending(h, targets, taken) ==
  LET sent == {<<h, id>> : id \in {i \in targets : IsConnected(h, i)}}
      left == [c \in Connections |-> flight[c] - IF c \in taken THEN 1 ELSE 0]
  IN  /\ flight' = [c \in Connections |->
                      IF c \in sent /\ left[c] < MaxCopies THEN left[c] + 1 ELSE left[c]]
      /\ drops' = IF \E c \in sent : left[c] = MaxCopies THEN drops + 1 ELSE drops

\* How often on_broadcast is called by unreliable_broadcast itself: by every send
\* that completes while no other is under way, and, posted, if none is at the end.
HandlerCalls(early, left) ==
  CASE left > 0  -> IF early > 1 THEN 2 ELSE early
    [] left = 0  -> IF early > 0 THEN 2 ELSE 1

\* hub::unreliable_broadcast.  Sends complete at once when the socket has room: the
\* first `early' ones, and some of those that follow one that does not.
unreliable_broadcast ==
  LET s == scenario.source
      n == Cardinality({id \in Hubs : IsConnected(s, id)})
  IN  /\ counter = {}
      /\ Sending(s, Hubs, {})
      /\ \E early \in 0..n : \E left \in 0..(n - early) :
           /\ early < n => left > 0
           /\ counter' = {left} /\ told' = HandlerCalls(early, left)
      /\ UNCHANGED <<scenario, committed, got, abandoned>>

\* A send of the source completes.
SendCompleted ==
  \E n \in counter :
    /\ n > abandoned /\ counter' = {n - 1}
    /\ told' = IF n = 1 THEN More(told) ELSE told
    /\ UNCHANGED <<scenario, committed, flight, got, drops, abandoned>>

\* A send of the source never calls its handler: its node is destroyed meanwhile, or its
\* socket fails, which drops the handlers of its sends.
AbandonSend ==
  \E n \in counter :
    /\ n > abandoned /\ abandoned' = abandoned + 1
    /\ UNCHANGED <<scenario, committed, flight, got, drops, counter, told>>

\* hub::node_received_unreliable_broadcast.  The source may not be a node any more.
node_received_unreliable_broadcast(c) ==
  LET h == c[2] IN
  /\ flight[c] > 0
  /\ \/ /\ scenario.source \in Table(h).nodes
        /\ Sending(h, get_targets(h, scenario.source), {c})
        /\ got' = [got EXCEPT ![h] = More(@)]
     \/ /\ scenario.source \notin Table(h).nodes
        /\ Sending(h, {}, {c})
        /\ UNCHANGED got
  /\ UNCHANGED <<scenario, committed, counter, abandoned, told>>

\* hub::on_commit_fuse
on_commit_fuse(h) ==
  /\ scenario.old # scenario.new
  /\ h \in DOMAIN scenario.new \ committed
  /\ committed' = committed \cup {h}
  /\ UNCHANGED <<scenario, flight, got, drops, counter, abandoned, told>>

LosePacket(c) ==
  /\ flight[c] > 0 /\ drops < scenario.lost
  /\ flight' = [flight EXCEPT ![c] = @ - 1]
  /\ drops' = drops + 1
  /\ UNCHANGED <<scenario, committed, got, counter, abandoned, told>>

FloodNext ==
  \/ unreliable_broadcast \/ SendCompleted \/ AbandonSend
  \/ \E c \in Connections : node_received_unreliable_broadcast(c) \/ LosePacket(c)
  \/ \E h \in Hubs : on_commit_fuse(h)

FloodSpec == FloodInit /\ [][FloodNext]_floodVars
-------------------------------------------------------------------------------
Quiet == \A c \in Connections : flight[c] = 0

\* All hubs have committed the same configuration, and it is how they are wired.
Steady == scenario.old = scenario.new /\ scenario.new = scenario.wired

\* A network without odd cycles: its edges go between two sets of hubs.
Bipartite(neighbors) ==
  \E set \in SUBSET Hubs : \A h \in DOMAIN neighbors :
    neighbors[h] \subseteq IF h \in set THEN Hubs \ set ELSE set

\* When the routing tables agree and nothing is lost, the broadcast has reached every
\* hub that a chain of connections leads to by the time nothing is on the way: what a hub
\* leaves out of its targets another one has in its own.  "The one that broadcasts it
\* doesn't receive it" and "Test that we're not sending more than we need"
\* (test-club.cpp): the source gets nothing, whatever the tables are, because recalculate
\* visits it first, and with tables that agree, and no odd cycle, no hub receives a
\* broadcast twice.
FloodCovers ==
  /\ Steady /\ counter # {} /\ drops = 0 /\ Quiet =>
       \A h \in Reached(acks_to_graph(scenario.new), scenario.source) \ {scenario.source} :
         got[h] > 0
  /\ got[scenario.source] = 0
  /\ Steady /\ Bipartite(scenario.new) => \A h \in Hubs : got[h] < 2

\* Hubs that have committed different configurations may pass a broadcast round in a
\* circle, but not for ever: it dies out once they have committed the same one.  And
\* on_broadcast is called, whether the sends complete at once, later, or there is none;
\* unless a send is abandoned: then the count does not reach zero, and the code may call
\* on_broadcast never.
EventuallyQuiet == counter # {} ~> Quiet /\ (told > 0 \/ abandoned > 0)
===============================================================================
