# Verification of libclub

libclub connects programs into a *club*: a network of hubs that broadcast messages in
one total order and agree on who is in the network, over UDP connections that are made
through NATs. This directory models the parts of it that change state, checks them with
TLC on small instances, and proves the most important guarantees with TLAPS for every
instance. `PROJECT.json` lists the runs, the lines that each definition stands for, the
hazards and the theorems.

## The system

| part | code | what it does |
|---|---|---|
| hub | `src/club/hub.cpp`, `log.h`, `log_entry.h`, `seen_messages.h`, `message_id.h`, `node.h`, `reliable_exchange.h` | total order broadcast and membership over reliable sockets |
| unreliable broadcast | `hub.cpp`, `broadcast_routing_table.h` | a flood along the connections of the committed configuration |
| graphs | `graph.h`, `connection_graph.cpp` | which hub is connected to which, and the search for an address |
| messages | `message.h`, `include/binary/` | their encoding |
| socket | `include/club/socket.h`, `include/club/transport/` | reliable and unreliable messages over UDP |
| alarm | `include/async/alarm.h` | the timer of the socket and of the rendezvous server |
| hole punching | `include/club/transport/punch_hole.h` | two sockets behind NATs meet |
| rendezvous | `src/rendezvous/`, `include/rendezvous/client.h` | a server that matches clients, with a reflector |
| STUN | `stun_client.cpp`, `get_external_port.h` | a client asks servers for its external endpoint |

A client finds the endpoint of a peer with the rendezvous server; a socket punches a
hole to that endpoint; a hub `fuse`s over the connected socket with the hub at the other
end; from then on applications broadcast. Every object runs its handlers on one event
loop: a handler runs to its end, but the handlers of different objects, timers, completed
operations that wait in the queue of the event loop, and the network interleave freely.

## The modules

### The hub

* `MessageId`: a message id is a pair of a timestamp and a uuid, with the lexicographic
  order of `operator<`. Uuids are numbers.
* `SeenMessages`: the duplicate filter, per poster a bottom and the timestamps above it.
* `Log`: the entries with their quorum, acks and predecessors, pending acks, and the
  last commits (`insert_entry`, `apply_ack`, `acked_by_quorum`, ...).
* `Hub`: the hubs, the sockets between them and the messages on the way. `hub[n]` is the
  object, field by field (see the head of the module). Actions: `fuse` (both ends),
  the end and the failure of `reliable_exchange`, `on_recv`, `total_order_broadcast`, the
  posted commit, one iteration of `commit_what_was_seen_by_everyone` (`CommitNext`),
  `on_peer_disconnected`, a network error and the destructor. The commit loop calls the
  application, which may send or destroy the hub there; so the loop is not atomic, and
  its local variables (`last_committable_fuse`, `live_nodes`) are state, with the values
  they had when the loop began. A failed `ASSERT` ends the hub with a status that
  names it. `history` and `sent` record what is reported and sent.
* `TotalOrderBroadcast`: what `hub.h` promises, as a specification of `history` and
  `sent` only. `Hub` is shown to implement it: `TOB == INSTANCE TotalOrderBroadcast WITH
  ...`, `ImplementsBroadcast == TOB!Spec`.
* `MCHub`, `MCHubThree`: instances.
* `Graph`, `GraphObject`: the graph operations, and a graph that is changed by any
  sequence of them, compared with a set of nodes and a set of links.
* `UnreliableBroadcast`: routing tables computed by every hub from the configuration
  it has committed, while configurations change, and the flood that follows them.
* `AddressSearch`: the search of `ConnectionGraph` for an address of a node. The recursion is
  the stack of its calls (`frames`); a step is one call, or the return from one.
* `MessageCodec`: encoder and decoder, with bytes of base `Base` and short uuids.

### The transport

* `AckSet`, `PartInfo`, `CyclicQueue`: pure data structures as operators. `AckSetObject`,
  `PartInfoObject` and `CyclicQueueObject` apply any sequence of operations to one.
* `Socket`: two `SocketImpl` and the packets between them. Actions are `send_reliable`,
  `send_unreliable`, the registration of the receive handlers, `flush`, `close`, the
  arrival of a packet with everything it leads to (acknowledgement, reassembly, delivery,
  replay of pending messages, the next send), the end of a send, the keepalive alarm, the
  receive timeout and the end of an aborted receive. A payload is a sequence of
  units; where a packet is full, and whether the bytes in flight fill the congestion
  window, is a choice.
* `Alarm`: the four states of an alarm, the wait on its timer, and time in ticks. `due` is
  when `on_expire` is to be called, and `early` whether it was called before.
* `PunchHole`: the loop that receives and the loop that sends, the timer between two
  sends, the close of the socket; packets come from any of `Sources`.

### Rendezvous and STUN

* `RendezvousServer`: the maps of the handler, its queue of payloads, its dead man's
  switches. Stands alone (any client may send anything: `ServerSpec`), and
* `Rendezvous` composes it with clients, the reflector and a faulty network. A client asks
  for the reflector, then for its reflected port, then fetches until it is matched; a
  new client may be made on the socket of a destroyed one.
* `StunClient`, and `GetExternalPort`, which uses one.
* `MCRendezvous`; `MCMachines`, which runs one instance of each of the smaller parts.

### Proofs

`TotalOrderBroadcastProofs` and `HubProofs`; `NetworkProofs` (graphs and the flood of an
unreliable broadcast); `ObjectProofs` (AckSet, alarm, cyclic queue); `PartInfoProofs`;
`ConnectProofs` (hole punching and `GetExternalPort`); and the two ways to the address of a
peer, `RendezvousProofs` (server, clients, reflector) and `SearchProofs` (the search in the
connections that are known).

Each of them is checked in some minutes. `tlapm` tries SMT first, and a solver that it gives up
after its five seconds goes on in the background; so a leaf that only Zenon proves says so.

## The runs

Every definition that begins with "Mutant:" in its comment is a plausible bug, used to
make sure that each property can be violated; no specification uses it.

| run | shows |
|---|---|
| `hub_pair` | Two hubs fuse; one sends twice, the other once, before, during and after; one network error; one may be destroyed, also by its own callback. `TotalOrder`, `SenderOrder`, `ImplementsBroadcast`, and `EventuallyReceives`: a hub reports in the end what it sent, unless it is destroyed or runs into a failed `ASSERT` (see Findings). |
| `hub_three` | Three hubs. In a line, fusing in any order with a network error; and in a cycle, where every message takes two paths and the sender may be destroyed. `ConfigAgreement`, `Converged` (once the network is quiet, the members are who is reachable), `VirtualSynchrony` (survivors have reported the same between two configurations), `NoEcho`. |
| `socket_safety` | Two sockets on a network that loses, duplicates and reorders: `ReliableOrder`, `UnreliableOrder`, `FlushedIsReceived`. |
| `socket_liveness` | `EventuallyConnected`, `EventuallyReceived`, `EventuallyFlushed`, `PeerCloses`. |
| `rendezvous` | The two maps agree, no two that match are left waiting, clients are told the right endpoint, once; destroyed clients and old ones are told, two that want each other are matched, and who has gone is forgotten. |
| `machines` | The smaller parts, see below. |
| `hub_stale_message`, `hub_fuse_again`, `hub_unreceived`, `hub_divided`, `socket_abort`, `rendezvous_destroyed` | Each finds a behaviour of the code that contradicts a line of the repository; see Findings. |

`machines` checks, for the acknowledgement set, that `is_in` is exact (`Exact`); that the
intervals of a message are the maximal runs of the bytes that came (`MaximalRuns`); that
the iterator of the cyclic queue visits every entry once (`VisitsOnce`), which justifies
the summary `Cycled` that `Socket` uses; that an alarm is on time, has one wait and expires
(`OnTime`, `OneWait`, `EventuallyExpires`); that hole punching tells its user once, last
and right, and does (`ToldRight`, `EventuallyPunched`); that graphs agree with their
reference (`GraphAgrees`); that a flood reaches everybody, not its source, and, in a network
without odd cycles, nobody twice (`FloodCovers`; with an odd cycle a hub may get two copies);
that it dies out, and `on_broadcast` is called unless a send was abandoned
(`EventuallyQuiet`); that the handler of a STUN request is called, except where the code
drops it (`EventuallyAnswered`, see below); that the user of `GetExternalPort` is told, once,
when nothing uses the socket any more (`SocketFree`, `EventuallyPort`), except after
an answer without an address; that
messages survive encoding, and no message that is cut off is taken for one (`RoundTrip`);
that the address search finds what can be found (`AddressFound`).

Four properties name cases in which the code does not do what one would expect of it, and
say that these are the only ones:

* `Exact`: `AckSet` computes `highest - 31` without a sign, so that it wraps around while the
  highest number is below 31. A number that is missing then counts as received; after 0 and 2
  were added, `try_add(1)` returns true and sets no bit. `SocketImpl` starts at 0, but adds the
  numbers in order, and so never has such a gap. `Exact` takes every first number, 0 too,
  and every order, and excepts the sets with such a gap (`acks.highest < Bits - 1` and a number of
  `Span` that is missing), or to which a number was added while they had it (`late`).
* `EventuallyAnswered`: a second `reflect` to a server that has not answered the first one
  drops its own handler (`dropped`). A failed receive tells everybody who waits, but leaves the
  count above zero, so that no later call starts a receive; and an answer without a usable
  address lowers the count but keeps its request, so that the receive may end too early. The
  calls that these two leave without a receive are `unheard`.
* `EventuallyPort`: in the last of these cases the count is 0, nobody receives, and neither the
  timer nor the destructor of `GetExternalPort` brings the user an answer.
* `EventuallyQuiet`: a node that is destroyed, or whose socket fails, while a send is under way
  does not call back (`abandoned`), and the count that `on_broadcast` waits for stays above zero.

`TypeOK` of the hub has a clause that is more than a type: `last_committable_fuse`, which the commit
loop keeps across the callbacks of the application, is the id of an entry of the log or
none, so it never points to one that was erased.

### Bounds

All bounds are constants in the `.cfg` files or records of bounds (`Scopes`) in the MC
modules, one of which a behaviour keeps to.

* Hubs: two or three. Two are enough for every pair of concurrent handlers, three for a
  message or an ack that overtakes another on a second path, a relay, a fuse that loses
  against another one, and survivors of a destroyed hub. One network error and three
  broadcasts reach every branch of the handlers. In the cycle the network is built in one
  order (`InOrder`), the handlers of two hubs do not overlap and owners fuse when the
  network has settled (`Sequential`); without this the instance is out of reach. The
  findings `hub_unreceived` and `hub_divided` lie outside the bounds of `hub_three`: they
  need a broadcast while hubs fuse in a line, and a destroyed hub in a cycle that is still
  being built.
* Sockets: at most two reliable and two unreliable messages of one direction, of up to three
  units, two packets on the way (duplicates and reordering need no more), an AckSet of
  2 or 3 bits so that its end is reached, and `Modulus = 16` numbers. Numbers of a socket
  do not wrap around (`SocketAssumption`). At a socket that is not slow the sends of a
  handler complete with it, up to `MaxAtOnce` of them; at a slow one each is a step.
* Rendezvous: three clients (two that match and a third one that interferes), two services,
  one fault in each behaviour that has any, two packets of each direction (one, when there
  are three clients). A message without a method, or with an unknown one, may be on its way
  to the server from the start (`strays`). The ports of one client lie at the end of the 16 bits, so that the predicted port wraps around.
* Machines: see `machines.cfg`; sizes at which each structure reaches its limit (a mask of
  4 bits with 11 numbers, so that highest numbers below and above the width occur, the limits on nodes and data of a message exceeded by one).

Deadlock is checked for the hubs. Sockets that are closed, matched clients and the
machines may stop.

### Fairness

* `Hub!Fairness`: as long as a handler can run, some event loop runs one: weak fairness of
  the whole next-state relation. Applications need not send, nothing need break.
* `Socket!Fairness`: the event loop runs completed operations; the keepalive alarm and,
  when nothing comes any more, the receive timeout expire (the code restarts both); the
  application registers a receive handler again, as its contract demands; and the network
  is fair-lossy: what is sent again and again arrives at some time. Without the last one no
  protocol delivers anything.
* `Rendezvous!Fairness`: timers (resends, dead man's switches) are slower than packets and
  handlers, which the code's constants of seconds justify. That the switch of an entry is
  running is assumed: `make_dms` starts it with the entry and every fetch restarts it, and what
  a started alarm does is the business of `Alarm`.
* `MCMachines!Fairness`: time passes, event loops run what is queued, hubs that have not
  committed a configuration yet do, and a STUN server answers what it is asked again and
  again. For `GetExternalPort`, which has a timeout, no answer is assumed.

A step that disables itself is often made fair by `[]<>~can`: it does not stay enabled for
ever. For such a step this is weak fairness, and cheaper for TLC.

## What is proved

For every value of the constants that satisfies the named assumptions:

* **`HubProofs`** (assumes `HubAssumption`: uuids are numbers, each socket joins two hubs).
  `TypeCorrect`; `Implementation`: `Spec => ImplementsBroadcast`, every step of a network of
  hubs is a `Send` or a `Report` of the abstract broadcast or changes neither `history`
  nor `sent`; hence, with `TotalOrderBroadcastProofs`, `SameOrder` (property 1 of `hub.h`)
  and `InOrderOfSending` (property 2). The order of what is reported is an invariant of the
  abstract specification (`Sorted`: every history ascends). For the hubs this needs more
  than the histories: `Inv` says that whatever is in a log is newer than the hub's last
  commit and not newer than its clock, that nothing newer than the last commit has been
  reported, nothing newer than the clock sent, and that user messages in logs and on wires
  were sent by their posters. Each part is needed: a commit takes the first entry of the
  log, which is new because of the second part; a message that is sent is new because the
  clock is ahead of all. There is one lemma for each operation of `Log`, each part of
  a handler, and each action. `NeverEchoes` (`NoEcho`): no message is on its way to the hub
  that posted it. For this `Inv` also says that every message that hubs relay has visited
  its poster (`Spread`), so that no hub on the way sends it back there (`Foreign`). A hub that
  aborts (findings) stops, so the theorems hold with the code as it is.
* **`NetworkProofs`**.
  * `GraphIsRelation`: for any ids and any sequence of operations a graph is a set of nodes and a
    relation on it. The loop of `remove_unreachable_nodes` is a recursive function over its
    rounds; it is shown to compute the least set that has the pivot and is closed under edges
    (`ReachedIsLeast`): while a round leaves anything to visit it has reached one more node than
    there were rounds, so after as many rounds as there are nodes nothing is left.
  * `FloodReachesAll` (assumes `FloodAssumption`: hubs are finitely many numbers, and a plan names
    only hubs): `FloodCovers` for any network, any source, any losses and any order of deliveries
    and commits. Every hub computes its targets alone, so the theorem is about what the tables
    of different hubs have to do with each other. The breadth-first search of `recalculate` is a
    recursive function over its rounds, as above. A hub that the search first visits in one
    round is a target of the least of the hubs of the round before that lead to it
    (`LeastParent`, `Served`); so the targets, followed from the source, come to all that can be
    reached (`Coverage`). With an odd cycle two hubs of the
    same round may serve each other, so a broadcast may come twice; without one, the hubs of a
    round are on the same side, and no two hubs have the same target (`OneServer`). The
    source is visited first, and so in nobody's targets, whatever graph a hub has (`SourceLeftOut`).
    `FloodInv` carries this through the flood: when the tables agree, a hub that has sent has left
    a copy with each of its targets or on the way there unless one was lost; and without odd
    cycles there is one copy at most for each hub, on its way or received.
* **`ObjectProofs`**.
  * `AcksAreExact` (assumes `AckSetAssumption`): for any width of the mask and
    any range of numbers, from any first number on and in any order, `is_in` holds of what was
    added and of what is below the first number, and of nothing else, with the exception
    that `Exact` names. The inductive invariant says that the mask is a picture of the last
    `Bits` numbers and that there is no gap between the first number and the mask; when the
    mask is shifted, what leaves it was added or is the first number, also when an addition
    wraps around.
  * `NeverEarly`, `WaitsOnce` (assume `AlarmAssumption`): the invariant lists for each of the four
    states which wait the alarm has and when it is due.
  * `VisitsEachOnce` (assumes `EndAssumption`: `end()` is not an entry): for any number of entries
    and whichever of them are erased, a cycle visits each once and then knows that it has ended.
    The invariant adds to `VisitsOnce` what the end of the cycle is: `end()` until an entry is
    kept, and then the first one that was. With it, the summary `Cycled` in `Socket` is
    what the iterator does.
* **`ConnectProofs`**.
  * `TellsRight`: the invariant relates the loops that have ended, the result and the socket.
  * `LeavesSocketFree`: for any servers and packets, `GetExternalPort` tells its user at most once,
    and then nothing receives from the socket. The invariant follows its one request: nothing
    is asked before the resolver's handler runs; after it the request is outstanding, with a
    receive and a count of one, or over, with one result posted or told, or none at all (an
    answer without an address, which ends the receive and leaves the request).
* **`PartInfoProofs`** (assumes `MessageSizeAssumption`). `IntervalsAreMaximal`: for a
  message of any size and parts that overlap, touch or repeat, the intervals are the maximal
  runs of the bytes that came. So `is_full` is right, and `Socket` can rely on it.
* **`RendezvousProofs`**. `MapsAgree` and `OnlyHostsWait`, for any endpoints, services
  and messages: an invariant of the pair of maps, followed through
  `find_or_create_entry`, the match and the two calls of `forget`. For the server with its
  clients, the reflector and the network (assumes `ClientAssumption`: clients have different
  external endpoints, and no packet comes from port 0): `RightPeer` (an endpoint that a
  client is told is the way to another client that asked for the same service) and
  `HandlerOnce` (its handler is called once). A match is computed from two entries that
  were made from two fetches, of which each may be old, lost or repeated; so `RInv` says of
  every fetch and entry whose it is, with that client's own endpoint and port and
  something that it has asked for, and of every reply that it names the way to a right peer
  of whom it is sent to. For the second theorem it says that a client that has a
  handler receives, and has been told and has posted nothing.
* **`SearchProofs`**. `SearchFinds`, for any finite graph of connections and any order of the neighbors that the
  sort may give (assumes `SearchAssumption`: a hub searches for another one): the search comes
  back with an address exactly if a chain of connections leads to the target, and the address is
  one of such a chain's. `AddressFound` speaks of the end of the search. `SearchInv` speaks of every call:
  the calls in progress go along a chain of connections, each with the most public address of
  its part (`Stack`); what a visited node is connected to is visited or is still to come in a loop
  that goes on (`Seen`); each result belongs to a whole chain (`Results`). So when the
  first call returns without a result, an induction along any path shows that its nodes are
  all visited, up to the one before the target (`PathVisited`), which would have given a result.
  A chain of different nodes is no longer than their number (`PathFound`), which is why the
  paths of `AddressFound` may be bounded by it.

Only model-checked:

* all liveness, and `Converged`, whose premise is that no step can happen any more
  (fairness and `ENABLED` are out of the provers' reach);
* the safety of the socket: its handlers are long, and their induction is over the contents of
  buffers, queues and wires at once. What they rely on is proved of its parts: `AckSet`,
  `PartInfo`, the cyclic queue and the alarm;
* `ConfigAgreement` and `VirtualSynchrony` of the hub: they rest on quorums of acks that are
  collected over many steps, and `hub_divided` shows that agreement fails for other instances,
  so there is no theorem without the bounds of the run;
* `RoundTrip`: the operators it is about are `RECURSIVE`, and what they compute for every
  input is shown by induction over data, which the provers do not do.

## Findings

* `hub_stale_message`: a hub that was alone has committed its own messages; a hub with a
  lower clock fuses with it and sends; `add_log_entry` runs into `ASSERT(0)`.
* `hub_fuse_again`: two hubs that lost their connection and fuse again run into
  `ASSERT(from.peers.count(to) == 0)`, since nothing erases a peer.
* `hub_unreceived`: an ack names as its predecessor a fuse that the sender never gets; the
  sender's log is blocked at its own message.
* `hub_divided`: the bottom of the duplicate filter is a timestamp without a poster; a fuse
  message with the same timestamp as one that is committed is dropped as seen.
* `socket_abort`: an owner closes a socket whose receive has just completed; its receive
  handlers are never called.
* `rendezvous_destroyed`: a client that is destroyed when its receive has just completed
  calls its handler with success and no endpoint.

`PROJECT.json` quotes the lines these contradict.

## Not modelled

* Hub: port offers, which are encoded but sent only by code that is commented out; the check
  of `NET_PROTOCOL_VERSION` between two hubs; the `ASSERT(0)` of `on_recv_raw` for messages
  that cannot be parsed; the wrap of the 32-bit clock, which needs 2^32 messages;
  the order of the two callbacks of `reliable_exchange`; the growth of `_configs` and
  of pending acks, which nothing bounds.
* Socket: packets of unknown senders and ones that cannot be parsed, which are dropped; the
  arithmetic of round trip times and of the window in `quality_of_service.h` (a choice);
  the exchange of hole punching when a socket connects (a module of its own); the send
  handlers that `handle_error` does not call, as its TODO says; a second `flush` while one is
  pending, which is a precondition of the caller.
* Rendezvous: errors of the server's own sockets, `main` and its options.
* STUN: the format of its packets (five kinds are told apart), sends and resends after the
  destructor. `GetExternalPort` is used only by code that is commented out in `hub.cpp`.
* Serializers that no message uses, output and debugging, generic wrappers, demos and tests:
  no state of the protocols.
