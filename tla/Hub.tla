--------------------------------- MODULE Hub ---------------------------------
(***************************************************************************)
(* A network of hubs (src/club/hub.cpp): total order broadcast and         *)
(* membership.  A hub is single threaded; every handler below runs to its  *)
(* end before the next one of the same hub, except that the commit loop    *)
(* calls back into the application, which may call the hub again.          *)
(*                                                                         *)
(* hub[n] is the object:                                                   *)
(*   ts       _time_stamp                                                  *)
(*   log      _log                                                         *)
(*   configs  _configs, a function from message ids to sets of uuids       *)
(*   seen     _seen                                                        *)
(*   nodes    _nodes: the connect_state and the socket of every Node, with *)
(*            the state "absent" for an uuid that is not in the map        *)
(*   peers    the keys of this_node().peers                                *)
(*   posted   calls of the commit loop posted by total_order_broadcast     *)
(*   loop     the local variables of the running commit loop               *)
(*   status   "alive", "destroyed", or the ASSERT that aborted it          *)
(*                                                                         *)
(* Sockets are the reliable, ordered connections the transport provides    *)
(* (include/club/socket.h); Ends gives the two hubs each of them joins.    *)
(* wire[k][n] are the messages on socket k on their way to n.              *)
(***************************************************************************)
EXTENDS Integers, Sequences, SeenMessages, Log

CONSTANTS
  MaxUuid,     \* uuids are the numbers from 1 to MaxUuid
  Nodes,       \* the uuids of the hubs
  Sockets,     \* socket names: positive numbers
  Ends,        \* [Sockets -> SUBSET Nodes], two hubs for each socket
  Destroyable, \* hubs whose owner may destroy them
  OneByOne,    \* bound: the handlers of two hubs do not overlap, and the
               \* owners fuse only when the network has settled
  MaxSends,    \* bound: total_order_broadcast calls of each hub
  MaxBreaks    \* bound: socket errors that no peer caused

ASSUME HubAssumption ==
  /\ MaxUuid \in Nat
  /\ Nodes \subseteq 1..MaxUuid
  /\ Sockets \subseteq Nat \ {0}
  /\ Ends \in [Sockets -> SUBSET Nodes]
  /\ \A k \in Sockets : \E n, u \in Nodes : n # u /\ Ends[k] = {n, u}
  /\ OneByOne \in BOOLEAN
  /\ MaxSends \in [Nodes -> Nat]

VARIABLES
  hub,
  socket,   \* socket[k][n]: "unused", "exchange", "up" or "closed" for n
  wire,
  history,  \* history[n]: what n reported to its application, in that order
  sent,     \* sent[n]: ids in the order n broadcast them
  breaks    \* socket errors so far that no peer caused

vars == <<hub, socket, wire, history, sent, breaks>>
-------------------------------------------------------------------------------
Absent == [state |-> "absent", sock |-> 0]
NotConnected == [state |-> "not_connected", sock |-> 0]
Disconnected == [state |-> "disconnected", sock |-> 0]
ConnectedBy(k) == [state |-> "connected", sock |-> k]

NoLoop == [at |-> "idle", lcf |-> NilId, live |-> {}, more |-> 0]

\* hub::hub
NewHub(n) ==
  [ts      |-> 0,
   log     |-> EmptyLog,
   configs |-> [id \in {<<0, n>>} |-> {n}],
   seen    |-> [u \in Nodes |-> Unknown],
   nodes   |-> [u \in Nodes |-> IF u = n THEN NotConnected ELSE Absent],
   peers   |-> {},
   posted  |-> 0,
   loop    |-> NoLoop,
   status  |-> "alive"]

\* A failed ASSERT aborts.
Abort(h, assertion) == [h EXCEPT !.status = assertion]
Alive(h) == h.status = "alive"

Connected(h) == {u \in Nodes : h.nodes[u].state = "connected"}

\* hub::neighbors
neighbors(n, h) == {n} \cup Connected(h)

\* _configs.rbegin()->first
LatestConfig(h) == Greatest(DOMAIN h.configs)

AckData(n, h, id) ==
  [op |-> n, acked |-> id, prev |-> get_predecessor_time(h.log, id),
   neighbors |-> neighbors(n, h)]

\* Mutant: the clock is not advanced.
MessageNoTick(n, h, type, acked) ==
  [type |-> type, op |-> n, ts |-> h.ts, config |-> LatestConfig(h), visited |-> {n},
   ack |-> AckData(n, h, <<h.ts, n>>)]

\* The Header and the AckData of a message (hub::construct).
Message(n, h, type, acked) ==
  [type    |-> type,
   op      |-> n,
   ts      |-> h.ts + 1,
   config  |-> LatestConfig(h),
   visited |-> {n},
   ack     |-> AckData(n, h, acked)]

\* hub::construct_ackable: the message acks itself for its poster.
construct_ackable(n, h, type) == Message(n, h, type, <<h.ts + 1, n>>)

message_id(m) == <<m.ts, m.op>>

\* Mutant: the nodes a message has visited are not skipped.
BroadcastToAll(w, n, h, msg) ==
  [k \in Sockets |-> [u \in Nodes |->
     IF u # n /\ h.nodes[u] = ConnectedBy(k) /\ socket[k][u] # "closed"
       THEN Append(w[k][u], msg) ELSE w[k][u]]]

\* hub::broadcast: to every connected node the message has not visited.  What
\* is sent to a closed end is lost.
broadcast(w, n, h, msg) ==
  [k \in Sockets |-> [u \in Nodes |->
     IF /\ u # n
        /\ h.nodes[u] = ConnectedBy(k)
        /\ u \notin msg.visited
        /\ socket[k][u] # "closed"
       THEN Append(w[k][u], msg)
       ELSE w[k][u]]]

\* hub::add_log_entry.  A user message may not be older than the last commit.
add_log_entry(h, m) ==
  IF NotAfter(message_id(m), h.log.last_committed) /\ m.type # "fuse"
    THEN Abort(h, "add_log_entry")
    ELSE [h EXCEPT !.log = insert_entry(@, m.type, m.config, m.ack)]

\* The state after constructing an ackable message, and after adding it.
Posted(h, m) == add_log_entry([h EXCEPT !.ts = m.ts], m)
-------------------------------------------------------------------------------
(* The commit loop.                                                        *)

\* Mutant: the exemption for messages of unknown configurations is missing.
StrictPredecessors(h, id) ==
  LET e == h.log.entries[id] IN
  e.preds = {} \/ Greatest(e.preds) = h.log.last_committed

\* The entry is a fuse concurrent with the one that will be committed.
Erased(h, id) ==
  /\ h.log.entries[id].type = "fuse"
  /\ h.loop.lcf # NilId
  /\ Before(id, h.loop.lcf)
  /\ ~acked_by_quorum_of(h.log.entries[id], h.loop.live)

\* The last message any acker had before this one is the last one committed,
\* or was overtaken by a committed fuse.  Messages of a configuration this hub
\* does not know are exempt.
PredecessorsDone(h, id) ==
  LET e == h.log.entries[id] IN
  \/ e.preds = {}
  \/ e.config \notin DOMAIN h.configs
  \/ Greatest(e.preds) = h.log.last_committed
  \/ NotAfter(Greatest(e.preds), h.log.last_fuse_commit)

Committable(h, id) ==
  LET e == h.log.entries[id] IN
  /\ \/ e.type = "fuse" /\ h.loop.lcf # NilId /\ id = h.loop.lcf
     \/ /\ e.type = "fuse" => h.loop.lcf # NilId /\ Before(id, h.loop.lcf)
        /\ acked_by_quorum_of(e, h.loop.live)
  /\ PredecessorsDone(h, id)

\* The loop has an iteration left that does not break.
Continues(h) ==
  \E id \in Ids(h.log) :
    IsFirst(id, Ids(h.log)) /\ (Erased(h, id) \/ Committable(h, id))

\* The local variables of a run of the loop, computed before it starts.
Enter(h, more) ==
  LET fuses == {id \in FuseIds(h.log) : acked_by_quorum(h.log.entries[id])}
      lcf   == IF fuses = {} THEN NilId ELSE Greatest(fuses)
  IN  [h EXCEPT !.loop =
         [at   |-> h.loop.at,
          lcf  |-> lcf,
          live |-> IF fuses = {} THEN h.configs[LatestConfig(h)]
                                 ELSE h.log.entries[lcf].quorum,
          more |-> more]]

\* Between two iterations.  When none is left the loop ends, or the caller
\* runs it once more.
Settle(h) ==
  IF Continues(h) THEN h
  ELSE IF h.loop.more > 0 /\ Continues(Enter(h, 0)) THEN Enter(h, 0)
  ELSE [h EXCEPT !.loop = NoLoop]

\* The application was called back, or not, before the loop goes on.  Until the
\* next iteration it may call the hub: what it does there leaves the local
\* variables of the loop, and of a second run, as they are.
CalledBack(h) == Settle([h EXCEPT !.loop.at = "callback"])
NotCalledBack(h) == Settle([h EXCEPT !.loop.at = "loop"])

\* hub::commit_what_was_seen_by_everyone up to its first iteration, called
\* once or, with more = 1, twice in a row.
Commit(h, more) == IF Alive(h) THEN NotCalledBack(Enter(h, more)) ELSE h
-------------------------------------------------------------------------------
(* Handlers.                                                               *)

\* A handler of n ends with hub object h, sockets s and wires w.  A socket that
\* no Node holds any more is closed by ~Node, and all of them by the end of n.
Install(n, h, s, w) ==
  LET lost(k) == \/ s[k][n] = "up" /\ \A u \in Nodes : h.nodes[u].sock # k
                 \/ s[k][n] # "unused" /\ ~Alive(h)
  IN  /\ hub' = [hub EXCEPT ![n] = h]
      /\ socket' = [k \in Sockets |->
                      IF lost(k) THEN [s[k] EXCEPT ![n] = "closed"] ELSE s[k]]
      /\ wire' = [k \in Sockets |->
                    IF lost(k) THEN [w[k] EXCEPT ![n] = <<>>] ELSE w[k]]

\* The hub can run a handler: no other one is on its stack.
Idle(n) ==
  /\ Alive(hub[n])
  /\ hub[n].loop.at = "idle"
  /\ OneByOne => \A u \in Nodes : hub[u].loop.at = "idle"

\* Nothing is in flight and no handler is left to run, except the ones the
\* applications or the network start.
Quiescent ==
  /\ \A n \in Nodes : Alive(hub[n]) => hub[n].loop.at = "idle" /\ hub[n].posted = 0
  /\ \A k \in Sockets : \A n \in Ends[k] :
       /\ wire[k][n] = <<>>
       /\ socket[k][n] # "exchange"
       /\ socket[k][n] = "up" => \A u \in Ends[k] : socket[k][u] # "closed"

\* The two owners call hub::fuse with the ends of a connected socket, and
\* reliable_exchange sends both uuids.
Fuse(k) ==
  /\ OneByOne => Quiescent
  /\ \A n \in Ends[k] : socket[k][n] = "unused" /\ Alive(hub[n])
  /\ socket' = [socket EXCEPT ![k] = [n \in Nodes |->
                  IF n \in Ends[k] THEN "exchange" ELSE @[n]]]
  /\ wire' = [wire EXCEPT ![k] = [n \in Nodes |->
                IF n \in Ends[k]
                  THEN <<[type |-> "hello", op |-> CHOOSE u \in Ends[k] : u # n]>>
                  ELSE @[n]]]
  /\ UNCHANGED <<hub, history, sent, breaks>>

\* The completion handler of the exchange: the body of hub::fuse.  on_fused is
\* called back before the commit loop.
Exchanged(k, n) ==
  LET his == Head(wire[k][n]).op
      h1  == [hub[n] EXCEPT !.nodes[his] = ConnectedBy(k)]
      msg == construct_ackable(n, h1, "fuse")
      h2  == Posted(h1, msg)
      h3  == IF his \in h2.peers THEN Abort(h2, "add_connection")
             ELSE [h2 EXCEPT !.peers = @ \cup {his}]
      w   == [wire EXCEPT ![k][n] = Tail(@)]
      s   == [socket EXCEPT ![k][n] = "up"]
  IN  /\ Idle(n)
      /\ socket[k][n] = "exchange"
      /\ wire[k][n] # <<>>
      /\ IF hub[n].nodes[his].sock # 0
           THEN Install(n, Abort(hub[n], "assign_socket"), s, w)
           ELSE Install(n, IF Alive(h3) THEN CalledBack(Enter(h3, 0)) ELSE h3, s,
                        broadcast(w, n, h1, msg))
      /\ UNCHANGED <<history, sent, breaks>>

\* The exchange fails: the socket is closed and the hub is not involved.
ExchangeFailed(k, n) ==
  /\ Idle(n)
  /\ socket[k][n] = "exchange"
  /\ \/ \E u \in Ends[k] \ {n} : socket[k][u] = "closed" /\ breaks' = breaks
     \/ breaks < MaxBreaks /\ breaks' = breaks + 1
  /\ socket' = [socket EXCEPT ![k][n] = "closed"]
  /\ wire' = [wire EXCEPT ![k][n] = <<>>]
  /\ UNCHANGED <<hub, history, sent>>

\* Mutant: the commit is not posted.
BroadcastOnly(n) ==
  LET msg == construct_ackable(n, hub[n], "user_data") IN
  /\ Alive(hub[n])
  /\ hub[n].loop.at # "loop"
  /\ Len(sent[n]) < MaxSends[n]
  /\ Install(n, Posted(hub[n], msg), socket, broadcast(wire, n, hub[n], msg))
  /\ sent' = [sent EXCEPT ![n] = Append(@, message_id(msg))]
  /\ UNCHANGED <<history, breaks>>

\* hub::total_order_broadcast, called by the application from its own code or
\* from a callback of the commit loop.
total_order_broadcast(n) ==
  LET msg == construct_ackable(n, hub[n], "user_data")
      h   == Posted(hub[n], msg)
  IN  /\ Alive(hub[n])
      /\ hub[n].loop.at # "loop"
      /\ Len(sent[n]) < MaxSends[n]
      /\ Install(n, [h EXCEPT !.posted = @ + 1], socket, broadcast(wire, n, hub[n], msg))
      /\ sent' = [sent EXCEPT ![n] = Append(@, message_id(msg))]
      /\ UNCHANGED <<history, breaks>>

\* The commit that total_order_broadcast posted.
RunPosted(n) ==
  /\ Idle(n)
  /\ hub[n].posted > 0
  /\ Install(n, Commit([hub[n] EXCEPT !.posted = @ - 1], 0), socket, wire)
  /\ UNCHANGED <<history, sent, breaks>>

\* Node::on_socket_error and hub::on_peer_disconnected.  The error is the
\* consequence of the other end having closed, or of the network.
PeerDisconnected(k, n) ==
  LET h1  == [hub[n] EXCEPT !.nodes = [u \in Nodes |->
                IF @[u] = ConnectedBy(k) THEN Disconnected ELSE @[u]]]
      msg == construct_ackable(n, h1, "fuse")
  IN  /\ Idle(n)
      /\ socket[k][n] = "up"
      /\ \/ \E u \in Ends[k] \ {n} : socket[k][u] = "closed" /\ breaks' = breaks
         \/ breaks < MaxBreaks /\ breaks' = breaks + 1
      /\ Install(n, Commit(Posted(h1, msg), 0), socket, broadcast(wire, n, h1, msg))
      /\ UNCHANGED <<history, sent>>

\* The owner destroys the hub, from its own code or from a callback.
Destroy(n) ==
  /\ n \in Destroyable
  /\ Alive(hub[n])
  /\ hub[n].loop.at # "loop"
  /\ Install(n, [hub[n] EXCEPT !.status = "destroyed", !.loop = NoLoop], socket, wire)
  /\ UNCHANGED <<history, sent, breaks>>

\* hub::construct_ack and the broadcast of the ack.  Its poster applies it to
\* its own log.
Acked(n, h, id) ==
  [h EXCEPT !.ts = @ + 1, !.log = apply_ack(@, AckData(n, h, id))]
BroadcastAck(w, n, h, id) == broadcast(w, n, h, Message(n, h, "ack", id))

\* Mutant: the clock does not follow the messages received.
NoticedNoClock(h, m) ==
  [h EXCEPT !.seen = insert(@, message_id(m)),
            !.nodes[m.op] = IF @ = Absent THEN NotConnected ELSE @]

\* hub::on_recv before process: the filter, the clock and the Node.
Noticed(h, m) ==
  [h EXCEPT !.seen = insert(@, message_id(m)),
            !.ts = IF m.ts > @ THEN m.ts ELSE @,
            !.nodes[m.op] = IF @ = Absent THEN NotConnected ELSE @]

\* hub::process(Ack), (UserData) and (Fuse), each with the commit that follows
\* in on_recv.  A fuse is acked unless a higher one is in the log.
ProcessAck(n, h, w, m) ==
  Install(n, Commit([h EXCEPT !.log = apply_ack(@, m.ack)], 0), socket, w)

ProcessUserData(n, h, w, m) ==
  Install(n, Commit(add_log_entry(Acked(n, h, message_id(m)), m), 0), socket,
          BroadcastAck(w, n, h, message_id(m)))

ProcessFuse(n, h, w, m) ==
  LET h1 == add_log_entry(h, m) IN
  IF NotAfter(find_highest_fuse_entry(h1.log), message_id(m))
    THEN Install(n, Commit(Acked(n, h1, message_id(m)), 1), socket,
                 BroadcastAck(w, n, h1, message_id(m)))
    ELSE Install(n, Commit(h1, 0), socket, w)

\* Node's receive loop and hub::on_recv: a message seen before is dropped,
\* any other one is relayed and processed.
on_recv(k, n) ==
  LET m == [Head(wire[k][n]) EXCEPT !.visited = @ \cup {n}]
      w == [wire EXCEPT ![k][n] = Tail(@)]
      h == Noticed(hub[n], m)
  IN  /\ Idle(n)
      /\ socket[k][n] = "up"
      /\ wire[k][n] # <<>>
      /\ \/ /\ is_in(hub[n].seen, message_id(m))
            /\ Install(n, hub[n], socket, w)
         \/ /\ ~is_in(hub[n].seen, message_id(m))
            /\ \/ m.type = "ack" /\ ProcessAck(n, h, broadcast(w, n, h, m), m)
               \/ m.type = "user_data" /\ ProcessUserData(n, h, broadcast(w, n, h, m), m)
               \/ m.type = "fuse" /\ ProcessFuse(n, h, broadcast(w, n, h, m), m)
      /\ UNCHANGED <<history, sent, breaks>>
-------------------------------------------------------------------------------
(* One iteration of the commit loop.                                       *)

\* What the application is told: a message, or a change of the members.
Report(type, id) == [type |-> type, id |-> id]

\* Mutant: last_committable_fuse is not reset when its entry is committed.
RemovedDangling(h, id) ==
  [h EXCEPT !.log  = Committed(@, id),
            !.seen = seen_everything_up_to(@, id)]

\* The part of an iteration that every committed entry goes through.
Removed(h, id) ==
  [h EXCEPT !.log  = Committed(@, id),
            !.seen = seen_everything_up_to(@, id),
            !.loop.lcf = IF @ = id THEN NilId ELSE @]

\* hub::on_commit_fuse: the new configuration, and the nodes it does without.
NewConfig(h, id, quorum) ==
  LET gone == h.configs[LatestConfig(h)] \ quorum IN
  [h EXCEPT
     !.configs = [c \in DOMAIN @ \cup {id} |-> IF c \in DOMAIN @ THEN @[c] ELSE quorum],
     !.seen    = forget_messages_from(@, gone),
     !.nodes   = [u \in Nodes |-> IF u \in gone THEN Absent ELSE @[u]]]

\* on_insert or on_remove is called.
MembersChange(h, quorum) == h.configs[LatestConfig(h)] # quorum

EraseEntry(n, id) ==
  /\ Erased(hub[n], id)
  /\ Install(n, NotCalledBack([hub[n] EXCEPT !.log = Without(@, id)]), socket, wire)
  /\ UNCHANGED history

\* Mutant: what a disconnected node has sent is not reported any more.
CommitUserDataConnected(n, id) ==
  /\ hub[n].log.entries[id].type = "user_data"
  /\ Committable(hub[n], id)
  /\ IF hub[n].nodes[PosterOf(id)] \notin {Absent, Disconnected}
       THEN /\ Install(n, CalledBack(Removed(hub[n], id)), socket, wire)
            /\ history' = [history EXCEPT ![n] = Append(@, Report("user_data", id))]
       ELSE /\ Install(n, NotCalledBack(Removed(hub[n], id)), socket, wire)
            /\ UNCHANGED history

CommitUserData(n, id) ==
  /\ hub[n].log.entries[id].type = "user_data"
  /\ Committable(hub[n], id)
  /\ IF hub[n].nodes[PosterOf(id)] # Absent
       THEN /\ Install(n, CalledBack(Removed(hub[n], id)), socket, wire)
            /\ history' = [history EXCEPT ![n] = Append(@, Report("user_data", id))]
       ELSE /\ Install(n, NotCalledBack(Removed(hub[n], id)), socket, wire)
            /\ UNCHANGED history

CommitFuse(n, id) ==
  LET e == hub[n].log.entries[id]
      h == Removed(hub[n], id)
  IN  /\ e.type = "fuse"
      /\ ~Erased(hub[n], id)
      /\ Committable(hub[n], id)
      /\ \/ /\ ~acked_by_quorum(e)
            /\ Install(n, NotCalledBack(h), socket, wire)
            /\ UNCHANGED history
         \/ /\ acked_by_quorum(e) /\ ~MembersChange(h, e.quorum)
            /\ Install(n, NotCalledBack(NewConfig(h, id, e.quorum)), socket, wire)
            /\ UNCHANGED history
         \/ /\ acked_by_quorum(e) /\ MembersChange(h, e.quorum)
            /\ Install(n, CalledBack(NewConfig(h, id, e.quorum)), socket, wire)
            /\ history' = [history EXCEPT ![n] = Append(@, Report("fuse", id))]

\* Mutant: the loop does not follow the order of the log.
CommitAny(n) ==
  /\ hub[n].loop.at # "idle"
  /\ \E id \in Ids(hub[n].log) :
       EraseEntry(n, id) \/ CommitUserData(n, id) \/ CommitFuse(n, id)
  /\ UNCHANGED <<sent, breaks>>

CommitNext(n) ==
  /\ hub[n].loop.at # "idle"
  /\ \E id \in Ids(hub[n].log) :
       /\ IsFirst(id, Ids(hub[n].log))
       /\ EraseEntry(n, id) \/ CommitUserData(n, id) \/ CommitFuse(n, id)
  /\ UNCHANGED <<sent, breaks>>
-------------------------------------------------------------------------------
Init ==
  /\ hub = [n \in Nodes |-> NewHub(n)]
  /\ socket = [k \in Sockets |-> [n \in Nodes |-> "unused"]]
  /\ wire = [k \in Sockets |-> [n \in Nodes |-> <<>>]]
  /\ history = [n \in Nodes |-> <<>>]
  /\ sent = [n \in Nodes |-> <<>>]
  /\ breaks = 0

\* Nothing is left to do.
Idling == Quiescent /\ UNCHANGED vars

Next ==
  \/ Idling
  \/ \E k \in Sockets : Fuse(k)
  \/ \E k \in Sockets : \E n \in Ends[k] :
       \/ Exchanged(k, n) \/ ExchangeFailed(k, n)
       \/ on_recv(k, n) \/ PeerDisconnected(k, n)
  \/ \E n \in Nodes :
       \/ total_order_broadcast(n) \/ RunPosted(n) \/ CommitNext(n) \/ Destroy(n)

Spec == Init /\ [][Next]_vars
\* Weak fairness of Next: as long as a handler can run, some event loop runs one.
\* Nothing is assumed of the applications and of the network.  (ENABLED Next is
\* written out: a network that is not quiescent never deadlocks.)
Fairness == []<>Quiescent \/ []<><<TRUE>>_vars

FairSpec == Spec /\ Fairness
-------------------------------------------------------------------------------
(* Types.                                                                  *)

\* Identifiers of messages: a hub posts them with a clock it advanced first.
PostedIds == (Nat \ {0}) \X Nodes
Acks == [op : Nodes, acked : PostedIds, prev : MessageIds, neighbors : SUBSET Nodes]
Entries == [type : {"fuse", "user_data"}, config : Nat \X Nodes,
            quorum : SUBSET Nodes, acks : SUBSET Nodes, preds : SUBSET MessageIds]
Messages == [type : {"fuse", "user_data", "ack"}, op : Nodes, ts : Nat \ {0},
             config : Nat \X Nodes, visited : SUBSET Nodes, ack : Acks]
Hellos == [type : {"hello"}, op : Nodes]
Seens == [bottom : Nat \cup {None, NoKey}, stamps : SUBSET Nat]
NodeStates == [state : {"absent", "not_connected", "disconnected", "connected"},
               sock : Sockets \cup {0}]
Loops == [at : {"idle", "loop", "callback"}, lcf : MessageIds, live : SUBSET Nodes,
          more : {0, 1}]
Statuses == {"alive", "destroyed", "add_log_entry", "add_connection", "assign_socket"}

LogOK(log) ==
  /\ Ids(log) \subseteq PostedIds
  /\ \A id \in Ids(log) : log.entries[id] \in Entries
  /\ log.last_committed \in MessageIds
  /\ log.last_fuse_commit \in MessageIds
  /\ log.pending_acks \subseteq Acks

HubOK(h) ==
  /\ h.ts \in Nat
  /\ LogOK(h.log)
  /\ DOMAIN h.configs \subseteq Nat \X Nodes
  /\ \A c \in DOMAIN h.configs : h.configs[c] \subseteq Nodes
  /\ h.seen \in [Nodes -> Seens]
  /\ h.nodes \in [Nodes -> NodeStates]
  /\ h.peers \subseteq Nodes
  /\ h.posted \in Nat
  /\ h.loop \in Loops
  /\ h.loop.lcf \in Ids(h.log) \cup {NilId}
  /\ h.status \in Statuses

\* The type invariant: the state of every hub, socket and message has the type
\* of the object it stands for.  The pointer last_committable_fuse, which the commit
\* loop keeps while it erases entries and while the application is called back, is
\* null or points to an entry that is still in the log.
TypeOK ==
  /\ DOMAIN hub = Nodes /\ \A n \in Nodes : HubOK(hub[n])
  /\ socket \in [Sockets -> [Nodes -> {"unused", "exchange", "up", "closed"}]]
  /\ wire \in [Sockets -> [Nodes -> Seq(Messages \cup Hellos)]]
  /\ history \in [Nodes -> Seq([type : {"fuse", "user_data"}, id : PostedIds])]
  /\ sent \in [Nodes -> Seq(PostedIds)]
  /\ breaks \in Nat
-------------------------------------------------------------------------------
(* Properties.                                                             *)

TOB == INSTANCE TotalOrderBroadcast WITH Nodes <- Nodes, history <- history, sent <- sent

\* The network of hubs implements the broadcast that hub.h describes.
ImplementsBroadcast == TOB!Spec

\* hub.h, property 1: whatever two hubs both report (on_receive, on_insert and
\* on_remove alike) they report in the same order, and never twice.
TotalOrder == TOB!TotalOrder

\* hub.h, property 2: the messages of one sender are reported in the order of
\* its calls of total_order_broadcast.
SenderOrder == TOB!SenderOrder

\* Membership consensus (README): hubs that commit the same fuse message, each
\* from the acks it happened to receive, install the same set of members.  None
\* commits a configuration it is not in: on_commit_fuse erases the nodes that left
\* from _nodes, which holds this_node() too.
ConfigAgreement ==
  /\ \A p, q \in Nodes : \A c \in DOMAIN hub[p].configs \cap DOMAIN hub[q].configs :
       hub[p].configs[c] = hub[q].configs[c]
  /\ \A n \in Nodes : hub[n].nodes[n] # Absent

\* The identifiers of S between two others, and those a hub has reported.
Between(c, S, d) == {id \in S : Before(c, id) /\ Before(id, d)}
ReportedIds(n) == {r.id : r \in TOB!Elements(history[n])}

\* Hubs that go together from one configuration to the next one have reported
\* the same messages in between, whatever was lost with the nodes that left.
VirtualSynchrony ==
  \A p, q \in Nodes : \A c, d \in DOMAIN hub[p].configs \cap DOMAIN hub[q].configs :
    Between(c, DOMAIN hub[p].configs \cup DOMAIN hub[q].configs, d) = {}
      => Between(c, ReportedIds(p), d) = Between(c, ReportedIds(q), d)

\* The hubs n is connected to, directly or through others: every set that holds
\* n and is closed under working sockets holds them.
Component(n) ==
  {u \in Nodes : \A S \in SUBSET Nodes :
     /\ n \in S
     /\ \A k \in Sockets : (\A m \in Ends[k] : socket[k][m] = "up")
                           => (Ends[k] \subseteq S \/ Ends[k] \cap S = {})
     => u \in S}

\* When everything has arrived and run, the members a hub reports last are the
\* hubs it can reach, and nothing waits in its log.
Converged ==
  Quiescent => \A n \in Nodes : Alive(hub[n]) =>
    /\ hub[n].configs[LatestConfig(hub[n])] = Component(n)
    /\ Ids(hub[n].log) = {}

\* hub.h: "The receiver of the message is every node in the network including
\* the sender": when everything has arrived and run, a hub has reported what it
\* sent.
SenderReceives ==
  Quiescent => \A n \in Nodes : Alive(hub[n]) =>
    TOB!Elements(sent[n]) \subseteq ReportedIds(n)

\* The same as a liveness property: what a hub sends it reports in the end,
\* unless it is destroyed or a failed ASSERT aborts it (UserDataIsNew and PeerIsNew
\* are about those).
EventuallyReceives ==
  \A n \in Nodes : \A i \in 1..MaxSends[n] :
    Len(sent[n]) >= i
      ~> (~Alive(hub[n]) \/ (Len(sent[n]) >= i /\ sent[n][i] \in ReportedIds(n)))

\* on_recv and broadcast: "Peers shouldn't broadcast to us back our own messages",
\* on whatever path a message comes.
NoEcho ==
  \A k \in Sockets : \A n \in Ends[k] : \A m \in TOB!Elements(wire[k][n]) : m.op # n

\* add_log_entry: a user message is newer than the last commit ("should be >
\* than _log.last_committed").
UserDataIsNew == \A n \in Nodes : hub[n].status # "add_log_entry"

\* assign_socket and add_connection: a fused peer has neither a socket nor an
\* entry in peers.
PeerIsNew == \A n \in Nodes : hub[n].status \notin {"assign_socket", "add_connection"}
===============================================================================
