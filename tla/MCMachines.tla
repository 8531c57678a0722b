------------------------------ MODULE MCMachines ------------------------------
(***************************************************************************)
(* The smaller parts of the system, one instance of each: an initial state *)
(* chooses one of them, and only that one moves.                           *)
(***************************************************************************)
EXTENDS AckSetObject, PartInfoObject, CyclicQueueObject, Alarm, PunchHole, GraphObject,
        UnreliableBroadcast, GetExternalPort, MessageCodec, AddressSearch

VARIABLE machine

Machines == {"ack_set", "part_info", "cyclic_queue", "alarm", "punch_hole", "graph", "flood",
             "stun", "port", "codec", "address"}

vars == <<machine, ackSetVars, partVars, queueVars, alarmVars, punchVars, graphVars, floodVars,
          stunVars, portVars, codecVars, searchVars>>
-------------------------------------------------------------------------------
(* The endpoints that a puncher hears of: an address and a port. *)
RemoteEndpoint == <<1, 1>>
PacketSources == {<<1, 1>>, <<1, 2>>, <<2, 1>>}

(* Networks for the broadcast: without and with an odd cycle, a line that becomes *)
(* another one, the source leaving, and a hub that is alone.                      *)
Network(links_) == [h \in UNION links_ |-> UNION {l \in links_ : h \in l} \ {h}]
Square == Network({{1, 2}, {2, 3}, {3, 4}, {1, 4}})
Kite == Network({{1, 2}, {2, 3}, {1, 3}, {3, 4}})
Line == Network({{1, 2}, {2, 3}, {3, 4}})
Alone == [h \in {1} |-> {}]

Plan(source, old, new, wired, lost) ==
  [source |-> source, old |-> old, new |-> new, wired |-> wired, lost |-> lost]
FloodPlans ==
  {Plan(s, Square, Square, Square, 0) : s \in 1..4} \cup
  {Plan(s, Kite, Kite, Kite, 1) : s \in 1..4} \cup
  {LET other == Network({{1, 3}, {2, 3}}) IN Plan(1, Network({{1, 2}, {2, 3}}), other, other, 1),
   Plan(1, Line, Network({{2, 3}, {3, 4}}), Line, 0),
   Plan(1, Alone, Alone, Alone, 0)}

(* Messages: headers with one, two (the limit) and three nodes, data below and *)
(* above the limit, numbers that need every byte.                              *)
UuidA == <<0, 1>>
UuidB == <<1, 0>>
UuidC == <<1, 7>>
Headers ==
  {<<UuidA, 3, <<0, UuidA>>, <<UuidA>>>>,
   <<UuidB, 500, <<65, UuidB>>, <<UuidA, UuidB>>>>,
   <<UuidB, 4095, <<2, UuidB>>, <<UuidA, UuidB, UuidC>>>>}
AckDatas ==
  {<<<<1, UuidA>>, <<0, UuidB>>, <<>>>>,
   <<<<2, UuidB>>, <<2, UuidA>>, <<UuidA, UuidC>>>>}
Messages ==
  UNION {{[type |-> "fuse", value |-> <<h, a, UuidC>>],
          [type |-> "port_offer", value |-> <<h, UuidC, 63, 8>>],
          [type |-> "user_data", value |-> <<h, a, <<5, 0, 1>>>>],
          [type |-> "user_data", value |-> <<h, a, <<1, 2, 3, 4>>>>],
          [type |-> "ack", value |-> <<h, a>>]} : h \in Headers, a \in AckDatas}

(* Who is connected to whom: a chain with a way back, no way, and two ways. *)
SearchTopologies ==
  {{<<1, 2>>, <<2, 3>>, <<3, 2>>, <<3, 4>>},
   {<<1, 2>>, <<1, 3>>, <<2, 1>>, <<3, 1>>},
   {<<1, 2>>, <<1, 3>>, <<2, 4>>, <<3, 4>>}}
-------------------------------------------------------------------------------
Init ==
  /\ machine \in Machines
  /\ AckSetInit /\ PartInit /\ QueueInit /\ AlarmInit /\ PunchInit /\ GraphInit
  /\ StunInit /\ PortInit /\ CodecInit
  /\ FloodInit /\ (machine # "flood" => scenario = Plan(1, Alone, Alone, Alone, 0))
  /\ IF machine = "address" THEN SearchInit
     ELSE addresses = <<>> /\ frames = <<>> /\ visited = {} /\ results = {} /\ found = <<>>

\* Nothing but this machine moves.
Only(m) ==
  /\ machine = m /\ UNCHANGED machine
  /\ m # "ack_set" => UNCHANGED ackSetVars
  /\ m # "part_info" => UNCHANGED partVars
  /\ m # "cyclic_queue" => UNCHANGED queueVars
  /\ m # "alarm" => UNCHANGED alarmVars
  /\ m # "punch_hole" => UNCHANGED punchVars
  /\ m # "graph" => UNCHANGED graphVars
  /\ m # "flood" => UNCHANGED floodVars
  /\ m \notin {"stun", "port"} => UNCHANGED stunVars
  /\ m # "port" => UNCHANGED portVars
  /\ m # "codec" => UNCHANGED codecVars
  /\ m # "address" => UNCHANGED searchVars

Next ==
  \/ Only("ack_set") /\ AckSetNext
  \/ Only("part_info") /\ PartNext
  \/ Only("cyclic_queue") /\ QueueNext
  \/ Only("alarm") /\ AlarmNext
  \/ Only("punch_hole") /\ PunchNext
  \/ Only("graph") /\ GraphNext
  \/ Only("flood") /\ FloodNext
  \/ Only("stun") /\ StunNext
  \/ Only("port") /\ PortNext
  \/ Only("codec") /\ CodecNext
  \/ Only("address") /\ SearchNext

\* Time passes, the event loop runs every handler that is queued, and a server
\* answers a request that is sent again and again (but not when a timeout must help).
\* Steps that disable themselves are fair when they are, again and again, not enabled.
Fairness ==
  /\ []<>(left = 0 /\ \A d \in due : d = 0)
  /\ []<>~(wait = "pending" /\ left = 0)
  /\ []<>(wait \notin {"expired", "aborted"})
  /\ []<>(recv.op # "queued")
  /\ []<>(send.op # "send")
  /\ []<>(send.op \notin {"wait", "timeout"})
  /\ []<>(committed = DOMAIN scenario.new \/ scenario.old = scenario.new)
  /\ []<>(\A n \in counter : n = abandoned)
  /\ \/ []<>Quiet
     \/ []<><<\E c \in Connections : node_received_unreliable_broadcast(c)>>_floodVars
  /\ StunFairness
  /\ PortFairness
  /\ \A s \in Servers : []<>(machine = "stun" => Attended(s))

Spec == Init /\ [][Next]_vars /\ Fairness
===============================================================================
