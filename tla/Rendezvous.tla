------------------------------ MODULE Rendezvous ------------------------------
(***************************************************************************)
(* Clients (include/rendezvous/client.h) and the rendezvous server with    *)
(* its reflector (src/rendezvous/reflector.h) on a network that loses,     *)
(* delays and repeats packets.  A client asks the server for the           *)
(* reflector, the reflector for the port its NAT gives it there, and then  *)
(* fetches a peer; it repeats itself until it is matched or destroyed.     *)
(***************************************************************************)
EXTENDS RendezvousServer, FiniteSets, FiniteSetsExt

CONSTANTS
  Clients,
  External,  \* the endpoint of a client that the server sees,
  Internal,  \* the one in its own network,
  Reflected, \* and the port that the reflector sees
  Scopes     \* what may happen, a record of the bounds:
             \*   wants[c]   the <<service, role>> of each object of client c,
             \*   knows[c]   what it has learnt when the run begins: 0, 1 (the
             \*              reflector) or 2 (its reflected port),
             \*   killed     the clients whose last object may be destroyed,
             \*   faults     packets lost or repeated, and dead man's switches that
             \*              expire although the client fetches on,
             \*   speaks     the version of the clients,
             \*   strays     packets from their endpoints that are no messages of a client,
             \*   packets    on the way at a time, in either direction

\* A packet has no source port 0: in a fetch that means that there is no reflected port.
ASSUME ClientAssumption ==
  /\ Endpoints \subseteq [address : Nat, port : Ports]
  /\ External \in [Clients -> Endpoints] /\ Internal \in [Clients -> InternalEps]
  /\ Reflected \in [Clients -> Ports \ {0}]
  /\ \A c, d \in Clients : c # d => External[c] # External[d]
  /\ \A sc \in Scopes : \A c \in Clients : sc.wants[c] \in Seq(Services \X Roles)
  /\ \A sc \in Scopes : sc.strays \subseteq
       [at : {"server"}, from : Clients, version : Versions, method : {"empty", "invalid"}]

VARIABLES
  scope,
  client,    \* the object of each client
  asked,     \* the <<service, role>>s each client was created with
  requests,  \* packets to the server and the reflector
  replies,   \* packets to the clients
  faults,    \* how many there were
  lost       \* the clients whose match was lost

clientVars == <<client, asked>>
vars == <<serverVars, scope, client, asked, requests, replies, faults, lost>>

NoEp == [address |-> 0, port |-> 0]
NoReply == [to |-> NoEp, version |-> 0, method |-> "none"]

\* `recv' is the receive: it is "waiting", or its handler is "queued" with a packet
\* or an error, or there is "none".  `posted' is what exec has put behind a timer,
\* `told' what the user's handler was called with.
Object(want, knows, lives) ==
  [life |-> "alive", want |-> want, knows |-> knows, handler |-> TRUE,
   recv |-> "waiting", error |-> "success", packet |-> NoReply,
   posted |-> <<>>, told |-> <<>>, lives |-> lives]

NoObject(knows) ==
  [Object(<<NoService, "guest">>, knows, 0) EXCEPT
     !.life = "none", !.handler = FALSE, !.recv = "none"]

Init ==
  /\ scope \in Scopes
  /\ ServerInit
  /\ client = [c \in Clients |-> NoObject(scope.knows[c])]
  /\ asked = [c \in Clients |-> {}]
  /\ requests = scope.strays /\ replies = {} /\ faults = 0 /\ lost = {}
-------------------------------------------------------------------------------
(* The client *)

Plain(c, at, method) ==
  [at |-> at, from |-> c, version |-> scope.speaks, method |-> method]

\* construct_fetch_message
FetchOf(c, want) ==
  [at |-> "server", from |-> c, version |-> scope.speaks, method |-> "fetch",
   service |-> want[1], role |-> want[2],
   reflected_port |-> Reflected[c], internal_ep |-> Internal[c]]

\* Mutant: the reflector is asked again and again.
RequestStuck(c, o) ==
  IF o.knows = 0 THEN Plain(c, "server", "get_reflector")
  ELSE Plain(c, "reflector", "reflect")

\* client::start_sending
Request(c, o) ==
  IF o.knows = 2 THEN FetchOf(c, o.want)
  ELSE IF o.knows = 1 THEN Plain(c, "reflector", "reflect")
  ELSE Plain(c, "server", "get_reflector")

\* The constructor, also on a socket that an earlier client used.
Create(c) ==
  LET o == client[c]
  IN  /\ o.life # "alive" /\ o.recv = "none" /\ o.posted = <<>>
      /\ o.lives < Len(scope.wants[c])
      /\ Cardinality(requests) < scope.packets
      /\ LET want == scope.wants[c][o.lives + 1]
             new  == Object(want, IF o.lives = 0 THEN o.knows ELSE 0, o.lives + 1)
         IN  /\ client' = [client EXCEPT ![c] = new]
             /\ asked' = [asked EXCEPT ![c] = @ \cup {want}]
             /\ requests' = requests \cup {Request(c, new)}
      /\ UNCHANGED <<serverVars, scope, replies, faults, lost>>

\* on_send and the handler of the resend timer: the loop goes on until the user's
\* handler was taken.
Resend(c) ==
  /\ client[c].life = "alive" /\ client[c].handler
  /\ Cardinality(requests \cup {Request(c, client[c])}) <= scope.packets
  /\ requests' = requests \cup {Request(c, client[c])}
  /\ UNCHANGED <<serverVars, scope, clientVars, replies, faults, lost>>

Arrive(c) ==
  /\ client[c].recv = "waiting"
  /\ \E p \in replies :
       /\ p.to = External[c]
       /\ client' = [client EXCEPT ![c].recv = "queued", ![c].packet = p]
       /\ \/ replies' = replies \ {p} /\ UNCHANGED faults
          \/ /\ faults < scope.faults /\ faults' = faults + 1
             /\ UNCHANGED replies
  /\ UNCHANGED <<serverVars, scope, asked, requests, lost>>

\* Mutant: the user's handler is called, but not taken.
ExecAgain(o, error, ep, is_sym) ==
  [o EXCEPT !.recv = "waiting", !.told = Append(@, [error |-> error, ep |-> ep])]

\* State::exec: the user's handler is taken, with the socket.  When the peer is behind
\* a symmetric NAT it is called after a while, otherwise as soon as possible.
exec(o, error, ep, is_sym) ==
  LET r == [error |-> error, ep |-> ep]
  IN  [o EXCEPT !.recv = "none", !.handler = FALSE,
                !.posted = IF is_sym = 1 THEN Append(@, r) ELSE @,
                !.told = IF is_sym = 1 THEN @ ELSE Append(@, r)]

\* handle_reflector_message and handle_reflected_port, and start_receiving.
Learnt(o, knows) == [o EXCEPT !.recv = "waiting", !.knows = Max({@, knows})]

\* Behind the same NAT the peer is reached by its internal endpoint.
Peer(p) == IF p.reflexive_ep.address = p.ext_ep.address THEN p.int_ep ELSE p.ext_ep

\* client::on_recv.  A packet of the reflector is not valid before the client
\* knows the reflector.
Received(o) ==
  LET p == o.packet
  IN  IF o.life = "destroyed" \/ o.error # "success" THEN exec(o, o.error, NoEp, 0)
      ELSE IF p.method = "unsupported" THEN exec(o, "no_protocol_option", NoEp, 0)
      ELSE IF p.method = "reflector" THEN Learnt(o, 1)
      ELSE IF p.method = "reflected" THEN Learnt(o, IF o.knows > 0 THEN 2 ELSE 0)
      ELSE exec(o, "success", Peer(p), p.is_sym)

on_recv(c) ==
  /\ client[c].recv = "queued"
  /\ client' = [client EXCEPT ![c] = [Received(client[c]) EXCEPT !.packet = NoReply]]
  /\ UNCHANGED <<serverVars, scope, asked, requests, replies, faults, lost>>

\* The timer of exec; it is cancelled when the client is destroyed.
CallHandler(c) ==
  /\ client[c].posted # <<>>
  /\ LET r == Head(client[c].posted)
     IN  \E error \in {r.error} \cup IF client[c].life = "destroyed" THEN {"aborted"} ELSE {} :
           client' = [client EXCEPT ![c].posted = <<>>,
                                    ![c].told = Append(@, [r EXCEPT !.error = error])]
  /\ UNCHANGED <<serverVars, scope, asked, requests, replies, faults, lost>>

\* Mutant: the receive that waits is left alone.
DestroyedOnly(o) == [o EXCEPT !.life = "destroyed"]

\* The destructor closes the socket, if it has it still.
Destroyed(o) ==
  IF o.recv = "waiting"
  THEN [o EXCEPT !.life = "destroyed", !.recv = "queued", !.error = "aborted"]
  ELSE [o EXCEPT !.life = "destroyed"]

\* construct_close_message
CloseOf(c) == Plain(c, "server", "close")

Destroy(c) ==
  /\ client[c].life = "alive"
  /\ c \in scope.killed \/ (client[c].told # <<>> /\ client[c].lives < Len(scope.wants[c]))
  /\ client' = [client EXCEPT ![c] = Destroyed(@)]
  /\ \/ /\ client[c].handler
        /\ Cardinality(requests) < scope.packets
        /\ requests' = requests \cup {CloseOf(c)}
     \/ ~client[c].handler /\ UNCHANGED requests
  /\ UNCHANGED <<serverVars, scope, asked, replies, faults, lost>>
-------------------------------------------------------------------------------
(* The server, the reflector and the network *)

\* Nobody reads the socket any more.
Deaf(c) == client[c].recv = "none" /\ client[c].lives = Len(scope.wants[c])

Taken(p) ==
  \/ requests' = requests \ {p} /\ UNCHANGED faults
  \/ faults < scope.faults /\ faults' = faults + 1 /\ UNCHANGED requests

Serve(c) ==
  /\ Len(tx_queue) < scope.packets
  /\ \E p \in requests :
       /\ p.at = "server" /\ p.from = c
       /\ on_receive(External[c], p)
       /\ Taken(p)
  /\ UNCHANGED <<scope, clientVars, replies, lost>>

\* Reflector: what is received is answered with the port it came from.
Reflect(c) ==
  /\ Cardinality(replies) < scope.packets
  /\ \E p \in requests :
       /\ p.at = "reflector" /\ p.from = c
       /\ replies' = replies \cup
            {[to |-> External[c], version |-> Version, method |-> "reflected"]}
       /\ Taken(p)
  /\ UNCHANGED <<serverVars, scope, clientVars, lost>>

Send ==
  /\ Cardinality(replies) < scope.packets
  /\ Transmit
  /\ replies' = replies \cup {p \in {Head(tx_queue)} : \E c \in Clients :
                                 p.to = External[c] /\ ~Deaf(c)}
  /\ UNCHANGED <<scope, clientVars, requests, faults, lost>>

\* Does the client fetch again before the switch of its entry expires?
Fetching(c) == client[c].life = "alive" /\ client[c].handler

Expire(c) ==
  /\ on_expire(External[c])
  /\ \/ ~Fetching(c) /\ UNCHANGED faults
     \/ Fetching(c) /\ faults < scope.faults /\ faults' = faults + 1
  /\ UNCHANGED <<scope, clientVars, requests, replies, lost>>

\* Packets to a socket that is not read any more are lost without being counted.
Lose ==
  /\ \/ \E p \in requests :
          /\ faults < scope.faults /\ faults' = faults + 1
          /\ requests' = requests \ {p}
          /\ UNCHANGED <<replies, lost>>
     \/ \E p \in replies, c \in Clients :
          /\ p.to = External[c]
          /\ \/ faults < scope.faults /\ faults' = faults + 1
                /\ lost' = IF p.method = "match" THEN lost \cup {c} ELSE lost
             \/ Deaf(c) /\ UNCHANGED <<faults, lost>>
          /\ replies' = replies \ {p}
          /\ UNCHANGED requests
  /\ UNCHANGED <<serverVars, scope, clientVars>>

Next ==
  \/ \E c \in Clients :
       \/ Create(c) \/ Resend(c) \/ Arrive(c) \/ on_recv(c) \/ CallHandler(c)
       \/ Destroy(c) \/ Expire(c) \/ Serve(c) \/ Reflect(c)
  \/ Send \/ Lose

Spec == Init /\ [][Next]_vars

\* Timers are slower than packets and handlers: again and again there are moments
\* when the event loops, the server, the reflector and the network have caught up.
\* A client that fetches sends again and again, and the switch of an entry expires
\* when nobody fetches.  That the switch runs is assumed here: an entry is made with
\* one that is started (make_dms), a fetch starts it again (find_or_create_entry), and
\* only its destruction with the entry stops it (async::alarm, modelled in Alarm).
Fairness ==
  /\ []<>~\E p \in requests : p.at = "server" /\ Len(tx_queue) < scope.packets
  /\ []<>~\E p \in requests : p.at = "reflector" /\ Cardinality(replies) < scope.packets
  /\ []<>~(tx_queue # <<>> /\ Cardinality(replies) < scope.packets)
  /\ \A c \in Clients :
       /\ []<>~\E p \in replies : p.to = External[c] /\ client[c].recv # "queued"
       /\ []<>(client[c].recv # "queued")
       /\ []<>(client[c].posted = <<>>)
       /\ []<>(Fetching(c) => Request(c, client[c]) \in requests)
       /\ WF_vars(~Fetching(c) /\ Expire(c))

FairSpec == Spec /\ Fairness
-------------------------------------------------------------------------------
\* How client c reaches client d.
Reach(c, d) ==
  IF External[c].address = External[d].address THEN Internal[d]
  ELSE [address |-> External[d].address,
        port |-> (Reflected[d] + (Reflected[d] - External[d].port)) % PortCount]

\* The endpoint a client is told is the way to another client that asked for the
\* same service, and not as a host if this one did.
MatchedRight ==
  \A c \in Clients : \A i \in DOMAIN client[c].told :
    LET r == client[c].told[i]
    IN  r.error = "success" /\ r.ep # NoEp =>
          \E d \in Clients \ {c} :
            /\ r.ep = Reach(c, d)
            /\ \E x \in asked[c], y \in asked[d] :
                 x[1] = y[1] /\ {x[2], y[2]} # {"host"}

\* The user's handler is called once, and the client does not receive after that
\* from the socket it has given away.
ToldOnce ==
  \A c \in Clients :
    LET o == client[c]
    IN  /\ Len(o.told) + Len(o.posted) <= 1
        /\ o.told # <<>> => o.recv = "none"

\* A client that is destroyed tells its user, and so does one that speaks a
\* version the server does not support.
EventuallyTold ==
  \A c \in Clients :
    (client[c].life = "destroyed" \/ (client[c].life = "alive" /\ scope.speaks # Version))
      ~> client[c].told # <<>>

Wanting(c, d) ==
  /\ {client[c].life, client[d].life} = {"alive"}
  /\ client[c].want[1] = client[d].want[1]
  /\ {client[c].want[2], client[d].want[2]} # {"host"}
  /\ scope.speaks = Version

Told(c, d) ==
  \E i \in DOMAIN client[c].told :
    client[c].told[i] = [error |-> "success", ep |-> Reach(c, d)]

Settled(c, d) ==
  \/ Told(c, d) /\ Told(d, c)
  \/ \E e \in Clients \ {c, d} : Told(c, e) \/ Told(d, e)
  \/ "destroyed" \in {client[c].life, client[d].life}
  \/ {c, d} \cap lost # {}

\* Two clients that want the same service, and are not both hosts, are told of
\* each other, unless one finds a third, is destroyed, or the network loses the
\* match, which Handler::match does not repeat.
EventuallyMatched ==
  \A pair \in kSubset(2, Clients) :
    (\A c, d \in pair : c # d => Wanting(c, d)) ~> (\E c, d \in pair : c # d /\ Settled(c, d))

\* Hosts are not matched with each other, so that when there are only hosts every
\* handler gets an error, from the destructor at the latest: test-rendezvous.cpp
\* (rendezvous_two_host_agents) has "BOOST_CHECK(er);".
HostsGetError ==
  (\A c \in Clients : \A want \in asked[c] : want[2] = "host") =>
    \A c \in Clients : \A i \in DOMAIN client[c].told : client[c].told[i].error # "success"

\* The dead man's switch: the server forgets who does not fetch any more.
EventuallyForgotten ==
  \A c \in Clients :
    ~Fetching(c) ~> Fetching(c) \/ ep_to_service[External[c]] = Unknown
===============================================================================
