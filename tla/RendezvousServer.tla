--------------------------- MODULE RendezvousServer ---------------------------
(***************************************************************************)
(* The rendezvous server (src/rendezvous/server.h, handler.h): clients     *)
(* that ask for the same service are told each other's endpoints and       *)
(* forgotten.  An entry whose client falls silent is forgotten when its    *)
(* dead man's switch expires.  A message of a client is a record with its  *)
(* version and method: "empty" when it ends before the method, "invalid"   *)
(* when the method is unknown or what follows a fetch cannot be parsed.    *)
(* Packets without a proper header are ignored by the server itself.       *)
(***************************************************************************)
EXTENDS Integers, Sequences

CONSTANTS
  Endpoints,      \* external endpoints, records [address, port]
  InternalEps,    \* endpoints of the same form inside a client's network
  Services,
  NoService,      \* the type of no entry
  Versions,       \* of the protocol
  Version         \* handler::version

ASSUME ServiceAssumption == NoService \notin Services

VARIABLES
  ep_to_service,          \* Unknown where the map has no entry
  service_to_endpoints,   \* {} where the map has no entry
  tx_queue

serverVars == <<ep_to_service, service_to_endpoints, tx_queue>>

Roles == {"host", "guest"}
PortCount == 65536  \* the values of a uint16_t
Ports == 0..(PortCount - 1)

Service ==
  [type : Services, internal_ep : InternalEps, reflected_port : Ports, role : Roles]

Unknown == [type |-> NoService]

Fetches ==
  [version : Versions, method : {"fetch"}, service : Services, role : Roles,
   reflected_port : Ports, internal_ep : InternalEps]

ServerInit ==
  /\ ep_to_service = [ep \in Endpoints |-> Unknown]
  /\ service_to_endpoints = [s \in Services |-> {}]
  /\ tx_queue = <<>>
-------------------------------------------------------------------------------
\* handler::forget, as what it leaves of the two maps.
Forgotten(eps, ep) == [eps EXCEPT ![ep] = Unknown]

ForgottenIn(eps, members, ep) ==
  IF eps[ep] = Unknown THEN members
  ELSE [members EXCEPT ![eps[ep].type] = @ \ {ep}]

forget(ep) ==
  /\ ep_to_service' = Forgotten(ep_to_service, ep)
  /\ service_to_endpoints' = ForgottenIn(ep_to_service, service_to_endpoints, ep)

\* find_or_create_entry.  The endpoints of a known entry are not updated.
Entry(from, m) ==
  IF ep_to_service[from] = Unknown
  THEN [type |-> m.service, internal_ep |-> m.internal_ep,
        reflected_port |-> m.reflected_port, role |-> m.role]
  ELSE [ep_to_service[from] EXCEPT !.type = m.service, !.role = m.role]

\* Mutant: an endpoint that changes to another service stays in the old one.
MembersOfBoth(from, m) == [service_to_endpoints EXCEPT ![m.service] = @ \cup {from}]

Members(from, m) ==
  [ForgottenIn(ep_to_service, service_to_endpoints, from)
     EXCEPT ![m.service] = @ \cup {from}]

\* The order of std::set<udp::endpoint>.
Less(e, f) ==
  \/ e.address < f.address
  \/ e.address = f.address /\ e.port < f.port

\* handler::payload.  A NAT that gave the reflector another port than the server is
\* taken to add the same difference, modulo 2^16, for the peer.
Predicted(ep, reflected_port) ==
  IF reflected_port = 0 THEN ep
  ELSE [ep EXCEPT !.port = (2 * reflected_port - ep.port) % PortCount]

Symmetric(ep, reflected_port) ==
  IF reflected_port # 0 /\ reflected_port # ep.port THEN 1 ELSE 0

payload(to, ep, internal_ep, reflected_port) ==
  [to |-> to, version |-> Version, method |-> "match", reflexive_ep |-> to,
   ext_ep |-> Predicted(ep, reflected_port), int_ep |-> internal_ep,
   is_sym |-> Symmetric(ep, reflected_port)]

\* handler::match
match(ep1, s1, ep2, int2, port2) ==
  tx_queue' = tx_queue \o
    <<payload(ep1, ep2, int2, port2),
      payload(ep2, ep1, s1.internal_ep, s1.reflected_port)>>

\* Mutant: hosts are matched too.
MatchableAny(eps, members, from, m) == members[m.service] \ {from}

\* Mutant: a host is not matched at all.
MatchableGuests(eps, members, from, m) ==
  {ep \in members[m.service] \ {from} : m.role # "host" /\ eps[ep].role # "host"}

\* The other endpoints of the service that are not hosts as well.
Matchable(eps, members, from, m) ==
  {ep \in members[m.service] \ {from} : m.role # "host" \/ eps[ep].role # "host"}

\* handler::handle, for the two methods that fetch: the first endpoint that can be
\* matched is, and both are forgotten.
Fetch(from, m) ==
  LET eps     == [ep_to_service EXCEPT ![from] = Entry(from, m)]
      members == Members(from, m)
      others  == Matchable(eps, members, from, m)
  IN  \/ /\ others = {}
         /\ ep_to_service' = eps
         /\ service_to_endpoints' = members
         /\ UNCHANGED tx_queue
      \/ \E other \in others :
           /\ \A ep \in others : ~Less(ep, other)
           /\ match(other, eps[other], from, m.internal_ep, m.reflected_port)
           /\ ep_to_service' = Forgotten(Forgotten(eps, from), other)
           /\ service_to_endpoints' =
                ForgottenIn(Forgotten(eps, from), ForgottenIn(eps, members, from), other)

Reply(to, version, method) ==
  /\ tx_queue' = Append(tx_queue, [to |-> to, version |-> version, method |-> method])
  /\ UNCHANGED <<ep_to_service, service_to_endpoints>>

\* server::handle_payload and handler::handle.  An empty message forgets nobody.
on_receive(from, m) ==
  \/ m.version # Version /\ Reply(from, 0, "unsupported")
  \/ /\ m.version = Version
     /\ \/ m.method = "empty" /\ UNCHANGED serverVars
        \/ m.method \in {"close", "invalid"} /\ forget(from) /\ UNCHANGED tx_queue
        \/ m.method = "get_reflector" /\ Reply(from, Version, "reflector")
        \/ m.method = "fetch" /\ Fetch(from, m)

\* Mutant: the switch is started again.
ExpireAgain(ep) == ep_to_service[ep] # Unknown /\ UNCHANGED serverVars

\* The dead man's switch of the entry, made by make_dms.
on_expire(ep) ==
  /\ ep_to_service[ep] # Unknown
  /\ forget(ep)
  /\ UNCHANGED tx_queue

\* server::start_sending: the first payload is sent.
Transmit ==
  /\ tx_queue # <<>>
  /\ tx_queue' = Tail(tx_queue)
  /\ UNCHANGED <<ep_to_service, service_to_endpoints>>

\* Clients may send anything.
Messages ==
  Fetches \cup [version : Versions, method : {"close", "empty", "invalid", "get_reflector"}]

ServerNext ==
  \/ \E from \in Endpoints, m \in Messages : on_receive(from, m)
  \/ \E ep \in Endpoints : on_expire(ep)
  \/ Transmit

ServerSpec == ServerInit /\ [][ServerNext]_serverVars
-------------------------------------------------------------------------------
\* handler::handle asserts that an endpoint it finds in the set of a service has an
\* entry (handler.h:323), of that service (handler.h:324); and nobody who waits is
\* left out of the set, where they would be found.
IndexAgrees ==
  \A ep \in Endpoints, s \in Services :
    ep \in service_to_endpoints[s] <=>
      ep_to_service[ep] # Unknown /\ ep_to_service[ep].type = s

\* Nobody waits for a client that waits already: of two that wait for the same
\* service both are hosts.
NoneMatchable ==
  \A s \in Services : \A e, f \in service_to_endpoints[s] :
    e # f => ep_to_service[e].role = "host" /\ ep_to_service[f].role = "host"
===============================================================================
