--------------------------- MODULE RendezvousProofs ---------------------------
(***************************************************************************)
(* The rendezvous server and its clients, for any sets of endpoints,       *)
(* services and clients.                                                   *)
(*                                                                         *)
(* The server alone, whatever clients send: its two maps agree, and nobody *)
(* waits in vain.  IndexAgrees is inductive together with the types.  A    *)
(* fetch is followed in two halves: what find_or_create_entry makes of the *)
(* maps, and what the two calls of forget after a match leave of them.     *)
(*                                                                         *)
(* The server and the clients on a faulty network: a client is told once,  *)
(* and of a peer that asked for what it asked for.  What a client is told  *)
(* comes from an entry and a fetch; so the invariant says of every entry,  *)
(* request, reply and queued packet whose it is and what it was made from. *)
(***************************************************************************)
EXTENDS Rendezvous, TLAPS

\* IndexAgrees and the types, for any pair of maps.
Agree(eps, members) ==
  /\ eps \in [Endpoints -> Service \cup {Unknown}]
  /\ members \in [Services -> SUBSET Endpoints]
  /\ \A ep \in Endpoints, s \in Services :
       ep \in members[s] <=> eps[ep] # Unknown /\ eps[ep].type = s

\* NoneMatchable among the endpoints other than `apart'.
AllHosts(eps, members, apart) ==
  \A s \in Services : \A e, f \in members[s] \ {apart} :
    e # f => eps[e].role = "host" /\ eps[f].role = "host"

Inv == Agree(ep_to_service, service_to_endpoints) /\ NoneMatchable

\* The fields of a fetch.
IsFetch(m) ==
  /\ m.service \in Services /\ m.role \in Roles
  /\ m.reflected_port \in Ports /\ m.internal_ep \in InternalEps

\* An entry has a service, Unknown has none.
LEMMA ServiceFacts ==
  ASSUME NEW x \in Service
  PROVE  x # Unknown /\ x.type \in Services
BY ServiceAssumption DEF Service, Unknown

\* forget removes the endpoint from its service, and thereby from all of them.
LEMMA ForgetRemoves ==
  ASSUME NEW eps, NEW members, Agree(eps, members), NEW ep \in Endpoints
  PROVE  /\ Agree(Forgotten(eps, ep), ForgottenIn(eps, members, ep))
         /\ \A s \in Services : ForgottenIn(eps, members, ep)[s] = members[s] \ {ep}
         /\ \A e \in Endpoints \ {ep} : Forgotten(eps, ep)[e] = eps[e]
<1>1. /\ Forgotten(eps, ep) \in [Endpoints -> Service \cup {Unknown}]
      /\ Forgotten(eps, ep)[ep] = Unknown
      /\ \A e \in Endpoints \ {ep} : Forgotten(eps, ep)[e] = eps[e]
  BY DEF Forgotten, Agree
<1>2. /\ ForgottenIn(eps, members, ep) \in [Services -> SUBSET Endpoints]
      /\ \A s \in Services : ForgottenIn(eps, members, ep)[s] = members[s] \ {ep}
  <2>1. CASE eps[ep] = Unknown
    BY <2>1 DEF Agree, ForgottenIn
  <2>2. CASE eps[ep] # Unknown
    <3>1. eps[ep].type \in Services
      BY <2>2, ServiceFacts DEF Agree
    <3> QED
      BY <2>2, <3>1 DEF Agree, ForgottenIn
  <2> QED
    BY <2>1, <2>2
<1> QED
  BY <1>1, <1>2 DEF Agree

\* find_or_create_entry: the entry is of the service and the role that were asked for.
LEMMA EntryFacts ==
  ASSUME Inv, NEW from \in Endpoints, NEW m, IsFetch(m)
  PROVE  /\ Entry(from, m) \in Service
         /\ Entry(from, m).type = m.service
         /\ Entry(from, m).role = m.role
<1>1. m.service \in Services /\ m.role \in Roles /\ m.reflected_port \in Ports
        /\ m.internal_ep \in InternalEps
  BY DEF IsFetch
<1>2. CASE ep_to_service[from] = Unknown
  BY <1>1, <1>2 DEF Entry, Service
<1>3. CASE ep_to_service[from] # Unknown
  <2>1. ep_to_service[from] \in Service
    BY <1>3 DEF Inv, Agree
  <2> QED
    BY <1>1, <1>3, <2>1, Zenon DEF Entry, Service
<1> QED
  BY <1>2, <1>3

\* find_or_create_entry: the maps agree again, and the endpoint is in the set of
\* its service and in no other one.
LEMMA CreateAgrees ==
  ASSUME Inv, NEW from \in Endpoints, NEW m, IsFetch(m),
         NEW eps, eps = [ep_to_service EXCEPT ![from] = Entry(from, m)]
  PROVE  /\ Agree(eps, Members(from, m))
         /\ \A e \in Endpoints \ {from} : eps[e] = ep_to_service[e]
         /\ \A s \in Services : Members(from, m)[s] \ {from} = service_to_endpoints[s] \ {from}
<1> DEFINE old == ForgottenIn(ep_to_service, service_to_endpoints, from)
<1>1. /\ old \in [Services -> SUBSET Endpoints]
      /\ \A s \in Services : old[s] = service_to_endpoints[s] \ {from}
  BY ForgetRemoves DEF Inv, Agree
<1>2. m.service \in Services
  BY DEF IsFetch
<1>3. Members(from, m) = [old EXCEPT ![m.service] = old[m.service] \cup {from}]
  BY <1>1, <1>2 DEF Members
<1> HIDE DEF old
<1>4. /\ Members(from, m) \in [Services -> SUBSET Endpoints]
      /\ \A s \in Services : \A e \in Endpoints :
           e \in Members(from, m)[s] <=>
             IF e = from THEN s = m.service ELSE e \in service_to_endpoints[s]
  BY <1>1, <1>2, <1>3
<1>5. /\ eps \in [Endpoints -> Service \cup {Unknown}]
      /\ eps[from] = Entry(from, m)
      /\ \A e \in Endpoints \ {from} : eps[e] = ep_to_service[e]
  BY EntryFacts DEF Inv, Agree
<1>6. eps[from] # Unknown /\ eps[from].type = m.service
  BY <1>5, EntryFacts, ServiceFacts
<1>7. \A ep \in Endpoints, s \in Services :
        ep \in Members(from, m)[s] <=> eps[ep] # Unknown /\ eps[ep].type = s
  BY <1>4, <1>5, <1>6 DEF Inv, Agree
<1>8. \A s \in Services : Members(from, m)[s] \ {from} = service_to_endpoints[s] \ {from}
  BY <1>4 DEF Inv, Agree
<1> QED
  BY <1>4, <1>5, <1>7, <1>8 DEF Agree

\* Handling a fetch: without a match the client joins hosts only, and a match leaves
\* the ones that waited before.
LEMMA FetchStep ==
  ASSUME Inv, NEW from \in Endpoints, NEW m, IsFetch(m), Fetch(from, m)
  PROVE  Inv'
<1> DEFINE eps     == [ep_to_service EXCEPT ![from] = Entry(from, m)]
           members == Members(from, m)
           others  == Matchable(eps, members, from, m)
<1>1. /\ Agree(eps, members)
      /\ \A e \in Endpoints \ {from} : eps[e] = ep_to_service[e]
      /\ \A s \in Services : members[s] \ {from} = service_to_endpoints[s] \ {from}
  BY CreateAgrees
<1>2. eps[from].role = m.role /\ eps[from].type = m.service /\ eps[from] # Unknown
  BY EntryFacts, ServiceFacts DEF Inv, Agree
<1>3. AllHosts(eps, members, from)
  BY <1>1 DEF AllHosts, Inv, NoneMatchable, Agree
<1>4. CASE others = {} /\ ep_to_service' = eps /\ service_to_endpoints' = members
  <2>0. m.service \in Services
    BY DEF IsFetch
  <2>1. \A f \in members[m.service] \ {from} : m.role = "host" /\ eps[f].role = "host"
    BY <1>4 DEF Matchable
  <2>2. \A s \in Services : from \in members[s] => s = m.service
    BY <1>1, <1>2 DEF Agree
  <2> HIDE DEF eps, members, others
  <2>3. \A s \in Services : \A e, f \in members[s] :
          e # f => eps[e].role = "host" /\ eps[f].role = "host"
    BY <1>2, <1>3, <2>0, <2>1, <2>2 DEF AllHosts
  <2> QED
    BY <1>1, <1>4, <2>3 DEF Inv, NoneMatchable
<1>5. ASSUME NEW other \in others,
             ep_to_service' = Forgotten(Forgotten(eps, from), other),
             service_to_endpoints' =
               ForgottenIn(Forgotten(eps, from), ForgottenIn(eps, members, from), other)
      PROVE  Inv'
  <2> DEFINE eps1     == Forgotten(eps, from)
             members1 == ForgottenIn(eps, members, from)
  <2>0. m.service \in Services
    BY DEF IsFetch
  <2>1. other \in Endpoints
    BY <1>1, <2>0 DEF Matchable, Agree
  <2> HIDE DEF eps, members, others
  <2>2. /\ Agree(eps1, members1)
        /\ \A s \in Services : members1[s] = members[s] \ {from}
        /\ \A e \in Endpoints \ {from} : eps1[e] = eps[e]
    BY <1>1, ForgetRemoves
  <2> HIDE DEF eps1, members1
  <2>3. /\ Agree(Forgotten(eps1, other), ForgottenIn(eps1, members1, other))
        /\ \A s \in Services : ForgottenIn(eps1, members1, other)[s] = members1[s] \ {other}
        /\ \A e \in Endpoints \ {other} : Forgotten(eps1, other)[e] = eps1[e]
    BY <2>1, <2>2, ForgetRemoves
  <2>4. ep_to_service' = Forgotten(eps1, other)
        /\ service_to_endpoints' = ForgottenIn(eps1, members1, other)
    BY <1>5 DEF eps1, members1
  <2>5. \A s \in Services : \A e \in service_to_endpoints'[s] :
          e \in members[s] \ {from} /\ ep_to_service'[e] = eps[e]
    BY <1>1, <2>2, <2>3, <2>4 DEF Agree
  <2>6. NoneMatchable'
    BY <1>3, <2>5 DEF AllHosts, NoneMatchable
  <2> QED
    BY <2>3, <2>4, <2>6 DEF Inv
<1> QED
  BY <1>4, <1>5, Zenon DEF Fetch

\* close, an invalid message and the dead man's switch.
LEMMA ForgetStep ==
  ASSUME Inv, NEW from \in Endpoints, forget(from)
  PROVE  Inv'
<1>1. /\ Agree(ep_to_service', service_to_endpoints')
      /\ \A s \in Services : service_to_endpoints'[s] = service_to_endpoints[s] \ {from}
      /\ \A e \in Endpoints \ {from} : ep_to_service'[e] = ep_to_service[e]
  BY ForgetRemoves DEF Inv, forget
<1>2. \A s \in Services : \A e \in service_to_endpoints'[s] :
        e \in service_to_endpoints[s] /\ ep_to_service'[e] = ep_to_service[e]
  BY <1>1 DEF Agree
<1>3. NoneMatchable'
  BY <1>2 DEF NoneMatchable, Inv
<1> QED
  BY <1>1, <1>3 DEF Inv

\* A message is handled.
LEMMA ReceiveStep ==
  ASSUME Inv, NEW from \in Endpoints, NEW m, m.method = "fetch" => IsFetch(m), on_receive(from, m)
  PROVE  Inv'
<1>1. CASE forget(from)
  BY <1>1, ForgetStep
<1>2. CASE m.method = "fetch" /\ Fetch(from, m)
  BY <1>2, FetchStep
<1>3. CASE UNCHANGED <<ep_to_service, service_to_endpoints>>
  BY <1>3 DEF Inv, NoneMatchable
<1> QED
  BY <1>1, <1>2, <1>3 DEF on_receive, Reply, serverVars

\* Every request, close, invalid message and timeout keeps the invariant of the handler.
LEMMA ServerInductive ==
  Inv /\ [ServerNext]_serverVars => Inv'
<1> SUFFICES ASSUME Inv, [ServerNext]_serverVars PROVE Inv'
  OBVIOUS
<1>1. ASSUME UNCHANGED <<ep_to_service, service_to_endpoints>> PROVE Inv'
  BY <1>1 DEF Inv, NoneMatchable
<1>2. ASSUME NEW from \in Endpoints, NEW m \in Messages, on_receive(from, m) PROVE Inv'
  <2>1. m.method = "fetch" => IsFetch(m)
    BY DEF Messages, Fetches, IsFetch
  <2> QED
    BY <1>2, <2>1, ReceiveStep
<1>3. ASSUME NEW ep \in Endpoints, on_expire(ep) PROVE Inv'
  BY <1>3, ForgetStep DEF on_expire
<1>4. CASE Transmit
  BY <1>1, <1>4 DEF Transmit
<1>5. CASE UNCHANGED serverVars
  BY <1>1, <1>5 DEF serverVars
<1> QED
  BY <1>2, <1>3, <1>4, <1>5 DEF ServerNext

\* The invariant of the handler of protocol version 1.
LEMMA ServerInvariant == ServerSpec => []Inv
<1>1. ServerInit => Inv
  BY DEF ServerInit, Inv, Agree, NoneMatchable
<1> QED
  BY <1>1, ServerInductive, PTL DEF ServerSpec

\* The asserts of handler::handle (handler.h:323-324) never fail: an endpoint is in
\* the set of a service exactly if its entry is of that service, after any messages
\* of any clients and any dead man's switches.
THEOREM MapsAgree == ServerSpec => []IndexAgrees
<1>1. Inv => IndexAgrees
  BY DEF Inv, Agree, IndexAgrees
<1> QED
  BY <1>1, ServerInvariant, PTL

\* handler::handle matches whom it can: two endpoints that wait for the same service
\* are always both hosts.
THEOREM OnlyHostsWait == ServerSpec => []NoneMatchable
<1>1. Inv => NoneMatchable
  BY DEF Inv
<1> QED
  BY <1>1, ServerInvariant, PTL
-------------------------------------------------------------------------------
(* The clients.                                                            *)

Fields ==
  {"life", "want", "knows", "handler", "recv", "error", "packet", "posted", "told", "lives"}

\* The endpoint is the way from client c to another one that asked for the same.
Way(a, c, ep) ==
  \E d \in Clients \ {c} :
    /\ ep = Reach(c, d)
    /\ \E x \in a[c], y \in a[d] : x[1] = y[1] /\ {x[2], y[2]} # {"host"}

Right(a, c, r) == r.error = "success" /\ r.ep # NoEp => Way(a, c, r.ep)

\* Nothing, or one thing that is right.
Tells(a, c, s) ==
  \/ s = <<>>
  \/ \E r : s = <<r>> /\ r = [error |-> r.error, ep |-> r.ep] /\ Right(a, c, r)

\* The packets of the server and the reflector.
Answers ==
  [to : Endpoints, version : {0, Version}, method : {"unsupported", "reflector", "reflected"}]
    \cup [to : Endpoints, version : {Version}, method : {"match"}, reflexive_ep : Endpoints,
          ext_ep : [address : Nat, port : Ports], int_ep : InternalEps, is_sym : {0, 1}]

GoodReply(a, p) ==
  /\ p \in Answers
  /\ p.method = "match" => \A c \in Clients : p.to = External[c] => Way(a, c, Peer(p))

\* An entry, or a fetch, of client c with the given fields.
Own(a, c, service, role, int_ep, port) ==
  int_ep = Internal[c] /\ port = Reflected[c] /\ <<service, role>> \in a[c]

EntryRight(a, ep, s) ==
  s # Unknown => \E c \in Clients :
    ep = External[c] /\ Own(a, c, s.type, s.role, s.internal_ep, s.reflected_port)

RequestRight(a, p) ==
  /\ p.from \in Clients
  /\ p.method = "fetch" => Own(a, p.from, p.service, p.role, p.internal_ep, p.reflected_port)

ClientRight(a, c, o) ==
  /\ DOMAIN o = Fields /\ o.lives \in Nat
  /\ o.handler \in BOOLEAN
  /\ o.handler <=> o.recv # "none"
  /\ o.handler => o.told = <<>> /\ o.posted = <<>>
  /\ o.told = <<>> \/ o.posted = <<>>
  /\ Tells(a, c, o.told) /\ Tells(a, c, o.posted)
  /\ o.life = "alive" => o.want \in a[c]
  /\ o.recv = "queued" =>
       \/ o.life = "destroyed" \/ o.error # "success"
       \/ GoodReply(a, o.packet) /\ o.packet.to = External[c]

RInv ==
  /\ Inv
  /\ scope \in Scopes
  /\ asked \in [Clients -> SUBSET (Services \X Roles)]
  /\ DOMAIN client = Clients
  /\ \A c \in Clients : ClientRight(asked, c, client[c])
  /\ \A ep \in Endpoints : EntryRight(asked, ep, ep_to_service[ep])
  /\ \A p \in requests : RequestRight(asked, p)
  /\ \A p \in replies : GoodReply(asked, p)
  /\ tx_queue \in Seq(Answers)
  /\ \A i \in 1..Len(tx_queue) : GoodReply(asked, tx_queue[i])

\* A client may ask for more.
LEMMA AskedMore ==
  ASSUME NEW a, NEW b, \A c \in Clients : a[c] \subseteq b[c]
  PROVE  /\ \A c \in Clients : \A ep : Way(a, c, ep) => Way(b, c, ep)
         /\ \A c \in Clients : \A s : Tells(a, c, s) => Tells(b, c, s)
         /\ \A p : GoodReply(a, p) => GoodReply(b, p)
         /\ \A ep, s : EntryRight(a, ep, s) => EntryRight(b, ep, s)
         /\ \A p : RequestRight(a, p) => RequestRight(b, p)
<1>1. ASSUME NEW c \in Clients, NEW ep, Way(a, c, ep) PROVE Way(b, c, ep)
  BY <1>1 DEF Way
<1>2. ASSUME NEW c \in Clients, NEW s, Tells(a, c, s) PROVE Tells(b, c, s)
  BY <1>1, <1>2 DEF Tells, Right
<1>3. ASSUME NEW p, GoodReply(a, p) PROVE GoodReply(b, p)
  BY <1>1, <1>3 DEF GoodReply
<1>4. ASSUME NEW ep, NEW s, EntryRight(a, ep, s) PROVE EntryRight(b, ep, s)
  BY <1>4 DEF EntryRight, Own
<1>5. ASSUME NEW p, RequestRight(a, p) PROVE RequestRight(b, p)
  BY <1>5 DEF RequestRight, Own
<1> QED
  BY <1>1, <1>2, <1>3, <1>4, <1>5

\* Unsigned arithmetic.
LEMMA Remainder ==
  ASSUME NEW x \in Int, NEW n \in Nat, n # 0
  PROVE  x % n \in 0..(n - 1)
OBVIOUS

\* The two ways to write the port of the peer.
LEMMA PredictedPort ==
  ASSUME NEW c \in Clients
  PROVE  /\ Predicted(External[c], Reflected[c]).address = External[c].address
         /\ Predicted(External[c], Reflected[c]) =
              [address |-> External[c].address,
               port |-> (Reflected[c] + (Reflected[c] - External[c].port)) % PortCount]
         /\ Predicted(External[c], Reflected[c]) \in [address : Nat, port : Ports]
<1> DEFINE e == External[c]
           r == Reflected[c]
<1>0. PortCount \in Nat /\ PortCount # 0
  BY DEF PortCount
<1>1. e \in [address : Nat, port : Ports] /\ r \in Ports \ {0}
  BY ClientAssumption
<1> HIDE DEF e, r
<1>2. e.port \in Nat /\ r \in Nat /\ r # 0 /\ e.address \in Nat
      /\ e = [address |-> e.address, port |-> e.port]
  BY <1>0, <1>1 DEF Ports
<1> DEFINE x == 2 * r - e.port
           y == r + (r - e.port)
<1>3. x = y /\ x \in Int
  BY <1>2
<1>5. Predicted(e, r) = [e EXCEPT !.port = x % PortCount]
  BY <1>1, <1>2 DEF Predicted
<1> HIDE DEF x, y
<1>4. y % PortCount \in Ports
  BY <1>0, <1>3, Remainder DEF Ports
<1> DEFINE z == y % PortCount
<1>7. Predicted(e, r) = [e EXCEPT !.port = z]
  BY <1>3, <1>5
<1> HIDE DEF z
<1>6. Predicted(e, r) = [address |-> e.address, port |-> z]
  BY <1>2, <1>7
<1> QED
  BY <1>2, <1>4, <1>6 DEF e, r, y, z

\* handler::payload tells client c the way to client d.
LEMMA PayloadRight ==
  ASSUME NEW a, NEW c \in Clients, NEW d \in Clients, c # d,
         NEW x \in a[c], NEW y \in a[d], x[1] = y[1], {x[2], y[2]} # {"host"}
  PROVE  GoodReply(a, payload(External[c], External[d], Internal[d], Reflected[d]))
<1> DEFINE ext == Predicted(External[d], Reflected[d])
           sym == Symmetric(External[d], Reflected[d])
           p == payload(External[c], External[d], Internal[d], Reflected[d])
<1>1. /\ p.to = External[c] /\ p.method = "match" /\ p.reflexive_ep = External[c]
      /\ p.ext_ep = ext /\ p.int_ep = Internal[d] /\ p.is_sym = sym
  BY DEF payload
<1>2. /\ ext.address = External[d].address /\ ext \in [address : Nat, port : Ports]
      /\ ext = [address |-> External[d].address,
                port |-> (Reflected[d] + (Reflected[d] - External[d].port)) % PortCount]
  BY PredictedPort
<1>3. sym \in {0, 1}
  BY DEF Symmetric
<1>4. External[c] \in Endpoints /\ Internal[d] \in InternalEps
  BY ClientAssumption
<1>5. p = [to |-> External[c], version |-> Version, method |-> "match",
           reflexive_ep |-> External[c], ext_ep |-> ext, int_ep |-> Internal[d], is_sym |-> sym]
  BY DEF payload
<1> HIDE DEF ext, sym, p
<1>6. p \in Answers
  BY <1>2, <1>3, <1>4, <1>5 DEF Answers
<1>7. Peer(p) = Reach(c, d)
  BY <1>1, <1>2 DEF Peer, Reach
<1>8. \A b \in Clients : p.to = External[b] => b = c
  BY <1>1, ClientAssumption, Zenon
<1>9. Way(a, c, Peer(p))
  BY <1>7 DEF Way
<1> QED
  BY <1>6, <1>8, <1>9 DEF GoodReply, p

\* What the server holds is right.
Served(a, eps, q) ==
  /\ \A ep \in Endpoints : EntryRight(a, ep, eps[ep])
  /\ q \in Seq(Answers)
  /\ \A i \in 1..Len(q) : GoodReply(a, q[i])

\* One more answer.
LEMMA OneAnswer ==
  ASSUME NEW a, NEW q, q \in Seq(Answers), \A i \in 1..Len(q) : GoodReply(a, q[i]),
         NEW p, GoodReply(a, p)
  PROVE  /\ Append(q, p) \in Seq(Answers)
         /\ \A i \in 1..Len(Append(q, p)) : GoodReply(a, Append(q, p)[i])
<1>1. p \in Answers
  BY DEF GoodReply
<1> QED
  BY <1>1

\* Two elements behind a sequence.
LEMMA TwoAppended ==
  ASSUME NEW S, NEW q \in Seq(S), NEW x \in S, NEW y \in S
  PROVE  /\ q \o <<x, y>> \in Seq(S) /\ Len(q \o <<x, y>>) = Len(q) + 2
         /\ \A i \in 1..Len(q) : (q \o <<x, y>>)[i] = q[i]
         /\ (q \o <<x, y>>)[Len(q) + 1] = x /\ (q \o <<x, y>>)[Len(q) + 2] = y
<1>1. q \o <<x, y>> \in Seq(S)
  OBVIOUS
<1>2. Len(q \o <<x, y>>) = Len(q) + 2
  OBVIOUS
<1>3. ASSUME NEW i \in 1..Len(q) PROVE (q \o <<x, y>>)[i] = q[i]
  OBVIOUS
<1>4. (q \o <<x, y>>)[Len(q) + 1] = x
  OBVIOUS
<1>5. (q \o <<x, y>>)[Len(q) + 2] = y
  OBVIOUS
<1> QED
  BY <1>1, <1>2, <1>3, <1>4, <1>5, Zenon

\* Two more answers.
LEMMA TwoAnswers ==
  ASSUME NEW a, NEW q, q \in Seq(Answers), \A i \in 1..Len(q) : GoodReply(a, q[i]),
         NEW p, GoodReply(a, p), NEW r, GoodReply(a, r)
  PROVE  /\ q \o <<p, r>> \in Seq(Answers)
         /\ \A i \in 1..Len(q \o <<p, r>>) : GoodReply(a, (q \o <<p, r>>)[i])
<1>1. p \in Answers /\ r \in Answers
  BY DEF GoodReply
<1> DEFINE s == <<p, r>>
<1>2. /\ q \o s \in Seq(Answers) /\ Len(q \o s) = Len(q) + 2
      /\ \A i \in 1..Len(q) : (q \o s)[i] = q[i]
      /\ (q \o s)[Len(q) + 1] = p /\ (q \o s)[Len(q) + 2] = r
  BY <1>1, TwoAppended
<1> HIDE DEF s
<1>3. ASSUME NEW i \in 1..Len(q \o s) PROVE GoodReply(a, (q \o s)[i])
  <2>1. i \in 1..Len(q) \/ i = Len(q) + 1 \/ i = Len(q) + 2
    BY <1>2
  <2> QED
    BY <1>2, <2>1
<1> QED
  BY <1>2, <1>3 DEF s

\* A request to fetch has the fields of one.
LEMMA RequestFields ==
  ASSUME asked \in [Clients -> SUBSET (Services \X Roles)],
         NEW m, RequestRight(asked, m), m.method = "fetch"
  PROVE  IsFetch(m)
<1> DEFINE c == m.from
           x == <<m.service, m.role>>
<1>1. c \in Clients /\ m.internal_ep = Internal[c] /\ m.reflected_port = Reflected[c] /\ x \in asked[c]
  BY DEF RequestRight, Own
<1>2. x \in Services \X Roles
  BY <1>1
<1>3. Internal[c] \in InternalEps /\ Reflected[c] \in Ports
  BY <1>1, ClientAssumption
<1> QED
  BY <1>1, <1>2, <1>3 DEF IsFetch

\* The entry of a client is made from what it sends.
LEMMA EntryOwn ==
  ASSUME RInv, NEW m, RequestRight(asked, m), m.method = "fetch",
         NEW s, s = Entry(External[m.from], m)
  PROVE  Own(asked, m.from, s.type, s.role, s.internal_ep, s.reflected_port)
<1> DEFINE c == m.from
           old == ep_to_service[External[c]]
<1>1. c \in Clients /\ Own(asked, c, m.service, m.role, m.internal_ep, m.reflected_port)
  BY DEF RequestRight
<1>2. External[c] \in Endpoints
  BY <1>1, ClientAssumption
<1>3. EntryRight(asked, External[c], old) /\ old \in Service \cup {Unknown}
  BY <1>2 DEF RInv, Inv, Agree
<1>4. CASE old = Unknown
  BY <1>1, <1>4 DEF Entry
<1>5. CASE old # Unknown
  <2>1. PICK d \in Clients :
          External[c] = External[d] /\ Own(asked, d, old.type, old.role, old.internal_ep, old.reflected_port)
    BY <1>3, <1>5 DEF EntryRight
  <2>2. d = c
    BY <1>1, <2>1, ClientAssumption
  <2>3. s = [old EXCEPT !.type = m.service, !.role = m.role]
    BY <1>5 DEF Entry
  <2>4. old \in Service
    BY <1>3, <1>5
  <2> HIDE DEF old
  <2>5. /\ s.type = m.service /\ s.role = m.role /\ s.internal_ep = old.internal_ep
        /\ s.reflected_port = old.reflected_port
    BY <2>3, <2>4 DEF Service
  <2> QED
    BY <1>1, <2>1, <2>2, <2>5 DEF Own
<1> QED
  BY <1>4, <1>5

\* A fetch, and the match it may lead to.
LEMMA FetchRight ==
  ASSUME RInv, NEW m, RequestRight(asked, m), m.method = "fetch", Fetch(External[m.from], m)
  PROVE  Served(asked, ep_to_service', tx_queue')
<1> DEFINE c       == m.from
           from    == External[c]
           new     == Entry(from, m)
           eps     == [ep_to_service EXCEPT ![from] = new]
           members == Members(from, m)
           others  == Matchable(eps, members, from, m)
<1>1. c \in Clients /\ Own(asked, c, m.service, m.role, m.internal_ep, m.reflected_port)
  BY DEF RequestRight
<1>2. from \in Endpoints /\ IsFetch(m) /\ Inv
  BY <1>1, ClientAssumption, RequestFields DEF RInv
<1>3. Own(asked, c, new.type, new.role, new.internal_ep, new.reflected_port)
  BY EntryOwn
<1>4. Agree(eps, members) /\ \A e \in Endpoints \ {from} : eps[e] = ep_to_service[e]
  BY <1>2, CreateAgrees
<1>5. eps[from] = new
  BY <1>2 DEF Inv, Agree
<1>6. \A ep \in Endpoints : EntryRight(asked, ep, eps[ep])
  <2>1. EntryRight(asked, from, eps[from])
    BY <1>1, <1>3, <1>5 DEF EntryRight
  <2> QED
    BY <1>4, <2>1, Zenon DEF RInv
<1>7. /\ tx_queue \in Seq(Answers) /\ \A i \in 1..Len(tx_queue) : GoodReply(asked, tx_queue[i])
  BY DEF RInv
<1>8. CASE ep_to_service' = eps /\ UNCHANGED tx_queue
  BY <1>6, <1>7, <1>8 DEF Served
<1>9. ASSUME NEW other \in others,
             match(other, eps[other], from, m.internal_ep, m.reflected_port),
             ep_to_service' = Forgotten(Forgotten(eps, from), other)
      PROVE  Served(asked, ep_to_service', tx_queue')
  <2>1. m.service \in Services
    BY <1>2, SMTT(20) DEF IsFetch
  <2>2. /\ other \in members[m.service] /\ other # from /\ other \in Endpoints
        /\ m.role # "host" \/ eps[other].role # "host"
    BY <1>4, <1>9, <2>1 DEF Matchable, Agree
  <2>3. eps[other] # Unknown /\ eps[other].type = m.service /\ EntryRight(asked, other, eps[other])
    BY <1>4, <1>6, <2>1, <2>2, SMTT(20) DEF Agree
  <2> DEFINE s == eps[other]
  <2>4. PICK d \in Clients :
          other = External[d] /\ Own(asked, d, s.type, s.role, s.internal_ep, s.reflected_port)
    BY <2>3 DEF EntryRight
  <2> DEFINE x == <<m.service, m.role>>
             y == <<s.type, s.role>>
             p == payload(External[d], External[c], Internal[c], Reflected[c])
             r == payload(External[c], External[d], Internal[d], Reflected[d])
  <2>5. /\ x \in asked[c] /\ y \in asked[d] /\ x[1] = y[1] /\ {x[2], y[2]} # {"host"} /\ d # c
        /\ m.internal_ep = Internal[c] /\ m.reflected_port = Reflected[c]
        /\ s.internal_ep = Internal[d] /\ s.reflected_port = Reflected[d]
    <3>1. x \in asked[c] /\ m.internal_ep = Internal[c] /\ m.reflected_port = Reflected[c]
      BY <1>1 DEF Own
    <3>2. y \in asked[d] /\ s.internal_ep = Internal[d] /\ s.reflected_port = Reflected[d]
      BY <2>4 DEF Own
    <3>3. x[1] = y[1] /\ {x[2], y[2]} # {"host"} /\ d # c
      <4> HIDE DEF eps
      <4> QED
        BY <2>2, <2>3, <2>4
    <3> QED
      BY <3>1, <3>2, <3>3, Zenon
  <2>6. tx_queue' = tx_queue \o <<p, r>>
    BY <1>9, <2>4, <2>5, Zenon DEF match
  <2> HIDE DEF x, y, s
  <2>7. GoodReply(asked, p)
    <3>1. y[1] = x[1] /\ {y[2], x[2]} # {"host"}
      BY <2>5
    <3> QED
      BY <1>1, <2>4, <2>5, <3>1, PayloadRight, Zenon
  <2>8. GoodReply(asked, r)
    BY <1>1, <2>4, <2>5, PayloadRight, Zenon
  <2> HIDE DEF p, r
  <2>9. tx_queue' \in Seq(Answers) /\ \A i \in 1..Len(tx_queue') : GoodReply(asked, tx_queue'[i])
    BY <1>7, <2>6, <2>7, <2>8, TwoAnswers, Zenon
  <2>10. DOMAIN eps = Endpoints
    BY <1>4 DEF Agree
  <2> HIDE DEF eps
  <2>11. \A ep \in Endpoints : ep_to_service'[ep] \in {eps[ep], Unknown}
    BY <1>9, <2>10 DEF Forgotten
  <2>12. \A ep \in Endpoints : EntryRight(asked, ep, ep_to_service'[ep])
    BY <1>6, <2>11 DEF EntryRight
  <2> QED
    BY <2>9, <2>12 DEF Served
<1> QED
  BY <1>8, <1>9, Zenon DEF Fetch

\* The server forgets a client.
LEMMA ForgetRight ==
  ASSUME RInv, NEW ep \in Endpoints, forget(ep)
  PROVE  \A e \in Endpoints : EntryRight(asked, e, ep_to_service'[e])
<1>1. \A e \in Endpoints : ep_to_service'[e] \in {ep_to_service[e], Unknown}
  BY DEF forget, Forgotten, RInv, Inv, Agree
<1> QED
  BY <1>1 DEF RInv, EntryRight

\* A step that leaves the server alone.
LEMMA ServerIdle ==
  ASSUME RInv, UNCHANGED serverVars
  PROVE  Inv' /\ Served(asked, ep_to_service', tx_queue')
<1>1. ep_to_service' = ep_to_service /\ service_to_endpoints' = service_to_endpoints /\ tx_queue' = tx_queue
  BY DEF serverVars
<1> QED
  BY <1>1 DEF RInv, Inv, NoneMatchable, Served

\* The server handles a packet.
LEMMA ServedRight ==
  ASSUME RInv, NEW m, RequestRight(asked, m), on_receive(External[m.from], m)
  PROVE  Inv' /\ Served(asked, ep_to_service', tx_queue')
<1> DEFINE from == External[m.from]
<1>1. from \in Endpoints
  BY ClientAssumption DEF RequestRight
<1>2. m.method = "fetch" => IsFetch(m)
  BY RequestFields DEF RInv
<1>3. Inv'
  BY <1>1, <1>2, ReceiveStep DEF RInv
<1>4. /\ tx_queue \in Seq(Answers) /\ \A i \in 1..Len(tx_queue) : GoodReply(asked, tx_queue[i])
      /\ \A ep \in Endpoints : EntryRight(asked, ep, ep_to_service[ep])
  BY DEF RInv
<1>5. ASSUME NEW version \in {0, Version}, NEW method \in {"unsupported", "reflector"},
             Reply(from, version, method)
      PROVE  Served(asked, ep_to_service', tx_queue')
  <2> DEFINE p == [to |-> from, version |-> version, method |-> method]
  <2>1. tx_queue' = Append(tx_queue, p) /\ ep_to_service' = ep_to_service
    BY <1>5 DEF Reply
  <2>2. GoodReply(asked, p)
    BY <1>1 DEF GoodReply, Answers
  <2> HIDE DEF p
  <2> QED
    BY <1>4, <2>1, <2>2, OneAnswer DEF Served
<1>6. CASE forget(from) /\ UNCHANGED tx_queue
  BY <1>1, <1>3, <1>4, <1>6, ForgetRight DEF Served
<1>7. CASE m.method = "fetch" /\ Fetch(from, m)
  BY <1>3, <1>7, FetchRight
<1>8. CASE UNCHANGED serverVars
  BY <1>8, ServerIdle
<1> QED
  BY <1>3, <1>5, <1>6, <1>7, <1>8 DEF on_receive

\* A step in which no client asks for more.
LEMMA Kept ==
  ASSUME RInv, scope' = scope, asked' = asked, DOMAIN client' = Clients,
         \A c \in Clients : ClientRight(asked, c, client'[c]),
         Inv', Served(asked, ep_to_service', tx_queue'),
         \A p \in requests' : RequestRight(asked, p),
         \A p \in replies' : GoodReply(asked, p)
  PROVE  RInv'
BY DEF RInv, Served

\* A step of one client.
LEMMA ClientChange ==
  ASSUME RInv, scope' = scope, asked' = asked, UNCHANGED serverVars,
         NEW c \in Clients, NEW o, client' = [client EXCEPT ![c] = o], ClientRight(asked, c, o),
         \A p \in requests' : RequestRight(asked, p),
         \A p \in replies' : GoodReply(asked, p)
  PROVE  RInv'
<1>1. DOMAIN client' = Clients /\ \A d \in Clients : ClientRight(asked, d, client'[d])
  BY DEF RInv
<1>2. Inv' /\ Served(asked, ep_to_service', tx_queue')
  BY ServerIdle
<1> QED
  BY <1>1, <1>2, Kept

\* What a client sends is its own.
LEMMA RequestOwn ==
  ASSUME NEW a, NEW c \in Clients, NEW o, o.want \in a[c], o.want \in Services \X Roles
  PROVE  RequestRight(a, Request(c, o))
<1>1. CASE o.knows = 2
  <2> DEFINE w == o.want
             p == FetchOf(c, w)
  <2>1. Request(c, o) = p
    BY <1>1 DEF Request
  <2>2. /\ p.from = c /\ p.service = w[1] /\ p.role = w[2] /\ p.internal_ep = Internal[c]
        /\ p.reflected_port = Reflected[c]
    BY DEF FetchOf
  <2> HIDE DEF w, p
  <2>3. w = <<w[1], w[2]>> /\ w \in a[c]
    BY DEF w
  <2> QED
    BY <2>1, <2>2, <2>3 DEF RequestRight, Own
<1>2. CASE o.knows # 2
  <2>1. Request(c, o).from = c /\ Request(c, o).method \in {"reflect", "get_reflector"}
    BY <1>2, SMTT(20) DEF Request, Plain
  <2> QED
    BY <2>1 DEF RequestRight
<1> QED
  BY <1>1, <1>2

\* A client is made.
LEMMA CreateOK ==
  ASSUME RInv, NEW c \in Clients, Create(c)
  PROVE  RInv'
<1> DEFINE o    == client[c]
           want == scope.wants[c][o.lives + 1]
           new  == Object(want, IF o.lives = 0 THEN o.knows ELSE 0, o.lives + 1)
<1>1. /\ client' = [client EXCEPT ![c] = new]
      /\ asked' = [asked EXCEPT ![c] = asked[c] \cup {want}]
      /\ requests' = requests \cup {Request(c, new)}
      /\ UNCHANGED serverVars /\ scope' = scope /\ replies' = replies
      /\ o.lives < Len(scope.wants[c])
  BY DEF Create
<1>2. want \in Services \X Roles
  <2> DEFINE ws == scope.wants[c]
             k  == o.lives + 1
  <2>1. ws \in Seq(Services \X Roles) /\ o.lives \in Nat
    BY ClientAssumption, Zenon DEF RInv, ClientRight
  <2>2. k \in 1..Len(ws)
    BY <1>1, <2>1
  <2> HIDE DEF ws, k
  <2>3. ws[k] \in Services \X Roles
    BY <2>1, <2>2, SMTT(20)
  <2> QED
    BY <2>3 DEF ws, k
<1>3. /\ asked' \in [Clients -> SUBSET (Services \X Roles)]
      /\ \A d \in Clients : asked[d] \subseteq asked'[d]
      /\ want \in asked'[c]
  <2>1. asked \in [Clients -> SUBSET (Services \X Roles)]
    BY DEF RInv
  <2>2. asked' = [asked EXCEPT ![c] = asked[c] \cup {want}]
    BY <1>1
  <2> HIDE DEF want
  <2> QED
    BY <1>2, <2>1, <2>2
<1>4. o.lives + 1 \in Nat
  <2>1. o.lives \in Nat
    BY Zenon DEF RInv, ClientRight
  <2> QED
    BY <2>1
<1> HIDE DEF want
<1>5. /\ DOMAIN new = Fields /\ new.handler = TRUE /\ new.recv = "waiting" /\ new.told = <<>>
      /\ new.posted = <<>> /\ new.want = want /\ new.lives = o.lives + 1
  BY DEF Object, Fields
<1> HIDE DEF o, new
<1>6. ClientRight(asked', c, new)
  BY <1>3, <1>4, <1>5, Zenon DEF ClientRight, Tells
<1>7. RequestRight(asked', Request(c, new))
  BY <1>2, <1>3, <1>5, RequestOwn
<1>8. /\ \A d \in Clients : \A s : Tells(asked, d, s) => Tells(asked', d, s)
      /\ \A p : GoodReply(asked, p) => GoodReply(asked', p)
      /\ \A ep, s : EntryRight(asked, ep, s) => EntryRight(asked', ep, s)
      /\ \A p : RequestRight(asked, p) => RequestRight(asked', p)
  BY <1>3, AskedMore
<1>9. ASSUME NEW d \in Clients PROVE ClientRight(asked', d, client'[d])
  <2>1. CASE d = c
    BY <1>1, <1>6, <2>1 DEF RInv
  <2>2. CASE d # c
    <3>1. ClientRight(asked, d, client[d]) /\ client'[d] = client[d]
      BY <1>1, <2>2 DEF RInv
    <3> QED
      BY <1>3, <1>8, <3>1, Zenon DEF ClientRight
  <2> QED
    BY <2>1, <2>2
<1>10. /\ \A p \in requests' : RequestRight(asked', p)
       /\ \A p \in replies' : GoodReply(asked', p)
  BY <1>1, <1>7, <1>8, Zenon DEF RInv
<1>11. Inv' /\ Served(asked, ep_to_service', tx_queue')
  BY <1>1, ServerIdle
<1>12. DOMAIN client' = Clients /\ scope' \in Scopes
  BY <1>1 DEF RInv
<1>13. /\ \A ep \in Endpoints : EntryRight(asked', ep, ep_to_service'[ep])
       /\ tx_queue' \in Seq(Answers)
       /\ \A i \in 1..Len(tx_queue') : GoodReply(asked', tx_queue'[i])
  BY <1>8, <1>11 DEF Served
<1> QED
  BY <1>3, <1>9, <1>10, <1>11, <1>12, <1>13, SMTT(20) DEF RInv

\* A client sends again.
LEMMA ResendOK ==
  ASSUME RInv, NEW c \in Clients, Resend(c)
  PROVE  RInv'
<1> DEFINE o == client[c]
<1>1. /\ o.life = "alive" /\ requests' = requests \cup {Request(c, o)}
      /\ UNCHANGED serverVars /\ scope' = scope /\ asked' = asked /\ client' = client
      /\ replies' = replies
  BY SMTT(20) DEF Resend, clientVars
<1>2. o.want \in asked[c] /\ o.want \in Services \X Roles
  BY <1>1 DEF RInv, ClientRight
<1>3. RequestRight(asked, Request(c, o))
  BY <1>2, RequestOwn
<1>4. Inv' /\ Served(asked, ep_to_service', tx_queue')
  BY <1>1, ServerIdle
<1>5. /\ \A p \in requests' : RequestRight(asked, p)
      /\ \A p \in replies' : GoodReply(asked, p)
      /\ DOMAIN client' = Clients /\ \A d \in Clients : ClientRight(asked, d, client'[d])
  BY <1>1, <1>3 DEF RInv
<1> QED
  BY <1>1, <1>4, <1>5, Kept

\* A packet arrives.
LEMMA ArriveOK ==
  ASSUME RInv, NEW c \in Clients, Arrive(c)
  PROVE  RInv'
<1> DEFINE o == client[c]
<1>1. PICK p \in replies :
        /\ p.to = External[c] /\ replies' \subseteq replies
        /\ client' = [client EXCEPT ![c].recv = "queued", ![c].packet = p]
  BY Zenon DEF Arrive
<1>2. /\ o.recv = "waiting" /\ UNCHANGED serverVars /\ scope' = scope /\ asked' = asked
      /\ requests' = requests
  BY DEF Arrive
<1> DEFINE n == [o EXCEPT !.recv = "queued", !.packet = p]
<1>3. ClientRight(asked, c, o) /\ GoodReply(asked, p) /\ DOMAIN client = Clients
  BY DEF RInv
<1>4. client' = [client EXCEPT ![c] = n]
  BY <1>1, <1>3, Zenon
<1> HIDE DEF o
<1>5. /\ DOMAIN n = Fields /\ n.handler = o.handler /\ n.recv = "queued" /\ n.told = o.told
      /\ n.posted = o.posted /\ n.want = o.want /\ n.lives = o.lives /\ n.life = o.life
      /\ n.packet = p
  BY <1>3 DEF ClientRight, Fields
<1> HIDE DEF n
<1>6. ClientRight(asked, c, n)
  BY <1>1, <1>2, <1>3, <1>5 DEF ClientRight
<1>7. /\ \A q \in requests' : RequestRight(asked, q)
      /\ \A q \in replies' : GoodReply(asked, q)
  BY <1>1, <1>2 DEF RInv
<1> QED
  BY <1>2, <1>4, <1>6, <1>7, ClientChange, Zenon

\* The handler is taken with something that is right.
LEMMA ExecRight ==
  ASSUME NEW a, NEW c \in Clients, NEW o, ClientRight(a, c, o), o.handler,
         NEW error, NEW ep, NEW is_sym, Right(a, c, [error |-> error, ep |-> ep])
  PROVE  ClientRight(a, c, [exec(o, error, ep, is_sym) EXCEPT !.packet = NoReply])
<1> DEFINE r == [error |-> error, ep |-> ep]
           e == exec(o, error, ep, is_sym)
           n == [e EXCEPT !.packet = NoReply]
<1>1. /\ DOMAIN o = Fields /\ o.lives \in Nat /\ o.told = <<>> /\ o.posted = <<>>
      /\ o.life = "alive" => o.want \in a[c]
  BY DEF ClientRight
<1>2. r = [error |-> r.error, ep |-> r.ep] /\ Right(a, c, r) /\ Append(<<>>, r) = <<r>>
  OBVIOUS
<1>3. e = [o EXCEPT !.recv = "none", !.handler = FALSE,
                    !.posted = IF is_sym = 1 THEN Append(o.posted, r) ELSE o.posted,
                    !.told = IF is_sym = 1 THEN o.told ELSE Append(o.told, r)]
  BY <1>1 DEF exec, Fields
<1> HIDE DEF r, e
<1>4. /\ DOMAIN e = Fields /\ e.lives = o.lives /\ e.life = o.life /\ e.want = o.want
      /\ e.recv = "none" /\ e.handler = FALSE
      /\ e.told = IF is_sym = 1 THEN o.told ELSE Append(o.told, r)
      /\ e.posted = IF is_sym = 1 THEN Append(o.posted, r) ELSE o.posted
  BY <1>1, <1>3 DEF Fields
<1>5. /\ DOMAIN n = Fields /\ n.lives = o.lives /\ n.life = o.life /\ n.want = o.want
      /\ n.recv = "none" /\ n.handler = FALSE
      /\ n.told = IF is_sym = 1 THEN <<>> ELSE <<r>>
      /\ n.posted = IF is_sym = 1 THEN <<r>> ELSE <<>>
  BY <1>1, <1>2, <1>4 DEF Fields
<1> HIDE DEF n
<1>6. Tells(a, c, <<>>) /\ Tells(a, c, <<r>>)
  BY <1>2 DEF Tells
<1>7. ClientRight(a, c, n)
  BY <1>1, <1>5, <1>6, Zenon DEF ClientRight
<1> QED
  BY <1>7 DEF n, e

\* A client learns, and receives again.
LEMMA LearntRight ==
  ASSUME NEW a, NEW c \in Clients, NEW o, ClientRight(a, c, o), o.handler, NEW knows
  PROVE  ClientRight(a, c, [Learnt(o, knows) EXCEPT !.packet = NoReply])
<1> DEFINE e == Learnt(o, knows)
           k == Max({o.knows, knows})
           n == [e EXCEPT !.packet = NoReply]
<1>1. DOMAIN o = Fields
  BY DEF ClientRight
<1>2. e = [o EXCEPT !.recv = "waiting", !.knows = k]
  BY <1>1 DEF Learnt, Fields
<1> HIDE DEF e, k
<1>3. /\ DOMAIN e = Fields /\ e.lives = o.lives /\ e.life = o.life /\ e.want = o.want
      /\ e.recv = "waiting" /\ e.handler = o.handler /\ e.told = o.told /\ e.posted = o.posted
  BY <1>1, <1>2, Zenon DEF Fields
<1>4. /\ DOMAIN n = Fields /\ n.lives = o.lives /\ n.life = o.life /\ n.want = o.want
      /\ n.recv = "waiting" /\ n.handler = o.handler /\ n.told = o.told /\ n.posted = o.posted
  BY <1>3, Zenon DEF Fields
<1> HIDE DEF n
<1>5. ClientRight(a, c, n)
  BY <1>4 DEF ClientRight
<1> QED
  BY <1>5 DEF n, e

\* The handler of the receive.
LEMMA OnRecvOK ==
  ASSUME RInv, NEW c \in Clients, on_recv(c)
  PROVE  RInv'
<1> DEFINE o == client[c]
           p == o.packet
           n == [Received(o) EXCEPT !.packet = NoReply]
<1>1. /\ o.recv = "queued" /\ client' = [client EXCEPT ![c] = n]
      /\ UNCHANGED serverVars /\ scope' = scope /\ asked' = asked
      /\ requests' = requests /\ replies' = replies
  BY DEF on_recv
<1>2. ClientRight(asked, c, o) /\ o.handler
  BY <1>1 DEF RInv, ClientRight
<1> HIDE DEF o
<1>3. ASSUME NEW error PROVE Right(asked, c, [error |-> error, ep |-> NoEp])
  BY DEF Right
<1>4. CASE o.life = "destroyed" \/ o.error # "success"
  <2>1. Received(o) = exec(o, o.error, NoEp, 0)
    BY <1>4 DEF Received
  <2>2. ClientRight(asked, c, [exec(o, o.error, NoEp, 0) EXCEPT !.packet = NoReply])
    BY <1>2, <1>3, ExecRight, Zenon
  <2> QED
    BY <1>1, <2>1, <2>2, ClientChange, Zenon DEF RInv
<1>5. CASE ~(o.life = "destroyed" \/ o.error # "success")
  <2>1. GoodReply(asked, p) /\ p.to = External[c]
    BY <1>1, <1>2, <1>5 DEF ClientRight
  <2>2. p.method \in {"unsupported", "reflector", "reflected", "match"}
    BY <2>1 DEF GoodReply, Answers
  <2>3. CASE p.method = "unsupported"
    <3>1. Received(o) = exec(o, "no_protocol_option", NoEp, 0)
      BY <1>5, <2>3 DEF Received
    <3>2. ClientRight(asked, c, [exec(o, "no_protocol_option", NoEp, 0) EXCEPT !.packet = NoReply])
      BY <1>2, <1>3, ExecRight, Zenon
    <3> QED
      BY <1>1, <3>1, <3>2, ClientChange, Zenon DEF RInv
  <2>4. CASE p.method \in {"reflector", "reflected"}
    <3>1. \E k : Received(o) = Learnt(o, k)
      BY <1>5, <2>4 DEF Received
    <3>2. PICK k : Received(o) = Learnt(o, k)
      BY <3>1
    <3>3. ClientRight(asked, c, [Learnt(o, k) EXCEPT !.packet = NoReply])
      BY <1>2, LearntRight
    <3> QED
      BY <1>1, <3>2, <3>3, ClientChange, Zenon DEF RInv
  <2>5. CASE p.method = "match"
    <3>1. Received(o) = exec(o, "success", Peer(p), p.is_sym)
      BY <1>5, <2>5 DEF Received
    <3>2. Right(asked, c, [error |-> "success", ep |-> Peer(p)])
      BY <2>1, <2>5 DEF GoodReply, Right
    <3> DEFINE ep == Peer(p)
               is_sym == p.is_sym
    <3> HIDE DEF ep, is_sym
    <3>3. ClientRight(asked, c, [exec(o, "success", ep, is_sym) EXCEPT !.packet = NoReply])
      BY <1>2, <3>2, ExecRight DEF ep
    <3>4. n = [exec(o, "success", ep, is_sym) EXCEPT !.packet = NoReply]
      BY <3>1 DEF ep, is_sym
    <3> QED
      BY <1>1, <3>3, <3>4, ClientChange, Zenon DEF RInv
  <2> QED
    BY <2>2, <2>3, <2>4, <2>5
<1> QED
  BY <1>4, <1>5

\* The timer of exec.
LEMMA CallHandlerOK ==
  ASSUME RInv, NEW c \in Clients, CallHandler(c)
  PROVE  RInv'
<1> DEFINE o == client[c]
           h == Head(o.posted)
<1>1. PICK error : error \in {h.error, "aborted"} /\
        client' = [client EXCEPT ![c].posted = <<>>, ![c].told = Append(@, [h EXCEPT !.error = error])]
  BY Zenon DEF CallHandler
<1>2. /\ o.posted # <<>> /\ UNCHANGED serverVars /\ scope' = scope /\ asked' = asked
      /\ requests' = requests /\ replies' = replies
  BY DEF CallHandler
<1> DEFINE t == Append(o.told, [h EXCEPT !.error = error])
           n == [o EXCEPT !.posted = <<>>, !.told = t]
<1>3. ClientRight(asked, c, o) /\ DOMAIN client = Clients
  BY DEF RInv
<1>4. client' = [client EXCEPT ![c] = n]
  BY <1>1, <1>3 DEF ClientRight, Fields
<1> HIDE DEF o
<1>5. PICK r : o.posted = <<r>> /\ r = [error |-> r.error, ep |-> r.ep] /\ Right(asked, c, r)
  BY <1>2, <1>3 DEF ClientRight, Tells
<1>6. o.told = <<>> /\ ~o.handler
  BY <1>2, <1>3 DEF ClientRight
<1>7. h = r
  BY <1>5
<1> DEFINE x == [error |-> error, ep |-> r.ep]
<1>8. x = [error |-> x.error, ep |-> x.ep] /\ Right(asked, c, x)
  BY <1>1, <1>5, <1>7 DEF Right
<1>9. [h EXCEPT !.error = error] = x
  BY <1>5, <1>7
<1> HIDE DEF x, h
<1>10. t = <<x>>
  BY <1>6, <1>9
<1> HIDE DEF t
<1>11. /\ DOMAIN n = Fields /\ n.lives = o.lives /\ n.life = o.life /\ n.want = o.want
       /\ n.recv = o.recv /\ n.handler = o.handler /\ n.posted = <<>> /\ n.told = t
       /\ n.error = o.error /\ n.packet = o.packet
  BY <1>3 DEF ClientRight, Fields
<1> HIDE DEF n
<1>12. Tells(asked, c, <<>>) /\ Tells(asked, c, t)
  BY <1>8, <1>10 DEF Tells
<1>13. ClientRight(asked, c, n)
  BY <1>3, <1>6, <1>11, <1>12 DEF ClientRight
<1> QED
  BY <1>2, <1>4, <1>13, ClientChange, Zenon DEF RInv

\* A client is destroyed.
LEMMA DestroyOK ==
  ASSUME RInv, NEW c \in Clients, Destroy(c)
  PROVE  RInv'
<1> DEFINE o == client[c]
           n == Destroyed(o)
<1>1. /\ client' = [client EXCEPT ![c] = n]
      /\ requests' \in {requests, requests \cup {CloseOf(c)}}
      /\ UNCHANGED serverVars /\ scope' = scope /\ asked' = asked /\ replies' = replies
  BY DEF Destroy
<1>2. ClientRight(asked, c, o)
  BY DEF RInv
<1> HIDE DEF o
<1>3. /\ DOMAIN n = Fields /\ n.lives = o.lives /\ n.life = "destroyed" /\ n.handler = o.handler
      /\ n.posted = o.posted /\ n.told = o.told
      /\ (n.recv = "none" <=> o.recv = "none")
  BY <1>2 DEF ClientRight, Fields, Destroyed
<1> HIDE DEF n
<1>4. ClientRight(asked, c, n)
  BY <1>2, <1>3 DEF ClientRight
<1>5. RequestRight(asked, CloseOf(c))
  BY DEF RequestRight, CloseOf, Plain
<1>6. /\ \A q \in requests' : RequestRight(asked, q)
      /\ \A q \in replies' : GoodReply(asked, q)
  BY <1>1, <1>5 DEF RInv
<1> QED
  BY <1>1, <1>4, <1>6, ClientChange, Zenon

\* The clients, requests and replies that are left alone.
LEMMA OthersKept ==
  ASSUME RInv, client' = client, asked' = asked, requests' \subseteq requests, replies' \subseteq replies
  PROVE  /\ DOMAIN client' = Clients
         /\ \A c \in Clients : ClientRight(asked, c, client'[c])
         /\ \A p \in requests' : RequestRight(asked, p)
         /\ \A p \in replies' : GoodReply(asked, p)
BY DEF RInv

\* The server takes a packet.
LEMMA ServeOK ==
  ASSUME RInv, NEW c \in Clients, Serve(c)
  PROVE  RInv'
<1>1. PICK p \in requests : p.from = c /\ on_receive(External[c], p) /\ requests' \subseteq requests
  BY DEF Serve, Taken
<1>2. scope' = scope /\ client' = client /\ asked' = asked /\ replies' = replies
  BY DEF Serve, clientVars
<1>3. RequestRight(asked, p) /\ on_receive(External[p.from], p)
  BY <1>1, Zenon DEF RInv
<1>4. Inv' /\ Served(asked, ep_to_service', tx_queue')
  BY <1>3, ServedRight
<1> QED
  BY <1>1, <1>2, <1>4, OthersKept, Kept, Zenon

\* The reflector answers.
LEMMA ReflectOK ==
  ASSUME RInv, NEW c \in Clients, Reflect(c)
  PROVE  RInv'
<1> DEFINE r == [to |-> External[c], version |-> Version, method |-> "reflected"]
<1>1. replies' = replies \cup {r} /\ requests' \subseteq requests
  BY DEF Reflect, Taken
<1>2. scope' = scope /\ client' = client /\ asked' = asked /\ UNCHANGED serverVars
  BY DEF Reflect, clientVars
<1>3. GoodReply(asked, r)
  BY ClientAssumption DEF GoodReply, Answers
<1> HIDE DEF r
<1>4. Inv' /\ Served(asked, ep_to_service', tx_queue')
  BY <1>2, ServerIdle
<1>5. /\ DOMAIN client' = Clients
      /\ \A d \in Clients : ClientRight(asked, d, client'[d])
      /\ \A p \in requests' : RequestRight(asked, p)
      /\ \A p \in replies' : GoodReply(asked, p)
  BY <1>1, <1>2, <1>3 DEF RInv
<1> QED
  BY <1>2, <1>4, <1>5, Kept

\* The server sends.
LEMMA SendOK ==
  ASSUME RInv, Send
  PROVE  RInv'
<1> DEFINE q == tx_queue
<1>1. /\ q # <<>> /\ tx_queue' = Tail(q) /\ replies' \subseteq replies \cup {Head(q)}
      /\ ep_to_service' = ep_to_service /\ service_to_endpoints' = service_to_endpoints
      /\ scope' = scope /\ client' = client /\ asked' = asked /\ requests' = requests
  BY DEF Send, Transmit, clientVars
<1>2. q \in Seq(Answers) /\ \A i \in 1..Len(q) : GoodReply(asked, q[i])
  BY DEF RInv
<1> HIDE DEF q
<1>3. /\ Head(q) = q[1] /\ Len(q) \in Nat /\ 1 \in 1..Len(q)
      /\ Tail(q) \in Seq(Answers) /\ Len(Tail(q)) = Len(q) - 1
      /\ \A i \in 1..(Len(q) - 1) : Tail(q)[i] = q[i + 1]
  BY <1>1, <1>2
<1>4. \A i \in 1..Len(Tail(q)) : GoodReply(asked, Tail(q)[i])
  <2>1. \A i \in 1..(Len(q) - 1) : i + 1 \in 1..Len(q)
    BY <1>3
  <2> QED
    BY <1>2, <1>3, <2>1
<1>5. Inv' /\ Served(asked, ep_to_service', tx_queue')
  BY <1>1, <1>3, <1>4, Zenon DEF RInv, Inv, NoneMatchable, Served
<1>6. GoodReply(asked, Head(q))
  BY <1>2, <1>3
<1>7. /\ DOMAIN client' = Clients
      /\ \A d \in Clients : ClientRight(asked, d, client'[d])
      /\ \A p \in requests' : RequestRight(asked, p)
      /\ \A p \in replies' : GoodReply(asked, p)
  BY <1>1, <1>6 DEF RInv
<1> QED
  BY <1>1, <1>5, <1>7, Kept

\* A dead man's switch.
LEMMA ExpireOK ==
  ASSUME RInv, NEW c \in Clients, Expire(c)
  PROVE  RInv'
<1>1. forget(External[c]) /\ tx_queue' = tx_queue
  BY DEF Expire, on_expire
<1>2. /\ scope' = scope /\ client' = client /\ asked' = asked /\ requests' = requests
      /\ replies' = replies
  BY DEF Expire, clientVars
<1>3. External[c] \in Endpoints
  BY ClientAssumption
<1>4. Inv'
  BY <1>1, <1>3, ForgetStep DEF RInv
<1>5. \A e \in Endpoints : EntryRight(asked, e, ep_to_service'[e])
  BY <1>1, <1>3, ForgetRight
<1>6. Served(asked, ep_to_service', tx_queue')
  BY <1>1, <1>5 DEF Served, RInv
<1> QED
  BY <1>2, <1>4, <1>6, OthersKept, Kept

\* A packet is lost.
LEMMA LoseOK ==
  ASSUME RInv, Lose
  PROVE  RInv'
<1>1. /\ requests' \subseteq requests /\ replies' \subseteq replies
      /\ scope' = scope /\ client' = client /\ asked' = asked /\ UNCHANGED serverVars
  BY DEF Lose, clientVars
<1>2. Inv' /\ Served(asked, ep_to_service', tx_queue')
  BY <1>1, ServerIdle
<1> QED
  BY <1>1, <1>2, OthersKept, Kept

\* RInv holds in the initial states.
LEMMA RendezvousInit == Init => RInv
<1> SUFFICES ASSUME Init PROVE RInv
  OBVIOUS
<1>1. /\ ServerInit /\ scope \in Scopes /\ asked = [c \in Clients |-> {}]
      /\ requests = scope.strays /\ replies = {}
      /\ client = [c \in Clients |-> NoObject(scope.knows[c])]
  BY DEF Init
<1>2. Inv
  BY <1>1 DEF ServerInit, Inv, Agree, NoneMatchable
<1>3. \A ep \in Endpoints : EntryRight(asked, ep, ep_to_service[ep])
  BY <1>1 DEF ServerInit, EntryRight
<1>4. tx_queue = <<>> /\ tx_queue \in Seq(Answers) /\ Len(tx_queue) = 0
  BY <1>1 DEF ServerInit
<1>5. ASSUME NEW c \in Clients PROVE ClientRight(asked, c, client[c])
  <2> DEFINE k == scope.knows[c]
             b == Object(<<NoService, "guest">>, k, 0)
             o == NoObject(k)
  <2>1. /\ DOMAIN b = Fields /\ b.lives = 0 /\ b.told = <<>> /\ b.posted = <<>>
    BY DEF Object, Fields
  <2>2. o = [b EXCEPT !.life = "none", !.handler = FALSE, !.recv = "none"]
    BY DEF NoObject
  <2> HIDE DEF b
  <2>3. /\ DOMAIN o = Fields /\ o.lives = 0 /\ o.told = <<>> /\ o.posted = <<>>
        /\ o.life = "none" /\ o.handler = FALSE /\ o.recv = "none"
    BY <2>1, <2>2 DEF Fields
  <2> HIDE DEF o
  <2>4. ClientRight(asked, c, o)
    <3>1. Tells(asked, c, o.told) /\ Tells(asked, c, o.posted)
      BY <2>3, Zenon DEF Tells
    <3>2. o.lives \in Nat
      BY <2>3
    <3> QED
      BY <2>3, <3>1, <3>2, Zenon DEF ClientRight
  <2>5. client[c] = o
    BY <1>1 DEF o
  <2> QED
    BY <2>4, <2>5
<1>6. asked \in [Clients -> SUBSET (Services \X Roles)] /\ DOMAIN client = Clients
  BY <1>1
<1>7. \A i \in 1..Len(tx_queue) : GoodReply(asked, tx_queue[i])
  BY <1>4
<1>8. \A p \in requests : RequestRight(asked, p)
  <2>1. requests \subseteq [at : {"server"}, from : Clients, version : Versions,
                            method : {"empty", "invalid"}]
    BY <1>1, ClientAssumption
  <2> QED
    BY <2>1 DEF RequestRight
<1> QED
  BY <1>1, <1>2, <1>3, <1>4, <1>5, <1>6, <1>7, <1>8, Zenon DEF RInv

\* Every step preserves it.
LEMMA RendezvousNext == RInv /\ [Next]_vars => RInv'
<1> SUFFICES ASSUME RInv, [Next]_vars PROVE RInv'
  OBVIOUS
<1>1. CASE UNCHANGED vars
  <2>1. /\ UNCHANGED serverVars /\ scope' = scope /\ client' = client /\ asked' = asked
        /\ requests' = requests /\ replies' = replies
    BY <1>1 DEF vars
  <2>2. Inv' /\ Served(asked, ep_to_service', tx_queue')
    BY <2>1, ServerIdle
  <2> QED
    BY <2>1, <2>2, OthersKept, Kept
<1>2. ASSUME NEW c \in Clients,
             \/ Create(c) \/ Resend(c) \/ Arrive(c) \/ on_recv(c) \/ CallHandler(c)
             \/ Destroy(c) \/ Expire(c) \/ Serve(c) \/ Reflect(c)
      PROVE  RInv'
  BY <1>2, CreateOK, ResendOK, ArriveOK, OnRecvOK, CallHandlerOK, DestroyOK, ExpireOK, ServeOK, ReflectOK
<1>3. CASE Send \/ Lose
  BY <1>3, SendOK, LoseOK
<1> QED
  BY <1>1, <1>2, <1>3 DEF Next

\* The endpoint a client is told is the way to another client that asked for the same
\* service, and not as a host if this one did: whatever packets are lost, repeated and
\* delayed, a stale entry or fetch of an earlier object of a client included.
THEOREM RightPeer == Spec => []MatchedRight
<1>1. RInv => MatchedRight
  <2> SUFFICES ASSUME RInv, NEW c \in Clients, NEW i \in DOMAIN client[c].told,
                      client[c].told[i].error = "success", client[c].told[i].ep # NoEp
               PROVE  Way(asked, c, client[c].told[i].ep)
    BY SMTT(20) DEF MatchedRight, Way
  <2> DEFINE t == client[c].told
  <2>1. Tells(asked, c, t)
    BY DEF RInv, ClientRight
  <2> HIDE DEF t
  <2>2. t # <<>>
    BY DEF t
  <2>3. PICK r : t = <<r>> /\ Right(asked, c, r)
    BY <2>1, <2>2 DEF Tells
  <2>4. t[i] = r
    BY <2>3 DEF t
  <2> QED
    BY <2>3, <2>4 DEF Right, t
<1> QED
  BY <1>1, RendezvousInit, RendezvousNext, PTL DEF Spec

\* The user's handler is called once, and a client does not receive any more from the
\* socket that it has given away: the match that arrives again, the timer of exec and the
\* destructor do not meet there.
THEOREM HandlerOnce == Spec => []ToldOnce
<1>1. RInv => ToldOnce
  <2> SUFFICES ASSUME RInv, NEW c \in Clients, NEW o, o = client[c]
               PROVE  Len(o.told) + Len(o.posted) <= 1 /\ (o.told # <<>> => o.recv = "none")
    BY Zenon DEF ToldOnce
  <2>1. ClientRight(asked, c, o)
    BY DEF RInv
  <2>2. (o.told = <<>> \/ o.posted = <<>>) /\ (o.told # <<>> => o.recv = "none")
    BY <2>1 DEF ClientRight
  <2>3. ASSUME NEW s, Tells(asked, c, s) PROVE Len(s) \in {0, 1} /\ (s = <<>> => Len(s) = 0)
    BY <2>3 DEF Tells
  <2>4. Len(o.told) \in {0, 1} /\ Len(o.posted) \in {0, 1}
        /\ (o.told = <<>> => Len(o.told) = 0) /\ (o.posted = <<>> => Len(o.posted) = 0)
    BY <2>1, <2>3 DEF ClientRight
  <2> DEFINE x == Len(o.told)
             y == Len(o.posted)
  <2>5. x \in {0, 1} /\ y \in {0, 1} /\ (x = 0 \/ y = 0)
    BY <2>2, <2>4, Zenon
  <2> HIDE DEF x, y
  <2>6. x + y <= 1
    BY <2>5
  <2> QED
    BY <2>2, <2>6, Zenon DEF x, y
<1> QED
  BY <1>1, RendezvousInit, RendezvousNext, PTL DEF Spec
===============================================================================
