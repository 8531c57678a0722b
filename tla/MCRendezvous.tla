---------------------------- MODULE MCRendezvous ----------------------------
(* Instances of Rendezvous for TLC: three clients, and what they want.     *)
EXTENDS Rendezvous, TLC

CONSTANTS c1, c2, c3

\* Client 1 has a NAT that maps ports by destination, close to the end of the port
\* range; clients 2 and 3 are behind the same one.
MCExternal == c1 :> [address |-> 1, port |-> 65533]
           @@ c2 :> [address |-> 2, port |-> 10]
           @@ c3 :> [address |-> 2, port |-> 20]
MCInternal == c1 :> [address |-> 7, port |-> 1]
           @@ c2 :> [address |-> 7, port |-> 2]
           @@ c3 :> [address |-> 7, port |-> 3]
MCReflected == c1 :> 65535 @@ c2 :> 10 @@ c3 :> 20

MCEndpoints == {MCExternal[c] : c \in {c1, c2, c3}}
MCInternalEps == {MCInternal[c] : c \in {c1, c2, c3}}

Guest == <<1, "guest">>
Host == <<1, "host">>

Base ==
  [wants |-> (c1 :> <<Guest>> @@ c2 :> <<Guest>> @@ c3 :> <<>>),
   knows |-> (c1 :> 2 @@ c2 :> 2 @@ c3 :> 2),
   killed |-> {}, faults |-> 0, speaks |-> Version, strays |-> {}, packets |-> 2]

Stray(c, method) ==
  [at |-> "server", from |-> c, version |-> Version, method |-> method]

\* Client 1 begins with the reflector; the other's endpoint has sent an empty message.
Pair == [Base EXCEPT !.knows[c1] = 0, !.strays = {Stray(c2, "empty")}]

\* A packet is lost or repeated, or an entry expires too early.
Faulty == [Base EXCEPT !.wants[c1] = <<Host>>, !.knows[c1] = 1, !.faults = 1]

\* Two hosts, and a guest.
Three == [Base EXCEPT !.wants = (c1 :> <<Host>> @@ c2 :> <<Host>> @@ c3 :> <<Guest>>),
                      !.packets = 1]

\* A host comes back for another service, while another one, whose endpoint has sent an
\* invalid message, waits for the first.
Again == [Base EXCEPT !.wants[c1] = <<Host, <<2, "host">>>>, !.wants[c2] = <<Host>>,
                      !.killed = {c1}, !.strays = {Stray(c2, "invalid")}]

\* The clients are older than the server.
Old == [Base EXCEPT !.knows = (c1 :> 0 @@ c2 :> 0 @@ c3 :> 0), !.speaks = Version - 1,
                    !.killed = {c1}]

\* Two hosts, which ask for the reflector and are destroyed.
Hosts == [Base EXCEPT !.wants = (c1 :> <<Host>> @@ c2 :> <<Host>> @@ c3 :> <<>>),
                      !.knows = (c1 :> 0 @@ c2 :> 0 @@ c3 :> 0), !.killed = {c1, c2}]
HostScopes == {Hosts}

AllScopes == {Pair, Faulty, Three, Again, Old}
==============================================================================
