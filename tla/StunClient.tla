------------------------------ MODULE StunClient ------------------------------
(***************************************************************************)
(* StunClient (src/club/stun_client.cpp): requests to several servers over *)
(* one socket.  There is one receive for all of them, kept going by a      *)
(* count of the requests; the destructor ends it with a datagram that it   *)
(* sends to its own socket.                                                *)
(***************************************************************************)
EXTENDS Integers, Sequences, FiniteSets

CONSTANTS
  Servers,
  Stranger,      \* where packets come from that no server sent
  MaxReflects,   \* bound: calls of reflect
  MaxNoise,      \* bound: packets and errors that are not good answers
  MaxInbox       \* bound: packets in the socket's buffer; more are lost

VARIABLES
  requests,      \* _state->requests: server and number of the call of reflect
  calls_made,    \* calls of reflect
  request_count, \* _request_count
  rx,            \* the receive: `op' "none", "waiting", or "queued" with a packet
  inbox,         \* the socket's buffer
  was_destroyed,
  posted,        \* handlers that Request::exec has posted, with the error
  answered,      \* calls of reflect whose handler was called
  dropped,       \* calls of reflect whose handler was dropped
  noise,         \* packets and errors that were not good answers
  unheard        \* calls of reflect that the code may leave without a receive

stunVars == <<requests, calls_made, request_count, rx, inbox, was_destroyed, posted,
              answered, dropped, noise, unheard>>

Packet(from, kind) == [from |-> from, kind |-> kind]
NoPacket == Packet(Stranger, "none")
Idle == [op |-> "none", packet |-> NoPacket]
Receiving == [op |-> "waiting", packet |-> NoPacket]

StunInit ==
  /\ requests = {} /\ calls_made = 0 /\ request_count = 0 /\ rx = Idle /\ inbox = <<>>
  /\ was_destroyed = FALSE /\ posted = <<>> /\ answered = {} /\ dropped = {}
  /\ noise = 0 /\ unheard = {}

RequestTo(server) == {r \in requests : r.to = server}

\* Request::exec
Posted(rs, error) ==
  LET seq[set \in SUBSET rs] ==
        IF set = {} THEN <<>>
        ELSE LET r == CHOOSE r \in set : \A o \in set : r.call <= o.call
             IN  <<[call |-> r.call, error |-> error]>> \o seq[set \ {r}]
  IN  posted \o seq[rs]

\* StunClient::reflect.  When there is a request to the server already it is
\* aborted, and the new one goes with it.
reflect(server) ==
  /\ calls_made < MaxReflects /\ ~was_destroyed
  /\ calls_made' = calls_made + 1
  /\ \/ /\ RequestTo(server) # {}
        /\ requests' = requests \ RequestTo(server)
        /\ posted' = Posted(RequestTo(server), "aborted")
        /\ dropped' = dropped \cup {calls_made'}
        /\ UNCHANGED <<request_count, rx>>
     \/ /\ RequestTo(server) = {}
        /\ requests' = requests \cup {[to |-> server, call |-> calls_made']}
        /\ request_count' = request_count + 1
        /\ rx' = IF request_count = 0 THEN Receiving ELSE rx
        /\ UNCHANGED <<posted, dropped>>
  /\ UNCHANGED <<inbox, was_destroyed, answered, noise, unheard>>

Buffered(packet) == IF Len(inbox) < MaxInbox THEN Append(inbox, packet) ELSE inbox

\* start_sending, on_send and the timer: the request is sent until it is answered.
Answer(server) ==
  /\ RequestTo(server) # {} /\ ~was_destroyed
  /\ inbox' = Buffered(Packet(server, "mapped"))
  /\ UNCHANGED <<requests, calls_made, request_count, rx, was_destroyed, posted, answered,
                 dropped, noise, unheard>>

\* A packet of a stranger, of another protocol ("plex"), an answer that is an error
\* or cannot be decoded ("fault"), or one without a usable address ("bare").
Disturb ==
  /\ noise < MaxNoise /\ noise' = noise + 1
  /\ \E p \in {Packet(Stranger, "mapped")} \cup
              {Packet(s, kind) : s \in Servers, kind \in {"plex", "fault", "bare"}} :
       inbox' = Buffered(p)
  /\ UNCHANGED <<requests, calls_made, request_count, rx, was_destroyed, posted, answered,
                 dropped, unheard>>

ReceivePacket ==
  /\ rx.op = "waiting" /\ inbox # <<>>
  /\ rx' = [op |-> "queued", packet |-> Head(inbox)]
  /\ inbox' = Tail(inbox)
  /\ UNCHANGED <<requests, calls_made, request_count, was_destroyed, posted, answered,
                 dropped, noise, unheard>>

ReceiveError ==
  /\ rx.op = "waiting" /\ noise < MaxNoise /\ noise' = noise + 1
  /\ rx' = [op |-> "queued", packet |-> Packet(Stranger, "error")]
  /\ UNCHANGED <<requests, calls_made, request_count, inbox, was_destroyed, posted, answered,
                 dropped, unheard>>

\* State::destroy_requests
destroy_requests(error) ==
  /\ requests' = {} /\ posted' = Posted(requests, error)
  /\ rx' = Idle
  /\ UNCHANGED request_count

\* Mutant: the receive goes on when no request is left.
CountedAlways == request_count' = request_count - 1 /\ rx' = Receiving

\* if (--_request_count) start_receiving
Counted ==
  /\ request_count' = request_count - 1
  /\ rx' = IF request_count # 1 THEN Receiving ELSE Idle

\* StunClient::execute
execute(rs, error) == requests' = requests \ rs /\ posted' = Posted(rs, error)

LaterCalls == (calls_made + 1)..MaxReflects

\* StunClient::on_recv.  A failed receive is not started again, and the count keeps
\* later requests from starting one.  An answer without a usable address is counted
\* but its request stays, so the count may end the receive of the others.
on_recv ==
  LET p  == rx.packet
      rs == RequestTo(p.from)
  IN  /\ rx.op = "queued"
      /\ \/ was_destroyed /\ destroy_requests("aborted") /\ UNCHANGED unheard
         \/ /\ ~was_destroyed /\ p.kind = "error"
            /\ destroy_requests("error") /\ unheard' = unheard \cup LaterCalls
         \/ /\ ~was_destroyed /\ p.kind # "error"
            /\ \/ /\ rs = {} \/ p.kind = "plex"
                  /\ rx' = Receiving
                  /\ UNCHANGED <<requests, request_count, posted, unheard>>
               \/ /\ rs # {} /\ p.kind = "fault"
                  /\ execute(rs, "fault") /\ Counted /\ UNCHANGED unheard
               \/ /\ rs # {} /\ p.kind = "mapped"
                  /\ execute(rs, "success") /\ Counted /\ UNCHANGED unheard
               \/ /\ rs # {} /\ p.kind = "bare"
                  /\ Counted /\ unheard' = unheard \cup LaterCalls \cup {r.call : r \in requests}
                  /\ UNCHANGED <<requests, posted>>
      /\ UNCHANGED <<calls_made, inbox, was_destroyed, answered, dropped, noise>>

\* Mutant: the receive is left to the next packet.
DestroySilently ==
  /\ ~was_destroyed /\ was_destroyed' = TRUE
  /\ UNCHANGED <<requests, calls_made, request_count, rx, inbox, posted, answered, dropped,
                 noise, unheard>>

\* The destructor.
destroy ==
  /\ ~was_destroyed /\ was_destroyed' = TRUE
  /\ inbox' = IF request_count # 0 THEN Buffered(Packet(Stranger, "wake")) ELSE inbox
  /\ UNCHANGED <<requests, calls_made, request_count, rx, posted, answered, dropped,
                 noise, unheard>>

\* The event loop calls a handler that was posted.
RunHandler ==
  /\ posted # <<>>
  /\ posted' = Tail(posted)
  /\ answered' = answered \cup {Head(posted).call}
  /\ UNCHANGED <<requests, calls_made, request_count, rx, inbox, was_destroyed, dropped,
                 noise, unheard>>

StunNext ==
  \/ \E s \in Servers : reflect(s) \/ Answer(s)
  \/ Disturb \/ ReceivePacket \/ ReceiveError \/ on_recv \/ destroy \/ RunHandler

\* The event loop goes on; a server answers a request that is sent again and again.
StunFairness ==
  /\ []<>~(rx.op = "waiting" /\ inbox # <<>>)
  /\ []<>(rx.op # "queued")
  /\ []<>(posted = <<>>)
Attended(s) == RequestTo(s) = {} \/ was_destroyed \/ \E i \in DOMAIN inbox : inbox[i].from = s
-------------------------------------------------------------------------------
\* The handler of reflect is called: with the answer of the server, with the error of
\* a failed receive, or because it is aborted by the next request to the server or by
\* the destructor.  Not so, in the code, in three cases, and only in these: a second
\* request to a server drops its own handler; after a failed receive no later call is
\* answered; and after an answer without a usable address those calls need not be that
\* are outstanding or made later.
EventuallyAnswered ==
  \A call \in 1..MaxReflects :
    calls_made >= call ~> call \in answered \cup dropped \cup unheard
===============================================================================
