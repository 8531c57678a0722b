-------------------------------- MODULE Socket --------------------------------
(***************************************************************************)
(* Two connected sockets (include/club/socket.h) over UDP: reliable        *)
(* messages are retransmitted, reassembled, acknowledged and delivered in  *)
(* order; unreliable ones are sent once; the network loses, duplicates and *)
(* reorders packets.  Handlers run on the strand of their socket, one      *)
(* after the other.                                                        *)
(*                                                                         *)
(* sock[n] is the SocketImpl:                                              *)
(*   state      of the UDP socket: "new" until the hole is punched         *)
(*   send       _send_state                                                *)
(*   recv       is an async_receive_from outstanding; rx is the packet it  *)
(*              was completed with when the socket was closed              *)
(*   queue      _transmit_queue                                            *)
(*   next, unext            _next_reliable_sn, _next_unreliable_sn         *)
(*   sync, last, ulast      _sync and its two sequence numbers             *)
(*   pending, upending      _pending_reliable_messages and the optional    *)
(*                          _pending_unreliable_message                    *)
(*   ids, peer_ids          the AckSet of what was received, and the last  *)
(*                          one that the peer sent                         *)
(*   acks       "owed" while there are packets to acknowledge (_qos._acks) *)
(*   window     "tight" when the packets in flight may fill _cwnd, "open"  *)
(*              when they do not, "ample" when they never do               *)
(*   on_reliable, on_unreliable, on_send, on_flush   the handlers          *)
(*   alarms     the running ones                                           *)
(* and, to state the properties, the payloads passed to send_reliable and  *)
(* send_unreliable (sent, usent) and to the receive handlers (got, ugot),  *)
(* and the flushes that were reported, each with the number of reliable    *)
(* messages before it.  `out' are the packets the running handler has      *)
(* sent.                                                                   *)
(*                                                                         *)
(* Abstracted data: a payload is a sequence of units of unspecified size,  *)
(* each marked with the message it belongs to.  Where a packet is full is  *)
(* therefore a choice, as is whether the bytes in flight fill the window   *)
(* once a packet is out.  Clocks are choices too.                          *)
(***************************************************************************)
EXTENDS AckSet, PartInfo, CyclicQueue, FiniteSets

CONSTANTS
  Scopes   \* the bounds to explore; a behaviour keeps to one of them

Ends == {1, 2}
Other(n) == 3 - n

ASSUME SocketAssumption ==
  \A c \in Scopes :
    /\ c.sizes \subseteq Nat
    /\ c.kinds \subseteq {"again", "once", "close"}
    /\ c.reliable \in [Ends -> Nat] /\ c.unreliable \in [Ends -> Nat]
    /\ \A n \in Ends :      \* no sequence number wraps around
         c.reliable[n] < Modulus - 1 /\ c.unreliable[n] < Modulus - 1
    /\ c.slow \cup c.keepers \cup c.closers \cup c.unheard \subseteq Ends
    /\ c.faults \subseteq {"lose", "duplicate"}
    /\ c.wire \in Nat \ {0}

VARIABLES
  scope,
  sock,
  wire    \* wire[n]: packets on their way to n

vars == <<scope, sock, wire>>

Sizes == scope.sizes               \* sizes of messages, in units
Kinds == scope.kinds               \* what receive handlers do: "again" registers itself
                                   \* again, "once" does not, "close" closes the socket
MaxReliable == scope.reliable      \* calls of send_reliable of each socket
MaxUnreliable == scope.unreliable  \* calls of send_unreliable of each socket
Slow == scope.slow                 \* sockets whose sends take time and whose window may
                                   \* fill; the others' sends complete at once
Keepers == scope.keepers           \* sockets whose keepalive alarm expires
Closers == scope.closers           \* sockets whose owner may close them
Unheard == scope.unheard           \* sockets whose receive timeout may expire
Faults == scope.faults             \* what the network does: "lose", "duplicate"
MaxWire == scope.wire              \* packets on their way to a socket; for more, one is lost

MostReliable(n) == Max({c.reliable[n] : c \in Scopes})
-------------------------------------------------------------------------------
(* Messages.                                                               *)

Payload(id, size) == [i \in 1..size |-> id]

\* OutMessage with the last_sent_time of its entry in the transmit queue, of
\* which only matters whether it lies within the last two round trips.
OutMessage(resend, type, sn, payload) ==
  [resend |-> resend, type |-> type, sn |-> sn, payload |-> payload,
   done |-> 0, recent |-> FALSE]

fully_sent(e) == e.done = Len(e.payload)

\* encode(OutMessage): the part that starts where the last one ended, with
\* `count' units.
Start(e) == IF fully_sent(e) THEN 0 ELSE e.done
Part(e, count) ==
  [type |-> e.type, sn |-> e.sn, size |-> Len(e.payload), start |-> Start(e),
   data |-> SubSeq(e.payload, Start(e) + 1, Start(e) + count)]
Rest(e) == Len(e.payload) - Start(e)

\* InMessagePart::is_complete
is_complete(m) == m.start = 0 /\ Len(m.data) = m.size

\* Mutant: the part seems to start one unit earlier.
PendingEarly(m) ==
  [sn |-> m.sn, size |-> m.size, data |-> [i \in 1..m.size |-> m.sn],
   parts |-> add_part(NoParts, m.start - 1, m.start + Len(m.data) - 1)]

\* PendingMessage: a buffer and the parts of it that have arrived.
PendingMessage(m) ==
  [sn    |-> m.sn,
   size  |-> m.size,
   data  |-> [i \in 1..m.size |->
                IF i \in (m.start + 1)..(m.start + Len(m.data)) THEN m.data[i - m.start] ELSE 0],
   parts |-> add_part(NoParts, m.start, m.start + Len(m.data))]

update_payload(p, m) ==
  [p EXCEPT !.data  = [i \in 1..p.size |->
                         IF i \in (m.start + 1)..(m.start + Len(m.data)) THEN m.data[i - m.start]
                         ELSE @[i]],
            !.parts = add_part(@, m.start, m.start + Len(m.data))]

\* PendingMessage::is_complete: false for an empty payload.
Complete(p) == 0 \in DOMAIN p.parts /\ p.parts[0] = p.size
-------------------------------------------------------------------------------
(* Sending.                                                                *)

\* Mutant: an entry is removed as soon as it has been sent.
EncodingsOnce(s) ==
  LET due(e) == ~e.recent
      es     == SelectSeq(s.queue, due)
  IN  {[queue |-> <<>>, parts |-> [i \in DOMAIN es |-> Part(es[i], Rest(es[i]))]]}

\* The loop of TransmitQueue::encode_payload: it erases the entries that the peer
\* has acknowledged, and puts into the packet the ones that are due.
Acknowledged(s, e) == e.resend /\ is_in(s.peer_ids, e.sn)
Due(s, e) == ~Acknowledged(s, e) /\ ~e.recent

\* An iteration with room for all of e; unreliable entries are sent only once.
Passed(s, l, e) ==
  [kept  |-> IF Due(s, e) /\ e.resend
               THEN Append(l.kept, [e EXCEPT !.done = Len(e.payload), !.recent = TRUE])
             ELSE IF Acknowledged(s, e) \/ Due(s, e) THEN l.kept
             ELSE Append(l.kept, e),
   parts |-> IF Due(s, e) THEN Append(l.parts, Part(e, Rest(e))) ELSE l.parts]

\* What it has done after the first k entries.
Through(s) ==
  LET loop[k \in 0..Len(s.queue)] ==
        IF k = 0 THEN [kept |-> <<>>, parts |-> <<>>] ELSE Passed(s, loop[k - 1], s.queue[k])
  IN  loop

\* It stops at the next one when there is no more room, after `count' units of it.
Stopped(s, k, count) ==
  LET q == s.queue
      e == q[k + 1]
      l == Through(s)[k]
  IN  IF count = 0
        THEN [queue |-> Cycled(q, k, l.kept), parts |-> l.parts]
        ELSE [queue |-> Cycled([q EXCEPT ![k + 1] = [e EXCEPT !.done = Start(e) + count]],
                               k, l.kept),
              parts |-> Append(l.parts, Part(e, count))]

\* The outcomes of encode_payload: the new queue and the parts in the packet.
Encodings(s) ==
  LET q     == s.queue
      n     == Len(q)
      all   == [queue |-> Cycled(q, n, Through(s)[n].kept), parts |-> Through(s)[n].parts]
      stops == UNION {{Stopped(s, k, count) : count \in {0} \cup 1..(Rest(q[k + 1]) - 1)} :
                        k \in {i \in 0..(n - 1) : Due(s, q[i + 1])}}
  IN  {all} \cup {o \in stops : o.parts # <<>> \/ s.window = "tight"}

can_exec_on_send_handlers(s) == IF s.queue = <<>> THEN {TRUE} ELSE BOOLEAN

exec_on_send_handlers(s) == [s EXCEPT !.on_send = 0]

\* move_exec(_on_flush), when it is set; it covered the first `on_flush'
\* reliable messages.
ExecFlush(s) ==
  IF s.queue = <<>> /\ s.on_flush # {}
    THEN [s EXCEPT !.on_flush = {}, !.flushed = @ \cup s.on_flush] ELSE s

\* The handler that start_sending dispatches when there is nothing to send.
Drained(s) ==
  {ExecFlush(IF b THEN exec_on_send_handlers(s) ELSE s) : b \in can_exec_on_send_handlers(s)}

\* QualityOfService::encode_header: the acks, once, and what was received.
encode_header(s) == IF s.acks = "owed" THEN {Decoded(s.ids)} ELSE {}

\* encode_packet: the states with the next packet sent, none if there is nothing
\* to put in it.  It may fill the window.
encode_packet(s, parts) ==
  {[s EXCEPT !.acks = "none", !.send = "sending", !.window = w,
             !.out = @ \cup {[ids |-> encode_header(s), parts |-> parts]}] :
     w \in {w \in {s.window, "tight"} : w # s.window => parts # <<>> /\ s.window = "open"}}

\* SocketImpl::start_sending; the possible states after it.
start_sending(s) ==
  IF s.state # "open" \/ s.send # "pending" THEN {s}
  ELSE UNION {LET t == [s EXCEPT !.queue = o.queue] IN
              IF o.parts = <<>> /\ s.acks # "owed"
                THEN Drained([t EXCEPT !.alarms = @ \cup {"keepalive"}])
                ELSE encode_packet(t, o.parts) :
              o \in Encodings(s)}
-------------------------------------------------------------------------------
(* Closing.                                                                *)

CloseMessage == OutMessage(FALSE, "close", 0, <<>>)

\* encode_packet_with_one_message
encode_packet_with_one_message(s, m) == [ids |-> encode_header(s), parts |-> <<Part(m, Rest(m))>>]

\* SocketImpl::close.  A packet in `rx' has already completed the receive.
close(s, rx) ==
  IF s.state = "open"
    THEN [s EXCEPT !.out = @ \cup {encode_packet_with_one_message(s, CloseMessage)},
                   !.acks = "none", !.state = "closed", !.alarms = {}, !.rx = rx]
    ELSE [s EXCEPT !.alarms = {}]

\* SocketImpl::handle_error
handle_error(s, rx) ==
  LET t == close(s, rx) IN
  [t EXCEPT !.on_reliable = "none", !.on_unreliable = "none"]

handle_close_message(s) == handle_error([s EXCEPT !.state = "closed"], {})

\* A receive handler of some kind runs.
Called(s, handler) ==
  CASE s[handler] = "again" -> s
    [] s[handler] = "once"  -> [s EXCEPT ![handler] = "none"]
    [] s[handler] = "close" -> close([s EXCEPT ![handler] = "none"], {})
-------------------------------------------------------------------------------
(* Receiving.                                                              *)

\* SocketImpl::handle_sync_message
handle_sync_message(s, m) ==
  IF s.sync THEN s
  ELSE [s EXCEPT !.sync = TRUE, !.ids = try_add(@, m.sn), !.last = m.sn, !.ulast = m.sn]

\* Mutant: the message is not acknowledged.
HandledUnacknowledged(s, m) ==
  LET t == Called([s EXCEPT !.got = Append(@, m.data)], "on_reliable") IN
  [t EXCEPT !.last = m.sn]

\* SocketImpl::user_handle_reliable_msg, when there is a handler.
user_handle_reliable_msg(s, m) ==
  LET t == Called([s EXCEPT !.got = Append(@, m.data)], "on_reliable") IN
  [t EXCEPT !.ids = try_add(@, m.sn), !.last = m.sn]

\* The loop of SocketImpl::replay_pending_messages passes on the message that is
\* next, if it is complete and there is a handler.
ReplayNext(s) ==
  LET next == {p \in s.pending : p.sn = s.last + 1 /\ Complete(p)} IN
  IF next = {} \/ s.on_reliable = "none" THEN s
  ELSE user_handle_reliable_msg([s EXCEPT !.pending = @ \ next], CHOOSE p \in next : TRUE)

\* SocketImpl::replay_pending_messages, once for every message at most.
replay_pending_messages(s) ==
  LET n == Cardinality(s.pending)
      replayed[k \in 0..n] == IF k = 0 THEN s ELSE ReplayNext(replayed[k - 1])
  IN  replayed[n]

\* Mutant: a message is passed on when it arrives.
HandledAtOnce(s, m) ==
  IF ~s.sync \/ ~can_add(s.ids, m.sn) \/ s.on_reliable = "none" \/ ~is_complete(m) THEN s
  ELSE user_handle_reliable_msg(s, m)

\* Mutant: a message that nobody waits for is acknowledged.
HandledUnread(s, m) ==
  IF ~s.sync \/ ~can_add(s.ids, m.sn) \/ m.sn # s.last + 1 \/ ~is_complete(m) THEN s
  ELSE IF s.on_reliable = "none" THEN [s EXCEPT !.ids = try_add(@, m.sn)]
  ELSE replay_pending_messages(user_handle_reliable_msg(s, m))

\* SocketImpl::handle_reliable_message
handle_reliable_message(s, m) ==
  LET old == {p \in s.pending : p.sn = m.sn} IN
  IF ~s.sync \/ ~can_add(s.ids, m.sn) THEN s
  ELSE IF m.sn = s.last + 1 /\ is_complete(m)
    THEN IF s.on_reliable = "none" THEN s
         ELSE replay_pending_messages(user_handle_reliable_msg(s, m))
  ELSE IF old = {}
    THEN [s EXCEPT !.pending = @ \cup {PendingMessage(m)}]
    ELSE replay_pending_messages(
           [s EXCEPT !.pending = (@ \ old) \cup {update_payload(p, m) : p \in old}])

\* An unreliable message is complete.
DeliverUnreliable(s, m) ==
  LET t == Called([s EXCEPT !.ugot = Append(@, m.data)], "on_unreliable") IN
  [t EXCEPT !.ulast = m.sn, !.upending = {}]

\* Mutant: late messages are delivered.
HandledLate(s, m) ==
  IF s.on_unreliable = "none" \/ ~s.sync THEN s
  ELSE IF is_complete(m) THEN DeliverUnreliable(s, m) ELSE s

\* SocketImpl::handle_unreliable_message
handle_unreliable_message(s, m) ==
  LET new == {update_payload(p, m) : p \in {q \in s.upending : q.sn = m.sn}} IN
  IF s.on_unreliable = "none" \/ ~s.sync \/ m.sn <= s.ulast THEN s
  ELSE IF is_complete(m) THEN DeliverUnreliable(s, m)
  ELSE IF \A p \in s.upending : p.sn < m.sn
    THEN [s EXCEPT !.upending = {PendingMessage(m)}]
  ELSE IF new = {} THEN s
  ELSE IF \E p \in new : Complete(p) THEN DeliverUnreliable(s, CHOOSE p \in new : TRUE)
  ELSE [s EXCEPT !.upending = new]

\* SocketImpl::handle_message
handle_message(s, m) ==
  CASE m.type = "sync"       -> handle_sync_message(s, m)
    [] m.type = "keep_alive" -> s
    [] m.type = "unreliable" -> handle_unreliable_message(s, m)
    [] m.type = "reliable"   -> handle_reliable_message(s, m)
    [] m.type = "close"      -> handle_close_message(s)

\* The messages of a packet one after the other, until the socket is closed.
\* In a socket that is closed already, the first one is handled all the same.
HandleNext(t, m) ==
  IF t.stop THEN t
  ELSE LET u == handle_message(t.s, m) IN [s |-> u, stop |-> u.state # "open"]
HandleAll(s, parts) ==
  LET n == Len(parts)
      handled[i \in 0..n] == IF i = 0 THEN [s |-> s, stop |-> FALSE]
                             ELSE HandleNext(handled[i - 1], parts[i])
  IN  handled[n]

\* QualityOfService::decode_acks: the last AckSet that arrived counts, old or not,
\* and packets may no longer be in flight.
decode_acks(s, ids) ==
  UNION {{[s EXCEPT !.peer_ids = a, !.window = w] :
            w \in {w \in {s.window, "open"} : w # s.window => s.window = "tight"}} : a \in ids}

\* PacketDecoder::decode_header
decode_header(s, p) ==
  {[t EXCEPT !.acks = IF p.parts = <<>> THEN @ ELSE "owed"] :
     t \in IF p.ids = {} THEN {s} ELSE decode_acks(s, p.ids)}

\* Mutant: the receive timeout is not started.
ReceivingForever(s) == [s EXCEPT !.recv = "waiting"]

\* SocketImpl::start_receiving
start_receiving(s) == [s EXCEPT !.recv = "waiting", !.alarms = @ \cup {"timeout"}]

\* SocketImpl::on_receive, without and with an error.
NotReceiving(s) == [s EXCEPT !.recv = "none", !.rx = {}, !.alarms = @ \ {"timeout"}]
on_receive(s, p) ==
  UNION {LET t == HandleAll(u, p.parts) IN
         IF t.stop THEN {t.s}
         ELSE UNION {start_sending(start_receiving(
                       IF b THEN exec_on_send_handlers(t.s) ELSE t.s)) :
                     b \in can_exec_on_send_handlers(t.s)} :
         u \in decode_header(NotReceiving(s), p)}
on_receive_error(s) == handle_error(NotReceiving(s), {})

\* SocketImpl::on_send, without and with an error.
on_send(s) ==
  LET r == [s EXCEPT !.send = "pending"] IN
  UNION {LET t == ExecFlush(IF b THEN exec_on_send_handlers(r) ELSE r) IN
         IF t.state # "open" THEN {t} ELSE start_sending(t) : b \in can_exec_on_send_handlers(r)}
on_send_error(s) == exec_on_send_handlers([s EXCEPT !.send = "pending"])

\* Mutant: the alarm only sends keepalives.
KeepaliveOnly(s) ==
  IF s.queue = <<>>
    THEN start_sending([s EXCEPT !.queue = <<OutMessage(FALSE, "keep_alive", 0, <<>>)>>])
    ELSE {s}

\* SocketImpl::on_send_keepalive_alarm
on_send_keepalive_alarm(s) ==
  start_sending(
    IF s.queue = <<>>
      THEN [s EXCEPT !.queue = <<OutMessage(FALSE, "keep_alive", 0, <<>>)>>]
      ELSE [s EXCEPT !.window = IF @ = "tight" THEN "open" ELSE @])
-------------------------------------------------------------------------------
(* Actions.                                                                *)

\* Bound: sends that complete within a handler.
MaxAtOnce == 8

\* Unless a socket is slow, its sends are completed with the handler.
Completed(n, s) ==
  LET sends[k \in 0..MaxAtOnce] ==
        IF k = 0 THEN {s}
        ELSE UNION {IF t.send = "sending" THEN on_send(t) ELSE {t} : t \in sends[k - 1]}
  IN  IF n \in Slow THEN {s} ELSE sends[MaxAtOnce]

\* What is left on a wire when packets are sent: all, if there is room for it.
Left(there, out) ==
  IF out \subseteq there \/ Cardinality(there \cup out) <= MaxWire THEN {there}
  ELSE {{}} \cup {kept \in SUBSET there : Cardinality(kept \cup out) = MaxWire}

\* A handler of n ends with s, and w is left on the wire to n.
InstallWith(n, s, w) ==
  \E t \in Completed(n, s) : \E kept \in Left(wire[Other(n)], t.out) :
    /\ sock' = [sock EXCEPT ![n] = [t EXCEPT !.out = {}]]
    /\ wire' = [wire EXCEPT ![n] = w, ![Other(n)] = kept \cup t.out]
    /\ UNCHANGED scope
Install(n, s) == InstallWith(n, s, wire[n])

\* rendezvous_connect, when the hole is punched.
Connect(n) ==
  /\ sock[n].state = "new"
  /\ \E s \in start_sending([sock[n] EXCEPT !.state = "open",
                  !.queue = <<OutMessage(TRUE, "sync", 0, <<>>)>>]) :
       Install(n, [start_receiving(s) EXCEPT !.alarms = @ \cup {"keepalive"}])

send_reliable(n) ==
  \E size \in Sizes :
    LET s == sock[n]
        payload == Payload(s.next, size)
    IN  /\ s.state = "open"
        /\ Len(s.sent) < MaxReliable[n]
        /\ \E t \in start_sending([s EXCEPT !.on_send = @ + 1, !.next = @ + 1,
                        !.sent = Append(@, payload),
                        !.queue = Append(@, OutMessage(TRUE, "reliable", s.next, payload))]) :
             Install(n, t)

send_unreliable(n) ==
  \E size \in Sizes :
    LET s == sock[n]
        payload == Payload(s.unext, size)
    IN  /\ s.state = "open"
        /\ Len(s.usent) < MaxUnreliable[n]
        /\ \E t \in start_sending([s EXCEPT !.on_send = @ + 1, !.unext = @ + 1,
                        !.usent = Append(@, payload),
                        !.queue = Append(@, OutMessage(FALSE, "unreliable", s.unext, payload))]) :
             Install(n, t)

receive_reliable(n) ==
  /\ sock[n].state = "open" /\ sock[n].on_reliable = "none"
  /\ MaxReliable[Other(n)] > 0
  /\ \E kind \in Kinds : Install(n, [sock[n] EXCEPT !.on_reliable = kind])

receive_unreliable(n) ==
  /\ sock[n].state = "open" /\ sock[n].on_unreliable = "none"
  /\ MaxUnreliable[Other(n)] > 0
  /\ \E kind \in Kinds : Install(n, [sock[n] EXCEPT !.on_unreliable = kind])

\* SocketImpl::flush, called when no flush is pending.
flush(n) ==
  LET s == [sock[n] EXCEPT !.on_flush = {Len(sock[n].sent)}] IN
  /\ sock[n].state = "open" /\ sock[n].on_flush = {}
  /\ Len(s.sent) \in (1..MaxReliable[n]) \ s.flushed
  /\ Install(n, IF s.send # "sending" THEN ExecFlush(s) ELSE s)

\* The receive of a socket may just have been completed with a packet.
Arrived(n) == {{}} \cup IF sock[n].recv = "waiting" THEN {{p} : p \in wire[n]} ELSE {}

Close(n) ==
  /\ n \in Closers
  /\ sock[n].state = "open"
  /\ \E rx \in Arrived(n) : Install(n, close(sock[n], rx))

\* An open socket receives p.  A duplicated packet stays on the wire.
ReceivePacket(n, p) ==
  /\ sock[n].recv = "waiting" /\ sock[n].state = "open"
  /\ \E t \in on_receive(sock[n], p) :
       \/ InstallWith(n, t, wire[n] \ {p})
       \/ "duplicate" \in Faults /\ Install(n, t)

\* The receive of a closed socket ends.
ReceiveClosed(n) ==
  LET s == sock[n] IN
  /\ s.recv = "waiting" /\ s.state = "closed"
  /\ \/ \E p \in s.rx : \E t \in on_receive(s, p) : Install(n, t)
     \/ s.rx = {} /\ Install(n, on_receive_error(s))

Receive(n) == ReceiveClosed(n) \/ \E p \in wire[n] : ReceivePacket(n, p)

Sent(n) ==
  LET s == sock[n] IN
  /\ s.send = "sending"
  /\ \/ \E t \in on_send(s) : Install(n, t)
     \/ s.state = "closed" /\ Install(n, on_send_error(s))

\* The alarms expire.
Keepalive(n) ==
  /\ n \in Keepers
  /\ "keepalive" \in sock[n].alarms
  /\ \E t \in on_send_keepalive_alarm([sock[n] EXCEPT !.alarms = @ \ {"keepalive"}]) :
       Install(n, t)

Timeout(n) ==
  /\ n \in Unheard
  /\ "timeout" \in sock[n].alarms
  /\ \E rx \in Arrived(n) :
       Install(n, handle_error([sock[n] EXCEPT !.alarms = @ \ {"timeout"}], rx))

\* Two round trips have passed since some entries were sent.
Recent(n) == {i \in DOMAIN sock[n].queue : sock[n].queue[i].recent}
Pass(n, old) ==
  /\ old # {}
  /\ sock' = [sock EXCEPT ![n].queue =
                [i \in DOMAIN @ |-> IF i \in old THEN [@[i] EXCEPT !.recent = FALSE] ELSE @[i]]]
  /\ UNCHANGED <<scope, wire>>

Lose(n) ==
  /\ "lose" \in Faults
  /\ \E p \in wire[n] : wire' = [wire EXCEPT ![n] = @ \ {p}]
  /\ UNCHANGED <<scope, sock>>

\* SocketImpl::SocketImpl
NewSocket(n) ==
  [state |-> "new", send |-> "pending", recv |-> "none", rx |-> {}, queue |-> <<>>,
   next |-> 1, unext |-> 1, sync |-> FALSE, last |-> 0, ulast |-> 0,
   pending |-> {}, upending |-> {}, ids |-> EmptyAckSet, peer_ids |-> EmptyAckSet,
   acks |-> "none", window |-> IF n \in Slow THEN "open" ELSE "ample",
   on_reliable |-> "none", on_unreliable |-> "none", on_send |-> 0, on_flush |-> {},
   alarms |-> {}, sent |-> <<>>, usent |-> <<>>, got |-> <<>>, ugot |-> <<>>,
   flushed |-> {}, out |-> {}]

Init ==
  /\ scope \in Scopes
  /\ sock = [n \in Ends |-> NewSocket(n)]
  /\ wire = [n \in Ends |-> {}]

Next ==
  \E n \in Ends :
    \/ Connect(n) \/ send_reliable(n) \/ send_unreliable(n)
    \/ receive_reliable(n) \/ receive_unreliable(n) \/ flush(n) \/ Close(n)
    \/ Receive(n) \/ Sent(n) \/ Keepalive(n) \/ Timeout(n) \/ Lose(n)
    \/ \E old \in SUBSET Recent(n) : Pass(n, old)

Spec == Init /\ [][Next]_vars

(* Fairness.  Handlers that can run do, alarms expire, and the network is  *)
(* fair-lossy: a message, or an acknowledgement, that is on its way again  *)
(* and again arrives.  These are the specifications to use with a network  *)
(* that has no faults but to lose packets when others are sent: then only  *)
(* a receive takes a packet from the wire and leaves the others.           *)
Arrives(n, Wanted(_)) ==
  LET can == sock[n].state = "open" /\ sock[n].recv = "waiting" /\ \E p \in wire[n] : Wanted(p)
      did == \E p \in wire[n] : Wanted(p) /\ wire'[n] = wire[n] \ {p}
  IN  []<>can => []<><<did>>_vars

\* A keepalive alarm expires when there is something to send again.
Resends(n) ==
  LET can == n \in Keepers /\ "keepalive" \in sock[n].alarms
               /\ \E i \in DOMAIN sock[n].queue : i \notin Recent(n)
      did == UNCHANGED <<wire[n], sock[Other(n)]>> /\ Keepalive(n)
  IN  []<>~can \/ []<><<did>>_vars

\* Weak fairness of the steps that end the condition they wait for: none waits for
\* ever.  A socket is only sure to time out when its peer sends no more.
Soon(n) ==
  LET wants == sock[n].on_reliable = "none" /\ MaxReliable[Other(n)] > 0
      alone == n \in Unheard /\ sock[Other(n)].state = "closed"
  IN  /\ []<>(sock[n].state # "new")
      /\ []<>~(sock[n].state = "open" /\ wants)
      /\ []<>~(sock[n].state = "closed" /\ sock[n].recv = "waiting")
      /\ []<>~("timeout" \in sock[n].alarms /\ alone)
      /\ []<>(Recent(n) = {})

\* Packets with messages, and with acknowledgements of messages, numbered from
\* `first' arrive.
Fairness(first) ==
  /\ \A n \in Ends : WF_vars(Sent(n)) /\ Soon(n) /\ Resends(n)
  /\ \A n \in Ends : \A i \in first..MostReliable(n) :
       LET Carries(p) == \E j \in DOMAIN p.parts :
                           p.parts[j].type \in {"sync", "reliable"} /\ p.parts[j].sn = i
           Acknowledges(p) == \E a \in p.ids : is_in(a, i)
       IN  Arrives(Other(n), Carries) /\ Arrives(n, Acknowledges)

FairSpec == Spec /\ Fairness(0)
-------------------------------------------------------------------------------
MessageType == {"sync", "keep_alive", "unreliable", "reliable", "close"}
Entry == [resend : BOOLEAN, type : MessageType, sn : SequenceNumber, payload : Seq(Nat),
          done : Nat, recent : BOOLEAN]
MessagePart == [type : MessageType, sn : SequenceNumber, size : Nat, start : Nat, data : Seq(Nat)]
Packets == [ids : SUBSET AckSets, parts : Seq(MessagePart)]

\* The fields of sockets and packets have their types; no more is sent of a
\* message than there is, and an entry waits for the rest of its message at the
\* front of the queue only.
TypeOK ==
  /\ \A n \in Ends :
       LET s == sock[n] IN
       /\ s.state \in {"new", "open", "closed"} /\ s.send \in {"pending", "sending"}
       /\ s.recv \in {"none", "waiting"} /\ s.rx \subseteq Packets
       /\ s.queue \in Seq(Entry)
       /\ \A i \in DOMAIN s.queue : s.queue[i].done <= Len(s.queue[i].payload)
       /\ \A i \in DOMAIN s.queue : s.queue[i].done \notin {0, Len(s.queue[i].payload)} => i = 1
       /\ {s.next, s.unext, s.last, s.ulast} \subseteq SequenceNumber /\ s.sync \in BOOLEAN
       /\ \A p \in s.pending \cup s.upending :
            p.sn \in SequenceNumber /\ DOMAIN p.data = 1..p.size
            /\ \A i \in DOMAIN p.parts : 0 <= i /\ i < p.parts[i] /\ p.parts[i] <= p.size
       /\ {s.ids, s.peer_ids} \subseteq AckSets /\ s.acks \in {"none", "owed"}
       /\ s.window \in {"ample", "open", "tight"}
       /\ {s.on_reliable, s.on_unreliable} \subseteq {"none"} \cup Kinds
       /\ s.on_send \in Nat /\ s.on_flush \cup s.flushed \subseteq Nat
       /\ s.alarms \subseteq {"keepalive", "timeout"} /\ s.out = {}
  /\ scope \in Scopes /\ wire \in [Ends -> SUBSET Packets]

\* "The order in which the messages will be received shall be the same as the
\* order in which they were sent": the handlers get each reliable message once,
\* whole and in order, whatever the network does.
ReliableOrder ==
  \A n \in Ends :
    LET got  == sock[n].got
        sent == sock[Other(n)].sent
    IN  Len(got) <= Len(sent) /\ got = SubSeq(sent, 1, Len(got))

\* "Two such shall never be reordered": the unreliable messages that arrive are
\* ones that were sent, whole, in the same order, none twice.
UnreliableOrder ==
  \A n \in Ends :
    LET got  == sock[n].ugot
        sent == sock[Other(n)].usent
    IN  \E at \in [DOMAIN got -> DOMAIN sent] :
          /\ \A i \in DOMAIN got : got[i] = sent[at[i]]
          /\ \A i, j \in DOMAIN got : i < j => at[i] < at[j]

\* flush: "once all the messages in the send queue has been sent and (in case of
\* reliable messages) acknowledged": they have reached the handler of the peer,
\* because what has not is still in the transmit queue: no acknowledgement, stale
\* or duplicated, removes it early.
FlushedIsReceived ==
  \A n \in Ends :
    LET got == Len(sock[Other(n)].got) IN
    /\ \A k \in sock[n].flushed : k <= got
    /\ \A sn \in (got + 1)..Len(sock[n].sent) :
         \E i \in DOMAIN sock[n].queue :
           sock[n].queue[i].type = "reliable" /\ sock[n].queue[i].sn = sn

\* The rest is under fairness.  Reliable messages between open sockets arrive,
\* though packets are lost and nobody listens when the first ones come.
EventuallyReceived ==
  \A n \in Ends : \A i \in 1..MostReliable(n) :
    Len(sock[n].sent) >= i
      ~> (Len(sock[Other(n)].got) >= i \/ \E m \in Ends : sock[m].state = "closed")

\* The handlers passed to flush, and to the send functions, are executed.
EventuallyFlushed ==
  \A n \in Ends :
    /\ sock[n].on_flush # {} ~> (sock[n].on_flush = {} \/ \E m \in Ends : sock[m].state = "closed")
    /\ sock[n].on_send > 0 ~> (sock[n].on_send = 0 \/ \E m \in Ends : sock[m].state = "closed")

Told(n) == sock[n].on_reliable = "none" /\ sock[n].on_unreliable = "none"

\* The peer of a closed socket closes too, because the close message gets through or
\* the receive timeout expires, and a socket that did not close by itself calls its
\* receive handlers with an error.
PeerCloses ==
  \A n \in Ends :
    sock[n].state = "closed"
      ~> (sock[Other(n)].state = "closed" /\ \A m \in Ends \ Closers : Told(m))

\* The test test_transport_close expects it when the owner closes the socket, too:
\* "BOOST_REQUIRE_EQUAL(err, boost::asio::error::operation_aborted)".
AbortTold ==
  \A n \in Ends : sock[n].state = "closed" /\ n \in Closers ~> Told(n)
===============================================================================
