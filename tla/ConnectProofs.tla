---------------------------- MODULE ConnectProofs -----------------------------
(***************************************************************************)
(* The two machines that get a connection through a NAT: hole punching,    *)
(* and the search for the external port.                                   *)
(*                                                                         *)
(* Hole punching tells its user once, last and right, for any number of    *)
(* retries and whoever sends packets.  ToldRight speaks of the end only.   *)
(* PunchInv says at every step how the two loops, the result and the       *)
(* socket go together: the result is set exactly when a loop has ended,    *)
(* and the user is told exactly when both have.                            *)
(*                                                                         *)
(* The search leaves its socket to the user, for any servers and any       *)
(* packets.  SocketFree speaks of the time after the user was told.        *)
(* PortInv follows the one request up to there: nothing is asked before    *)
(* the resolver's handler, and after it the request is either outstanding, *)
(* with a receive and a count of one, or over.                             *)
(***************************************************************************)
EXTENDS PunchHole, GetExternalPort, TLAPS, SequenceTheorems

Errors == {"success", "aborted", "host_unreachable"}
Eps == Sources \cup {Remote}

Types ==
  /\ remote \in Eps
  /\ result \in Errors \cup {"none"}
  /\ open \in BOOLEAN
  /\ recv \in [op : {"none", "waiting", "queued", "done"}, error : Errors, from : Eps]
  /\ send \in [op : {"none", "send", "wait", "timeout", "done"}, error : Errors, attempt : Nat]

\* The two loops, r and s, against the result res and what the user was told, p.
Loops(r, s, res, p) ==
  /\ r = "none" <=> s = "none"
  /\ res = "none" <=> r # "done" /\ s # "done"
  /\ p = IF r = "done" /\ s = "done" THEN <<res>> ELSE <<>>

PunchInv ==
  /\ Types
  /\ Loops(recv.op, send.op, result, punched)
  /\ recv.op = "queued" /\ recv.error = "success" => recv.from \in heard
  /\ remote[1] = Remote[1]
  /\ result = "success" => remote \in heard
  /\ result \notin {"none", "success"} => ~open

\* handle_common, called by the loop that ends: the receive loop.
LEMMA ReceiveEnds ==
  ASSUME PunchInv, NEW error \in Errors, recv.op = "queued",
         handle_common(error, Received, send), UNCHANGED heard,
         remote' \in Eps, remote'[1] = Remote[1],
         result # "none" => remote' = remote,
         result = "none" /\ error = "success" => remote' \in heard
  PROVE  PunchInv'
<1>1. Received \in [op : {"done"}, error : Errors, from : Eps]
  BY DEF Received, PunchInv, Types
<1>2. Aborting(Received) = Received
  BY <1>1 DEF Aborting
<1>3. CASE result # "none"
  <2>1. /\ send.op = "done" /\ punched = <<>>
        /\ recv' = Received /\ send' = send /\ punched' = Append(punched, result)
        /\ result' = result /\ open' = open /\ heard' = heard /\ remote' = remote
    BY <1>3, Zenon DEF handle_common, PunchInv, Loops
  <2>2. punched' = <<result'>>
    BY <2>1
  <2> QED
    BY <1>1, <1>3, <2>1, <2>2, Zenon DEF PunchInv, Types, Loops
<1>4. CASE result = "none"
  <2>1. /\ send.op \notin {"done", "none"} /\ punched = <<>>
        /\ recv' = Received /\ punched' = punched /\ result' = error
        /\ send' = IF send.op = "wait" THEN [send EXCEPT !.op = "timeout"] ELSE send
        /\ open' = (open /\ error = "success")
    BY <1>2, <1>4 DEF handle_common, PunchInv, Loops
  <2>2. send' \in [op : {"send", "timeout"}, error : Errors, attempt : Nat]
    BY <2>1 DEF PunchInv, Types
  <2>3. open' \in BOOLEAN /\ (error # "success" => ~open')
    BY <2>1, Zenon
  <2> QED
    BY <1>1, <1>4, <2>1, <2>2, <2>3 DEF PunchInv, Types, Loops, Errors
<1> QED
  BY <1>3, <1>4

\* handle_common, called by the send loop, which never ends with success first.
LEMMA SendEnds ==
  ASSUME PunchInv, NEW error \in Errors, send.op = "send",
         result = "none" => error # "success",
         handle_common(error, recv, Sent), UNCHANGED <<remote, heard>>
  PROVE  PunchInv'
<1>1. Sent \in [op : {"done"}, error : Errors, attempt : Nat]
  BY DEF Sent, PunchInv, Types
<1>2. CASE result # "none"
  <2>1. /\ recv.op = "done" /\ punched = <<>>
        /\ recv' = recv /\ send' = Sent /\ punched' = Append(punched, result)
        /\ result' = result /\ open' = open /\ heard' = heard /\ remote' = remote
    BY <1>2 DEF handle_common, PunchInv, Loops
  <2>2. punched' = <<result'>>
    BY <2>1
  <2> QED
    BY <1>1, <1>2, <2>1, <2>2, Zenon DEF PunchInv, Types, Loops
<1>3. CASE result = "none"
  <2>1. /\ recv.op \notin {"done", "none"} /\ punched = <<>>
        /\ recv' = Aborting(recv) /\ punched' = punched /\ result' = error
        /\ send' = Sent /\ open' = (open /\ error = "success")
    BY <1>1, <1>3 DEF handle_common, PunchInv, Loops
  <2>2. /\ recv' \in [op : {"queued"}, error : Errors, from : Eps]
        /\ recv'.error = "success" => recv.op = "queued" /\ recv'.from = recv.from
                                        /\ recv.error = "success"
    BY <2>1, Zenon DEF Aborting, PunchInv, Types, Errors
  <2>3. open' = FALSE
    BY <1>3, <2>1, Zenon
  <2> QED
    BY <1>1, <1>3, <2>1, <2>2, <2>3, Zenon DEF PunchInv, Types, Loops, Errors
<1> QED
  BY <1>2, <1>3

\* What async_receive_from makes of the receive.
LEMMA Restarted ==
  ASSUME PunchInv, start_receiving
  PROVE  /\ recv' \in [op : {"waiting", "queued"}, error : Errors, from : Eps]
         /\ recv'.op = "queued" => recv'.error # "success"
BY DEF start_receiving, Waiting, PunchInv, Types, Errors

\* Every handler of punch_hole, its timer and the close of the socket keep the invariant.
LEMMA PunchInductive ==
  PunchInv /\ [PunchNext]_punchVars => PunchInv'
<1> SUFFICES ASSUME PunchInv, [PunchNext]_punchVars PROVE PunchInv'
  OBVIOUS
<1>1. CASE punch_hole
  <2>1. send' \in [op : {"send"}, error : Errors, attempt : Nat]
    BY <1>1 DEF punch_hole, start_sending, ErrorNow, Errors
  <2>2. start_receiving
    BY <1>1 DEF punch_hole
  <2>3. /\ recv' \in [op : {"waiting", "queued"}, error : Errors, from : Eps]
        /\ recv'.op = "queued" => recv'.error # "success"
    BY <2>2, Restarted, Zenon
  <2> QED
    BY <1>1, <2>1, <2>3 DEF punch_hole, PunchInv, Types, Loops
<1>2. CASE Arrive
  <2>1. PICK ep \in Sources :
          /\ recv' = [op |-> "queued", error |-> "success", from |-> ep]
          /\ heard' = heard \cup {ep}
    BY <1>2 DEF Arrive
  <2> QED
    BY <1>2, <2>1 DEF Arrive, PunchInv, Types, Loops, Eps, Errors
<1>3. CASE CloseSocket
  <2>1. /\ recv' \in [op : {"none", "waiting", "queued", "done"}, error : Errors, from : Eps]
        /\ recv'.op = "queued" /\ recv'.error = "success" => recv' = recv
        /\ recv'.op = "none" <=> recv.op = "none"
        /\ recv'.op = "done" <=> recv.op = "done"
    BY <1>3, Zenon DEF CloseSocket, Aborting, PunchInv, Types, Errors
  <2> QED
    BY <1>3, <2>1, Zenon DEF CloseSocket, PunchInv, Types, Loops
<1>4. CASE on_receive
  <2>0. /\ recv.op = "queued" /\ UNCHANGED heard /\ recv.error \in Errors
        /\ recv.from \in Eps /\ remote \in Eps /\ "success" \in Errors
        /\ remote[1] = Remote[1]
        /\ recv.error = "success" => recv.from \in heard
    BY <1>4 DEF on_receive, PunchInv, Types, Errors
  <2>1. CASE /\ recv.error # "success" \/ result # "none"
             /\ handle_common(recv.error, Received, send)
             /\ UNCHANGED remote
    BY <2>0, <2>1, ReceiveEnds, Zenon
  <2>2. CASE /\ recv.error = "success" /\ result = "none"
             /\ start_receiving
             /\ UNCHANGED <<remote, result, open, send, punched>>
    <3>1. /\ recv' \in [op : {"waiting", "queued"}, error : Errors, from : Eps]
          /\ recv'.op = "queued" => recv'.error # "success"
      BY <2>2, Restarted
    <3> QED
      BY <2>0, <2>2, <3>1, Zenon DEF PunchInv, Types, Loops
  <2>3. CASE /\ recv.error = "success" /\ result = "none"
             /\ recv.from[1] = remote[1] /\ remote' = recv.from
             /\ handle_common("success", Received, send)
    BY <2>0, <2>3, ReceiveEnds, Zenon
  <2> QED
    BY <1>4, <2>1, <2>2, <2>3, Zenon DEF on_receive
<1>5. CASE on_send
  <2>0. /\ send.op = "send" /\ UNCHANGED <<remote, heard>>
        /\ send.error \in Errors /\ "host_unreachable" \in Errors
    BY <1>5 DEF on_send, PunchInv, Types, Errors
  <2>1. CASE /\ send.error # "success" \/ result # "none"
             /\ handle_common(send.error, recv, Sent)
    BY <2>0, <2>1, SendEnds
  <2>2. CASE handle_common("host_unreachable", recv, Sent)
    BY <2>0, <2>2, SendEnds
  <2>3. CASE /\ send' = [send EXCEPT !.op = "wait"]
             /\ UNCHANGED <<result, open, recv, punched>>
    <3>1. send' \in [op : {"wait"}, error : Errors, attempt : Nat]
      BY <2>3, Zenon DEF PunchInv, Types
    <3> QED
      BY <2>0, <2>3, <3>1 DEF PunchInv, Types, Loops
  <2> QED
    BY <1>5, <2>1, <2>2, <2>3 DEF on_send
<1>6. CASE on_timer
  <2>1. send' \in [op : {"send"}, error : Errors, attempt : Nat]
    BY <1>6 DEF on_timer, start_sending, ErrorNow, PunchInv, Types, Errors
  <2> QED
    BY <1>6, <2>1, Zenon DEF on_timer, PunchInv, Types, Loops
<1>7. CASE UNCHANGED punchVars
  BY <1>7, Zenon DEF punchVars, PunchInv, Types, Loops
<1> QED
  BY <1>1, <1>2, <1>3, <1>4, <1>5, <1>6, <1>7, Zenon DEF PunchNext

\* The invariant of the two loops of punch_hole and the state they share.
LEMMA PunchInvariant == PunchSpec => []PunchInv
<1>1. PunchInit => PunchInv
  BY DEF PunchInit, PunchInv, Types, Loops, Eps, Errors
<1> QED
  BY <1>1, PunchInductive, PTL DEF PunchSpec

\* on_receive and handle_common, for any number of attempts, any packets and however
\* the loops race: on_punch is called at most once, and only when both loops have
\* ended; with success the user gets an endpoint, at the address asked for, that a
\* packet came from; with an error, a closed socket.
THEOREM TellsRight == PunchSpec => []ToldRight
<1>1. PunchInv => ToldRight
  <2> SUFFICES ASSUME PunchInv, punched # <<>>
               PROVE  /\ Len(punched) = 1 /\ recv.op = "done" /\ send.op = "done"
                      /\ IF punched[1] = "success"
                         THEN remote \in heard /\ remote[1] = Remote[1] ELSE ~open
    BY Zenon DEF ToldRight
  <2>1. Len(punched) = 1 /\ recv.op = "done" /\ send.op = "done"
    BY Zenon DEF PunchInv, Loops
  <2>2. punched[1] = result /\ result # "none"
    BY DEF PunchInv, Loops
  <2> QED
    BY <2>1, <2>2 DEF PunchInv
<1> QED
  BY <1>1, PunchInvariant, PTL
-------------------------------------------------------------------------------
\* Nothing was asked yet.
Unasked == requests = {} /\ request_count = 0 /\ calls_made = 0 /\ rx.op = "none" /\ posted = <<>>

\* The request is outstanding, and the receive is for it.
Asked ==
  /\ port_told = <<>> /\ posted = <<>> /\ rx.op # "none" /\ request_count = 1
  /\ \E r : r.call \in Int /\ requests = {r}

\* Nobody receives; the result is posted or told, or there is none.
Over ==
  /\ rx.op = "none"
  /\ \/ posted = <<>> /\ port_told = <<>>
     \/ (\E p : posted = <<p>>) /\ port_told = <<>>
     \/ posted = <<>> /\ (\E e : port_told = <<e>>)

\* While the object is not made, or resolves, nothing was asked or told; after that
\* the one request is outstanding or over.
PortInv ==
  /\ port \in [life : {"none", "alive", "destroyed"}, timed_out : BOOLEAN,
               resolve : {"none", "pending", "success", "error", "aborted"},
               timer : {"none", "pending", "success", "error", "aborted"}]
  /\ port.life = "none" => port.resolve = "none" /\ port.timer = "none"
  /\ IF port.life = "none" \/ port.resolve # "none" THEN Unasked /\ port_told = <<>>
     ELSE Asked \/ Over

\* Request::exec for a single request.
LEMMA PostedOne ==
  ASSUME NEW r, r.call \in Int, NEW error, posted = <<>>
  PROVE  \E p : Posted({r}, error) = <<p>>
<1> DEFINE p == [call |-> r.call, error |-> error]
           step(f, set) == IF set = {} THEN <<>>
                           ELSE LET o == CHOOSE o \in set : \A q \in set : o.call <= q.call
                                IN  <<[call |-> o.call, error |-> error]>> \o f[set \ {o}]
           g == [set \in SUBSET {r} |-> IF set = {} THEN <<>> ELSE <<p>>]
<1>1. ASSUME NEW f, f = [set \in SUBSET {r} |-> step(f, set)]
      PROVE  f[{r}] = <<p>>
  <2>1. f[{}] = <<>>
    BY <1>1
  <2> DEFINE o == CHOOSE o \in {r} : \A q \in {r} : o.call <= q.call
  <2>2. o = r
    <3>1. r.call <= r.call
      OBVIOUS
    <3>2. \E e \in {r} : \A q \in {r} : e.call <= q.call
      BY <3>1
    <3> QED
      BY <3>2
  <2>3. {r} \in SUBSET {r} /\ {r} # {} /\ {r} \ {r} = {}
    OBVIOUS
  <2>4. f[{r}] = <<[call |-> o.call, error |-> error]>> \o f[{r} \ {o}]
    BY <1>1, <2>3, Zenon
  <2> HIDE DEF o
  <2>5. f[{r}] = <<p>> \o <<>>
    BY <2>1, <2>2, <2>3, <2>4, Zenon
  <2> QED
    BY <2>5
<1>2. g = [set \in SUBSET {r} |-> step(g, set)]
  <2>1. ASSUME NEW set \in SUBSET {r} PROVE g[set] = step(g, set)
    <3>1. CASE set = {}
      BY <3>1, Zenon
    <3>2. CASE set # {}
      <4>1. set = {r}
        BY <3>2
      <4> DEFINE o == CHOOSE o \in set : \A q \in set : o.call <= q.call
      <4>2. o = r
        <5>1. r.call <= r.call
          OBVIOUS
        <5>2. \E e \in set : \A q \in set : e.call <= q.call
          BY <4>1, <5>1
        <5>3. o \in set
          BY <5>2, Zenon
        <5> QED
          BY <4>1, <5>3
      <4>3. step(g, set) = <<[call |-> o.call, error |-> error]>> \o g[set \ {o}]
        BY <3>2
      <4> HIDE DEF o
      <4>4. set \ {o} = {} /\ g[{}] = <<>> /\ g[set] = <<p>>
        BY <3>2, <4>1, <4>2
      <4>5. step(g, set) = <<p>> \o <<>>
        BY <4>2, <4>3, <4>4, Zenon
      <4> HIDE DEF p, g, step
      <4>6. <<p>> \o <<>> = <<p>>
        OBVIOUS
      <4> QED
        BY <4>4, <4>5, <4>6
    <3> QED
      BY <3>1, <3>2
  <2> QED
    BY <2>1, Zenon
<1> DEFINE h == CHOOSE f : f = [set \in SUBSET {r} |-> step(f, set)]
<1>3. h = [set \in SUBSET {r} |-> step(h, set)]
  <2> HIDE DEF g
  <2> QED
    BY <1>2, Zenon
<1>4. Posted({r}, error) = posted \o h[{r}]
  BY DEF Posted
<1> HIDE DEF h, g
<1>5. h[{r}] = <<p>>
  <2> HIDE DEF step
  <2> QED
    BY <1>1, <1>3, Zenon
<1>6. Posted({r}, error) = <<>> \o <<p>>
  BY <1>4, <1>5
<1> QED
  BY <1>6

\* Cancelling an operation keeps it one, and does not end it.
LEMMA CancelFacts ==
  ASSUME NEW op \in {"none", "pending", "success", "error", "aborted"}
  PROVE  /\ Cancel(op) \in {"none", "pending", "success", "error", "aborted"}
         /\ Cancel(op) = "none" <=> op = "none"
  BY Zenon DEF Cancel

\* Steps of the object alone that keep whether it resolves.
LEMMA PortOnly ==
  ASSUME PortInv,
         port' \in [life : {"alive", "destroyed"}, timed_out : BOOLEAN,
                    resolve : {"none", "pending", "success", "error", "aborted"},
                    timer : {"none", "pending", "success", "error", "aborted"}],
         port.life # "none", port'.resolve = "none" <=> port.resolve = "none",
         UNCHANGED <<requests, calls_made, request_count, rx, posted, port_told>>
  PROVE  PortInv'
<1>1. port'.life # "none"
  OBVIOUS
<1>2. Unasked' <=> Unasked
  BY DEF Unasked
<1>3. Asked' <=> Asked
  BY DEF Asked
<1>4. Over' <=> Over
  BY Zenon DEF Over
<1>5. IF port'.resolve # "none" THEN Unasked' /\ port_told' = <<>> ELSE Asked' \/ Over'
  BY <1>2, <1>3, <1>4 DEF PortInv
<1> QED
  BY <1>1, <1>5 DEF PortInv

\* Making the object, its operations, its timer and its end.
LEMMA ObjectStep ==
  PortInv /\ (Construct \/ Completes \/ on_port_timeout \/ DestroyPort) => PortInv'
<1> DEFINE O == {"none", "pending", "success", "error", "aborted"}
           P == [life : {"none", "alive", "destroyed"}, timed_out : BOOLEAN, resolve : O, timer : O]
           Q == [life : {"alive", "destroyed"}, timed_out : BOOLEAN, resolve : O, timer : O]
<1> SUFFICES ASSUME PortInv, Construct \/ Completes \/ on_port_timeout \/ DestroyPort PROVE PortInv'
  OBVIOUS
<1>1. port \in P /\ (port.life = "none" => port.resolve = "none" /\ port.timer = "none")
  BY DEF PortInv
<1>2. /\ Cancel(port.resolve) \in O /\ (Cancel(port.resolve) = "none" <=> port.resolve = "none")
      /\ Cancel(port.timer) \in O
  BY <1>1, CancelFacts, Zenon
<1>3. ResetClient => UNCHANGED <<requests, calls_made, request_count, rx, posted>>
  BY Zenon DEF ResetClient, destroy, stunVars
<1>4. CASE Construct
  <2>1. Unasked /\ port_told = <<>>
    BY <1>4 DEF Construct, PortInv
  <2>2. Unasked' /\ port_told' = <<>>
    BY <1>4, <2>1 DEF Construct, Unasked, stunVars
  <2>3. port' \in Q /\ port'.life = "alive" /\ port'.resolve = "pending"
    BY <1>1, <1>4, Zenon DEF Construct
  <2> QED
    BY <2>2, <2>3 DEF PortInv
<1>5. CASE Completes
  <2>1. port.life # "none"
    BY <1>1, <1>5 DEF Completes
  <2>2. port' \in Q /\ (port'.resolve = "none" <=> port.resolve = "none")
    <3>1. CASE port.resolve = "pending" /\ \E r \in {"success", "error"} : port' = [port EXCEPT !.resolve = r]
      BY <1>1, <2>1, <3>1
    <3>2. CASE port' = [port EXCEPT !.timer = "success"]
      BY <1>1, <2>1, <3>2
    <3> QED
      BY <1>5, <3>1, <3>2 DEF Completes
  <2>3. UNCHANGED <<requests, calls_made, request_count, rx, posted, port_told>>
    BY <1>5 DEF Completes, stunVars
  <2> QED
    BY <2>1, <2>2, <2>3, PortOnly
<1>6. CASE on_port_timeout
  <2>1. port.life # "none"
    BY <1>1, <1>6 DEF on_port_timeout
  <2>2. port' \in Q /\ (port'.resolve = "none" <=> port.resolve = "none")
    <3>1. CASE port' = [port EXCEPT !.timer = "none", !.timed_out = TRUE, !.resolve = Cancel(port.resolve)]
      BY <1>1, <1>2, <2>1, <3>1, Zenon
    <3>2. CASE port' = [port EXCEPT !.timer = "none"]
      BY <1>1, <2>1, <3>2
    <3> QED
      BY <1>6, <3>1, <3>2 DEF on_port_timeout
  <2>3. UNCHANGED <<requests, calls_made, request_count, rx, posted, port_told>>
    BY <1>3, <1>6 DEF on_port_timeout, stunVars
  <2> QED
    BY <2>1, <2>2, <2>3, PortOnly
<1>7. CASE DestroyPort
  <2>1. port.life = "alive" /\ port' = [port EXCEPT !.life = "destroyed",
          !.resolve = Cancel(port.resolve), !.timer = Cancel(port.timer)]
    BY <1>7 DEF DestroyPort
  <2>2. port' \in Q /\ (port'.resolve = "none" <=> port.resolve = "none")
    BY <1>1, <1>2, <2>1, Zenon
  <2>3. UNCHANGED <<requests, calls_made, request_count, rx, posted, port_told>>
    BY <1>3, <1>7 DEF DestroyPort
  <2> QED
    BY <2>1, <2>2, <2>3, PortOnly
<1> QED
  BY <1>4, <1>5, <1>6, <1>7

\* The resolver's handler asks, or tells the user.
LEMMA ResolveStep == PortInv /\ on_resolve => PortInv'
<1> SUFFICES ASSUME PortInv, on_resolve PROVE PortInv'
  OBVIOUS
<1>1. /\ port.resolve # "none" /\ port.life # "none" /\ Unasked /\ port_told = <<>>
      /\ port' = [port EXCEPT !.resolve = "none"]
  BY DEF PortInv, on_resolve
<1>2. /\ port' \in [life : {"none", "alive", "destroyed"}, timed_out : BOOLEAN,
                    resolve : {"none", "pending", "success", "error", "aborted"},
                    timer : {"none", "pending", "success", "error", "aborted"}]
      /\ port'.life # "none" /\ port'.resolve = "none"
  BY <1>1, Zenon DEF PortInv
<1>3. CASE \E e : port_told' = Append(port_told, e) /\ UNCHANGED stunVars
  <2>1. \E e : port_told' = <<e>>
    BY <1>1, <1>3
  <2>2. rx'.op = "none" /\ posted' = <<>>
    BY <1>1, <1>3 DEF Unasked, stunVars
  <2>3. Over'
    BY <2>1, <2>2, Zenon DEF Over
  <2> QED
    BY <1>2, <2>3 DEF PortInv
<1>4. CASE (\E s \in Servers : reflect(s)) /\ UNCHANGED port_told
  <2>1. PICK s \in Servers : reflect(s)
    BY <1>4
  <2>2. requests = {} /\ request_count = 0 /\ calls_made = 0 /\ posted = <<>> /\ RequestTo(s) = {}
    BY <1>1, Zenon DEF Unasked, RequestTo
  <2>3. /\ requests' = requests \cup {[to |-> s, call |-> calls_made + 1]}
        /\ request_count' = 1 /\ rx' = Receiving /\ posted' = <<>>
    BY <2>1, <2>2 DEF reflect
  <2> DEFINE r == [to |-> s, call |-> calls_made + 1]
  <2>4. requests' = {r} /\ r.call \in Int
    BY <2>2, <2>3
  <2>5. rx'.op # "none"
    BY <2>3 DEF Receiving
  <2> HIDE DEF r
  <2>6. Asked'
    BY <1>1, <1>4, <2>3, <2>4, <2>5 DEF Asked
  <2> QED
    BY <1>2, <2>6 DEF PortInv
<1>5. (\E e : port_told' = Append(port_told, e) /\ UNCHANGED stunVars)
      \/ ((\E s \in Servers : reflect(s)) /\ UNCHANGED port_told)
  BY DEF on_resolve
<1> QED
  BY <1>3, <1>4, <1>5

\* The handler of the request tells the user.
LEMMA ReflectedStep == PortInv /\ on_reflected => PortInv'
<1> SUFFICES ASSUME PortInv, on_reflected PROVE PortInv'
  OBVIOUS
<1>1. posted # <<>> /\ posted' = Tail(posted) /\ rx' = rx
  BY Zenon DEF on_reflected, RunHandler
<1>2. port.life # "none" /\ port.resolve = "none" /\ Over
  BY <1>1 DEF PortInv, Unasked, Asked
<1>3. PICK p : posted = <<p>> /\ port_told = <<>> /\ rx.op = "none"
  BY <1>1, <1>2 DEF Over
<1>4. \E e : port_told' = Append(port_told, e)
  BY DEF on_reflected
<1>5. posted' = <<>> /\ \E e : port_told' = <<e>>
  BY <1>1, <1>3, <1>4
<1>6. Over'
  BY <1>1, <1>3, <1>5 DEF Over
<1>7. Cancel(port.timer) \in {"none", "pending", "success", "error", "aborted"}
  BY CancelFacts DEF PortInv
<1>8. /\ port' \in [life : {"none", "alive", "destroyed"}, timed_out : BOOLEAN,
                    resolve : {"none", "pending", "success", "error", "aborted"},
                    timer : {"none", "pending", "success", "error", "aborted"}]
      /\ port'.life # "none" /\ port'.resolve = "none"
  <2>1. port' = port \/ port' = [port EXCEPT !.timer = Cancel(port.timer)]
    BY Zenon DEF on_reflected
  <2> QED
    BY <1>2, <1>7, <2>1 DEF PortInv
<1> QED
  BY <1>6, <1>8 DEF PortInv

\* A step of the client that keeps `Unasked', or the request in its place.
LEMMA ClientOnly ==
  ASSUME PortInv, UNCHANGED portVars, Unasked => Unasked', Asked => Asked' \/ Over', Over => Over'
  PROVE  PortInv'
  BY DEF PortInv, portVars

\* The receive: what is in rx and the inbox changes, and on_recv ends the request or
\* receives again.
LEMMA ReceiveStep ==
  ASSUME PortInv, UNCHANGED portVars,
         (\E s \in Servers : Answer(s)) \/ Disturb \/ ReceivePacket \/ ReceiveError \/ on_recv
  PROVE  PortInv'
<1>1. CASE (\E s \in Servers : Answer(s)) \/ Disturb
  <2>1. UNCHANGED <<requests, calls_made, request_count, rx, posted>>
    BY <1>1 DEF Answer, Disturb
  <2> QED
    BY <2>1, ClientOnly, Zenon DEF Unasked, Asked, Over, portVars
<1>2. CASE ReceivePacket \/ ReceiveError
  <2>1. /\ UNCHANGED <<requests, calls_made, request_count, posted>>
        /\ rx.op = "waiting" /\ rx'.op = "queued"
    <3>1. CASE ReceivePacket
      BY <3>1, Zenon DEF ReceivePacket
    <3>2. CASE ReceiveError
      BY <3>2 DEF ReceiveError
    <3> QED
      BY <1>2, <3>1, <3>2, Zenon
  <2>2. ~Unasked /\ ~Over
    BY <2>1 DEF Unasked, Over
  <2>3. Asked => Asked'
    BY <2>1 DEF Asked, portVars
  <2> QED
    BY <2>2, <2>3, ClientOnly
<1>3. CASE on_recv
  <2>1. rx.op = "queued"
    BY <1>3, Zenon DEF on_recv
  <2>2. ~Unasked /\ ~Over
    BY <2>1 DEF Unasked, Over
  <2>3. Asked => Asked' \/ Over'
    <3> SUFFICES ASSUME Asked PROVE Asked' \/ Over'
      OBVIOUS
    <3>1. PICK r : r.call \in Int /\ requests = {r}
      BY DEF Asked
    <3>2. port_told = <<>> /\ port_told' = <<>> /\ posted = <<>> /\ request_count = 1
      BY DEF Asked, portVars
    <3>3. \A error : \E p : Posted({r}, error) = <<p>>
      BY <3>1, <3>2, PostedOne
    <3>4. \A from : RequestTo(from) = {} \/ RequestTo(from) = {r}
      BY <3>1 DEF RequestTo
    <3>5. Counted => rx' = Idle
      BY <3>2 DEF Counted
    <3>6. Idle.op = "none" /\ Receiving.op = "waiting"
      BY DEF Idle, Receiving
    <3>7. ASSUME NEW error, posted' = Posted({r}, error), rx' = Idle PROVE Over'
      BY <3>2, <3>3, <3>6, <3>7, Zenon DEF Over
    <3>8. CASE \E error : destroy_requests(error)
      BY <3>1, <3>7, <3>8 DEF destroy_requests
    <3>9. CASE rx' = Receiving /\ UNCHANGED <<requests, request_count, posted>>
      BY <3>2, <3>6, <3>9 DEF Asked
    <3>10. CASE RequestTo(rx.packet.from) # {} /\ Counted /\ \E error : execute(RequestTo(rx.packet.from), error)
      BY <3>4, <3>5, <3>7, <3>10 DEF execute
    <3>11. CASE Counted /\ UNCHANGED posted
      BY <3>2, <3>5, <3>6, <3>11 DEF Over
    <3> QED
      BY <1>3, <3>8, <3>9, <3>10, <3>11, Zenon DEF on_recv
  <2> QED
    BY <2>2, <2>3, ClientOnly
<1> QED
  BY <1>1, <1>2, <1>3, Zenon

\* get_external_port.h: the user is told at most once, and from then on nobody
\* receives from the socket that they are given and no handler is left to run,
\* however the resolver, the answers, the timer and the destructor race.
THEOREM LeavesSocketFree == PortSpec => []SocketFree
<1> DEFINE v == <<stunVars, portVars>>
<1>1. StunInit /\ PortInit => PortInv
  <2> SUFFICES ASSUME StunInit, PortInit PROVE PortInv
    OBVIOUS
  <2>1. Unasked
    BY DEF StunInit, Unasked, Idle
  <2> QED
    BY <2>1 DEF PortInit, PortInv
<1>2. PortInv /\ [PortNext]_v => PortInv'
  <2> SUFFICES ASSUME PortInv, [PortNext]_v PROVE PortInv'
    BY Zenon
  <2>1. CASE UNCHANGED v
    <3>1. UNCHANGED portVars /\ UNCHANGED <<requests, calls_made, request_count, rx, posted>>
      BY <2>1 DEF stunVars
    <3> QED
      BY <3>1, ClientOnly DEF Unasked, Asked, Over, portVars
  <2> QED
    BY <2>1, ObjectStep, ResolveStep, ReflectedStep, ReceiveStep DEF PortNext
<1>3. PortInv => SocketFree
  BY DEF PortInv, Unasked, Asked, Over, SocketFree
<1> QED
  BY <1>1, <1>2, <1>3, PTL DEF PortSpec
===============================================================================
