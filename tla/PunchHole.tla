------------------------------ MODULE PunchHole ------------------------------
(***************************************************************************)
(* Hole punching (include/club/transport/punch_hole.h): one loop receives  *)
(* and another sends syn packets, with a timer between two of them; both   *)
(* end in handle_common, and its second call tells the user.               *)
(***************************************************************************)
EXTENDS Naturals, Sequences

CONSTANTS
  Retries,     \* _retry_count
  Remote,      \* the endpoint, <<address, port>>, given to the constructor
  Sources      \* the endpoints that packets come from

VARIABLES
  remote,      \* _remote_endpoint
  result,      \* _result_error, "none" until it is set
  open,        \* is the socket open?
  recv,        \* the receive: op "none", "waiting", "queued" (its handler) or "done"
  send,        \* the send loop: op "none", "send", "wait", "timeout" (queued) or "done"
  punched,     \* the errors on_punch was called with
  heard        \* the sources of the packets received

punchVars == <<remote, result, open, recv, send, punched, heard>>

ErrorNow == IF open THEN "success" ELSE "aborted"

Waiting(ep) == [op |-> "waiting", error |-> "success", from |-> ep]

\* async_receive_from; on a closed socket its handler is queued at once.
start_receiving ==
  recv' = IF open THEN Waiting(remote)
          ELSE [op |-> "queued", error |-> "aborted", from |-> remote]

start_sending(attempt) ==
  send' = [op |-> "send", error |-> ErrorNow, attempt |-> attempt]

PunchInit ==
  /\ remote = Remote /\ result = "none" /\ open = TRUE
  /\ recv = [op |-> "none", error |-> "success", from |-> Remote]
  /\ send = [op |-> "none", error |-> "success", attempt |-> 0]
  /\ punched = <<>> /\ heard = {}

\* punch_hole and PunchHole::start
punch_hole ==
  /\ recv.op = "none"
  /\ start_receiving
  /\ start_sending(0)
  /\ UNCHANGED <<remote, result, open, punched, heard>>

\* udp::socket::close, when r is the receive.
Aborting(r) ==
  IF r.op = "waiting" THEN [r EXCEPT !.op = "queued", !.error = "aborted"] ELSE r

\* Mutant: a loop that ends does not close the socket the other one uses.
HandleCommonOpen(error, r, s) ==
  /\ result' = IF result = "none" THEN error ELSE result
  /\ punched' = IF result = "none" THEN punched ELSE Append(punched, result)
  /\ recv' = r
  /\ send' = IF s.op = "wait" THEN [s EXCEPT !.op = "timeout"] ELSE s
  /\ UNCHANGED open

\* Mutant: the result of the loop that ends last is told.
HandleCommonLast(error, r, s) ==
  /\ result' = error
  /\ punched' = IF result = "none" THEN punched ELSE Append(punched, error)
  /\ send' = IF s.op = "wait" THEN [s EXCEPT !.op = "timeout"] ELSE s
  /\ open' = (open /\ error = "success")
  /\ recv' = IF open' THEN r ELSE Aborting(r)

\* Called when a loop ends; r and s are what the two loops then are.
handle_common(error, r, s) ==
  \/ /\ result # "none"
     /\ punched' = Append(punched, result)
     /\ recv' = r /\ send' = s
     /\ UNCHANGED <<result, open>>
  \/ /\ result = "none"
     /\ result' = error
     /\ send' = IF s.op = "wait" THEN [s EXCEPT !.op = "timeout"] ELSE s
     /\ open' = (open /\ error = "success")
     /\ recv' = IF error = "success" THEN r ELSE Aborting(r)
     /\ UNCHANGED punched

Arrive ==
  /\ recv.op = "waiting"
  /\ \E ep \in Sources :
       /\ recv' = [op |-> "queued", error |-> "success", from |-> ep]
       /\ heard' = heard \cup {ep}
  /\ UNCHANGED <<remote, result, open, send, punched>>

\* The owner of the socket closes it.
CloseSocket ==
  /\ open /\ open' = FALSE
  /\ recv' = Aborting(recv)
  /\ UNCHANGED <<remote, result, send, punched, heard>>

Received == [recv EXCEPT !.op = "done"]

on_receive ==
  /\ recv.op = "queued"
  /\ \/ /\ recv.error # "success" \/ result # "none"
        /\ handle_common(recv.error, Received, send)
        /\ UNCHANGED remote
     \/ /\ recv.error = "success" /\ result = "none"
        /\ \/ /\ recv.from[1] # remote[1]
              /\ start_receiving
              /\ UNCHANGED <<remote, result, open, send, punched>>
           \/ /\ recv.from[1] = remote[1]
              /\ remote' = recv.from
              /\ handle_common("success", Received, send)
  /\ UNCHANGED heard

Sent == [send EXCEPT !.op = "done"]

on_send ==
  /\ send.op = "send"
  /\ \/ /\ send.error # "success" \/ result # "none"
        /\ handle_common(send.error, recv, Sent)
     \/ /\ send.error = "success" /\ result = "none"
        /\ \/ /\ send.attempt = Retries
              /\ handle_common("host_unreachable", recv, Sent)
           \/ /\ send.attempt # Retries
              /\ send' = [send EXCEPT !.op = "wait"]
              /\ UNCHANGED <<result, open, recv, punched>>
  /\ UNCHANGED <<remote, heard>>

\* The timer expires, or it was cancelled: the handler does not ask which.
on_timer ==
  /\ send.op \in {"wait", "timeout"}
  /\ start_sending(send.attempt + 1)
  /\ UNCHANGED <<remote, result, open, recv, punched, heard>>

PunchNext == punch_hole \/ Arrive \/ CloseSocket \/ on_receive \/ on_send \/ on_timer

PunchSpec == PunchInit /\ [][PunchNext]_punchVars
-------------------------------------------------------------------------------
\* "We only have two async action that call this function": on_punch is called
\* once, when both have ended, so that nothing refers to the puncher any more.
\* Success means that a packet came from the endpoint that is told, whose address
\* is the one asked for; otherwise the socket is closed.
ToldRight ==
  punched # <<>> =>
    /\ Len(punched) = 1 /\ recv.op = "done" /\ send.op = "done"
    /\ IF punched[1] = "success" THEN remote \in heard /\ remote[1] = Remote[1] ELSE ~open

\* The user is told, packets or not.
EventuallyPunched == recv.op # "none" ~> punched # <<>>
===============================================================================
