---------------------------- MODULE GetExternalPort ----------------------------
(***************************************************************************)
(* GetExternalPort (src/club/get_external_port.h): resolve a STUN server,  *)
(* ask it, and give the socket with the external endpoint to the user,     *)
(* unless a timer or the destructor comes first.  The three race with each *)
(* other and with the StunClient below.                                    *)
(***************************************************************************)
EXTENDS StunClient

VARIABLES
  port,       \* the object: `life' "none", "alive" or "destroyed"; `resolve' and
              \* `timer' are operations: "none", "pending", or their handler is
              \* queued with "success", "error" or "aborted"; `timed_out'
  port_told   \* the errors that the user's handler was called with

portVars == <<port, port_told>>

PortInit ==
  /\ port = [life |-> "none", resolve |-> "none", timer |-> "none", timed_out |-> FALSE]
  /\ port_told = <<>>

\* The constructor.
Construct ==
  /\ port.life = "none"
  /\ port' = [port EXCEPT !.life = "alive", !.resolve = "pending", !.timer = "pending"]
  /\ UNCHANGED <<stunVars, port_told>>

Completes ==
  /\ \/ /\ port.resolve = "pending"
        /\ \E result \in {"success", "error"} : port' = [port EXCEPT !.resolve = result]
     \/ port.timer = "pending" /\ port' = [port EXCEPT !.timer = "success"]
  /\ UNCHANGED <<stunVars, port_told>>

\* cancel of a timer or a resolver: a handler that is queued already stays as it is.
Cancel(op) == IF op = "pending" THEN "aborted" ELSE op

\* The StunClient's destructor, if it has not run.
ResetClient == destroy \/ (was_destroyed /\ UNCHANGED stunVars)

\* Mutant: the request is left to go on.
TimeoutOnly ==
  /\ port.timer \notin {"none", "pending"}
  /\ port' = [port EXCEPT !.timer = "none", !.timed_out = TRUE, !.resolve = Cancel(@)]
  /\ UNCHANGED <<stunVars, port_told>>

\* The handler of the timer.
on_port_timeout ==
  /\ port.timer \notin {"none", "pending"}
  /\ \/ /\ port.life = "alive" /\ port.timer = "success"
        /\ port' = [port EXCEPT !.timer = "none", !.timed_out = TRUE, !.resolve = Cancel(@)]
        /\ ResetClient
     \/ /\ port.life = "destroyed" \/ port.timer # "success"
        /\ port' = [port EXCEPT !.timer = "none"]
        /\ UNCHANGED stunVars
  /\ UNCHANGED port_told

\* The handler of the resolver.
on_resolve ==
  LET error == IF port.timed_out THEN "timed_out"
               ELSE IF port.life = "destroyed" THEN "aborted" ELSE port.resolve
  IN  /\ port.resolve \notin {"none", "pending"}
      /\ port' = [port EXCEPT !.resolve = "none"]
      /\ \/ /\ error # "success"
            /\ port_told' = Append(port_told, error)
            /\ UNCHANGED stunVars
         \/ /\ error = "success"
            /\ \E s \in Servers : reflect(s)
            /\ UNCHANGED port_told

\* The handler that was given to StunClient::reflect.
on_reflected ==
  LET error == Head(posted).error IN
  /\ RunHandler
  /\ \/ /\ port.life = "destroyed"
        /\ port_told' = Append(port_told, "aborted")
        /\ UNCHANGED port
     \/ /\ port.life = "alive"
        /\ port_told' = Append(port_told,
             IF error # "success" /\ port.timed_out THEN "timed_out" ELSE error)
        /\ port' = [port EXCEPT !.timer = Cancel(@)]

\* The destructor, and those of its members.
DestroyPort ==
  /\ port.life = "alive"
  /\ port' = [port EXCEPT !.life = "destroyed", !.resolve = Cancel(@), !.timer = Cancel(@)]
  /\ ResetClient
  /\ UNCHANGED port_told

PortNext ==
  \/ Construct \/ Completes \/ on_port_timeout \/ on_resolve \/ on_reflected \/ DestroyPort
  \/ /\ \/ \E s \in Servers : Answer(s)
        \/ Disturb \/ ReceivePacket \/ ReceiveError \/ on_recv
     /\ UNCHANGED portVars

PortSpec == StunInit /\ PortInit /\ [][PortNext]_<<stunVars, portVars>>

\* Handlers run and the timer expires; servers and resolvers need not answer.
PortFairness ==
  /\ []<>(port.timer # "pending")
  /\ []<>(port.timer \in {"none", "pending"})
  /\ []<>(port.resolve \in {"none", "pending"})
-------------------------------------------------------------------------------
\* The user is told once, and when they are, nobody receives from the socket that
\* they are given.
SocketFree == port_told # <<>> => Len(port_told) = 1 /\ rx.op = "none" /\ posted = <<>>

\* The user is told: by the answer, by a failed receive, by the timer, or by the
\* destructor; unless the server's answer had no usable address.  Then the count of
\* the requests is 0, nobody receives, and the StunClient's destructor, which the timer
\* and the destructor run, wakes nobody: the code never tells the user.
EventuallyPort == port.life # "none" ~> port_told # <<>> \/ 1 \in unheard
===============================================================================
