------------------------------ MODULE MCSocket ------------------------------
(***************************************************************************)
(* Instances of Socket for TLC: the scopes, and sockets that are connected *)
(* already.                                                                *)
(***************************************************************************)
EXTENDS Socket

CONSTANTS
  Fresh   \* the scopes that begin with new sockets

Silent == [n \in Ends |-> 0]
FirstOnce == [n \in Ends |-> IF n = 1 THEN 1 ELSE 0]
FirstTwice == [n \in Ends |-> IF n = 1 THEN 2 ELSE 0]

\* Two new sockets; their sync messages and acknowledgements get lost.
Handshake ==
  [sizes |-> {1}, kinds |-> {"again"}, reliable |-> Silent, unreliable |-> Silent,
   slow |-> {}, keepers |-> {1, 2}, closers |-> {}, unheard |-> {}, faults |-> {}, wire |-> 1]

\* Two reliable messages and flushes; packets are lost when others are sent.
Reliable == [Handshake EXCEPT !.reliable = FirstTwice, !.keepers = {1}]

\* The same over a network that loses, duplicates and reorders packets.
Faulty == [Reliable EXCEPT !.wire = 2, !.faults = {"lose", "duplicate"}]

\* One reliable message that is split in all ways in up to three parts.
Parts == [Faulty EXCEPT !.reliable = FirstOnce, !.sizes = {3}]

\* Sends take time and the congestion window fills.
Window == [Reliable EXCEPT !.slow = {1}, !.faults = {"lose"}]

\* Two unreliable messages of one or two parts.
Unreliable ==
  [Faulty EXCEPT !.reliable = Silent, !.unreliable = FirstTwice, !.sizes = {1, 2}]

\* An owner and the handlers close the sockets, and receives time out.
Closing ==
  [Reliable EXCEPT !.reliable = FirstOnce, !.kinds = {"again", "once", "close"},
                   !.closers = {1}, !.unheard = {1, 2}]

\* The owner of the first socket closes it while the second one has handlers for
\* both sorts of messages.
Reset ==
  [Reliable EXCEPT !.reliable = FirstOnce, !.unreliable = FirstOnce, !.kinds = {"once"},
                   !.closers = {1}, !.unheard = {1, 2}]

\* The owner of a socket with a receive handler closes it.
Abort == [Reliable EXCEPT !.reliable = FirstOnce, !.closers = {2}]

SafetyScopes == {Faulty, Parts, Window, Unreliable}
LivenessScopes == {Handshake, Reliable, Closing, Reset}
HandshakeOnly == {Handshake}
AbortOnly == {Abort}

\* The sockets when both sync messages have been acknowledged.
SyncIds == Decoded(try_add(EmptyAckSet, 0))
ConnectedSocket(n) ==
  [NewSocket(n) EXCEPT !.state = "open", !.recv = "waiting", !.alarms = {"keepalive", "timeout"},
                    !.sync = TRUE, !.ids = SyncIds, !.peer_ids = SyncIds]

MCInit ==
  /\ scope \in Scopes
  /\ sock = [n \in Ends |-> IF scope \in Fresh THEN NewSocket(n) ELSE ConnectedSocket(n)]
  /\ wire = [n \in Ends |-> {}]

MCSpec == MCInit /\ [][Next]_vars
MCFairSpec == MCSpec /\ Fairness(0)

\* Two new sockets get there, whatever sync messages and acknowledgements are lost.
EventuallyConnected ==
  scope \in Fresh => <>(\A n \in Ends :
    sock[n] = [ConnectedSocket(n) EXCEPT !.window = sock[n].window, !.alarms = sock[n].alarms])
===============================================================================
