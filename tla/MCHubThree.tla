------------------------------ MODULE MCHubThree ------------------------------
(* Three hubs, in one of two networks.  In "line" the hubs only fuse, in     *)
(* any order, and one socket may break.  In "cycle" messages arrive on two   *)
(* paths; hub 2 sends, and may be destroyed.                                 *)
EXTENDS MCHub

VARIABLE plan

PlanInit == Init /\ plan \in {"line", "cycle"}
PlanNext == Next /\ UNCHANGED plan
PlanSpec == PlanInit /\ [][PlanNext]_<<vars, plan>>

\* Bound: the third socket is not used, and nobody sends or is destroyed.
Line ==
  /\ UNCHANGED <<socket[3], sent>>
  /\ \A n \in Nodes : hub'[n].status # "destroyed"

\* Bound: the owners fuse when the network has settled, the handlers of two hubs
\* do not overlap, and no socket breaks by itself.
Sequential ==
  /\ breaks' = 0
  /\ (\E k \in Sockets : socket'[k] # socket[k] /\ \A n \in Ends[k] : socket[k][n] = "unused")
       => Quiescent
  /\ \A n, u \in Nodes :
       n # u /\ hub'[n] # hub[n] /\ Alive(hub'[n]) /\ sent' = sent => hub[u].loop.at = "idle"

\* Bound: while the network is being built, the sockets are fused in order, the
\* hubs receive in the order of their uuids, and neither the applications nor
\* the network interfere.  From then on everything interleaves.
Building ==
  /\ \A n \in Nodes : Alive(hub[n]) /\ sent[n] = <<>>
  /\ breaks = 0
  /\ Quiescent => \E k \in Sockets : \E n \in Ends[k] : socket[k][n] = "unused"

InOrder ==
  Building =>
    /\ UNCHANGED <<sent, breaks>>
    /\ \A n \in Nodes : Alive(hub'[n])
    /\ \A j, k \in Sockets : j < k /\ socket'[k] # socket[k] =>
         \A n \in Ends[j] : socket[j][n] # "unused"
    /\ \A n, u \in Nodes : \A k \in Sockets :
         u < n /\ Len(wire'[k][n]) < Len(wire[k][n]) => \A j \in Sockets : wire[j][u] = <<>>
Planned == IF plan = "line" THEN Line ELSE Sequential /\ InOrder
===============================================================================
