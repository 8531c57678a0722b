------------------------- MODULE TotalOrderBroadcast -------------------------
(***************************************************************************)
(* What hub::total_order_broadcast promises (include/club/hub.h).  Every   *)
(* hub reports messages and changes of the members to its application, in  *)
(* the order of their identifiers; a message is reported only when its     *)
(* poster sent it; a message is ordered after everything its poster had    *)
(* sent or reported before.                                                *)
(***************************************************************************)
EXTENDS Naturals, Sequences, MessageId

CONSTANT Nodes

VARIABLES
  history,  \* history[n]: sequence of reports [type, id]
  sent      \* sent[n]: sequence of identifiers

Reports == [type : {"user_data", "fuse"}, id : MessageIds]

\* The elements of a sequence.
Elements(s) == {s[i] : i \in DOMAIN s}

Init ==
  /\ history = [n \in Nodes |-> <<>>]
  /\ sent = [n \in Nodes |-> <<>>]

\* n sends a message that is new in the order n knows of.
Send(n) ==
  \E id \in Elements(sent'[n]) :
    /\ id \in MessageIds
    /\ PosterOf(id) = n
    /\ \A o \in Elements(sent[n]) : Before(o, id)
    /\ \A r \in Elements(history[n]) : Before(r.id, id)
    /\ sent' = [sent EXCEPT ![n] = Append(@, id)]
    /\ UNCHANGED history

\* n reports what comes after everything it has reported.
Report(n) ==
  \E r \in Elements(history'[n]) :
    /\ r \in Reports
    /\ PosterOf(r.id) \in Nodes
    /\ \A o \in Elements(history[n]) : Before(o.id, r.id)
    /\ r.type = "user_data" => r.id \in Elements(sent[PosterOf(r.id)])
    /\ history' = [history EXCEPT ![n] = Append(@, r)]
    /\ UNCHANGED sent

Next == \E n \in Nodes : Send(n) \/ Report(n)

Spec == Init /\ [][Next]_<<history, sent>>
-------------------------------------------------------------------------------
\* hub.h, property 1: two hubs that report the same two things report them in
\* the same order.  With one hub twice: nothing is reported twice.
TotalOrder ==
  \A p, q \in Nodes :
    \A i, j \in DOMAIN history[p] : \A k, l \in DOMAIN history[q] :
      /\ i < j
      /\ history[p][i].id = history[q][k].id
      /\ history[p][j].id = history[q][l].id
      => k < l

\* hub.h, property 2: the messages of one sender are reported in the order in
\* which it sent them.
SenderOrder ==
  \A p, n \in Nodes :
    \A i, j \in DOMAIN sent[n] : \A k, l \in DOMAIN history[p] :
      /\ i < j
      /\ history[p][k].id = sent[n][i]
      /\ history[p][l].id = sent[n][j]
      => k < l
===============================================================================
