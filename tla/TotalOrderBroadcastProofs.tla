---------------------- MODULE TotalOrderBroadcastProofs ----------------------
(***************************************************************************)
(* The abstract broadcast has the two properties hub.h states: every hub   *)
(* sends and reports in the order of identifiers, which is a strict order. *)
(***************************************************************************)
EXTENDS TotalOrderBroadcast, TLAPS

TypeInv ==
  /\ history \in [Nodes -> Seq(Reports)]
  /\ sent \in [Nodes -> Seq(MessageIds)]

\* Every hub sends and reports in the order of identifiers.
Sorted ==
  /\ \A n \in Nodes : \A i, j \in DOMAIN sent[n] :
       i < j => Before(sent[n][i], sent[n][j])
  /\ \A n \in Nodes : \A i, j \in DOMAIN history[n] :
       i < j => Before(history[n][i].id, history[n][j].id)

\* operator < of MessageId is asymmetric.
LEMMA BeforeAsymmetric ==
  ASSUME NEW a \in MessageIds, NEW b \in MessageIds, Before(a, b)
  PROVE  ~Before(b, a) /\ a # b
BY DEF MessageIds, Before

\* The invariant of the abstract broadcast.
THEOREM SortedInvariant == Spec => [](TypeInv /\ Sorted)
<1>1. Init => TypeInv /\ Sorted
  BY DEF Init, TypeInv, Sorted
<1>2. TypeInv /\ Sorted /\ [Next]_<<history, sent>> => (TypeInv /\ Sorted)'
  <2> SUFFICES ASSUME TypeInv, Sorted, [Next]_<<history, sent>>
               PROVE  (TypeInv /\ Sorted)'
    OBVIOUS
  <2>1. ASSUME NEW n \in Nodes, Send(n)
        PROVE  (TypeInv /\ Sorted)'
    <3>1. PICK id \in MessageIds :
            /\ \A o \in Elements(sent[n]) : Before(o, id)
            /\ sent' = [sent EXCEPT ![n] = Append(@, id)]
            /\ UNCHANGED history
      BY <2>1, Zenon DEF Send
    <3>2. \A i \in DOMAIN sent[n] : Before(sent[n][i], id)
      BY <3>1 DEF Elements
    <3>3. sent'[n] = Append(sent[n], id) /\ \A m \in Nodes \ {n} : sent'[m] = sent[m]
      BY <3>1 DEF TypeInv
    <3>4. TypeInv'
      BY <3>1 DEF TypeInv
    <3>5. \A i, j \in DOMAIN sent'[n] : i < j => Before(sent'[n][i], sent'[n][j])
      BY <3>2, <3>3 DEF TypeInv, Sorted
    <3> QED
      BY <3>1, <3>3, <3>4, <3>5 DEF Sorted
  <2>2. ASSUME NEW n \in Nodes, Report(n)
        PROVE  (TypeInv /\ Sorted)'
    <3>1. PICK r \in Reports :
            /\ \A o \in Elements(history[n]) : Before(o.id, r.id)
            /\ history' = [history EXCEPT ![n] = Append(@, r)]
            /\ UNCHANGED sent
      BY <2>2, Zenon DEF Report
    <3>2. \A i \in DOMAIN history[n] : Before(history[n][i].id, r.id)
      BY <3>1 DEF Elements
    <3>3. /\ history'[n] = Append(history[n], r)
          /\ \A m \in Nodes \ {n} : history'[m] = history[m]
      BY <3>1 DEF TypeInv
    <3>4. TypeInv'
      BY <3>1 DEF TypeInv
    <3>5. \A i, j \in DOMAIN history'[n] :
            i < j => Before(history'[n][i].id, history'[n][j].id)
      BY <3>2, <3>3 DEF TypeInv, Sorted
    <3> QED
      BY <3>1, <3>3, <3>4, <3>5 DEF Sorted
  <2>3. CASE UNCHANGED <<history, sent>>
    BY <2>3 DEF TypeInv, Sorted
  <2> QED
    BY <2>1, <2>2, <2>3 DEF Next
<1> QED
  BY <1>1, <1>2, PTL DEF Spec

\* hub.h, property 1, from the abstract specification.
THEOREM TotalOrderHolds == Spec => []TotalOrder
<1>1. TypeInv /\ Sorted => TotalOrder
  <2> SUFFICES ASSUME TypeInv, Sorted,
                      NEW p \in Nodes, NEW q \in Nodes,
                      NEW i \in DOMAIN history[p], NEW j \in DOMAIN history[p],
                      NEW k \in DOMAIN history[q], NEW l \in DOMAIN history[q],
                      i < j,
                      history[p][i].id = history[q][k].id,
                      history[p][j].id = history[q][l].id
               PROVE  k < l
    BY DEF TotalOrder
  <2>1. history[q][k].id \in MessageIds /\ history[q][l].id \in MessageIds
    <3>1. history[q][k] \in Reports /\ history[q][l] \in Reports
      BY DEF TypeInv
    <3> QED
      BY <3>1 DEF Reports
  <2>2. Before(history[q][k].id, history[q][l].id)
    BY DEF Sorted
  <2>3. k \in Nat /\ l \in Nat
    BY DEF TypeInv
  <2>4. l < k => Before(history[q][l].id, history[q][k].id)
    BY DEF Sorted
  <2> QED
    BY <2>1, <2>2, <2>3, <2>4, BeforeAsymmetric
<1> QED
  BY <1>1, SortedInvariant, PTL

\* hub.h, property 2, from the abstract specification.
THEOREM SenderOrderHolds == Spec => []SenderOrder
<1>1. TypeInv /\ Sorted => SenderOrder
  <2> SUFFICES ASSUME TypeInv, Sorted,
                      NEW p \in Nodes, NEW n \in Nodes,
                      NEW i \in DOMAIN sent[n], NEW j \in DOMAIN sent[n],
                      NEW k \in DOMAIN history[p], NEW l \in DOMAIN history[p],
                      i < j,
                      history[p][k].id = sent[n][i],
                      history[p][l].id = sent[n][j]
               PROVE  k < l
    BY DEF SenderOrder
  <2>1. sent[n][i] \in MessageIds /\ sent[n][j] \in MessageIds
    BY DEF TypeInv
  <2>2. Before(sent[n][i], sent[n][j])
    BY DEF Sorted
  <2>3. k \in Nat /\ l \in Nat
    BY DEF TypeInv
  <2>4. l < k => Before(history[p][l].id, history[p][k].id)
    BY DEF Sorted
  <2> QED
    BY <2>1, <2>2, <2>3, <2>4, BeforeAsymmetric
<1> QED
  BY <1>1, SortedInvariant, PTL
===============================================================================
