-------------------------------- MODULE MCHub --------------------------------
(* Instances of Hub for TLC: who may be connected to whom, and who sends.  *)
EXTENDS Hub, TLC

\* Two hubs and one socket; the same with a second socket for later; three
\* hubs in a line; three hubs in a cycle.
PairEnds == 1 :> {1, 2}
TwiceEnds == 1 :> {1, 2} @@ 2 :> {1, 2}
LineEnds == 1 :> {1, 2} @@ 2 :> {2, 3}
CycleEnds == 1 :> {1, 2} @@ 2 :> {2, 3} @@ 3 :> {1, 3}

\* How often every hub sends.
Silent == [n \in Nodes |-> 0]
FirstOnce == [n \in Nodes |-> IF n = 1 THEN 1 ELSE 0]
SecondOnce == [n \in Nodes |-> IF n = 2 THEN 1 ELSE 0]
SecondTwice == [n \in Nodes |-> IF n = 2 THEN 2 ELSE 1]
===============================================================================
