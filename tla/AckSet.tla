-------------------------------- MODULE AckSet --------------------------------
(***************************************************************************)
(* The set of received sequence numbers that a socket sends to its peer    *)
(* (include/club/transport/ack_set.h): the highest number and a bitmask    *)
(* for the ones below it.  The mask is the set of the positions of its     *)
(* one bits; numbers are unsigned and wrap around.                         *)
(***************************************************************************)
EXTENDS Integers

CONSTANTS
  Bits,     \* width of the bitmask: 32 in the code
  Modulus   \* number of sequence numbers: 2^32 in the code

ASSUME AckSetAssumption == Bits \in Nat \ {0} /\ Modulus \in Nat \ {0} /\ Bits < Modulus

SequenceNumber == 0..(Modulus - 1)
Plus(a, b) == (a + b) % Modulus
Minus(a, b) == (a - b) % Modulus

AckSets == [highest : SequenceNumber, lowest : SequenceNumber, mask : SUBSET (0..(Bits - 1))]

\* AckSet::AckSet
EmptyAckSet == [highest |-> 0, lowest |-> 0, mask |-> {}]

\* The bits that a new highest number pushes out of the mask are set, or stand
\* for numbers not above the lowest one.
MayShift(acks, shift) ==
  \A i \in (Bits - shift)..(Bits - 1) :
    i \in acks.mask \/ acks.highest <= Plus(acks.lowest, i)

\* Mutant: numbers that are still missing are pushed out.
CanAddAny(acks, sn) ==
  acks.mask = {} \/ sn <= acks.highest \/ sn <= Plus(acks.highest, Bits - 1)

\* AckSet::can_add
can_add(acks, sn) ==
  \/ acks.mask = {}
  \/ sn <= acks.highest
  \/ sn <= Plus(acks.highest, Bits - 1) /\ MayShift(acks, sn - acks.highest)

\* AckSet::try_add; the set is as it was when it returns false.
try_add(acks, sn) ==
  LET shift == sn - acks.highest IN
  IF acks.mask = {}
    THEN [highest |-> sn, lowest |-> sn, mask |-> {0}]
  ELSE IF sn = acks.highest \/ (sn < acks.highest /\ sn < Minus(acks.highest, Bits - 1))
    THEN acks
  ELSE IF sn < acks.highest
    THEN [acks EXCEPT !.mask = @ \cup {-shift}]
  ELSE IF ~can_add(acks, sn)
    THEN acks
    ELSE [acks EXCEPT !.highest = sn,
                      !.mask = {0} \cup {b \in 0..(Bits - 1) : b - shift \in @}]

\* AckSet::is_in: numbers that have left the mask count as received.
is_in(acks, sn) ==
  /\ acks.mask # {}
  /\ sn <= acks.highest
  /\ \/ sn < Minus(acks.highest, Bits - 1)
     \/ sn < acks.lowest
     \/ acks.highest - sn \in acks.mask

\* encode and decode: the lowest number is not sent.
Decoded(acks) == [acks EXCEPT !.lowest = 0]
===============================================================================
