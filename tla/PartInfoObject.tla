---------------------------- MODULE PartInfoObject ----------------------------
(***************************************************************************)
(* A PartInfo to which parts are added in any order, overlapping or not,   *)
(* next to the set of the bytes that they cover.                           *)
(***************************************************************************)
EXTENDS PartInfo

CONSTANTS
  MessageSize   \* bytes of the message

ASSUME MessageSizeAssumption == MessageSize \in Nat

VARIABLES
  info,         \* _info
  covered       \* positions of the bytes that were added

partVars == <<info, covered>>

PartInit == info = NoParts /\ covered = {}

AddPart ==
  \E start, end \in 0..MessageSize :
    /\ info' = add_part(info, start, end)
    /\ covered' = covered \cup start..(end - 1)

PartNext == AddPart

PartSpec == PartInit /\ [][PartNext]_partVars
-------------------------------------------------------------------------------
\* add_part and sanitize: the intervals are the maximal runs of the bytes that were
\* added, so that a message is complete (is_complete: one interval from zero to its
\* size) exactly when every byte of it has arrived, in whichever order.
MaximalRuns ==
  /\ DOMAIN info = {i \in covered : i - 1 \notin covered}
  /\ \A i \in DOMAIN info : info[i] \notin covered /\ i..(info[i] - 1) \subseteq covered
===============================================================================
