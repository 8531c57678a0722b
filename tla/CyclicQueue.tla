----------------------------- MODULE CyclicQueue -----------------------------
(***************************************************************************)
(* The list of a transmit queue                                            *)
(* (include/club/generic/cyclic_queue.h).  A Cycle goes through it once:   *)
(* an entry that the iterator leaves is moved to the back, so that the     *)
(* next cycle starts where this one stopped.                               *)
(***************************************************************************)
EXTENDS Integers, Sequences

\* What a cycle that stops after the first k entries leaves, when `kept' are the
\* ones of them that were not erased.
Cycled(list, k, kept) == SubSeq(list, k + 1, Len(list)) \o kept
===============================================================================
