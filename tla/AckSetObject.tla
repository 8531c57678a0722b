---------------------------- MODULE AckSetObject ----------------------------
(***************************************************************************)
(* An AckSet to which numbers are added in any order, from any first one,  *)
(* next to the plain set of the numbers it accepted.                       *)
(***************************************************************************)
EXTENDS AckSet

VARIABLES
  acks,
  added,   \* the numbers for which try_add returned true
  late     \* was a missing number added while the highest one was below Bits - 1?

ackSetVars == <<acks, added, late>>

\* The numbers from the first to the highest one.
Span == acks.lowest..acks.highest

AckSetInit == acks = EmptyAckSet /\ added = {} /\ late = FALSE

Add(sn) ==
  /\ acks' = try_add(acks, sn)
  /\ added' = IF can_add(acks, sn) THEN added \cup {sn} ELSE added
  /\ late' = (late \/ (added # {} /\ acks.highest < Bits - 1 /\ sn \in Span \ added))

AckSetNext == \E sn \in SequenceNumber : Add(sn)

AckSetSpec == AckSetInit /\ [][AckSetNext]_ackSetVars
-------------------------------------------------------------------------------
\* is_in: a number counts as received exactly if it was added or is below the
\* first one; in particular none is lost from the mask before it was added.  So it
\* is from any first number on and in any order, with one exception.  While the
\* highest number is below Bits - 1, highest - 31 wraps around in try_add and is_in:
\* a number that is missing then counts as received, and is not recorded when it
\* comes.  The numbers of a socket start at 0 but come in order
\* (user_handle_reliable_msg): none is missing, and none is late.
Exact ==
  added # {} /\ ~late /\ (acks.highest < Bits - 1 => Span \subseteq added) =>
    \A sn \in SequenceNumber : is_in(acks, sn) <=> (sn \in added \/ sn < acks.lowest)
===============================================================================
