------------------------------ MODULE MessageId ------------------------------
(***************************************************************************)
(* Message identifiers (src/club/message_id.h): a Lamport timestamp paired *)
(* with the uuid of the original poster, ordered lexicographically.        *)
(*                                                                         *)
(* A uuid is a positive number: only its place in the order of uuids       *)
(* matters.  0 is the nil uuid.  An identifier is <<timestamp, poster>>.   *)
(***************************************************************************)
EXTENDS Naturals

\* Every identifier, the default-constructed one included.
MessageIds == Nat \X Nat

\* MessageId(): timestamp 0 and the nil uuid.
NilId == <<0, 0>>

TimeStampOf(id) == id[1]
PosterOf(id) == id[2]

\* operator <  (std::tie is compared lexicographically)
Before(a, b) == a[1] < b[1] \/ (a[1] = b[1] /\ a[2] < b[2])

\* operator <=
NotAfter(a, b) == a = b \/ Before(a, b)

\* The smallest and the largest identifier of a set, when it has one.
IsFirst(id, S) == id \in S /\ \A o \in S : NotAfter(id, o)
IsLast(id, S) == id \in S /\ \A o \in S : NotAfter(o, id)
Greatest(S) == CHOOSE id \in S : IsLast(id, S)
===============================================================================
