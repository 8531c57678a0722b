----------------------------- MODULE SeenMessages -----------------------------
(***************************************************************************)
(* The duplicate filter of a hub (src/club/seen_messages.h).               *)
(*                                                                         *)
(* _messages is a map from uuid to TimeStamps; it is a function on all the *)
(* uuids whose value for an absent key is Unknown.  TimeStamps is a set of *)
(* timestamps with an optional `bottom'.  None stands for an unset bottom  *)
(* and NoKey for an absent key: both are below all timestamps.             *)
(***************************************************************************)
EXTENDS Integers, MessageId

None == -1
NoKey == -2

Unknown == [bottom |-> NoKey, stamps |-> {}]

\* SeenMessages::insert.  Looking up _messages[poster] creates the key even
\* when the timestamp is already covered by the bottom.
insert(seen, id) ==
  [seen EXCEPT ![PosterOf(id)] =
     [bottom |-> IF @.bottom = NoKey THEN None ELSE @.bottom,
      stamps |-> IF TimeStampOf(id) <= @.bottom
                   THEN @.stamps ELSE @.stamps \cup {TimeStampOf(id)}]]

\* SeenMessages::is_in
is_in(seen, id) ==
  \/ TimeStampOf(id) <= seen[PosterOf(id)].bottom
  \/ TimeStampOf(id) \in seen[PosterOf(id)].stamps

\* SeenMessages::seen_everything_up_to: the bottom of every known user.
seen_everything_up_to(seen, id) ==
  [u \in DOMAIN seen |->
     IF seen[u].bottom # NoKey /\ seen[u].bottom < TimeStampOf(id)
       THEN [bottom |-> TimeStampOf(id),
             stamps |-> {t \in seen[u].stamps : t > TimeStampOf(id)}]
       ELSE seen[u]]

\* SeenMessages::forget_messages_from_user, for a set of users.
forget_messages_from(seen, users) ==
  [u \in DOMAIN seen |-> IF u \in users THEN Unknown ELSE seen[u]]
===============================================================================
