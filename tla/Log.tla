--------------------------------- MODULE Log ---------------------------------
(***************************************************************************)
(* The log of messages that wait to be committed (src/club/log.h and       *)
(* src/club/log_entry.h).                                                  *)
(*                                                                         *)
(*   entries           the std::map<MessageId, LogEntry> itself            *)
(*   last_committed    identifier of the last entry committed or erased    *)
(*   last_fuse_commit  identifier of the last fuse entry committed         *)
(*   pending_acks      acks whose message has not arrived yet              *)
(*                                                                         *)
(* Abstracted data: an entry keeps the keys of `acks' (the ackers) and of  *)
(* `predecessors'.  The map values hold the neighbours for the routing     *)
(* table and uuids that are only logged; last_commit_op is one of those.   *)
(***************************************************************************)
EXTENDS MessageId

EmptyLog == [entries          |-> [id \in {} |-> {}],
             last_committed   |-> NilId,
             last_fuse_commit |-> NilId,
             pending_acks     |-> {}]

Ids(log) == DOMAIN log.entries

\* Log::get_predecessor_time: the greatest identifier in the log below
\* `supremum', the default one when there is none.
get_predecessor_time(log, supremum) ==
  LET below == {id \in Ids(log) : Before(id, supremum)}
  IN  IF below = {} THEN NilId ELSE Greatest(below)

\* Log::find_highest_fuse_entry, by identifier; NilId when there is none.
FuseIds(log) == {id \in Ids(log) : log.entries[id].type = "fuse"}
find_highest_fuse_entry(log) ==
  IF FuseIds(log) = {} THEN NilId ELSE Greatest(FuseIds(log))

\* LogEntry::acked_by_quorum, without and with the set of live nodes.
acked_by_quorum(entry) == entry.quorum \subseteq entry.acks
acked_by_quorum_of(entry, alive) == (entry.quorum \cap alive) \subseteq entry.acks

\* Mutant: the quorum is the neighbourhood of the last acker.
WithLastAck(entry, acks) ==
  [entry EXCEPT !.quorum = {a.op : a \in acks} \cup UNION {a.neighbors : a \in acks},
                !.acks   = @ \cup {a.op : a \in acks},
                !.preds  = @ \cup {a.prev : a \in acks}]

\* The effect of a set of acks on the entry they are for.  An ack carries
\* its poster, the message it acks, the poster's predecessor of that message
\* and the poster's neighbours.
WithAcks(entry, acks) ==
  [entry EXCEPT !.quorum = @ \cup UNION {a.neighbors : a \in acks},
                !.acks   = @ \cup {a.op : a \in acks},
                !.preds  = @ \cup {a.prev : a \in acks}]

\* Log::apply_ack
apply_ack(log, ack) ==
  IF ack.acked \in Ids(log)
    THEN [log EXCEPT !.entries[ack.acked] = WithAcks(@, {ack})]
    ELSE [log EXCEPT !.pending_acks =
            {a \in @ : a.acked # ack.acked \/ a.op # ack.op} \cup {ack}]

\* LogEntry(message)
LogEntry(type, config, ack) ==
  [type |-> type, config |-> config, quorum |-> {ack.op}, acks |-> {}, preds |-> {}]

\* Log::insert_entry.  `ack' is the ack_data of the message, posted by its
\* original poster.  std::map::insert leaves an entry that is there already.
insert_entry(log, type, config, ack) ==
  LET id   == ack.acked
      old  == IF id \in Ids(log) THEN log.entries[id] ELSE LogEntry(type, config, ack)
      prev == {o \in Ids(log) : IsLast(o, {p \in Ids(log) : Before(p, id)})}
      next == {o \in Ids(log) : IsFirst(o, {p \in Ids(log) : Before(id, p)})}
      acks == {a \in log.pending_acks : a.acked = id} \cup {ack}
      new  == WithAcks([old EXCEPT !.preds = @ \cup {log.last_committed} \cup prev], acks)
  IN  IF NotAfter(id, log.last_committed)
        THEN log
        ELSE [log EXCEPT
                !.entries = [o \in Ids(log) \cup {id} |->
                               IF o = id THEN new
                               ELSE IF o \in next
                                 THEN [log.entries[o] EXCEPT !.preds = @ \cup {id}]
                                 ELSE log.entries[o]],
                !.pending_acks = @ \ acks]

\* std::map::erase of an entry that the commit loop has dealt with.
Without(log, id) ==
  [log EXCEPT !.entries = [o \in Ids(log) \ {id} |-> log.entries[o]],
              !.last_committed = id]

\* The same for an entry that is committed, not erased.
Committed(log, id) ==
  [Without(log, id) EXCEPT !.last_fuse_commit =
     IF log.entries[id].type = "fuse" THEN id ELSE @]
===============================================================================
