------------------------------ MODULE HubProofs ------------------------------
(***************************************************************************)
(* Proofs about Hub, for every number of hubs, sockets, messages, breaks   *)
(* and destructions: the type invariant, and that the hubs implement the   *)
(* abstract broadcast of TotalOrderBroadcast, whose ordering theorems then *)
(* hold of the hubs.                                                       *)
(*                                                                         *)
(* Inv strengthens the type invariant with what makes a commit newer than  *)
(* everything reported before: the entries of a log are newer than its     *)
(* last commit, which is at least as new as all of history[n]; no          *)
(* identifier in a hub exceeds its clock; and the user messages in logs    *)
(* and on wires are ones their posters have sent.  A message on a wire has *)
(* visited its poster, to whom no wire brings it back.                     *)
(***************************************************************************)
EXTENDS Hub, TLAPS, WellFoundedInduction

\* A nonempty set of naturals has a least element.
LEMMA LeastNatural ==
  ASSUME NEW S, S \subseteq Nat, S # {}
  PROVE  \E x \in S : \A y \in S : x <= y
<1> DEFINE R == {ss \in Nat \X Nat : ss[1] < ss[2]}
<1>1. OpToRel(<, Nat) = R
  BY DEF OpToRel
<1>2. IsWellFoundedOn(R, Nat)
  BY <1>1, NatLessThanWellFounded, Zenon
<1> HIDE DEF R
<1>3. PICK x \in S : \A y \in S : ~(<<y, x>> \in R)
  BY <1>2, WFMin, Zenon
<1>4. \A y \in S : ~(y < x)
  BY <1>3, Zenon DEF R
<1> QED
  BY <1>4

\* A nonempty bounded set of naturals has a greatest element.
LEMMA GreatestNatural ==
  ASSUME NEW S, S \subseteq Nat, S # {}, NEW b \in Nat, \A x \in S : x <= b
  PROVE  \E x \in S : \A y \in S : y <= x
<1> DEFINE D == {b - x : x \in S}
<1>1. D \subseteq Nat /\ D # {}
  <2>1. \A x \in S : b - x \in Nat
    OBVIOUS
  <2> QED
    BY <2>1, Zenon
<1>2. PICK d \in D : \A e \in D : d <= e
  BY <1>1, LeastNatural, Zenon
<1>3. PICK x \in S : d = b - x
  OBVIOUS
<1>4. \A y \in S : y <= x
  <2> SUFFICES ASSUME NEW y \in S PROVE y <= x
    OBVIOUS
  <2>1. d <= b - y
    BY <1>2
  <2> HIDE DEF D
  <2> QED
    BY <1>3, <2>1
<1> QED
  BY <1>4, Zenon

\* Identifiers with bounded timestamps and posters.
IdsUpTo(t) == (0..t) \X (0..MaxUuid)

\* Greatest picks the last identifier of a nonempty bounded set.
LEMMA GreatestIsLast ==
  ASSUME NEW t \in Nat, NEW S, S \subseteq IdsUpTo(t), S # {}
  PROVE  IsLast(Greatest(S), S)
<1> DEFINE T == {id[1] : id \in S}
<1>1. T \subseteq Nat /\ T # {} /\ \A x \in T : x <= t
  BY DEF IdsUpTo
<1>2. PICK x \in T : \A y \in T : y <= x
  BY <1>1, GreatestNatural, Zenon
<1> DEFINE P == {id[2] : id \in {o \in S : o[1] = x}}
<1>3. P \subseteq Nat /\ P # {} /\ \A y \in P : y <= MaxUuid
  BY <1>2, HubAssumption DEF IdsUpTo
<1>4. PICK u \in P : \A y \in P : y <= u
  BY <1>3, HubAssumption, GreatestNatural, Zenon
<1>5. PICK id \in S : id[1] = x /\ id[2] = u
  BY <1>4
<1>6. IsLast(id, S)
  <2> SUFFICES ASSUME NEW o \in S PROVE NotAfter(o, id)
    BY DEF IsLast
  <2>1. o = <<o[1], o[2]>> /\ id = <<id[1], id[2]>> /\ o[1] \in Nat /\ o[2] \in Nat
    BY DEF IdsUpTo
  <2>2. o[1] <= x
    BY <1>2
  <2>3. o[1] = x => o[2] <= u
    BY <1>4
  <2>4. x \in Nat /\ u \in Nat
    BY <1>1, <1>3
  <2> QED
    BY <1>5, <2>1, <2>2, <2>3, <2>4 DEF NotAfter, Before
<1> QED
  BY <1>6 DEF Greatest
-------------------------------------------------------------------------------
(* The inductive invariant.                                                *)

IsFunction(f) == f = [x \in DOMAIN f |-> f[x]]

LogFields(log) ==
  log = [entries |-> log.entries, last_committed |-> log.last_committed,
         last_fuse_commit |-> log.last_fuse_commit, pending_acks |-> log.pending_acks]

HubFields(h) ==
  h = [ts |-> h.ts, log |-> h.log, configs |-> h.configs, seen |-> h.seen,
       nodes |-> h.nodes, peers |-> h.peers, posted |-> h.posted, loop |-> h.loop,
       status |-> h.status]

\* Everything in the log is newer than the last commit and not newer than the
\* clock t; the user messages in it were sent.
LogInv(log, t, known) ==
  /\ LogFields(log)
  /\ IsFunction(log.entries)
  /\ LogOK(log)
  /\ log.last_committed[1] <= t
  /\ \A id \in Ids(log) :
       /\ id[1] <= t
       /\ Before(log.last_committed, id)
       /\ log.entries[id].type = "user_data" => id \in known

HubInv(h, known) ==
  /\ HubFields(h)
  /\ HubOK(h)
  /\ LogInv(h.log, h.ts, known)
  /\ IsFunction(h.configs)
  /\ DOMAIN h.configs # {}
  /\ \A c \in DOMAIN h.configs : c[1] <= h.ts

\* The messages that hubs broadcast: a fuse and a user message ack themselves, a user
\* message was sent, and every message has visited its poster.
Spread(known) ==
  {m \in Messages : /\ m.type # "ack" => m.ack.acked = message_id(m)
                    /\ m.type = "user_data" => message_id(m) \in known
                    /\ m.op \in m.visited}

\* What may be on a wire, and what may be on one that leads to hub n.
Carried(known) == Hellos \cup Spread(known)
Foreign(n, known) == {m \in Carried(known) : m.op # n}

WireInv(w, known) ==
  /\ w \in [Sockets -> [Nodes -> Seq(Carried(known))]]
  /\ \A k \in Sockets, n \in Nodes : w[k][n] \in Seq(Foreign(n, known))

\* The identifiers their posters sent.
AllSent == {id \in PostedIds : id \in TOB!Elements(sent[PosterOf(id)])}

SocketStates == [Sockets -> [Nodes -> {"unused", "exchange", "up", "closed"}]]

\* Every hub has reported nothing newer than its last commit, and sent nothing
\* newer than its clock.
Inv ==
  /\ hub = [n \in Nodes |-> hub[n]]
  /\ \A n \in Nodes : HubInv(hub[n], AllSent)
  /\ socket \in SocketStates
  /\ WireInv(wire, AllSent)
  /\ history \in [Nodes -> Seq([type : {"fuse", "user_data"}, id : PostedIds])]
  /\ sent \in [Nodes -> Seq(PostedIds)]
  /\ breaks \in Nat
  /\ \A n \in Nodes : \A r \in TOB!Elements(history[n]) :
       NotAfter(r.id, hub[n].log.last_committed)
  /\ \A n \in Nodes : \A id \in TOB!Elements(sent[n]) :
       id[1] <= hub[n].ts /\ id[2] = n
-------------------------------------------------------------------------------
(* What the operators of Log and Hub preserve.                             *)

\* A uuid of a hub is a positive number below the bound.
LEMMA UuidType ==
  ASSUME NEW n \in Nodes
  PROVE  n \in Nat /\ n # 0 /\ n \in 0..MaxUuid
BY HubAssumption

\* An identifier posted by a hub is a MessageId, and lies below every clock that has reached it.
LEMMA IdFacts ==
  ASSUME NEW id \in Nat \X Nodes
  PROVE  /\ id \in MessageIds
         /\ \A t \in Nat : id[1] <= t => id \in IdsUpTo(t)
<1>1. id = <<id[1], id[2]>> /\ id[1] \in Nat /\ id[2] \in Nodes
  OBVIOUS
<1>2. id[2] \in Nat /\ id[2] \in 0..MaxUuid
  BY <1>1, UuidType
<1>3. \A t \in Nat : id[1] <= t => id[1] \in 0..t
  BY <1>1
<1> QED
  BY <1>1, <1>2, <1>3 DEF MessageIds, IdsUpTo

\* The parts of an identifier some hub has posted.
LEMMA PostedIdFacts ==
  ASSUME NEW id \in PostedIds
  PROVE  /\ id \in Nat \X Nodes
         /\ id \in MessageIds
         /\ id = <<id[1], id[2]>> /\ id[1] \in Nat /\ id[1] # 0
         /\ id[2] \in Nodes
<1>1. /\ id = <<id[1], id[2]>> /\ id[1] \in Nat /\ id[1] # 0
      /\ id[2] \in Nodes
      /\ id \in Nat \X Nodes
  BY DEF PostedIds
<1> QED
  BY <1>1, IdFacts

\* The identifiers in a log do not exceed its hub's clock, so the log has a greatest one.
LEMMA IdsAreBounded ==
  ASSUME NEW log, NEW t \in Nat, NEW known, LogInv(log, t, known)
  PROVE  Ids(log) \subseteq IdsUpTo(t)
BY PostedIdFacts, IdFacts DEF LogInv, LogOK

\* Log::get_predecessor_time returns an identifier.
LEMMA PredecessorType ==
  ASSUME NEW log, NEW t \in Nat, NEW known, LogInv(log, t, known), NEW supremum
  PROVE  get_predecessor_time(log, supremum) \in MessageIds
<1> DEFINE below == {id \in Ids(log) : Before(id, supremum)}
<1>1. NilId \in MessageIds
  BY DEF NilId, MessageIds
<1>2. ASSUME below # {} PROVE Greatest(below) \in MessageIds
  <2>1. below \subseteq IdsUpTo(t)
    BY IdsAreBounded
  <2>2. Greatest(below) \in below
    BY <1>2, <2>1, GreatestIsLast DEF IsLast
  <2>3. Greatest(below) \in PostedIds
    BY <2>2 DEF LogInv, LogOK
  <2> QED
    BY <2>3, PostedIdFacts
<1> QED
  BY <1>1, <1>2 DEF get_predecessor_time

\* _configs is never empty, so its last key exists.
LEMMA LatestConfigType ==
  ASSUME NEW h, NEW known, HubInv(h, known)
  PROVE  LatestConfig(h) \in DOMAIN h.configs
<1>1. DOMAIN h.configs \subseteq IdsUpTo(h.ts) /\ DOMAIN h.configs # {} /\ h.ts \in Nat
  BY IdFacts DEF HubInv, HubOK
<1> QED
  BY <1>1, GreatestIsLast DEF LatestConfig, IsLast

\* hub::construct and construct_ackable build a message with the next timestamp.
LEMMA MessageType ==
  ASSUME NEW h, NEW known, HubInv(h, known), NEW n \in Nodes,
         NEW type \in {"fuse", "user_data", "ack"}, NEW acked \in PostedIds
  PROVE  /\ Message(n, h, type, acked) \in Messages
         /\ AckData(n, h, acked) \in Acks
<1>1. AckData(n, h, acked) \in Acks
  <2>1. get_predecessor_time(h.log, acked) \in MessageIds
    BY PredecessorType DEF HubInv, HubOK
  <2>2. neighbors(n, h) \subseteq Nodes
    BY DEF neighbors, Connected
  <2> QED
    BY <2>1, <2>2 DEF AckData, Acks
<1>2. LatestConfig(h) \in Nat \X Nodes
  BY LatestConfigType, Zenon DEF HubInv, HubOK
<1>3. h.ts + 1 \in Nat \ {0}
  <2>1. h.ts \in Nat
    BY DEF HubInv, HubOK
  <2> QED
    BY <2>1
<1> QED
  BY <1>1, <1>2, <1>3 DEF Message, Messages

\* Acks keep the type of an entry.
LEMMA WithAcksType ==
  ASSUME NEW e \in Entries, NEW acks, acks \subseteq Acks
  PROVE  WithAcks(e, acks) \in Entries /\ WithAcks(e, acks).type = e.type
<1>1. /\ UNION {a.neighbors : a \in acks} \subseteq Nodes
      /\ {a.op : a \in acks} \subseteq Nodes
      /\ {a.prev : a \in acks} \subseteq MessageIds
  BY DEF Acks
<1> QED
  BY <1>1, Zenon DEF WithAcks, Entries

\* Log::apply_ack leaves the identifiers in the log and the last commit alone.
LEMMA ApplyAckInv ==
  ASSUME NEW log, NEW t \in Nat, NEW known, LogInv(log, t, known), NEW ack \in Acks
  PROVE  /\ LogInv(apply_ack(log, ack), t, known)
         /\ apply_ack(log, ack).last_committed = log.last_committed
<1> DEFINE new == apply_ack(log, ack)
<1>1. CASE ack.acked \in Ids(log)
  <2> DEFINE e == WithAcks(log.entries[ack.acked], {ack})
  <2>1. e \in Entries /\ e.type = log.entries[ack.acked].type
    BY <1>1, WithAcksType DEF LogInv, LogOK
  <2>2. new = [log EXCEPT !.entries = [log.entries EXCEPT ![ack.acked] = e]]
    BY <1>1 DEF apply_ack, LogInv, LogFields
  <2> HIDE DEF e, new
  <2>3. /\ LogFields(new)
        /\ new.entries = [log.entries EXCEPT ![ack.acked] = e]
        /\ new.last_committed = log.last_committed
        /\ new.last_fuse_commit = log.last_fuse_commit
        /\ new.pending_acks = log.pending_acks
    BY <2>2 DEF LogInv, LogFields
  <2>4. /\ IsFunction(new.entries)
        /\ Ids(new) = Ids(log)
        /\ new.entries[ack.acked] = e
        /\ \A id \in Ids(log) \ {ack.acked} : new.entries[id] = log.entries[id]
    BY <1>1, <2>3 DEF IsFunction, Ids
  <2>5. \A id \in Ids(log) : /\ new.entries[id] \in Entries
                              /\ new.entries[id].type = log.entries[id].type
    BY <2>1, <2>4 DEF LogInv, LogOK
  <2> QED
    BY <2>3, <2>4, <2>5 DEF LogInv, LogOK, new
<1>2. CASE ack.acked \notin Ids(log)
  <2>1. PICK acks \in SUBSET Acks : new = [log EXCEPT !.pending_acks = acks]
    BY <1>2, Zenon DEF apply_ack, LogInv, LogOK, LogFields
  <2> HIDE DEF new
  <2>2. /\ LogFields(new)
        /\ new.entries = log.entries
        /\ new.last_committed = log.last_committed
        /\ new.last_fuse_commit = log.last_fuse_commit
        /\ new.pending_acks = acks
    BY <2>1 DEF LogInv, LogFields
  <2> QED
    BY <2>2 DEF LogInv, LogOK, Ids, new
<1> QED
  BY <1>1, <1>2

\* Log::insert_entry adds only what is newer than the last commit.
LEMMA InsertEntryInv ==
  ASSUME NEW log, NEW t \in Nat, NEW known, LogInv(log, t, known),
         NEW type \in {"fuse", "user_data"}, NEW config \in Nat \X Nodes,
         NEW ack \in Acks, ack.acked[1] <= t,
         type = "user_data" => ack.acked \in known
  PROVE  /\ LogInv(insert_entry(log, type, config, ack), t, known)
         /\ insert_entry(log, type, config, ack).last_committed = log.last_committed
<1> DEFINE id   == ack.acked
           old  == IF id \in Ids(log) THEN log.entries[id] ELSE LogEntry(type, config, ack)
           prev == {o \in Ids(log) : IsLast(o, {p \in Ids(log) : Before(p, id)})}
           next == {o \in Ids(log) : IsFirst(o, {p \in Ids(log) : Before(id, p)})}
           acks == {a \in log.pending_acks : a.acked = id} \cup {ack}
           old2 == [old EXCEPT !.preds = @ \cup {log.last_committed} \cup prev]
           new  == WithAcks(old2, acks)
           ents == [o \in Ids(log) \cup {id} |->
                      IF o = id THEN new
                      ELSE IF o \in next
                        THEN [log.entries[o] EXCEPT !.preds = @ \cup {id}]
                        ELSE log.entries[o]]
           res  == insert_entry(log, type, config, ack)
<1>1. CASE NotAfter(id, log.last_committed)
  BY <1>1 DEF insert_entry
<1>2. CASE ~NotAfter(id, log.last_committed)
  <2>1. id \in PostedIds /\ id \in MessageIds /\ id \in Nat \X Nodes
    BY PostedIdFacts DEF Acks
  <2>2. Before(log.last_committed, id)
    <3>1. log.last_committed \in MessageIds
      BY DEF LogInv, LogOK
    <3> QED
      BY <1>2, <2>1, <3>1 DEF NotAfter, Before, MessageIds
  <2>3. Ids(log) \subseteq MessageIds
    BY PostedIdFacts DEF LogInv, LogOK
  <2>4. old \in Entries /\ (old.type = "user_data" => id \in known)
    BY DEF LogEntry, Entries, Acks, LogInv, LogOK
  <2>5. old2 \in Entries /\ old2.type = old.type
    <3>1. prev \subseteq MessageIds /\ log.last_committed \in MessageIds
      BY <2>3 DEF LogInv, LogOK
    <3> HIDE DEF old, prev
    <3> QED
      BY <2>4, <3>1 DEF Entries
  <2>6. acks \subseteq Acks
    BY DEF LogInv, LogOK
  <2>7. new \in Entries /\ new.type = old.type
    BY <2>5, <2>6, WithAcksType, Zenon
  <2>8. res = [log EXCEPT !.entries = ents, !.pending_acks = log.pending_acks \ acks]
    BY <1>2 DEF insert_entry, LogInv, LogFields
  <2>9. \A o \in Ids(log) \ {id} :
          /\ ents[o] \in Entries
          /\ ents[o].type = log.entries[o].type
    <3> SUFFICES ASSUME NEW o \in Ids(log) \ {id}
                 PROVE  ents[o] \in Entries /\ ents[o].type = log.entries[o].type
      BY Zenon
    <3>1. log.entries[o] \in Entries
      BY DEF LogInv, LogOK
    <3>2. \/ ents[o] = log.entries[o]
          \/ ents[o] = [log.entries[o] EXCEPT !.preds = @ \cup {id}]
      OBVIOUS
    <3> HIDE DEF ents
    <3> QED
      BY <2>1, <3>1, <3>2 DEF Entries
  <2>10. ents[id] = new /\ DOMAIN ents = Ids(log) \cup {id} /\ IsFunction(ents)
    BY Zenon DEF IsFunction
  <2> HIDE DEF ents, new, old, old2, prev, next, acks, res
  <2>11. /\ LogFields(res)
         /\ res.entries = ents
         /\ res.last_committed = log.last_committed
         /\ res.last_fuse_commit = log.last_fuse_commit
         /\ res.pending_acks = log.pending_acks \ acks
    BY <2>8, Zenon DEF LogInv, LogFields
  <2>12. LogOK(res)
    BY <2>1, <2>7, <2>9, <2>10, <2>11 DEF LogInv, LogOK, Ids
  <2>13. \A o \in Ids(res) :
           /\ o[1] <= t
           /\ Before(res.last_committed, o)
           /\ res.entries[o].type = "user_data" => o \in known
    BY <2>2, <2>4, <2>7, <2>9, <2>10, <2>11 DEF LogInv, Ids
  <2> QED
    BY <2>10, <2>11, <2>12, <2>13 DEF LogInv, res
<1> QED
  BY <1>1, <1>2

\* A later clock, another log, and other values of the fields that the order of
\* messages does not depend on.
LEMMA LogInvLater ==
  ASSUME NEW log, NEW t \in Nat, NEW u \in Nat, t <= u, NEW known, LogInv(log, t, known)
  PROVE  LogInv(log, u, known)
<1>1. log.last_committed[1] \in Nat /\ \A id \in Ids(log) : id[1] \in Nat
  BY PostedIdFacts DEF LogInv, LogOK, MessageIds
<1> QED
  BY <1>1 DEF LogInv

\* What handlers do to a hub: the invariant holds, the clock does not go back,
\* and the last commit is the same.
Evolves(h, g, known) ==
  /\ HubInv(g, known)
  /\ g.ts \in Nat /\ h.ts <= g.ts
  /\ g.log.last_committed = h.log.last_committed

\* Replacing the log of a hub by one that is well formed at its clock, and has the entry
\* that the commit loop points to, keeps the invariant.
LEMMA WithLog ==
  ASSUME NEW h, NEW known, HubInv(h, known), NEW log, LogInv(log, h.ts, known),
         h.loop.lcf \in Ids(log) \cup {NilId}, NEW g, g = [h EXCEPT !.log = log]
  PROVE  /\ HubInv(g, known)
         /\ g.ts = h.ts /\ g.log = log /\ g.loop = h.loop /\ g.configs = h.configs
<1>1. /\ HubFields(g)
      /\ g.ts = h.ts /\ g.log = log /\ g.configs = h.configs /\ g.seen = h.seen
      /\ g.nodes = h.nodes /\ g.peers = h.peers /\ g.posted = h.posted
      /\ g.loop = h.loop /\ g.status = h.status
  BY DEF HubInv, HubFields
<1>2. LogOK(log)
  BY DEF LogInv
<1> QED
  BY <1>1, <1>2 DEF HubInv, HubOK

\* Advancing _time_stamp keeps the invariant.
LEMMA WithClock ==
  ASSUME NEW h, NEW known, HubInv(h, known), NEW t \in Nat, h.ts <= t,
         NEW g, g = [h EXCEPT !.ts = t]
  PROVE  HubInv(g, known) /\ g.ts = t /\ g.log = h.log
<1>1. /\ HubFields(g)
      /\ g.ts = t /\ g.log = h.log /\ g.configs = h.configs /\ g.seen = h.seen
      /\ g.nodes = h.nodes /\ g.peers = h.peers /\ g.posted = h.posted
      /\ g.loop = h.loop /\ g.status = h.status
  BY DEF HubInv, HubFields
<1>2. h.ts \in Nat /\ LogInv(h.log, t, known)
  BY LogInvLater DEF HubInv, HubOK
<1>3. \A c \in DOMAIN h.configs : c[1] \in Nat /\ c[1] <= t
  <2>1. \A c \in DOMAIN h.configs : c[1] \in Nat /\ c[1] <= h.ts
    BY DEF HubInv, HubOK
  <2> QED
    BY <1>2, <2>1
<1> QED
  BY <1>1, <1>2, <1>3 DEF HubInv, HubOK

\* The fields that the order does not depend on may change within their types.
LEMMA WithOther ==
  ASSUME NEW h, NEW known, HubInv(h, known), NEW g, HubFields(g),
         g.ts = h.ts, g.log = h.log, g.configs = h.configs,
         g.seen \in [Nodes -> Seens], g.nodes \in [Nodes -> NodeStates],
         g.peers \subseteq Nodes, g.posted \in Nat, g.loop \in Loops,
         g.loop.lcf \in Ids(h.log) \cup {NilId}, g.status \in Statuses
  PROVE  HubInv(g, known)
BY DEF HubInv, HubOK

\* Replacing the local variables of the commit loop keeps the invariant.
LEMMA WithLoop ==
  ASSUME NEW h, NEW known, HubInv(h, known), NEW l \in Loops,
         l.lcf \in Ids(h.log) \cup {NilId}, NEW g, g = [h EXCEPT !.loop = l]
  PROVE  HubInv(g, known) /\ g.ts = h.ts /\ g.log = h.log /\ g.loop = l
<1>1. /\ HubFields(g)
      /\ g.ts = h.ts /\ g.log = h.log /\ g.configs = h.configs /\ g.seen = h.seen
      /\ g.nodes = h.nodes /\ g.peers = h.peers /\ g.posted = h.posted
      /\ g.loop = l /\ g.status = h.status
  BY DEF HubInv, HubFields
<1> QED
  BY <1>1, WithOther DEF HubInv, HubOK

\* A failed ASSERT.
LEMMA AbortInv ==
  ASSUME NEW h, NEW known, HubInv(h, known), NEW status \in Statuses
  PROVE  /\ HubInv(Abort(h, status), known)
         /\ Abort(h, status).ts = h.ts
         /\ Abort(h, status).log = h.log
<1> DEFINE g == Abort(h, status)
<1>1. /\ HubFields(g)
      /\ g.ts = h.ts /\ g.log = h.log /\ g.configs = h.configs /\ g.seen = h.seen
      /\ g.nodes = h.nodes /\ g.peers = h.peers /\ g.posted = h.posted
      /\ g.loop = h.loop /\ g.status = status
  BY DEF HubInv, HubFields, Abort
<1> HIDE DEF g
<1>2. HubInv(g, known)
  BY <1>1, WithOther DEF HubInv, HubOK
<1> QED
  BY <1>1, <1>2 DEF g

\* Acks and new entries leave the entries of the log where they are.
LEMMA InsertEntryIds ==
  ASSUME NEW log, LogFields(log), NEW type, NEW config, NEW ack
  PROVE  /\ Ids(log) \subseteq Ids(insert_entry(log, type, config, ack))
         /\ Ids(log) \subseteq Ids(apply_ack(log, ack))
<1>1. Ids(log) \subseteq Ids(insert_entry(log, type, config, ack))
  BY DEF insert_entry, LogFields, Ids
<1>2. Ids(log) \subseteq Ids(apply_ack(log, ack))
  BY DEF apply_ack, LogFields, Ids
<1> QED
  BY <1>1, <1>2

\* hub::add_log_entry
LEMMA AddLogEntryInv ==
  ASSUME NEW h, NEW known, HubInv(h, known),
         NEW m \in Messages, m \in Spread(known), m.type # "ack", m.ts <= h.ts
  PROVE  Evolves(h, add_log_entry(h, m), known) /\ add_log_entry(h, m).ts = h.ts
<1> DEFINE log == insert_entry(h.log, m.type, m.config, m.ack)
<1>1. /\ m.type \in {"fuse", "user_data"} /\ m.config \in Nat \X Nodes
      /\ m.ack \in Acks
      /\ m.ack.acked = message_id(m)
      /\ m.type = "user_data" => message_id(m) \in known
  BY DEF Spread, Messages
<1>2. m.ack.acked[1] <= h.ts
  BY <1>1 DEF message_id
<1>3. h.ts \in Nat /\ LogInv(h.log, h.ts, known)
  BY DEF HubInv, HubOK
<1>4. LogInv(log, h.ts, known) /\ log.last_committed = h.log.last_committed
  BY <1>1, <1>2, <1>3, InsertEntryInv
<1>8. h.loop.lcf \in Ids(log) \cup {NilId}
  BY <1>3, InsertEntryIds DEF HubInv, HubOK, LogInv
<1> HIDE DEF log
<1>5. \/ add_log_entry(h, m) = Abort(h, "add_log_entry")
      \/ add_log_entry(h, m) = [h EXCEPT !.log = log]
  BY DEF add_log_entry, HubInv, HubFields, log
<1>6. CASE add_log_entry(h, m) = Abort(h, "add_log_entry")
  <2>1. "add_log_entry" \in Statuses
    BY DEF Statuses
  <2> QED
    BY <1>3, <1>6, <2>1, AbortInv DEF Evolves
<1>7. CASE add_log_entry(h, m) = [h EXCEPT !.log = log]
  BY <1>3, <1>4, <1>7, <1>8, WithLog DEF Evolves
<1> QED
  BY <1>5, <1>6, <1>7
-------------------------------------------------------------------------------
(* The commit loop.                                                        *)

\* The local variables of the loop have their types.
LEMMA EnterInv ==
  ASSUME NEW h, NEW known, HubInv(h, known), NEW more \in {0, 1}
  PROVE  /\ HubInv(Enter(h, more), known)
         /\ Enter(h, more).ts = h.ts /\ Enter(h, more).log = h.log
<1> DEFINE fuses == {id \in FuseIds(h.log) : acked_by_quorum(h.log.entries[id])}
           lcf   == IF fuses = {} THEN NilId ELSE Greatest(fuses)
           live  == IF fuses = {} THEN h.configs[LatestConfig(h)]
                                  ELSE h.log.entries[lcf].quorum
           l     == [at |-> h.loop.at, lcf |-> lcf, live |-> live, more |-> more]
<1>1. fuses # {} => lcf \in Ids(h.log)
  <2> SUFFICES ASSUME fuses # {} PROVE lcf \in Ids(h.log)
    OBVIOUS
  <2>1. h.ts \in Nat /\ LogInv(h.log, h.ts, known)
    BY DEF HubInv, HubOK
  <2>2. fuses \subseteq Ids(h.log)
    BY DEF FuseIds
  <2>3. fuses \subseteq IdsUpTo(h.ts)
    BY <2>1, <2>2, IdsAreBounded
  <2> HIDE DEF fuses
  <2>4. lcf \in fuses
    BY <2>1, <2>3, GreatestIsLast DEF IsLast
  <2> QED
    BY <2>2, <2>4
<1>2. lcf \in MessageIds
  <2>1. NilId \in MessageIds
    BY DEF NilId, MessageIds
  <2>2. Ids(h.log) \subseteq MessageIds
    BY PostedIdFacts DEF HubInv, HubOK, LogOK
  <2> QED
    BY <1>1, <2>1, <2>2
<1>3. live \subseteq Nodes
  <2>1. CASE fuses = {}
    BY <2>1, LatestConfigType, Zenon DEF HubInv, HubOK
  <2>2. CASE fuses # {}
    BY <1>1, <2>2, Zenon DEF HubInv, HubOK, LogOK, Entries
  <2> QED
    BY <2>1, <2>2, Zenon
<1>4. h.loop.at \in {"idle", "loop", "callback"}
  BY DEF HubInv, HubOK, Loops
<1>5. Enter(h, more) = [h EXCEPT !.loop = l]
  BY DEF Enter
<1>7. lcf \in Ids(h.log) \cup {NilId}
  BY <1>1, Zenon
<1> HIDE DEF fuses, lcf, live
<1>6. l \in Loops /\ l.lcf = lcf
  BY <1>2, <1>3, <1>4 DEF Loops
<1> HIDE DEF l
<1> QED
  BY <1>5, <1>6, <1>7, WithLoop

\* Between two iterations, and around a callback, only the loop changes.
LEMMA SettleInv ==
  ASSUME NEW h, NEW known, HubInv(h, known)
  PROVE  HubInv(Settle(h), known) /\ Settle(h).ts = h.ts /\ Settle(h).log = h.log
<1>1. NoLoop \in Loops /\ NoLoop.lcf = NilId
  BY DEF NoLoop, Loops, NilId, MessageIds
<1>2. /\ HubInv([h EXCEPT !.loop = NoLoop], known)
      /\ [h EXCEPT !.loop = NoLoop].ts = h.ts /\ [h EXCEPT !.loop = NoLoop].log = h.log
  BY <1>1, WithLoop
<1>3. HubInv(Enter(h, 0), known) /\ Enter(h, 0).ts = h.ts /\ Enter(h, 0).log = h.log
  BY EnterInv
<1>4. Settle(h) \in {h, Enter(h, 0), [h EXCEPT !.loop = NoLoop]}
  BY DEF Settle
<1> QED
  BY <1>2, <1>3, <1>4, Zenon

\* Moving the commit loop to its body or into a callback keeps the invariant.
LEMMA LoopAtInv ==
  ASSUME NEW h, NEW known, HubInv(h, known), NEW at \in {"loop", "callback"}
  PROVE  /\ HubInv(Settle([h EXCEPT !.loop.at = at]), known)
         /\ Settle([h EXCEPT !.loop.at = at]).ts = h.ts
         /\ Settle([h EXCEPT !.loop.at = at]).log = h.log
<1> DEFINE l == [h.loop EXCEPT !.at = at]
           g == [h EXCEPT !.loop.at = at]
<1>1. l \in Loops /\ l.lcf \in Ids(h.log) \cup {NilId}
  BY DEF HubInv, HubOK, Loops
<1>2. g = [h EXCEPT !.loop = l]
  BY DEF HubInv, HubFields
<1> HIDE DEF l, g
<1>3. HubInv(g, known) /\ g.ts = h.ts /\ g.log = h.log
  BY <1>1, <1>2, WithLoop
<1>4. HubInv(Settle(g), known) /\ Settle(g).ts = h.ts /\ Settle(g).log = h.log
  BY <1>3, SettleInv
<1> QED
  BY <1>4 DEF g

\* Entering and not entering a callback of the application keeps the invariant.
LEMMA CalledBackInv ==
  ASSUME NEW h, NEW known, HubInv(h, known)
  PROVE  Evolves(h, CalledBack(h), known) /\ Evolves(h, NotCalledBack(h), known)
<1>1. h.ts \in Nat
  BY Zenon DEF HubInv, HubOK
<1> QED
  BY <1>1, LoopAtInv DEF CalledBack, NotCalledBack, Evolves

\* Calling commit_what_was_seen_by_everyone keeps the invariant.
LEMMA CommitInv ==
  ASSUME NEW h, NEW known, HubInv(h, known), NEW more \in {0, 1}
  PROVE  /\ Evolves(h, Commit(h, more), known)
         /\ Evolves(h, CalledBack(Enter(h, more)), known)
<1>1. h.ts \in Nat
  BY DEF HubInv, HubOK
<1>2. /\ Evolves(Enter(h, more), NotCalledBack(Enter(h, more)), known)
      /\ Evolves(Enter(h, more), CalledBack(Enter(h, more)), known)
      /\ Enter(h, more).ts = h.ts /\ Enter(h, more).log = h.log
  BY EnterInv, CalledBackInv
<1> QED
  BY <1>1, <1>2 DEF Commit, Evolves
-------------------------------------------------------------------------------
(* Handlers.                                                               *)

\* The parts of a handler compose.
LEMMA EvolvesTrans ==
  ASSUME NEW f, NEW g, NEW h, NEW known, f.ts \in Nat,
         Evolves(f, g, known), Evolves(g, h, known)
  PROVE  Evolves(f, h, known)
BY DEF Evolves

\* A hub that keeps the invariant evolves into itself.
LEMMA EvolvesRefl ==
  ASSUME NEW h, NEW known, HubInv(h, known)
  PROVE  Evolves(h, h, known) /\ h.ts \in Nat /\ h.posted \in Nat
<1>1. h.ts \in Nat /\ h.posted \in Nat
  BY DEF HubInv, HubOK
<1> QED
  BY <1>1 DEF Evolves

\* What a part of a handler leaves to the next one.
LEMMA EvolvesFacts ==
  ASSUME NEW h, NEW g, NEW known, Evolves(h, g, known)
  PROVE  HubInv(g, known) /\ g.ts \in Nat /\ h.ts <= g.ts
BY DEF Evolves

\* Changing the nodes (connecting, disconnecting, erasing) keeps the invariant.
LEMMA WithNodes ==
  ASSUME NEW h, NEW known, HubInv(h, known), NEW nodes \in [Nodes -> NodeStates],
         NEW g, g = [h EXCEPT !.nodes = nodes]
  PROVE  HubInv(g, known) /\ g.ts = h.ts /\ g.log = h.log
<1>1. /\ HubFields(g)
      /\ g.ts = h.ts /\ g.log = h.log /\ g.configs = h.configs /\ g.seen = h.seen
      /\ g.nodes = nodes /\ g.peers = h.peers /\ g.posted = h.posted
      /\ g.loop = h.loop /\ g.status = h.status
  BY DEF HubInv, HubFields
<1> QED
  BY <1>1, WithOther DEF HubInv, HubOK

\* Changing the duplicate filter keeps the invariant.
LEMMA WithSeen ==
  ASSUME NEW h, NEW known, HubInv(h, known), NEW seen \in [Nodes -> Seens],
         NEW g, g = [h EXCEPT !.seen = seen]
  PROVE  HubInv(g, known) /\ g.ts = h.ts /\ g.log = h.log
<1>1. /\ HubFields(g)
      /\ g.ts = h.ts /\ g.log = h.log /\ g.configs = h.configs /\ g.seen = seen
      /\ g.nodes = h.nodes /\ g.peers = h.peers /\ g.posted = h.posted
      /\ g.loop = h.loop /\ g.status = h.status
  BY DEF HubInv, HubFields
<1> QED
  BY <1>1, WithOther DEF HubInv, HubOK

\* Changing the peers keeps the invariant.
LEMMA WithPeers ==
  ASSUME NEW h, NEW known, HubInv(h, known), NEW peers, peers \subseteq Nodes,
         NEW g, g = [h EXCEPT !.peers = peers]
  PROVE  HubInv(g, known) /\ g.ts = h.ts /\ g.log = h.log
<1>1. /\ HubFields(g)
      /\ g.ts = h.ts /\ g.log = h.log /\ g.configs = h.configs /\ g.seen = h.seen
      /\ g.nodes = h.nodes /\ g.peers = peers /\ g.posted = h.posted
      /\ g.loop = h.loop /\ g.status = h.status
  BY DEF HubInv, HubFields
<1> QED
  BY <1>1, WithOther DEF HubInv, HubOK

\* Changing the number of posted commits keeps the invariant.
LEMMA WithPosted ==
  ASSUME NEW h, NEW known, HubInv(h, known), NEW posted \in Nat,
         NEW g, g = [h EXCEPT !.posted = posted]
  PROVE  HubInv(g, known) /\ g.ts = h.ts /\ g.log = h.log
<1>1. /\ HubFields(g)
      /\ g.ts = h.ts /\ g.log = h.log /\ g.configs = h.configs /\ g.seen = h.seen
      /\ g.nodes = h.nodes /\ g.peers = h.peers /\ g.posted = posted
      /\ g.loop = h.loop /\ g.status = h.status
  BY Zenon DEF HubInv, HubFields
<1> QED
  BY <1>1, WithOther DEF HubInv, HubOK

\* What construct_ackable builds may be on a wire, and its poster logs it.
LEMMA PostedInv ==
  ASSUME NEW h, NEW known, HubInv(h, known), NEW n \in Nodes,
         NEW type \in {"fuse", "user_data"}, NEW m, m = construct_ackable(n, h, type),
         type = "user_data" => <<h.ts + 1, n>> \in known
  PROVE  /\ m \in Messages /\ m \in Spread(known)
         /\ message_id(m) = <<h.ts + 1, n>> /\ message_id(m) \in PostedIds
         /\ Evolves(h, Posted(h, m), known) /\ Posted(h, m).ts = h.ts + 1
<1>1. h.ts \in Nat /\ h.ts + 1 \in Nat \ {0} /\ h.ts <= h.ts + 1
  <2>1. h.ts \in Nat
    BY DEF HubInv, HubOK
  <2> QED
    BY <2>1
<1>2. <<h.ts + 1, n>> \in PostedIds
  BY <1>1 DEF PostedIds
<1>3. m \in Messages
  BY <1>2, MessageType DEF construct_ackable
<1>4. /\ m.type = type /\ m.ts = h.ts + 1 /\ message_id(m) = <<h.ts + 1, n>>
      /\ m.ack.acked = <<h.ts + 1, n>> /\ m.op \in m.visited
  BY DEF construct_ackable, Message, AckData, message_id
<1>5. m \in Spread(known)
  BY <1>3, <1>4 DEF Spread
<1> DEFINE g == [h EXCEPT !.ts = m.ts]
<1>6. HubInv(g, known) /\ g.ts = h.ts + 1 /\ g.log = h.log
  BY <1>1, <1>4, WithClock
<1> HIDE DEF g
<1>7. m.type # "ack" /\ m.ts <= g.ts
  BY <1>1, <1>4, <1>6
<1>8. Evolves(g, add_log_entry(g, m), known) /\ add_log_entry(g, m).ts = g.ts
  BY <1>3, <1>5, <1>6, <1>7, AddLogEntryInv
<1>9. Evolves(h, g, known)
  BY <1>1, <1>6 DEF Evolves
<1>10. Posted(h, m) = add_log_entry(g, m)
  BY DEF Posted, g
<1> QED
  BY <1>1, <1>2, <1>3, <1>4, <1>5, <1>6, <1>8, <1>9, <1>10, EvolvesTrans

\* hub::construct_ack
LEMMA AckedInv ==
  ASSUME NEW h, NEW known, HubInv(h, known), NEW n \in Nodes, NEW id \in PostedIds
  PROVE  /\ Evolves(h, Acked(n, h, id), known) /\ Acked(n, h, id).ts = h.ts + 1
         /\ Message(n, h, "ack", id) \in Spread(known)
<1>1. h.ts \in Nat /\ h.ts + 1 \in Nat /\ h.ts <= h.ts + 1
  <2>1. h.ts \in Nat
    BY DEF HubInv, HubOK
  <2> QED
    BY <2>1
<1>2. AckData(n, h, id) \in Acks /\ Message(n, h, "ack", id) \in Messages
  BY MessageType
<1> DEFINE g == [h EXCEPT !.ts = h.ts + 1]
           log == apply_ack(h.log, AckData(n, h, id))
<1>3. HubInv(g, known) /\ g.ts = h.ts + 1 /\ g.log = h.log
  BY <1>1, WithClock
<1>4. Acked(n, h, id) = [g EXCEPT !.log = log]
  BY DEF Acked, HubInv, HubFields
<1> HIDE DEF g
<1>5. LogInv(log, g.ts, known) /\ log.last_committed = h.log.last_committed
  <2>1. LogInv(h.log, g.ts, known)
    BY <1>3 DEF HubInv
  <2> QED
    BY <1>1, <1>2, <1>3, <2>1, ApplyAckInv
<1>8. g.loop.lcf \in Ids(log) \cup {NilId}
  <2>1. g.loop.lcf \in Ids(h.log) \cup {NilId} /\ LogFields(h.log)
    BY <1>3 DEF HubInv, HubOK, LogInv
  <2> QED
    BY <2>1, InsertEntryIds
<1> HIDE DEF log
<1>6. Message(n, h, "ack", id).type = "ack" /\ Message(n, h, "ack", id).op \in {n}
      /\ Message(n, h, "ack", id).visited = {n}
  BY DEF Message
<1>7. Message(n, h, "ack", id) \in Spread(known)
  BY <1>2, <1>6 DEF Spread
<1> QED
  BY <1>1, <1>3, <1>4, <1>5, <1>7, <1>8, WithLog DEF Evolves

\* hub::on_recv before process.
LEMMA NoticedInv ==
  ASSUME NEW h, NEW known, HubInv(h, known), NEW m \in Messages
  PROVE  Evolves(h, Noticed(h, m), known) /\ m.ts <= Noticed(h, m).ts
<1> DEFINE t == IF m.ts > h.ts THEN m.ts ELSE h.ts
           f == [h EXCEPT !.ts = t]
           seen == insert(h.seen, message_id(m))
           g == [f EXCEPT !.seen = seen]
           nodes == [h.nodes EXCEPT ![m.op] = IF @ = Absent THEN NotConnected ELSE @]
<1>1. /\ h.ts \in Nat /\ m.ts \in Nat /\ m.op \in Nodes
      /\ t \in Nat /\ h.ts <= t /\ m.ts <= t
  BY DEF HubInv, HubOK, Messages
<1>2. seen \in [Nodes -> Seens]
  <2>1. h.seen \in [Nodes -> Seens]
    BY DEF HubInv, HubOK
  <2>2. message_id(m)[1] = m.ts /\ message_id(m)[2] = m.op
    BY DEF message_id
  <2> QED
    BY <1>1, <2>1, <2>2 DEF insert, Seens, PosterOf, TimeStampOf
<1>3. nodes \in [Nodes -> NodeStates]
  <2>1. h.nodes \in [Nodes -> NodeStates] /\ NotConnected \in NodeStates
    BY DEF HubInv, HubOK, NotConnected, NodeStates
  <2> QED
    BY <1>1, <2>1
<1>4. Noticed(h, m) = [g EXCEPT !.nodes = nodes]
  BY Zenon DEF Noticed, HubInv, HubFields
<1> HIDE DEF seen, nodes
<1>5. HubInv(f, known) /\ f.ts = t /\ f.log = h.log
  BY <1>1, WithClock
<1> HIDE DEF f, t
<1>6. HubInv(g, known) /\ g.ts = t /\ g.log = h.log
  BY <1>2, <1>5, WithSeen
<1> HIDE DEF g
<1> QED
  BY <1>1, <1>3, <1>4, <1>6, WithNodes DEF Evolves
-------------------------------------------------------------------------------
(* Wires, and the end of a handler.                                        *)

\* A sequence over a set is one over every larger set.
LEMMA SeqMonotone ==
  ASSUME NEW A, NEW B, A \subseteq B, NEW s \in Seq(A)
  PROVE  s \in Seq(B)
<1>1. s \in [1..Len(s) -> A] /\ Len(s) \in Nat
  OBVIOUS
<1>2. s \in [1..Len(s) -> B]
  BY <1>1
<1> QED
  BY <1>1, <1>2

\* What a wire may carry only grows with what has been sent.
LEMMA WireMonotone ==
  ASSUME NEW w, NEW known, NEW more, known \subseteq more, WireInv(w, known)
  PROVE  WireInv(w, more)
<1>1. /\ Carried(known) \subseteq Carried(more)
      /\ \A n : Foreign(n, known) \subseteq Foreign(n, more)
  BY DEF Carried, Spread, Foreign
<1>2. \A k \in Sockets, n \in Nodes :
        w[k][n] \in Seq(Carried(known)) /\ w[k][n] \in Seq(Foreign(n, known))
  BY DEF WireInv
<1>3. \A k \in Sockets, n \in Nodes :
        w[k][n] \in Seq(Carried(more)) /\ w[k][n] \in Seq(Foreign(n, more))
  BY <1>1, <1>2, SeqMonotone
<1> QED
  BY <1>3 DEF WireInv

\* A message more is known to be sent.
LEMMA HubMonotone ==
  ASSUME NEW h, NEW known, NEW more, known \subseteq more, HubInv(h, known)
  PROVE  HubInv(h, more)
BY DEF HubInv, LogInv

\* hub::broadcast puts only known messages on the wires.
LEMMA BroadcastInv ==
  ASSUME NEW w, NEW known, WireInv(w, known), NEW n, NEW h, NEW m \in Spread(known)
  PROVE  WireInv(broadcast(w, n, h, m), known)
<1> SUFFICES ASSUME NEW k \in Sockets, NEW u \in Nodes
             PROVE  /\ broadcast(w, n, h, m)[k][u] \in Seq(Carried(known))
                    /\ broadcast(w, n, h, m)[k][u] \in Seq(Foreign(u, known))
  BY DEF WireInv, broadcast
<1>1. w[k][u] \in Seq(Carried(known)) /\ w[k][u] \in Seq(Foreign(u, known))
  BY Zenon DEF WireInv
<1>2. \/ broadcast(w, n, h, m)[k][u] = w[k][u]
      \/ u \notin m.visited /\ broadcast(w, n, h, m)[k][u] = Append(w[k][u], m)
  BY DEF broadcast
<1>3. ASSUME u \notin m.visited
      PROVE  /\ Append(w[k][u], m) \in Seq(Carried(known))
             /\ Append(w[k][u], m) \in Seq(Foreign(u, known))
  <2>1. m \in Carried(known) /\ m \in Foreign(u, known)
    BY <1>3 DEF Carried, Spread, Foreign
  <2> QED
    BY <1>1, <2>1
<1> QED
  BY <1>1, <1>2, <1>3, Zenon

\* One wire changes.
LEMMA WithWire ==
  ASSUME NEW w, NEW known, WireInv(w, known), NEW k \in Sockets, NEW n \in Nodes,
         NEW s, s \in Seq(Carried(known)), s \in Seq(Foreign(n, known))
  PROVE  WireInv([w EXCEPT ![k][n] = s], known)
<1> DEFINE v == [w EXCEPT ![k][n] = s]
           S == Seq(Carried(known))
           F(u) == Seq(Foreign(u, known))
<1>1. w \in [Sockets -> [Nodes -> S]] /\ \A j \in Sockets, u \in Nodes : w[j][u] \in F(u)
  BY DEF WireInv
<1>2. s \in S /\ s \in F(n)
  OBVIOUS
<1> HIDE DEF S, F
<1>3. v \in [Sockets -> [Nodes -> S]]
  BY <1>1, <1>2
<1>4. ASSUME NEW j \in Sockets, NEW u \in Nodes PROVE v[j][u] \in F(u)
  <2>1. v[j][u] = IF j = k /\ u = n THEN s ELSE w[j][u]
    BY <1>1
  <2> QED
    BY <1>1, <1>2, <2>1
<1> QED
  BY <1>3, <1>4 DEF WireInv, S, F

\* A message is taken from a wire.
LEMMA TailInv ==
  ASSUME NEW w, NEW known, WireInv(w, known), NEW k \in Sockets, NEW n \in Nodes,
         w[k][n] # <<>>
  PROVE  /\ WireInv([w EXCEPT ![k][n] = Tail(@)], known)
         /\ Head(w[k][n]) \in Carried(known)
<1>1. w[k][n] \in Seq(Carried(known)) /\ w[k][n] \in Seq(Foreign(n, known))
  BY DEF WireInv
<1>2. /\ Tail(w[k][n]) \in Seq(Carried(known)) /\ Head(w[k][n]) \in Carried(known)
      /\ Tail(w[k][n]) \in Seq(Foreign(n, known))
  BY <1>1
<1> QED
  BY <1>2, WithWire, Zenon

\* The end of a handler closes sockets at most.
LEMMA InstallInv ==
  ASSUME NEW n \in Nodes, NEW h, NEW s \in SocketStates, NEW w, NEW known,
         WireInv(w, known), Install(n, h, s, w)
  PROVE  /\ hub' = [hub EXCEPT ![n] = h]
         /\ socket' \in SocketStates
         /\ WireInv(wire', known)
<1>1. socket' \in SocketStates
  <2>1. \A k \in Sockets : s[k] \in [Nodes -> {"unused", "exchange", "up", "closed"}]
    BY Zenon DEF SocketStates
  <2>2. \A k \in Sockets : socket'[k] \in {s[k], [s[k] EXCEPT ![n] = "closed"]}
    BY DEF Install
  <2>3. \A k \in Sockets : socket'[k] \in [Nodes -> {"unused", "exchange", "up", "closed"}]
    BY <2>1, <2>2
  <2>4. socket' = [k \in Sockets |-> socket'[k]]
    BY DEF Install
  <2> QED
    BY <2>3, <2>4 DEF SocketStates
<1>2. WireInv(wire', known)
  <2> DEFINE S == Seq(Carried(known))
             F(u) == Seq(Foreign(u, known))
  <2>1. /\ w \in [Sockets -> [Nodes -> S]] /\ <<>> \in S
        /\ \A k \in Sockets, u \in Nodes : w[k][u] \in F(u)
        /\ \A u : <<>> \in F(u)
    BY DEF WireInv
  <2>2. /\ wire' = [k \in Sockets |-> wire'[k]]
        /\ \A k \in Sockets : wire'[k] \in {w[k], [w[k] EXCEPT ![n] = <<>>]}
    BY DEF Install
  <2> HIDE DEF S, F
  <2>3. \A k \in Sockets : wire'[k] \in [Nodes -> S]
    <3>1. \A f \in [Nodes -> S] : [f EXCEPT ![n] = <<>>] \in [Nodes -> S]
      BY <2>1, Zenon
    <3> QED
      BY <2>1, <2>2, <3>1
  <2>4. ASSUME NEW k \in Sockets, NEW u \in Nodes PROVE wire'[k][u] \in F(u)
    <3>1. wire'[k][u] \in {w[k][u], <<>>}
      BY <2>1, <2>2
    <3> QED
      BY <2>1, <3>1
  <2> QED
    BY <2>2, <2>3, <2>4 DEF WireInv, S, F
<1> QED
  BY <1>1, <1>2 DEF Install

\* A handler that neither sends nor commits.
LEMMA StepInv ==
  ASSUME Inv, NEW n \in Nodes, NEW h, NEW s \in SocketStates, NEW w,
         Evolves(hub[n], h, AllSent), WireInv(w, AllSent), Install(n, h, s, w),
         UNCHANGED <<history, sent>>, breaks' \in Nat
  PROVE  Inv'
<1>1. AllSent' = AllSent
  BY DEF AllSent
<1>2. /\ hub' = [hub EXCEPT ![n] = h]
      /\ socket' \in SocketStates
      /\ WireInv(wire', AllSent)
  BY InstallInv
<1>3. /\ hub' = [u \in Nodes |-> hub'[u]]
      /\ hub'[n] = h
      /\ \A u \in Nodes \ {n} : hub'[u] = hub[u]
  BY <1>2, Zenon DEF Inv
<1>4. \A u \in Nodes : HubInv(hub'[u], AllSent)
  BY <1>3, Zenon DEF Inv, Evolves
<1>5. \A u \in Nodes : \A r \in TOB!Elements(history'[u]) :
        NotAfter(r.id, hub'[u].log.last_committed)
  BY <1>3, Zenon DEF Inv, Evolves
<1>6. \A u \in Nodes : \A id \in TOB!Elements(sent'[u]) : id[1] <= hub'[u].ts /\ id[2] = u
  <2> SUFFICES ASSUME NEW u \in Nodes, NEW id \in TOB!Elements(sent[u])
               PROVE  id[1] <= hub'[u].ts /\ id[2] = u
    OBVIOUS
  <2>1. id[1] <= hub[u].ts /\ id[2] = u
    BY DEF Inv
  <2>2. id[1] \in Nat
    BY PostedIdFacts DEF Inv, TOB!Elements
  <2>3. hub[u].ts \in Nat
    BY DEF Inv, HubInv, HubOK
  <2> QED
    BY <1>3, <2>1, <2>2, <2>3 DEF Evolves
<1> QED
  BY <1>1, <1>2, <1>3, <1>4, <1>5, <1>6, Zenon DEF Inv
-------------------------------------------------------------------------------
(* An iteration of the commit loop.                                        *)

\* What an iteration does to a hub: the first entry is the last committed one.
Advances(h, g, id, known) ==
  /\ HubInv(g, known)
  /\ g.ts = h.ts
  /\ g.log.last_committed = id

\* The order of message identifiers is transitive.
LEMMA BeforeTrans ==
  ASSUME NEW a \in MessageIds, NEW b \in MessageIds, NEW c \in MessageIds,
         Before(a, b) \/ a = b, Before(b, c)
  PROVE  Before(a, c)
BY DEF Before, MessageIds

\* The entries that stay in the log are newer than the one that leaves it.
LEMMA WithoutInv ==
  ASSUME NEW log, NEW t \in Nat, NEW known, LogInv(log, t, known),
         NEW id \in Ids(log), IsFirst(id, Ids(log)),
         NEW new, new \in {Without(log, id), Committed(log, id)}
  PROVE  LogInv(new, t, known) /\ new.last_committed = id
<1> DEFINE ents == [o \in Ids(log) \ {id} |-> log.entries[o]]
<1>1. /\ LogFields(new)
      /\ new.entries = ents
      /\ new.last_committed = id
      /\ new.last_fuse_commit \in {log.last_fuse_commit, id}
      /\ new.pending_acks = log.pending_acks
  BY Zenon DEF Without, Committed, LogInv, LogFields
<1>2. /\ IsFunction(ents) /\ DOMAIN ents = Ids(log) \ {id}
      /\ \A o \in Ids(log) \ {id} : ents[o] = log.entries[o]
  BY DEF IsFunction
<1>3. id \in MessageIds /\ id[1] <= t
  BY PostedIdFacts DEF LogInv, LogOK
<1>4. \A o \in Ids(log) \ {id} : Before(id, o)
  BY Zenon DEF IsFirst, NotAfter
<1> HIDE DEF ents
<1>5. LogOK(new)
  BY <1>1, <1>2, <1>3 DEF LogInv, LogOK, Ids
<1> QED
  BY <1>1, <1>2, <1>3, <1>4, <1>5 DEF LogInv, Ids

\* Taking the first entry out of the log, erased or committed, keeps the invariant.
LEMMA RemovedInv ==
  ASSUME NEW h, NEW known, HubInv(h, known), NEW id \in Ids(h.log),
         IsFirst(id, Ids(h.log))
  PROVE  /\ Advances(h, Removed(h, id), id, known)
         /\ h.loop.lcf # id => Advances(h, [h EXCEPT !.log = Without(@, id)], id, known)
<1> DEFINE log  == Without(h.log, id)
           new  == Committed(h.log, id)
           seen == seen_everything_up_to(h.seen, id)
           l == [h.loop EXCEPT !.lcf = IF @ = id THEN NilId ELSE @]
           e == [h EXCEPT !.log = log]
           f == [h EXCEPT !.loop = l]
           g == [f EXCEPT !.seen = seen]
<1>1. h.ts \in Nat /\ LogInv(h.log, h.ts, known)
  BY Zenon DEF HubInv, HubOK
<1>2. /\ LogInv(new, h.ts, known) /\ new.last_committed = id
      /\ LogInv(log, h.ts, known) /\ log.last_committed = id
  BY <1>1, WithoutInv, Zenon
<1>3. seen \in [Nodes -> Seens]
  <2>1. h.seen \in [Nodes -> Seens]
    BY DEF HubInv, HubOK
  <2>2. id[1] \in Nat
    BY <1>1, PostedIdFacts DEF LogInv, LogOK
  <2> QED
    BY <2>1, <2>2, Zenon DEF seen_everything_up_to, Seens, TimeStampOf
<1>4. l \in Loops /\ l.lcf \in (Ids(h.log) \ {id}) \cup {NilId}
  <2>1. /\ h.loop \in Loops /\ NilId \in MessageIds
        /\ h.loop.lcf \in Ids(h.log) \cup {NilId}
    BY DEF HubInv, HubOK, NilId, MessageIds
  <2> QED
    BY <2>1, Zenon DEF Loops
<1>11. Ids(log) = Ids(h.log) \ {id} /\ Ids(new) = Ids(h.log) \ {id}
  BY <1>1, Zenon DEF LogInv, LogFields, Without, Committed, Ids
<1>12. h.loop.lcf \in Ids(h.log) \cup {NilId}
  BY DEF HubInv, HubOK
<1>5. Removed(h, id) = [h EXCEPT !.log = new, !.seen = seen, !.loop = l]
  BY DEF Removed, HubInv, HubFields
<1> HIDE DEF log, new, seen, l
<1>6. Removed(h, id) = [g EXCEPT !.log = new]
  BY <1>5, Zenon DEF HubInv, HubFields
<1>7. h.loop.lcf # id => Advances(h, e, id, known)
  <2> SUFFICES ASSUME h.loop.lcf # id PROVE Advances(h, e, id, known)
    OBVIOUS
  <2>1. h.loop.lcf \in Ids(log) \cup {NilId}
    BY <1>11, <1>12
  <2> QED
    BY <1>2, <2>1, WithLog DEF Advances
<1>8. HubInv(f, known) /\ f.ts = h.ts /\ f.log = h.log /\ f.loop = l
  BY <1>4, WithLoop
<1> HIDE DEF f
<1>9. HubInv(g, known) /\ g.ts = h.ts /\ g.log = h.log /\ g.loop = l
  <2>1. g.loop = f.loop
    BY <1>8 DEF HubInv, HubFields
  <2> QED
    BY <1>3, <1>8, <2>1, WithSeen
<1> HIDE DEF g
<1>10. Advances(h, Removed(h, id), id, known)
  <2>1. g.loop.lcf \in Ids(new) \cup {NilId}
    BY <1>4, <1>9, <1>11
  <2> QED
    BY <1>2, <1>6, <1>9, <2>1, WithLog DEF Advances
<1> QED
  BY <1>7, <1>10, Zenon DEF log

\* hub::on_commit_fuse
LEMMA NewConfigInv ==
  ASSUME NEW h, NEW known, HubInv(h, known), NEW id \in Nat \X Nodes, id[1] <= h.ts,
         NEW quorum \in SUBSET Nodes
  PROVE  /\ HubInv(NewConfig(h, id, quorum), known)
         /\ NewConfig(h, id, quorum).ts = h.ts
         /\ NewConfig(h, id, quorum).log = h.log
<1> DEFINE gone == h.configs[LatestConfig(h)] \ quorum
           cfgs == [c \in DOMAIN h.configs \cup {id} |->
                      IF c \in DOMAIN h.configs THEN h.configs[c] ELSE quorum]
           seen == forget_messages_from(h.seen, gone)
           nodes == [u \in Nodes |-> IF u \in gone THEN Absent ELSE h.nodes[u]]
           g == NewConfig(h, id, quorum)
<1>1. g = [h EXCEPT !.configs = cfgs, !.seen = seen, !.nodes = nodes]
  BY Zenon DEF NewConfig, HubInv, HubFields
<1>2. /\ IsFunction(cfgs) /\ DOMAIN cfgs = DOMAIN h.configs \cup {id}
      /\ \A c \in DOMAIN cfgs : cfgs[c] \subseteq Nodes /\ c[1] <= h.ts /\ c \in Nat \X Nodes
  BY Zenon DEF IsFunction, HubInv, HubOK
<1>3. seen \in [Nodes -> Seens]
  BY Zenon DEF forget_messages_from, Unknown, Seens, HubInv, HubOK
<1>4. nodes \in [Nodes -> NodeStates]
  BY DEF Absent, NodeStates, HubInv, HubOK
<1> HIDE DEF cfgs, seen, nodes, gone, g
<1>5. /\ HubFields(g)
      /\ g.ts = h.ts /\ g.log = h.log /\ g.configs = cfgs /\ g.seen = seen
      /\ g.nodes = nodes /\ g.peers = h.peers /\ g.posted = h.posted
      /\ g.loop = h.loop /\ g.status = h.status
  BY <1>1, Zenon DEF HubInv, HubFields
<1>6. HubInv(g, known)
  BY <1>2, <1>3, <1>4, <1>5 DEF HubInv, HubOK
<1> QED
  BY <1>5, <1>6 DEF g

\* The callback of a commit, or its absence, keeps what the commit established.
LEMMA CommittedInv ==
  ASSUME NEW h, NEW known, HubInv(h, known), NEW id, NEW g, Advances(h, g, id, known)
  PROVE  Advances(h, CalledBack(g), id, known) /\ Advances(h, NotCalledBack(g), id, known)
BY LoopAtInv, Zenon DEF CalledBack, NotCalledBack, Advances
-------------------------------------------------------------------------------
(* Every action preserves the invariant.                                   *)

\* The elements of a sequence with one more.
LEMMA ElementsOfAppend ==
  ASSUME NEW S, NEW s \in Seq(S), NEW x \in S
  PROVE  TOB!Elements(Append(s, x)) = TOB!Elements(s) \cup {x}
<1>1. /\ DOMAIN s = 1..Len(s) /\ Len(s) \in Nat
      /\ DOMAIN Append(s, x) = 1..(Len(s) + 1)
      /\ \A i \in 1..Len(s) : Append(s, x)[i] = s[i]
      /\ Append(s, x)[Len(s) + 1] = x
  OBVIOUS
<1>2. 1..(Len(s) + 1) = 1..Len(s) \cup {Len(s) + 1}
  BY <1>1
<1> QED
  BY <1>1, <1>2 DEF TOB!Elements

\* A sequence over a set with one more element of it.
LEMMA AppendType ==
  ASSUME NEW S, NEW s \in Seq(S), NEW x \in S
  PROVE  Append(s, x) \in Seq(S)
OBVIOUS

\* The elements of a sequence over a set are in the set.
LEMMA ElementsType ==
  ASSUME NEW S, NEW s \in Seq(S), NEW x \in TOB!Elements(s)
  PROVE  x \in S
BY DEF TOB!Elements

\* hub::total_order_broadcast is a Send of the abstract broadcast.
LEMMA SendStep ==
  ASSUME Inv, NEW n \in Nodes, total_order_broadcast(n)
  PROVE  Inv' /\ TOB!Send(n)
<1> DEFINE h == hub[n]
           m == construct_ackable(n, h, "user_data")
           id == <<h.ts + 1, n>>
           g == [Posted(h, m) EXCEPT !.posted = @ + 1]
           w == broadcast(wire, n, h, m)
           known == AllSent'
<1>1. /\ Install(n, g, socket, w)
      /\ sent' = [sent EXCEPT ![n] = Append(@, message_id(m))]
      /\ UNCHANGED <<history, breaks>>
  BY DEF total_order_broadcast
<1>2. /\ h.ts \in Nat /\ h.ts + 1 \in Nat \ {0} /\ id \in PostedIds
      /\ id[1] = h.ts + 1 /\ id[2] = n
  <2>1. h.ts \in Nat
    BY Zenon DEF Inv, HubInv, HubOK
  <2> QED
    BY <2>1 DEF PostedIds
<1>3. message_id(m) = id
  BY DEF message_id, construct_ackable, Message
<1> HIDE DEF g, w, m, id
<1>4. /\ sent \in [Nodes -> Seq(PostedIds)]
      /\ sent' \in [Nodes -> Seq(PostedIds)]
      /\ TOB!Elements(sent'[n]) = TOB!Elements(sent[n]) \cup {id}
      /\ \A u \in Nodes \ {n} : sent'[u] = sent[u]
  <2>1. sent \in [Nodes -> Seq(PostedIds)] /\ sent[n] \in Seq(PostedIds)
    BY DEF Inv
  <2>2. sent' = [sent EXCEPT ![n] = Append(sent[n], id)]
    BY <1>1, <1>3
  <2>3. Append(sent[n], id) \in Seq(PostedIds)
    BY <1>2, <2>1, AppendType
  <2>4. TOB!Elements(Append(sent[n], id)) = TOB!Elements(sent[n]) \cup {id}
    BY <1>2, <2>1, ElementsOfAppend
  <2> DEFINE S == Seq(PostedIds)
             s == Append(sent[n], id)
  <2>5. sent \in [Nodes -> S] /\ s \in S
    BY <2>1, <2>3
  <2>6. sent' = [sent EXCEPT ![n] = s]
    BY <2>2
  <2> HIDE DEF S, s
  <2>7. sent' \in [Nodes -> S] /\ sent'[n] = s /\ \A u \in Nodes \ {n} : sent'[u] = sent[u]
    BY <2>5, <2>6
  <2> QED
    BY <2>1, <2>4, <2>7 DEF S, s
<1>5. AllSent \subseteq known /\ id \in known
  <2>1. PosterOf(id) = n
    BY <1>2 DEF PosterOf
  <2>2. \A o \in AllSent : PosterOf(o) \in Nodes /\ o \in PostedIds
    BY PostedIdFacts DEF AllSent, PosterOf
  <2> QED
    BY <1>2, <1>4, <2>1, <2>2, Zenon DEF AllSent
<1> HIDE DEF known
<1>6. /\ \A u \in Nodes : HubInv(hub[u], known)
      /\ WireInv(wire, known)
  BY <1>5, HubMonotone, WireMonotone, Zenon DEF Inv
<1>7. /\ m \in Spread(known)
      /\ Evolves(h, Posted(h, m), known) /\ Posted(h, m).ts = h.ts + 1
  <2>1. "user_data" \in {"fuse", "user_data"} /\ m = construct_ackable(n, h, "user_data")
    BY DEF m
  <2>2. <<h.ts + 1, n>> \in known
    BY <1>5, Zenon DEF id
  <2> QED
    BY <1>6, <2>1, <2>2, PostedInv
<1>8. WireInv(w, known)
  BY <1>6, <1>7, BroadcastInv DEF w
<1>9. HubInv(g, known) /\ g.ts = h.ts + 1 /\ g.log.last_committed = h.log.last_committed
  <2> DEFINE p == Posted(h, m)
             posted == p.posted + 1
  <2>3. HubInv(p, known) /\ p.ts = h.ts + 1 /\ p.log.last_committed = h.log.last_committed
    BY <1>7 DEF Evolves
  <2>5. g = [p EXCEPT !.posted = posted]
    BY Zenon DEF g
  <2> HIDE DEF p
  <2>6. p.posted \in Nat
    BY <2>3 DEF HubInv, HubOK
  <2>1. HubInv(p, known) /\ posted \in Nat
    BY <2>3, <2>6
  <2> HIDE DEF posted
  <2>2. g = [p EXCEPT !.posted = posted]
    BY <2>5 DEF posted
  <2>4. HubInv(g, known) /\ g.ts = p.ts /\ g.log = p.log
    BY <2>1, <2>2, WithPosted
  <2> QED
    BY <2>3, <2>4, Zenon
<1>10. /\ hub' = [hub EXCEPT ![n] = g]
       /\ socket' \in SocketStates
       /\ WireInv(wire', known)
  BY <1>1, <1>8, InstallInv DEF Inv
<1>11. /\ hub' = [u \in Nodes |-> hub'[u]]
       /\ hub'[n] = g
       /\ \A u \in Nodes \ {n} : hub'[u] = hub[u]
  BY <1>10, Zenon DEF Inv
<1>12. \A u \in Nodes : HubInv(hub'[u], known)
  BY <1>6, <1>9, <1>11, Zenon
<1>13. \A u \in Nodes : \A r \in TOB!Elements(history'[u]) :
         NotAfter(r.id, hub'[u].log.last_committed)
  BY <1>1, <1>9, <1>11, Zenon DEF Inv
<1>14. \A o \in TOB!Elements(sent[n]) : o[1] \in Nat /\ o[1] <= h.ts
  BY <1>4, PostedIdFacts, ElementsType, Zenon DEF Inv
<1>15. \A u \in Nodes : \A o \in TOB!Elements(sent'[u]) : o[1] <= hub'[u].ts /\ o[2] = u
  <2>1. ASSUME NEW u \in Nodes \ {n}, NEW o \in TOB!Elements(sent'[u])
        PROVE  o[1] <= hub'[u].ts /\ o[2] = u
    BY <1>4, <1>11, Zenon DEF Inv
  <2>2. ASSUME NEW o \in TOB!Elements(sent'[n])
        PROVE  o[1] <= hub'[n].ts /\ o[2] = n
    <3>1. CASE o \in TOB!Elements(sent[n])
      BY <1>2, <1>9, <1>11, <1>14, <3>1 DEF Inv
    <3>2. CASE o = id
      BY <1>2, <1>9, <1>11, <3>2
    <3> QED
      BY <1>4, <2>2, <3>1, <3>2, Zenon
  <2> QED
    BY <2>1, <2>2
<1>16. Inv'
  BY <1>1, <1>4, <1>10, <1>11, <1>12, <1>13, <1>15, Zenon DEF Inv, known
<1>17. TOB!Send(n)
  <2>1. id \in TOB!Elements(sent'[n])
    BY <1>4
  <2>2. id \in MessageIds /\ PosterOf(id) = n
    BY <1>2, PostedIdFacts DEF PosterOf
  <2>3. \A o \in TOB!Elements(sent[n]) : Before(o, id)
    BY <1>2, <1>14 DEF Before
  <2>4. \A r \in TOB!Elements(history[n]) : Before(r.id, id)
    <3> SUFFICES ASSUME NEW r \in TOB!Elements(history[n]) PROVE Before(r.id, id)
      OBVIOUS
    <3>1. NotAfter(r.id, h.log.last_committed)
      BY Zenon DEF Inv
    <3>2. h.log.last_committed \in MessageIds /\ h.log.last_committed[1] <= h.ts
      BY DEF Inv, HubInv, HubOK, LogOK, LogInv
    <3>3. Before(h.log.last_committed, id)
      <4>1. h.log.last_committed[1] \in Nat /\ h.log.last_committed[1] < id[1]
        BY <1>2, <3>2 DEF MessageIds
      <4> QED
        BY <4>1, Zenon DEF Before
    <3>4. r.id \in MessageIds
      <4>1. r \in [type : {"fuse", "user_data"}, id : PostedIds]
        BY ElementsType, Zenon DEF Inv
      <4> QED
        BY <4>1, PostedIdFacts
    <3> QED
      BY <2>2, <3>1, <3>2, <3>3, <3>4, BeforeTrans DEF NotAfter
  <2> QED
    BY <1>1, <1>3, <2>1, <2>2, <2>3, <2>4, Zenon DEF TOB!Send, TOB!PosterOf, TOB!Before,
         TOB!MessageIds, PosterOf, Before, MessageIds
<1> QED
  BY <1>16, <1>17

\* An iteration of the commit loop is a Report of the abstract broadcast, or
\* tells the application nothing.
LEMMA IterationStep ==
  ASSUME Inv, NEW n \in Nodes, NEW id \in Ids(hub[n].log), NEW g,
         Advances(hub[n], g, id, AllSent), Install(n, g, socket, wire),
         UNCHANGED <<sent, breaks>>,
         \/ UNCHANGED history
         \/ history' = [history EXCEPT ![n] =
                          Append(@, Report(hub[n].log.entries[id].type, id))]
  PROVE  Inv' /\ (TOB!Report(n) \/ UNCHANGED <<history, sent>>)
<1> DEFINE h == hub[n]
           r == Report(h.log.entries[id].type, id)
           R == [type : {"fuse", "user_data"}, id : PostedIds]
<1>1. /\ id \in PostedIds /\ id \in MessageIds
      /\ h.log.entries[id].type \in {"fuse", "user_data"}
      /\ h.log.last_committed \in MessageIds
      /\ Before(h.log.last_committed, id)
      /\ h.log.entries[id].type = "user_data" => id \in AllSent
  BY PostedIdFacts, Zenon DEF Inv, HubInv, LogInv, LogOK, Entries
<1>2. r \in R /\ r.id = id /\ r.type = h.log.entries[id].type
  BY <1>1, Zenon DEF Report
<1>3. \A o \in TOB!Elements(history[n]) : o.id \in MessageIds /\ Before(o.id, id)
  <2> SUFFICES ASSUME NEW o \in TOB!Elements(history[n])
               PROVE  o.id \in MessageIds /\ Before(o.id, id)
    OBVIOUS
  <2>1. o \in R
    BY ElementsType, Zenon DEF Inv
  <2>2. o.id \in MessageIds
    BY <2>1, PostedIdFacts
  <2>3. NotAfter(o.id, h.log.last_committed)
    BY DEF Inv
  <2> QED
    BY <1>1, <2>2, <2>3, BeforeTrans, Zenon DEF NotAfter
<1>4. AllSent' = AllSent
  BY DEF AllSent
<1>5. /\ hub' = [hub EXCEPT ![n] = g]
      /\ socket' \in SocketStates
      /\ WireInv(wire', AllSent)
  BY InstallInv DEF Inv
<1>6. /\ hub' = [u \in Nodes |-> hub'[u]]
      /\ hub'[n] = g
      /\ \A u \in Nodes \ {n} : hub'[u] = hub[u]
  BY <1>5, Zenon DEF Inv
<1>7. \A u \in Nodes : HubInv(hub'[u], AllSent)
  BY <1>6, Zenon DEF Inv, Advances
<1>8. \A u \in Nodes : \A o \in TOB!Elements(sent'[u]) : o[1] <= hub'[u].ts /\ o[2] = u
  BY <1>6, Zenon DEF Inv, Advances
<1>9. /\ history' \in [Nodes -> Seq(R)]
      /\ \A u \in Nodes \ {n} : history'[u] = history[u]
      /\ \/ history' = history
         \/ TOB!Elements(history'[n]) = TOB!Elements(history[n]) \cup {r}
  <2>1. history \in [Nodes -> Seq(R)] /\ history[n] \in Seq(R)
    BY Zenon DEF Inv
  <2>3. history' = history \/ history' = [history EXCEPT ![n] = Append(history[n], r)]
    BY Zenon
  <2> DEFINE S == Seq(R)
             s == Append(history[n], r)
  <2> HIDE DEF r, R
  <2>2. Append(history[n], r) \in Seq(R)
    BY <1>2, <2>1, AppendType, Zenon
  <2>4. TOB!Elements(s) = TOB!Elements(history[n]) \cup {r}
    BY <1>2, <2>1, ElementsOfAppend
  <2> HIDE DEF S, s
  <2>5. history \in [Nodes -> S] /\ s \in S
    BY <2>1, <2>2 DEF S, s
  <2>6. history' = history \/ history' = [history EXCEPT ![n] = s]
    BY <2>3 DEF s
  <2>7. /\ history' \in [Nodes -> S]
        /\ \A u \in Nodes \ {n} : history'[u] = history[u]
        /\ history' = history \/ history'[n] = s
    BY <2>5, <2>6, Zenon
  <2> QED
    BY <2>4, <2>7 DEF S
<1>10. \A u \in Nodes : \A o \in TOB!Elements(history'[u]) :
         NotAfter(o.id, hub'[u].log.last_committed)
  <2>1. ASSUME NEW u \in Nodes \ {n}, NEW o \in TOB!Elements(history'[u])
        PROVE  NotAfter(o.id, hub'[u].log.last_committed)
    BY <1>6, <1>9, Zenon DEF Inv
  <2>2. ASSUME NEW o \in TOB!Elements(history'[n])
        PROVE  NotAfter(o.id, hub'[n].log.last_committed)
    <3>1. o \in TOB!Elements(history[n]) \/ o = r
      BY <1>9, <2>2
    <3> HIDE DEF r
    <3> QED
      BY <1>2, <1>3, <1>6, <3>1, Zenon DEF NotAfter, Advances
  <2> QED
    BY <2>1, <2>2, Zenon
<1>11. Inv'
  BY <1>4, <1>5, <1>6, <1>7, <1>8, <1>9, <1>10, Zenon DEF Inv
<1>12. ASSUME history' # history PROVE TOB!Report(n)
  <2>1. r \in TOB!Elements(history'[n])
    BY <1>9, <1>12
  <2>2. r \in TOB!Reports /\ PosterOf(r.id) \in Nodes
    BY <1>1, <1>2, PostedIdFacts, Zenon DEF TOB!Reports, TOB!MessageIds, MessageIds, PosterOf
  <2>3. r.type = "user_data" => r.id \in TOB!Elements(sent[PosterOf(r.id)])
    BY <1>1, <1>2, Zenon DEF AllSent
  <2>4. history' = [history EXCEPT ![n] = Append(@, r)]
    BY <1>12
  <2> HIDE DEF r
  <2> QED
    BY <1>2, <1>3, <2>1, <2>2, <2>3, <2>4, Zenon DEF TOB!Report, TOB!PosterOf, TOB!Before,
         PosterOf, Before
<1> QED
  BY <1>11, <1>12, Zenon

\* An iteration of the commit loop reports one message, as the abstract broadcast does, or none.
LEMMA CommitStep ==
  ASSUME Inv, NEW n \in Nodes, CommitNext(n)
  PROVE  Inv' /\ (TOB!Report(n) \/ UNCHANGED <<history, sent>>)
<1> DEFINE h == hub[n]
<1>1. PICK id \in Ids(h.log) :
        /\ IsFirst(id, Ids(h.log))
        /\ EraseEntry(n, id) \/ CommitUserData(n, id) \/ CommitFuse(n, id)
        /\ UNCHANGED <<sent, breaks>>
  BY DEF CommitNext
<1> DEFINE e == h.log.entries[id]
           f == Removed(h, id)
           c == NewConfig(f, id, e.quorum)
           d == [h EXCEPT !.log = Without(@, id)]
<1>2. HubInv(h, AllSent)
  BY DEF Inv
<1>3. /\ Advances(h, f, id, AllSent)
      /\ EraseEntry(n, id) => Advances(h, d, id, AllSent)
  <2>1. EraseEntry(n, id) => h.loop.lcf # id
    <3>1. id[1] \in Nat /\ id[2] \in Nat
      BY <1>1, <1>2, PostedIdFacts DEF HubInv, HubOK, LogOK, MessageIds
    <3> QED
      BY <3>1 DEF EraseEntry, Erased, Before
  <2> QED
    BY <1>1, <1>2, <2>1, RemovedInv
<1>4. Advances(h, c, id, AllSent)
  <2>1. id \in Nat \X Nodes /\ id[1] <= h.ts /\ e.quorum \in SUBSET Nodes
    BY <1>2, PostedIdFacts, Zenon DEF HubInv, HubOK, LogInv, LogOK, Entries
  <2> HIDE DEF f, h, e
  <2>2. HubInv(f, AllSent) /\ f.ts = h.ts /\ f.log.last_committed = id
    BY <1>3, Zenon DEF Advances
  <2>3. id[1] <= f.ts
    BY <2>1, <2>2, Zenon
  <2>4. HubInv(c, AllSent) /\ c.ts = f.ts /\ c.log = f.log
    BY <2>1, <2>2, <2>3, NewConfigInv, Zenon
  <2> QED
    BY <2>2, <2>4, Zenon DEF Advances
<1> HIDE DEF d, c, f
<1>5. /\ Advances(h, CalledBack(f), id, AllSent) /\ Advances(h, NotCalledBack(f), id, AllSent)
      /\ Advances(h, CalledBack(c), id, AllSent) /\ Advances(h, NotCalledBack(c), id, AllSent)
      /\ EraseEntry(n, id) => Advances(h, NotCalledBack(d), id, AllSent)
  BY <1>2, <1>3, <1>4, CommittedInv
<1>6. CASE EraseEntry(n, id)
  BY <1>1, <1>5, <1>6, IterationStep DEF EraseEntry, d
<1>7. CASE CommitUserData(n, id)
  BY <1>1, <1>5, <1>7, IterationStep, Zenon DEF CommitUserData, f
<1>8. CASE CommitFuse(n, id)
  BY <1>1, <1>5, <1>8, IterationStep, Zenon DEF CommitFuse, c, f
<1> QED
  BY <1>1, <1>6, <1>7, <1>8, Zenon

\* hub::fuse on both ends of a socket keeps the invariant and reports nothing.
LEMMA FuseStep ==
  ASSUME Inv, NEW k \in Sockets, Fuse(k)
  PROVE  Inv' /\ UNCHANGED <<history, sent>>
<1> DEFINE other(n) == CHOOSE u \in Ends[k] : u # n
           hello(n) == [type |-> "hello", op |-> other(n)]
<1>1. AllSent' = AllSent
  BY Zenon DEF Fuse, AllSent
<1>2. socket' \in SocketStates
  <2> DEFINE S == {"unused", "exchange", "up", "closed"}
             f == [n \in Nodes |-> IF n \in Ends[k] THEN "exchange" ELSE socket[k][n]]
  <2>1. socket \in [Sockets -> [Nodes -> S]]
    BY DEF Inv, SocketStates
  <2>2. f \in [Nodes -> S]
    BY <2>1, Zenon
  <2>3. socket' = [socket EXCEPT ![k] = f]
    BY Zenon DEF Fuse
  <2> HIDE DEF f, S
  <2>4. socket' \in [Sockets -> [Nodes -> S]]
    BY <2>1, <2>2, <2>3
  <2> QED
    BY <2>4 DEF SocketStates, S
<1>3. WireInv(wire', AllSent)
  <2> DEFINE S == Seq(Carried(AllSent))
             F(u) == Seq(Foreign(u, AllSent))
             f == [n \in Nodes |-> IF n \in Ends[k] THEN <<hello(n)>> ELSE wire[k][n]]
  <2>1. /\ wire \in [Sockets -> [Nodes -> S]]
        /\ \A j \in Sockets, u \in Nodes : wire[j][u] \in F(u)
    BY DEF Inv, WireInv
  <2>2. ASSUME NEW n \in Ends[k], n \in Nodes
        PROVE  <<hello(n)>> \in S /\ <<hello(n)>> \in F(n)
    <3>1. Ends[k] \subseteq Nodes
      BY HubAssumption
    <3>2. hello(n) \in Hellos /\ hello(n).op # n
      <4>1. \E u \in Ends[k] : u # n
        BY HubAssumption
      <4>2. other(n) \in Ends[k] /\ other(n) # n
        BY <4>1
      <4> HIDE DEF other
      <4> QED
        BY <3>1, <4>2 DEF Hellos
    <3> HIDE DEF hello
    <3>3. hello(n) \in Carried(AllSent) /\ hello(n) \in Foreign(n, AllSent)
      BY <3>2, Zenon DEF Carried, Foreign
    <3> QED
      BY <3>3
  <2>3. wire' = [wire EXCEPT ![k] = f]
    BY DEF Fuse
  <2> HIDE DEF S, F, hello
  <2>4. f \in [Nodes -> S] /\ \A u \in Nodes : f[u] \in F(u)
    BY <2>1, <2>2, Zenon
  <2> HIDE DEF f
  <2>5. /\ wire' \in [Sockets -> [Nodes -> S]]
        /\ \A j \in Sockets, u \in Nodes : wire'[j][u] \in F(u)
    BY <2>1, <2>3, <2>4
  <2> QED
    BY <2>5 DEF WireInv, S, F
<1> QED
  BY <1>1, <1>2, <1>3, Zenon DEF Inv, Fuse

\* The end of reliable_exchange in hub::fuse keeps the invariant and reports nothing.
LEMMA ExchangedStep ==
  ASSUME Inv, NEW k \in Sockets, NEW n \in Nodes, Exchanged(k, n)
  PROVE  Inv' /\ UNCHANGED <<history, sent>>
<1> DEFINE his == Head(wire[k][n]).op
           h   == hub[n]
           h1  == [h EXCEPT !.nodes[his] = ConnectedBy(k)]
           m   == construct_ackable(n, h1, "fuse")
           h2  == Posted(h1, m)
           h3  == IF his \in h2.peers THEN Abort(h2, "add_connection")
                  ELSE [h2 EXCEPT !.peers = @ \cup {his}]
           h4  == IF Alive(h3) THEN CalledBack(Enter(h3, 0)) ELSE h3
           w   == [wire EXCEPT ![k][n] = Tail(@)]
           s   == [socket EXCEPT ![k][n] = "up"]
<1>1. /\ wire[k][n] # <<>>
      /\ \/ Install(n, Abort(h, "assign_socket"), s, w)
         \/ Install(n, h4, s, broadcast(w, n, h1, m))
      /\ UNCHANGED <<history, sent, breaks>>
  BY Zenon DEF Exchanged
<1>2. HubInv(h, AllSent) /\ h.ts \in Nat
  BY Zenon DEF Inv, HubInv, HubOK
<1>3. WireInv(w, AllSent) /\ Head(wire[k][n]) \in Carried(AllSent)
  BY <1>1, TailInv, Zenon DEF Inv
<1>4. his \in Nodes
  BY <1>3 DEF Carried, Spread, Hellos, Messages
<1>5. s \in SocketStates
  BY DEF Inv, SocketStates
<1>6. "assign_socket" \in Statuses /\ "add_connection" \in Statuses
  BY Zenon DEF Statuses
<1>7. Evolves(h, Abort(h, "assign_socket"), AllSent)
  BY <1>2, <1>6, AbortInv DEF Evolves
<1>8. Evolves(h, h1, AllSent) /\ HubInv(h1, AllSent)
  <2> DEFINE nodes == [h.nodes EXCEPT ![his] = ConnectedBy(k)]
  <2>1. nodes \in [Nodes -> NodeStates]
    BY <1>2, <1>4, Zenon DEF HubInv, HubOK, NodeStates, ConnectedBy
  <2>2. h1 = [h EXCEPT !.nodes = nodes]
    BY <1>2, Zenon DEF HubInv, HubFields
  <2> HIDE DEF nodes, h1
  <2> QED
    BY <1>2, <2>1, <2>2, WithNodes DEF Evolves
<1> HIDE DEF h1, his
<1>9. Evolves(h1, h2, AllSent) /\ m \in Spread(AllSent) /\ HubInv(h2, AllSent)
  <2>1. "fuse" \in {"fuse", "user_data"} /\ m = construct_ackable(n, h1, "fuse")
    OBVIOUS
  <2>2. "fuse" = "user_data" => <<h1.ts + 1, n>> \in AllSent
    OBVIOUS
  <2> HIDE DEF m
  <2>3. Evolves(h1, Posted(h1, m), AllSent) /\ m \in Spread(AllSent)
    BY <1>8, <2>1, <2>2, PostedInv, Zenon
  <2> QED
    BY <2>3 DEF Evolves
<1> HIDE DEF m, h2
<1>10. Evolves(h2, h3, AllSent) /\ HubInv(h3, AllSent)
  <2>1. h2.ts \in Nat
    BY <1>9 DEF Evolves
  <2>2. CASE his \in h2.peers
    BY <1>6, <1>9, <2>1, <2>2, AbortInv DEF Evolves
  <2>3. CASE his \notin h2.peers
    <3> DEFINE peers == h2.peers \cup {his}
    <3>1. peers \subseteq Nodes
      BY <1>4, <1>9 DEF HubInv, HubOK
    <3>2. h3 = [h2 EXCEPT !.peers = peers]
      BY <2>3
    <3> HIDE DEF peers, h3
    <3> QED
      BY <1>9, <2>1, <3>1, <3>2, WithPeers DEF Evolves
  <2> QED
    BY <2>2, <2>3
<1> HIDE DEF h3
<1>11. Evolves(h3, h4, AllSent)
  <2>1. Evolves(h3, CalledBack(Enter(h3, 0)), AllSent)
    BY <1>10, CommitInv
  <2>2. Evolves(h3, h3, AllSent)
    BY <1>10, EvolvesRefl, Zenon
  <2> QED
    BY <2>1, <2>2
<1> HIDE DEF h4
<1>12. Evolves(h, h4, AllSent)
  <2>1. h.ts \in Nat
    BY <1>2, Zenon
  <2>2. Evolves(h, h2, AllSent)
    BY <1>8, <1>9, <2>1, EvolvesTrans, Zenon
  <2>3. Evolves(h, h3, AllSent)
    BY <1>10, <2>1, <2>2, EvolvesTrans
  <2> QED
    BY <1>11, <2>1, <2>3, EvolvesTrans
<1>13. WireInv(broadcast(w, n, h1, m), AllSent)
  BY <1>3, <1>9, BroadcastInv
<1> HIDE DEF w, s
<1> QED
  BY <1>1, <1>3, <1>5, <1>7, <1>12, <1>13, StepInv, Zenon DEF Inv

\* An exchange that fails keeps the invariant.
LEMMA ExchangeFailedStep ==
  ASSUME Inv, NEW k \in Sockets, NEW n \in Nodes, ExchangeFailed(k, n)
  PROVE  Inv' /\ UNCHANGED <<history, sent>>
<1>1. /\ UNCHANGED <<hub, history, sent>>
      /\ socket' = [socket EXCEPT ![k][n] = "closed"]
      /\ wire' = [wire EXCEPT ![k][n] = <<>>]
      /\ breaks' = breaks \/ breaks' = breaks + 1
  BY DEF ExchangeFailed
<1>2. AllSent' = AllSent
  BY <1>1, Zenon DEF AllSent
<1>3. socket' \in SocketStates
  BY <1>1 DEF Inv, SocketStates
<1>4. WireInv(wire', AllSent)
  <2>1. <<>> \in Seq(Carried(AllSent)) /\ <<>> \in Seq(Foreign(n, AllSent))
    OBVIOUS
  <2> QED
    BY <1>1, <2>1, WithWire, Zenon DEF Inv
<1>5. breaks' \in Nat
  BY <1>1 DEF Inv
<1> QED
  BY <1>1, <1>2, <1>3, <1>4, <1>5, Zenon DEF Inv

\* Running a posted commit keeps the invariant.
LEMMA RunPostedStep ==
  ASSUME Inv, NEW n \in Nodes, RunPosted(n)
  PROVE  Inv' /\ UNCHANGED <<history, sent>>
<1> DEFINE h == hub[n]
           posted == h.posted - 1
           g == [h EXCEPT !.posted = posted]
<1>1. /\ Install(n, Commit(g, 0), socket, wire) /\ h.posted > 0
      /\ UNCHANGED <<history, sent, breaks>>
  BY DEF RunPosted
<1>2. HubInv(h, AllSent) /\ h.ts \in Nat /\ posted \in Nat
  <2>1. HubInv(h, AllSent)
    BY DEF Inv
  <2> QED
    BY <1>1, <2>1, EvolvesRefl
<1> HIDE DEF posted
<1>3. HubInv(g, AllSent) /\ g.ts = h.ts /\ g.log = h.log
  BY <1>2, WithPosted
<1> HIDE DEF g
<1>4. Evolves(h, Commit(g, 0), AllSent)
  BY <1>2, <1>3, CommitInv, Zenon DEF Evolves
<1> QED
  BY <1>1, <1>4, StepInv, Zenon DEF Inv

\* hub::on_peer_disconnected keeps the invariant.
LEMMA PeerDisconnectedStep ==
  ASSUME Inv, NEW k \in Sockets, NEW n \in Nodes, PeerDisconnected(k, n)
  PROVE  Inv' /\ UNCHANGED <<history, sent>>
<1> DEFINE h == hub[n]
           nodes == [u \in Nodes |->
                       IF h.nodes[u] = ConnectedBy(k) THEN Disconnected ELSE h.nodes[u]]
           h1 == [h EXCEPT !.nodes = nodes]
           m  == construct_ackable(n, h1, "fuse")
           h2 == Posted(h1, m)
           w  == broadcast(wire, n, h1, m)
<1>1. /\ Install(n, Commit(h2, 0), socket, w)
      /\ UNCHANGED <<history, sent>>
      /\ breaks' = breaks \/ breaks' = breaks + 1
  BY DEF PeerDisconnected
<1>2. HubInv(h, AllSent) /\ h.ts \in Nat
  BY DEF Inv, HubInv, HubOK
<1>3. nodes \in [Nodes -> NodeStates]
  BY <1>2, Zenon DEF HubInv, HubOK, NodeStates, Disconnected
<1> HIDE DEF nodes
<1>4. HubInv(h1, AllSent) /\ Evolves(h, h1, AllSent)
  BY <1>2, <1>3, WithNodes DEF Evolves
<1> HIDE DEF h1
<1>5. Evolves(h1, h2, AllSent) /\ m \in Spread(AllSent) /\ HubInv(h2, AllSent)
  <2>1. "fuse" \in {"fuse", "user_data"} /\ m = construct_ackable(n, h1, "fuse")
    OBVIOUS
  <2>2. "fuse" = "user_data" => <<h1.ts + 1, n>> \in AllSent
    OBVIOUS
  <2> HIDE DEF m
  <2>3. Evolves(h1, Posted(h1, m), AllSent) /\ m \in Spread(AllSent)
    BY <1>4, <2>1, <2>2, PostedInv, Zenon
  <2> QED
    BY <2>3 DEF Evolves
<1>6. WireInv(w, AllSent)
  BY <1>5, BroadcastInv DEF Inv
<1> HIDE DEF m, h2, w
<1>7. Evolves(h2, Commit(h2, 0), AllSent)
  BY <1>5, CommitInv, Zenon
<1>8. Evolves(h, Commit(h2, 0), AllSent)
  <2>1. Evolves(h, h2, AllSent)
    BY <1>2, <1>4, <1>5, EvolvesTrans
  <2> QED
    BY <1>2, <1>7, <2>1, EvolvesTrans, Zenon
<1>9. breaks' \in Nat
  BY <1>1 DEF Inv
<1> QED
  BY <1>1, <1>6, <1>8, <1>9, StepInv, Zenon DEF Inv

\* Destroying a hub keeps the invariant.
LEMMA DestroyStep ==
  ASSUME Inv, NEW n \in Nodes, Destroy(n)
  PROVE  Inv' /\ UNCHANGED <<history, sent>>
<1> DEFINE h == hub[n]
           f == [h EXCEPT !.loop = NoLoop]
           g == Abort(f, "destroyed")
<1>1. HubInv(h, AllSent) /\ h.ts \in Nat
  BY Zenon DEF Inv, HubInv, HubOK
<1>2. /\ Install(n, g, socket, wire)
      /\ UNCHANGED <<history, sent, breaks>>
  <2>1. g = [h EXCEPT !.status = "destroyed", !.loop = NoLoop]
    BY <1>1, Zenon DEF Abort, HubInv, HubFields
  <2> QED
    BY <2>1 DEF Destroy
<1>3. NoLoop \in Loops /\ NoLoop.lcf = NilId /\ "destroyed" \in Statuses
  BY DEF NoLoop, Loops, NilId, MessageIds, Statuses
<1>4. HubInv(f, AllSent) /\ f.ts = h.ts /\ f.log = h.log
  BY <1>1, <1>3, WithLoop, SMTT(20)
<1> HIDE DEF f
<1>5. Evolves(h, g, AllSent)
  BY <1>1, <1>3, <1>4, AbortInv DEF Evolves
<1> HIDE DEF g
<1> QED
  BY <1>2, <1>5, StepInv, Zenon DEF Inv

\* hub::process in its three forms.
LEMMA ProcessStep ==
  ASSUME Inv, NEW n \in Nodes, NEW m \in Messages, m \in Spread(AllSent),
         NEW h, Evolves(hub[n], h, AllSent), m.ts <= h.ts,
         NEW w, WireInv(w, AllSent), UNCHANGED <<history, sent, breaks>>,
         \/ ProcessAck(n, h, w, m)
         \/ m.type # "ack" /\ (ProcessUserData(n, h, w, m) \/ ProcessFuse(n, h, w, m))
  PROVE  Inv'
<1>1. HubInv(h, AllSent) /\ h.ts \in Nat /\ hub[n].ts \in Nat /\ breaks' \in Nat
  BY DEF Evolves, Inv, HubInv, HubOK
<1>2. message_id(m) \in PostedIds /\ m.ack \in Acks /\ m.ts \in Nat
  BY DEF Messages, message_id, PostedIds
<1>3. CASE ProcessAck(n, h, w, m)
  <2> DEFINE log == apply_ack(h.log, m.ack)
             g == [h EXCEPT !.log = log]
  <2>1. LogInv(log, h.ts, AllSent) /\ log.last_committed = h.log.last_committed
    BY <1>1, <1>2, ApplyAckInv, Zenon DEF HubInv
  <2>2. Install(n, Commit(g, 0), socket, w)
    BY <1>3 DEF ProcessAck
  <2>8. h.loop.lcf \in Ids(log) \cup {NilId}
    <3>1. h.loop.lcf \in Ids(h.log) \cup {NilId} /\ LogFields(h.log)
      BY <1>1, Zenon DEF HubInv, HubOK, LogInv
    <3> QED
      BY <3>1, InsertEntryIds
  <2> HIDE DEF log
  <2>3. HubInv(g, AllSent) /\ g.ts = h.ts /\ g.log = log
    BY <1>1, <2>1, <2>8, WithLog, SMTT(20)
  <2> HIDE DEF g
  <2>4. Evolves(g, Commit(g, 0), AllSent)
    BY <2>3, CommitInv, Zenon
  <2>6. Evolves(h, g, AllSent)
    <3>1. g.ts \in Nat /\ h.ts <= g.ts
      <4>1. h.ts \in Nat /\ g.ts = h.ts
        BY <1>1, <2>3, Zenon
      <4> QED
        BY ONLY <4>1
    <3>2. g.log.last_committed = h.log.last_committed
      BY <2>1, <2>3, Zenon
    <3> QED
      BY <2>3, <3>1, <3>2 DEF Evolves
  <2>7. Evolves(hub[n], g, AllSent)
    BY <1>1, <2>6, EvolvesTrans, Zenon
  <2>5. Evolves(hub[n], Commit(g, 0), AllSent)
    BY <1>1, <2>4, <2>7, EvolvesTrans, Zenon
  <2> QED
    BY <1>1, <2>2, <2>5, StepInv, Zenon DEF Inv
<1>4. CASE m.type # "ack" /\ ProcessUserData(n, h, w, m)
  <2> DEFINE f == Acked(n, h, message_id(m))
             g == add_log_entry(f, m)
             v == BroadcastAck(w, n, h, message_id(m))
  <2>1. Install(n, Commit(g, 0), socket, v)
    BY <1>4 DEF ProcessUserData
  <2>2. /\ Evolves(h, f, AllSent) /\ f.ts = h.ts + 1
        /\ Message(n, h, "ack", message_id(m)) \in Spread(AllSent)
    BY <1>1, <1>2, AckedInv, Zenon
  <2>3. WireInv(v, AllSent)
    BY <2>2, BroadcastInv, Zenon DEF BroadcastAck
  <2> HIDE DEF f, v
  <2>4. HubInv(f, AllSent) /\ m.ts <= f.ts
    <3>1. HubInv(f, AllSent)
      BY <2>2, Zenon DEF Evolves
    <3>2. m.ts <= h.ts + 1
      <4>1. m.ts \in Nat /\ h.ts \in Nat /\ m.ts <= h.ts
        BY <1>1, <1>2, Zenon
      <4> QED
        BY ONLY <4>1
    <3> QED
      BY <2>2, <3>1, <3>2, Zenon
  <2>5. Evolves(f, g, AllSent)
    BY <1>4, <2>4, AddLogEntryInv, Zenon
  <2> HIDE DEF g
  <2>6. Evolves(g, Commit(g, 0), AllSent)
    BY <2>5, EvolvesFacts, CommitInv, Zenon
  <2>8. Evolves(hub[n], f, AllSent)
    BY <1>1, <2>2, EvolvesTrans, Zenon
  <2>9. Evolves(hub[n], g, AllSent)
    BY <1>1, <2>5, <2>8, EvolvesTrans, Zenon
  <2>7. Evolves(hub[n], Commit(g, 0), AllSent)
    BY <1>1, <2>6, <2>9, EvolvesTrans, Zenon
  <2> QED
    BY <1>1, <2>1, <2>3, <2>7, StepInv, Zenon DEF Inv
<1>5. CASE m.type # "ack" /\ ProcessFuse(n, h, w, m)
  <2> DEFINE f == add_log_entry(h, m)
             g == Acked(n, f, message_id(m))
             v == BroadcastAck(w, n, f, message_id(m))
  <2>1. Install(n, Commit(g, 1), socket, v) \/ Install(n, Commit(f, 0), socket, w)
    BY <1>5 DEF ProcessFuse
  <2>2. Evolves(h, f, AllSent) /\ HubInv(f, AllSent)
    BY <1>1, <1>5, AddLogEntryInv, Zenon DEF Evolves
  <2> HIDE DEF f
  <2>3. /\ Evolves(f, g, AllSent)
        /\ Message(n, f, "ack", message_id(m)) \in Spread(AllSent)
    BY <1>2, <2>2, AckedInv, Zenon
  <2>4. WireInv(v, AllSent)
    BY <2>3, BroadcastInv DEF BroadcastAck
  <2> HIDE DEF g, v
  <2>5. Evolves(g, Commit(g, 1), AllSent) /\ Evolves(f, Commit(f, 0), AllSent)
    BY <2>2, <2>3, EvolvesFacts, CommitInv, Zenon
  <2>7. Evolves(hub[n], f, AllSent)
    BY <1>1, <2>2, EvolvesTrans, Zenon
  <2>8. Evolves(hub[n], g, AllSent)
    BY <1>1, <2>3, <2>7, EvolvesTrans, Zenon
  <2>6. Evolves(hub[n], Commit(g, 1), AllSent) /\ Evolves(hub[n], Commit(f, 0), AllSent)
    BY <1>1, <2>5, <2>7, <2>8, EvolvesTrans, Zenon
  <2> QED
    BY <1>1, <2>1, <2>4, <2>6, StepInv, Zenon DEF Inv
<1> QED
  BY <1>3, <1>4, <1>5, Zenon

\* hub::on_recv_raw keeps the invariant and reports nothing by itself.
LEMMA ReceiveStep ==
  ASSUME Inv, NEW k \in Sockets, NEW n \in Nodes, on_recv(k, n)
  PROVE  Inv' /\ UNCHANGED <<history, sent>>
<1> DEFINE c == Head(wire[k][n])
           m == [c EXCEPT !.visited = @ \cup {n}]
           w == [wire EXCEPT ![k][n] = Tail(@)]
           h == Noticed(hub[n], m)
           v == broadcast(w, n, h, m)
<1>1. /\ wire[k][n] # <<>>
      /\ UNCHANGED <<history, sent, breaks>>
      /\ \/ Install(n, hub[n], socket, w)
         \/ m.type = "ack" /\ ProcessAck(n, h, v, m)
         \/ m.type = "user_data" /\ ProcessUserData(n, h, v, m)
         \/ m.type = "fuse" /\ ProcessFuse(n, h, v, m)
  BY DEF on_recv
<1>2. WireInv(w, AllSent) /\ c \in Carried(AllSent)
  BY <1>1, TailInv, Zenon DEF Inv
<1>3. Evolves(hub[n], hub[n], AllSent) /\ HubInv(hub[n], AllSent) /\ hub[n].ts \in Nat
  <2>1. HubInv(hub[n], AllSent)
    BY DEF Inv
  <2> QED
    BY <2>1, EvolvesRefl, Zenon
<1>4. CASE Install(n, hub[n], socket, w)
  <2>1. Evolves(hub[n], hub[n], AllSent) /\ breaks' \in Nat
    BY <1>1, <1>3 DEF Inv
  <2> HIDE DEF w
  <2> QED
    BY <1>1, <1>2, <1>4, <2>1, StepInv, Zenon DEF Inv
<1>5. CASE \/ m.type = "ack" /\ ProcessAck(n, h, v, m)
           \/ m.type = "user_data" /\ ProcessUserData(n, h, v, m)
           \/ m.type = "fuse" /\ ProcessFuse(n, h, v, m)
  <2> HIDE DEF w, c
  <2>1. c \in Messages
    <3>1. ASSUME c \in Hellos PROVE m.type = "hello"
      BY <3>1 DEF Hellos
    <3> QED
      BY <1>2, <1>5, <3>1 DEF Carried, Spread
  <2>2. /\ m \in Messages /\ m.type = c.type /\ m.ack = c.ack /\ message_id(m) = message_id(c)
        /\ m.op = c.op /\ c.visited \subseteq m.visited
    BY <2>1 DEF Messages, message_id
  <2>3. m \in Spread(AllSent)
    <3>1. c \notin Hellos
      BY <2>1 DEF Messages, Hellos
    <3> HIDE DEF m
    <3> QED
      BY <1>2, <2>2, <3>1, Zenon DEF Carried, Spread
  <2> HIDE DEF m
  <2>4. Evolves(hub[n], h, AllSent) /\ m.ts <= h.ts
    BY <1>3, <2>2, NoticedInv, Zenon
  <2>5. WireInv(v, AllSent)
    BY <1>2, <2>3, BroadcastInv, Zenon
  <2> HIDE DEF h, v
  <2> QED
    BY <1>1, <1>5, <2>2, <2>3, <2>4, <2>5, ProcessStep, Zenon
<1> QED
  BY <1>1, <1>4, <1>5, Zenon
-------------------------------------------------------------------------------
(* The theorems.                                                           *)

\* The invariant holds initially.
LEMMA InvInit == Init => Inv
<1> SUFFICES ASSUME Init PROVE Inv
  OBVIOUS
<1>1. \A n \in Nodes : sent[n] = <<>> /\ history[n] = <<>>
  BY DEF Init
<1>2. ASSUME NEW n \in Nodes PROVE HubInv(hub[n], AllSent)
  <2> DEFINE h == NewHub(n)
  <2>1. hub[n] = h
    BY DEF Init
  <2>2. /\ HubFields(h) /\ h.ts = 0 /\ h.log = EmptyLog /\ h.peers = {} /\ h.posted = 0
        /\ h.configs = [id \in {<<0, n>>} |-> {n}]
        /\ h.seen = [u \in Nodes |-> Unknown]
        /\ h.nodes = [u \in Nodes |-> IF u = n THEN NotConnected ELSE Absent]
        /\ h.loop = NoLoop /\ h.status = "alive"
    BY Zenon DEF NewHub, HubFields
  <2>3. LogOK(EmptyLog) /\ LogInv(EmptyLog, 0, AllSent)
    <3> DEFINE log == EmptyLog
    <3>1. /\ LogFields(log) /\ IsFunction(log.entries) /\ DOMAIN log.entries = {}
          /\ log.last_committed = NilId /\ log.last_fuse_commit = NilId
          /\ log.pending_acks = {}
      BY Zenon DEF EmptyLog, LogFields, IsFunction
    <3>2. NilId \in MessageIds /\ NilId[1] = 0
      BY DEF NilId, MessageIds
    <3> HIDE DEF log
    <3>3. Ids(log) = {}
      BY <3>1, Zenon DEF Ids
    <3>4. LogOK(log)
      BY <3>1, <3>2, <3>3, Zenon DEF LogOK
    <3>5. LogInv(log, 0, AllSent)
      BY <3>1, <3>2, <3>3, <3>4 DEF LogInv
    <3> QED
      BY <3>4, <3>5 DEF log
  <2>4. h.seen \in [Nodes -> Seens] /\ h.nodes \in [Nodes -> NodeStates]
    <3>1. Unknown \in Seens
      BY DEF Unknown, Seens
    <3>2. NotConnected \in NodeStates /\ Absent \in NodeStates
      BY DEF NodeStates, NotConnected, Absent
    <3> HIDE DEF h
    <3> QED
      BY ONLY <2>2, <3>1, <3>2
  <2>5. h.loop \in Loops /\ h.loop.lcf = NilId /\ h.status \in Statuses
    <3>1. NilId \in MessageIds
      BY Zenon DEF NilId, MessageIds
    <3>2. NoLoop \in Loops /\ NoLoop.lcf = NilId
      BY <3>1 DEF NoLoop, Loops
    <3>3. "alive" \in Statuses
      BY Zenon DEF Statuses
    <3> HIDE DEF h
    <3> QED
      BY ONLY <2>2, <3>2, <3>3
  <2>6. /\ IsFunction(h.configs) /\ DOMAIN h.configs = {<<0, n>>}
        /\ h.configs[<<0, n>>] = {n} /\ <<0, n>> \in Nat \X Nodes
    BY <2>2 DEF IsFunction
  <2> HIDE DEF h
  <2>7. HubOK(h)
    <3>1. h.ts \in Nat /\ h.posted \in Nat /\ h.peers \subseteq Nodes /\ LogOK(h.log)
      BY ONLY <2>2, <2>3
    <3>2. DOMAIN h.configs \subseteq Nat \X Nodes /\ \A c \in DOMAIN h.configs : h.configs[c] \subseteq Nodes
      BY ONLY <2>6
    <3> QED
      BY <2>4, <2>5, <3>1, <3>2, Zenon DEF HubOK
  <2>8. DOMAIN h.configs # {} /\ \A c \in DOMAIN h.configs : c[1] <= h.ts
    BY ONLY <2>2, <2>6
  <2>9. HubInv(h, AllSent)
    BY <2>2, <2>3, <2>6, <2>7, <2>8, Zenon DEF HubInv
  <2> QED
    BY <2>1, <2>9
<1>3. socket \in SocketStates /\ WireInv(wire, AllSent)
  BY DEF Init, SocketStates, WireInv
<1> QED
  BY <1>1, <1>2, <1>3 DEF Init, Inv, TOB!Elements

\* Every step keeps the invariant and is a step of the abstract broadcast or stutters on it.
LEMMA InvNext ==
  Inv /\ [Next]_vars => Inv' /\ [TOB!Next]_<<history, sent>>
<1> SUFFICES ASSUME Inv, [Next]_vars PROVE Inv' /\ [TOB!Next]_<<history, sent>>
  OBVIOUS
<1>1. CASE UNCHANGED vars
  BY <1>1, Zenon DEF vars, Inv, AllSent, WireInv
<1>2. CASE Idling
  BY <1>1, <1>2 DEF Idling
<1>3. ASSUME NEW k \in Sockets, Fuse(k)
      PROVE  Inv' /\ [TOB!Next]_<<history, sent>>
  BY <1>3, FuseStep, Zenon
<1>4. ASSUME NEW k \in Sockets, NEW n \in Ends[k],
             \/ Exchanged(k, n) \/ ExchangeFailed(k, n)
             \/ on_recv(k, n) \/ PeerDisconnected(k, n)
      PROVE  Inv' /\ [TOB!Next]_<<history, sent>>
  <2>1. n \in Nodes
    BY HubAssumption
  <2> QED
    BY <1>4, <2>1, ExchangedStep, ExchangeFailedStep, ReceiveStep, PeerDisconnectedStep
<1>5. ASSUME NEW n \in Nodes, total_order_broadcast(n)
      PROVE  Inv' /\ [TOB!Next]_<<history, sent>>
  BY <1>5, SendStep DEF TOB!Next
<1>6. ASSUME NEW n \in Nodes, CommitNext(n)
      PROVE  Inv' /\ [TOB!Next]_<<history, sent>>
  BY <1>6, CommitStep DEF TOB!Next
<1>7. ASSUME NEW n \in Nodes, RunPosted(n) \/ Destroy(n)
      PROVE  Inv' /\ [TOB!Next]_<<history, sent>>
  BY <1>7, RunPostedStep, DestroyStep
<1> QED
  BY <1>1, <1>2, <1>3, <1>4, <1>5, <1>6, <1>7, Zenon DEF Next

\* Everything a hub commits is newer than what it committed before, in any
\* network and however its handlers, its callbacks and the network interleave.
THEOREM Invariance == Spec => []Inv
BY InvInit, InvNext, PTL DEF Spec

\* The state of every hub, socket and message keeps its type.
THEOREM TypeCorrect == Spec => []TypeOK
<1>1. Inv => TypeOK
  <2> SUFFICES ASSUME Inv PROVE TypeOK
    BY Zenon
  <2>1. DOMAIN hub = Nodes /\ \A n \in Nodes : HubOK(hub[n])
    BY Zenon DEF Inv, HubInv
  <2>2. wire \in [Sockets -> [Nodes -> Seq(Messages \cup Hellos)]]
    <3>1. Carried(AllSent) \subseteq Messages \cup Hellos
      BY DEF Carried, Spread
    <3>2. \A k \in Sockets, n \in Nodes : wire[k][n] \in Seq(Carried(AllSent))
      BY DEF Inv, WireInv
    <3>3. \A k \in Sockets, n \in Nodes : wire[k][n] \in Seq(Messages \cup Hellos)
      BY <3>1, <3>2, SeqMonotone
    <3> QED
      BY <3>3 DEF Inv, WireInv
  <2> QED
    BY <2>1, <2>2, Zenon DEF Inv, TypeOK, SocketStates
<1> QED
  BY <1>1, Invariance, PTL

\* hub::broadcast: no message comes back to the hub that posted it, on any path.
THEOREM NeverEchoes == Spec => []NoEcho
<1>1. Inv => NoEcho
  <2> SUFFICES ASSUME Inv, NEW k \in Sockets, NEW n \in Ends[k],
                      NEW m \in TOB!Elements(wire[k][n])
               PROVE  m.op # n
    BY DEF NoEcho
  <2>1. n \in Nodes
    BY HubAssumption, Zenon
  <2>2. wire[k][n] \in Seq(Foreign(n, AllSent))
    BY <2>1, Zenon DEF Inv, WireInv
  <2>3. m \in Foreign(n, AllSent)
    BY <2>2 DEF TOB!Elements
  <2> QED
    BY <2>3 DEF Foreign
<1> QED
  BY <1>1, Invariance, PTL

\* A network of hubs implements the total order broadcast: a call of
\* total_order_broadcast is a Send, and what a hub reports is a Report.
THEOREM Implementation == Spec => ImplementsBroadcast
<1>1. Init => TOB!Init
  BY DEF Init, TOB!Init
<1> QED
  BY <1>1, InvInit, InvNext, PTL DEF Spec, ImplementsBroadcast, TOB!Spec

\* The theorems about the abstract broadcast.
Abstract == INSTANCE TotalOrderBroadcastProofs

\* The hubs implement the broadcast, under the name its theorems are stated with.
LEMMA AbstractSpec == Spec => Abstract!Spec
<1>1. TOB!Init => Abstract!Init
  BY DEF TOB!Init, Abstract!Init
<1>2. [TOB!Next]_<<history, sent>> => [Abstract!Next]_<<history, sent>>
  BY Zenon DEF TOB!Next, TOB!Send, TOB!Report, TOB!Elements, TOB!Reports, TOB!Before,
         TOB!PosterOf, TOB!MessageIds,
         Abstract!Next, Abstract!Send, Abstract!Report, Abstract!Elements,
         Abstract!Reports, Abstract!Before, Abstract!PosterOf, Abstract!MessageIds
<1> QED
  BY <1>1, <1>2, Implementation, PTL DEF ImplementsBroadcast, TOB!Spec, Abstract!Spec

\* hub.h, property 1, for every network of hubs.
THEOREM SameOrder == Spec => []TotalOrder
<1>1. Abstract!TotalOrder => TotalOrder
  BY Zenon DEF Abstract!TotalOrder, TotalOrder, TOB!TotalOrder
<1> QED
  BY <1>1, AbstractSpec, Abstract!TotalOrderHolds, PTL

\* hub.h, property 2, for every network of hubs.
THEOREM InOrderOfSending == Spec => []SenderOrder
<1>1. Abstract!SenderOrder => SenderOrder
  BY DEF Abstract!SenderOrder, SenderOrder, TOB!SenderOrder
<1> QED
  BY <1>1, AbstractSpec, Abstract!SenderOrderHolds, PTL
===============================================================================
