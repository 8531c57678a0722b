----------------------------- MODULE MessageCodec -----------------------------
(***************************************************************************)
(* How the messages of the hub become bytes and messages again             *)
(* (src/club/message.h on top of include/binary).  A type is described by  *)
(* a record: a number of some bytes, an array of bytes, a container with   *)
(* its elements' type and maximal size, or a structure with its fields;    *)
(* containers and structures are sequences.                                *)
(***************************************************************************)
EXTENDS Integers, Sequences, SequencesExt

CONSTANTS
  Base,               \* values of a byte: 256 in the code
  UuidSize,           \* bytes of a uuid: 16 in the code
  MAX_NODE_COUNT,
  MAX_DATAGRAM_SIZE,
  SampleMessages,     \* the messages that are encoded: a type's name and the value
  MaxRoom             \* bound: bytes of the buffer of an encoder

ASSUME CodecAssumption == Base \in Nat \ {0, 1} /\ UuidSize \in Nat \ {0}
-------------------------------------------------------------------------------
(* binary::encoder and binary::decoder *)

\* Numbers are big endian.
BytesOf(number, width) == [i \in 1..width |-> (number \div Base^(width - i)) % Base]
NumberOf(bytes) == FoldLeft(LAMBDA n, byte : n * Base + byte, 0, bytes)

NewEncoder(room) == [data |-> <<>>, room |-> room, error |-> FALSE]

\* encode of a basic type: what does not fit is not written, nor what follows it.
Put(e, bytes) ==
  IF e.error \/ Len(e.data) + Len(bytes) > e.room
  THEN [e EXCEPT !.error = TRUE] ELSE [e EXCEPT !.data = @ \o bytes]

\* dynamic_encoder: grow_to_fit, and then as above.
PutDynamic(data, bytes) == data \o bytes

NewDecoder(data) == [data |-> data, error |-> FALSE]

\* get of a basic type: [bytes, decoder]
Take(d, width) ==
  IF d.error \/ Len(d.data) < width
  THEN [bytes |-> [i \in 1..width |-> 0], rest |-> [d EXCEPT !.error = TRUE]]
  ELSE [bytes |-> SubSeq(d.data, 1, width),
        rest |-> [d EXCEPT !.data = SubSeq(@, width + 1, Len(@))]]
-------------------------------------------------------------------------------
(* Types *)

Number(width) == [kind |-> "number", width |-> width]
Array(size) == [kind |-> "array", size |-> size]
Container(type, max) == [kind |-> "container", of |-> type, max |-> max]
Structure(fields) == [kind |-> "structure", fields |-> fields]

Uuid == Array(UuidSize)
TimeStamp == Number(4)
MessageId == Structure(<<TimeStamp, Uuid>>)
Uuids == Container(Uuid, MAX_NODE_COUNT)
Header == Structure(<<Uuid, TimeStamp, MessageId, Uuids>>)
AckData == Structure(<<MessageId, MessageId, Uuids>>)
Fuse == Structure(<<Header, AckData, Uuid>>)
PortOffer == Structure(<<Header, Uuid, Number(2), Number(2)>>)
UserData == Structure(<<Header, AckData, Container(Number(1), MAX_DATAGRAM_SIZE)>>)
Ack == Structure(<<Header, AckData>>)

\* MessageType, in the order of the enumeration.
MessageTypes == <<"fuse", "port_offer", "user_data", "ack">>
TypeOf(name) ==
  CASE name = "fuse" -> Fuse [] name = "port_offer" -> PortOffer
    [] name = "user_data" -> UserData [] name = "ack" -> Ack

\* The basic values that encode puts, one after the other.
RECURSIVE Puts(_, _)
Puts(type, value) ==
  CASE type.kind = "number" -> <<BytesOf(value, type.width)>>
    [] type.kind = "array" -> [i \in DOMAIN value |-> <<value[i]>>]
    [] type.kind = "container" ->
         <<BytesOf(Len(value), 4)>>
           \o FlattenSeq([i \in DOMAIN value |-> Puts(type.of, value[i])])
    [] type.kind = "structure" ->
         FlattenSeq([i \in DOMAIN value |-> Puts(type.fields[i], value[i])])

Result(value, rest) == [value |-> value, rest |-> rest]
Failed(d) == [d EXCEPT !.error = TRUE]

\* Mutant: a container that is cut off is taken for a shorter one.
ItemOrNothing(acc, item) ==
  IF item.rest.error THEN acc ELSE Result(Append(acc.value, item.value), item.rest)

\* One step of the loop that reads a container.
Item(acc, item) == Result(Append(acc.value, item.value), item.rest)

\* The sanitizing check of a container's size.
TooMany(n, max) == n > max

\* decode; the loop over a container stops at the first error.  (flat_set sorts
\* as it inserts: what was encoded from one is sorted already.)
RECURSIVE Get(_, _)
Get(type, d) ==
  CASE type.kind = "number" ->
         LET t == Take(d, type.width) IN Result(NumberOf(t.bytes), t.rest)
    [] type.kind = "array" ->
         LET step(acc, i) == LET t == Take(acc.rest, 1)
                             IN  Result(acc.value \o t.bytes, t.rest)
         IN  FoldLeft(step, Result(<<>>, d), [i \in 1..type.size |-> i])
    [] type.kind = "container" ->
         LET size == Take(d, 4)
             n    == NumberOf(size.bytes)
             step(acc, i) == IF acc.rest.error THEN acc ELSE Item(acc, Get(type.of, acc.rest))
         IN  IF TooMany(n, type.max) THEN Result(<<>>, Failed(size.rest))
             ELSE FoldLeft(step, Result(<<>>, size.rest), [i \in 1..n |-> i])
    [] type.kind = "structure" ->
         LET step(acc, field) == LET r == Get(field, acc.rest)
                                 IN  Result(Append(acc.value, r.value), r.rest)
         IN  FoldLeft(step, Result(<<>>, d), type.fields)
-------------------------------------------------------------------------------
(* hub.cpp *)

MessagePuts(m) ==
  <<<<SelectInSeq(MessageTypes, LAMBDA name : name = m.type) - 1>>>>
    \o Puts(TypeOf(m.type), m.value)

encode_message(m) == FoldLeft(PutDynamic, <<>>, MessagePuts(m))

\* Is the first identifier below the second, as decode asks of an ack?
IdBelow(x, y) ==
  \/ x[1] < y[1]
  \/ x[1] = y[1] /\ \E i \in DOMAIN x[2] :
       x[2][i] < y[2][i] /\ \A j \in 1..(i - 1) : x[2][j] = y[2][j]

\* parse_message: an ack must follow the message it names as the previous one.
parse_message(name, d) ==
  LET r == Get(TypeOf(name), d)
  IN  IF name = "ack" /\ ~IdBelow(r.value[2][2], r.value[2][1])
      THEN [r EXCEPT !.rest = Failed(@)] ELSE r

NoMessage == [type |-> "none", value |-> <<>>]

\* on_recv_raw: [message, error, left over].  After an error the code has an ASSERT(0)
\* and, if that is compiled out, disconnects the peer.
on_recv_raw(data) ==
  LET t    == Take(NewDecoder(data), 1)
      type == t.bytes[1] + 1
      r    == parse_message(MessageTypes[type], t.rest)
  IN  IF t.rest.error \/ type > Len(MessageTypes) \/ r.rest.error
      THEN [message |-> NoMessage, error |-> TRUE, left |-> 0]
      ELSE [message |-> [type |-> MessageTypes[type], value |-> r.value],
            error |-> FALSE, left |-> Len(r.rest.data)]
-------------------------------------------------------------------------------
VARIABLES
  codec_phase,   \* "idle", "encoded" or "received"
  original,      \* the message that was encoded
  encoded,       \* the encoder: its data and its error
  received       \* what on_recv_raw made of the data

codecVars == <<codec_phase, original, encoded, received>>

NotReceived == [message |-> NoMessage, error |-> FALSE, left |-> 0]

CodecInit ==
  /\ codec_phase = "idle"
  /\ original = NoMessage
  /\ encoded = NewEncoder(0)
  /\ received = NotReceived

\* hub::broadcast: into a dynamic_encoder.
Encode(m) ==
  /\ codec_phase = "idle"
  /\ codec_phase' = "encoded"
  /\ original' = m
  /\ encoded' = [NewEncoder(0) EXCEPT !.data = encode_message(m)]
  /\ UNCHANGED received

\* The same templates with an encoder of a fixed buffer.
EncodeInto(m, room) ==
  /\ codec_phase = "idle"
  /\ codec_phase' = "encoded"
  /\ original' = m
  /\ encoded' = FoldLeft(Put, NewEncoder(room), MessagePuts(m))
  /\ UNCHANGED received

Receive ==
  /\ codec_phase = "encoded"
  /\ codec_phase' = "received"
  /\ received' = on_recv_raw(encoded.data)
  /\ UNCHANGED <<original, encoded>>

CodecNext ==
  \/ \E m \in SampleMessages : Encode(m)
  \/ \E m \in SampleMessages, room \in 0..MaxRoom : EncodeInto(m, room)
  \/ Receive

CodecSpec == CodecInit /\ [][CodecNext]_codecVars
-------------------------------------------------------------------------------
\* Do all the containers of a value keep to the limits of its type?
RECURSIVE Fits(_, _)
Fits(type, value) ==
  CASE type.kind = "container" ->
         Len(value) <= type.max /\ \A i \in DOMAIN value : Fits(type.of, value[i])
    [] type.kind = "structure" -> \A i \in DOMAIN value : Fits(type.fields[i], value[i])
    [] OTHER -> TRUE

\* What a hub encodes, the hub at the other end of the connection decodes to the
\* same message with no byte left over, up to and including the limits on the
\* sizes (MAX_NODE_COUNT, MAX_DATAGRAM_SIZE); encode knows no limit, and beyond
\* them the peer refuses the message (on_recv_raw).  An encoder never writes beyond
\* its buffer, what it wrote before the error is the beginning of the message, and
\* the decoder takes no such beginning for a message: its error is sticky through
\* all the nested containers.
RoundTrip ==
  codec_phase = "received" =>
    IF encoded.error
    THEN /\ Len(encoded.data) <= encoded.room
         /\ IsStrictPrefix(encoded.data, encode_message(original))
         /\ received.error
    ELSE IF Fits(TypeOf(original.type), original.value)
    THEN received = [message |-> original, error |-> FALSE, left |-> 0]
    ELSE received.error
===============================================================================
