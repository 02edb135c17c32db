------------------------------- MODULE Nanopb -------------------------------
(***************************************************************************)
(* nanopb, the protocol buffer codec (pb_encode.c, pb_decode.c,            *)
(* pb_common.c): one side encodes messages into a stream of limited size,  *)
(* which may be cut; the other side, whose message type may be an earlier  *)
(* or a later one, decodes them.  Fields are statically allocated.         *)
(*                                                                         *)
(* A message type is a sequence of fields [tag, ltype, htype, width, max,  *)
(* sub]: width is the size of an integer in bits, of bytes and strings in  *)
(* bytes.  A message has for each field [n, data]: how many values count   *)
(* (the array's count, has_, whether which_ is its tag) and its values.    *)
(***************************************************************************)
EXTENDS WireFormat

CONSTANTS
  Types,   \* message types, by name
  Cases    \* [sender, receiver: types; messages: to be sent, in order; framing; size: of the
           \*  stream; cut: whether it may be cut; narrow: whether the receiver has smaller fields]

VARIABLES
  case,
  wire,     \* bytes written
  sent,     \* how many messages have been encoded with success
  full,     \* an encoding failed
  sealed,   \* the writer has closed the stream
  cut,      \* a part of it was lost
  rest,     \* bytes not read yet
  got,      \* messages decoded with success
  failed    \* a decoding failed

vars == <<case, wire, sent, full, sealed, cut, rest, got, failed>>

Init ==
  /\ case \in Cases
  /\ wire = <<>> /\ sent = 0 /\ full = FALSE /\ sealed = FALSE /\ cut = FALSE
  /\ rest = <<>> /\ got = <<>> /\ failed = FALSE

-----------------------------------------------------------------------------
(* Message types *)

Integer == {"varint", "uvarint", "svarint", "fixed32", "fixed64"}
Packable(f) == f.ltype \in Integer
Arrays == {"repeated", "fixed"}   \* with a count of their own, or all of the array

WireType(f) ==
  CASE f.ltype \in {"varint", "uvarint", "svarint"} -> 0
    [] f.ltype = "fixed64" -> 1
    [] f.ltype = "fixed32" -> 5
    [] OTHER -> 2

RECURSIVE Defaults(_)

Zero(f) ==
  CASE f.ltype \in Integer -> {}
    [] f.ltype = "message" -> Defaults(f.sub)
    [] f.ltype = "fixedbytes" -> [i \in 1..f.width |-> {}]
    [] OTHER -> <<>>

\* pb_message_set_to_defaults, without default values of the type's own
Defaults(type) ==
  [i \in DOMAIN Types[type] |->
     LET f == Types[type][i] IN
     [n |-> IF f.htype = "fixed" THEN f.max ELSE 0,
      data |-> [j \in 1..(IF f.htype \in Arrays THEN f.max ELSE 1) |-> Zero(f)]]]

-----------------------------------------------------------------------------
(* Encoding: the chunks that are written at once, and the room each one needs *)

Chunk(bytes) == <<[bytes |-> bytes, room |-> Len(bytes)]>>
Room(n) == <<[bytes |-> <<>>, room |-> n]>>
BytesOf(chunks) == FlattenSeq([i \in DOMAIN chunks |-> chunks[i].bytes])

Length(n) == Chunk(EncodeVarint(Bits(n)))
Tag(f, wireType) == Chunk(EncodeVarint(Bits(8 * f.tag + wireType)))

RECURSIVE IsDefault(_, _)

\* pb_check_proto3_default_value. (Of an array without a count the first word is taken
\* for the count.)
IsDefault(f, c) ==
  CASE f.htype = "required" -> FALSE
    [] f.htype \in {"repeated", "oneof", "optional"} -> c.n = 0
    [] f.htype = "fixed" -> c.data[1] = {}
    [] f.ltype = "fixedbytes" -> f.width = 0
    [] f.ltype = "message" -> \A i \in DOMAIN Types[f.sub] : IsDefault(Types[f.sub][i], c.data[1][i])
    [] OTHER -> c.data[1] = Zero(f)

RECURSIVE EncodeMessage(_, _)

\* The body of a submessage has to fit as a whole (pb_encode_submessage).
Prefixed(body) ==
  LET size == Len(BytesOf(body)) IN Length(size) \o Room(size) \o body

Submessage(type, m) == Prefixed(EncodeMessage(type, m))

\* The encoders of PB_ENCODERS
EncodeValue(f, v) ==
  CASE f.ltype = "varint" -> Chunk(EncodeVarint(SignExtended(v, f.width)))
    [] f.ltype = "uvarint" -> Chunk(EncodeVarint(v))
    [] f.ltype = "svarint" -> Chunk(EncodeVarint(ZigZag(SignExtended(v, f.width))))
    [] f.ltype = "fixed32" -> Chunk(EncodeFixed(v, 4))
    [] f.ltype = "fixed64" -> Chunk(EncodeFixed(v, 8))
    [] f.ltype = "message" -> Submessage(f.sub, v)
    [] OTHER -> Length(Len(v)) \o Chunk(v)

\* encode_array: packed if the type allows it
EncodeArray(f, values) ==
  LET coded == [i \in DOMAIN values |-> EncodeValue(f, values[i])]
      Packed(chunks) ==
        LET size == CASE f.ltype = "fixed32" -> 4 * Len(values)
                      [] f.ltype = "fixed64" -> 8 * Len(values)
                      [] OTHER -> Len(BytesOf(chunks))
        IN Tag(f, 2) \o Length(size) \o chunks
      Tagged(each) == FlattenSeq([i \in DOMAIN each |-> Tag(f, 2) \o each[i]])
  IN IF values = <<>> THEN <<>>
     ELSE IF Packable(f) THEN Packed(FlattenSeq(coded)) ELSE Tagged(coded)

\* encode_basic_field
EncodeField(f, c) ==
  CASE f.htype \in Arrays -> EncodeArray(f, SubSeq(c.data, 1, c.n))
    [] \/ f.htype = "required"
       \/ f.htype \in {"optional", "oneof"} /\ c.n = 1
       \/ f.htype = "singular" /\ ~IsDefault(f, c) -> Tag(f, WireType(f)) \o EncodeValue(f, c.data[1])
    [] OTHER -> <<>>

\* pb_encode
EncodeMessage(type, m) ==
  FlattenSeq([i \in DOMAIN Types[type] |-> EncodeField(Types[type][i], m[i])])

\* pb_encode_delimited, pb_encode_nullterminated
Framed(type, m) ==
  IF case.framing = "delimited" THEN Submessage(type, m) ELSE EncodeMessage(type, m) \o Chunk(<<{}>>)

\* How many of the chunks are written before one finds no room in the stream.
ChunksThatFit(chunks, room) ==
  Max({n \in 0..Len(chunks) :
         \A i \in 1..n : Len(BytesOf(SubSeq(chunks, 1, i - 1))) + chunks[i].room <= room})

-----------------------------------------------------------------------------
(* Decoding *)

RECURSIVE DecodeFields(_, _, _, _, _)

\* pb_decode_noinit: into a message that has values already
DecodeInto(type, m, s) == DecodeFields(type, m, s, {}, [field |-> 0, n |-> 0])

\* A length-delimited message. What is left of its bytes is skipped.
DecodeSubmessage(type, m, s) ==
  OnSuccess(Substream(s), LAMBDA sub :
    OnSuccess(DecodeInto(type, m, sub.v), LAMBDA r : [sub EXCEPT !.v = r.v]))

\* The decoders of PB_DECODERS, over the value there is
DecodeValue(f, old, s) ==
  CASE f.ltype = "varint" -> DecodeInt(s, f.width)
    [] f.ltype = "uvarint" -> DecodeUnsigned(s, f.width)
    [] f.ltype = "svarint" -> DecodeSigned(s, f.width)
    [] f.ltype = "fixed32" -> DecodeFixed(s, 4)
    [] f.ltype = "fixed64" -> DecodeFixed(s, 8)
    [] f.ltype = "message" ->
         DecodeSubmessage(f.sub, IF f.htype \in Arrays \cup {"oneof"} THEN Defaults(f.sub) ELSE old, s)
    [] f.ltype = "fixedbytes" ->
         OnSuccess(Substream(s), LAMBDA r :
           IF r.v = <<>> THEN [r EXCEPT !.v = Zero(f)]
           ELSE IF Len(r.v) = f.width THEN r ELSE Fail)
    [] OTHER -> OnSuccess(Substream(s), LAMBDA r : IF Len(r.v) <= f.width THEN r ELSE Fail)

\* One more element of an array; n of them are there.
DecodeElement(f, data, n, s) ==
  IF n >= f.max THEN Fail
  ELSE OnSuccess(DecodeValue(f, data[n + 1], s), LAMBDA r :
         [r EXCEPT !.v = [n |-> n + 1, data |-> [data EXCEPT ![n + 1] = r.v]]])

RECURSIVE DecodePacked(_, _, _)

DecodePacked(f, c, s) ==
  IF s = <<>> THEN Read(s, 0, c)
  ELSE OnSuccess(DecodeElement(f, c.data, c.n, s), LAMBDA r : DecodePacked(f, r.v, r.rest))

\* decode_static_field
DecodeField(f, c, wireType, s) ==
  IF f.htype \notin Arrays
  THEN OnSuccess(DecodeValue(f, c.data[1], s), LAMBDA r :
         [r EXCEPT !.v = [n |-> 1, data |-> <<r.v>>]])
  ELSE IF wireType = 2 /\ Packable(f)
  THEN OnSuccess(Substream(s), LAMBDA sub :
         OnSuccess(DecodePacked(f, c, sub.v), LAMBDA r : [sub EXCEPT !.v = r.v]))
  ELSE DecodeElement(f, c.data, c.n, s)

\* Setting a member of a oneof unsets the others.
WithField(type, m, i, c) ==
  [j \in DOMAIN m |->
     IF j = i THEN c
     ELSE IF Types[type][i].htype = "oneof" /\ Types[type][j].htype = "oneof"
     THEN [m[j] EXCEPT !.n = 0] ELSE m[j]]

Required(type) == {i \in DOMAIN Types[type] : Types[type][i].htype = "required"}

\* fix: the array without a count that was decoded last, and how many elements it has got.
FixedComplete(type, fix) == fix.field # 0 => fix.n = Types[type][fix.field].max

EndMessage(type, m, s, seen, fix) ==
  IF FixedComplete(type, fix) /\ Required(type) \subseteq seen THEN Read(s, 0, m) ELSE Fail

FieldsOf(type, tag) == {i \in DOMAIN Types[type] : Types[type][i].tag = tag}

\* The value after the tag of field i.
DecodeKnown(type, m, i, wireType, s, seen, fix) ==
  LET f == Types[type][i]
      fixed == f.htype = "fixed"
      n == IF fix.field = i THEN fix.n ELSE 0
  IN OnSuccess(DecodeField(f, IF fixed THEN [m[i] EXCEPT !.n = n] ELSE m[i], wireType, s),
       LAMBDA r :
         IF fixed /\ fix.field # i /\ ~FixedComplete(type, fix) THEN Fail
         ELSE DecodeFields(type, WithField(type, m, i, r.v), r.rest, seen \cup {i},
                           IF fixed THEN [field |-> i, n |-> r.v.n] ELSE fix))

\* One field after another, until the stream or a zero tag ends the message.
DecodeFields(type, m, s, seen, fix) ==
  LET Value(is, wireType, after) ==
        IF is = {} THEN OnSuccess(Skip(after, wireType),
                                  LAMBDA r : DecodeFields(type, m, r.rest, seen, fix))
        ELSE DecodeKnown(type, m, CHOOSE i \in is : TRUE, wireType, after, seen, fix)
  IN IF s = <<>> THEN EndMessage(type, m, s, seen, fix)
     ELSE OnSuccess(DecodeVarint32(s), LAMBDA tag :
            IF tag.v = {} THEN EndMessage(type, m, tag.rest, seen, fix)
            ELSE Value(FieldsOf(type, Number({b - 3 : b \in tag.v \ 0..2})),
                       Number(Low(tag.v, 3)), tag.rest))

\* pb_decode_delimited, pb_decode_nullterminated
DecodeFramed(type, s) ==
  IF case.framing = "delimited" THEN DecodeSubmessage(type, Defaults(type), s)
  ELSE DecodeInto(type, Defaults(type), s)

-----------------------------------------------------------------------------
(* A stream of messages *)

\* The next message is encoded; if the stream gets full, a part of it has been written.
Encode ==
  /\ ~sealed /\ ~full /\ sent < Len(case.messages)
  /\ \E chunks \in {Framed(case.sender, case.messages[sent + 1])} :
     \E n \in {ChunksThatFit(chunks, case.size - Len(wire))} :
       /\ wire' = wire \o BytesOf(SubSeq(chunks, 1, n))
       /\ IF n = Len(chunks) THEN sent' = sent + 1 /\ UNCHANGED full
          ELSE full' = TRUE /\ UNCHANGED sent
  /\ UNCHANGED <<case, sealed, cut, rest, got, failed>>

\* What the reader gets of the stream: all, or what was there before it was cut.
Deliver ==
  /\ ~sealed /\ sealed' = TRUE
  /\ \E n \in IF case.cut THEN 0..Len(wire) ELSE {Len(wire)} :
       rest' = SubSeq(wire, 1, n) /\ cut' = (n < Len(wire))
  /\ UNCHANGED <<case, wire, sent, full, got, failed>>

Decode ==
  /\ sealed /\ rest # <<>> /\ ~failed
  /\ \E r \in {DecodeFramed(case.receiver, rest)} :
       IF r.ok THEN got' = Append(got, r.v) /\ rest' = r.rest /\ UNCHANGED failed
       ELSE failed' = TRUE /\ UNCHANGED <<got, rest>>
  /\ UNCHANGED <<case, wire, sent, full, sealed, cut>>

Next == Encode \/ Deliver \/ Decode

Spec == Init /\ [][Next]_vars

-----------------------------------------------------------------------------
(* Properties *)

RECURSIVE Seen(_, _, _)

AsIntegers(f, values) ==
  IF f.ltype \in {"varint", "svarint"} THEN [k \in DOMAIN values |-> SignExtended(values[k], f.width)] ELSE values

\* What a receiver of a type is to see of a message of the sender's: for each of its tags
\* the values that count, or zero where one must be there.
Seen(sender, receiver, m) ==
  [tag \in {f.tag : f \in Range(Types[receiver])} |->
     LET to == CHOOSE f \in Range(Types[receiver]) : f.tag = tag
         always == to.htype \in {"singular", "required"}
         known == {i \in DOMAIN Types[sender] : Types[sender][i].tag = tag}
         i == CHOOSE i \in known : TRUE
         from == IF known = {} THEN to ELSE Types[sender][i]
         values == IF known # {} THEN SubSeq(m[i].data, 1, IF always THEN 1 ELSE m[i].n)
                   ELSE IF always THEN <<Zero(to)>> ELSE <<>>
     IN IF to.ltype = "message" THEN [k \in DOMAIN values |-> Seen(from.sub, to.sub, values[k])]
        ELSE AsIntegers(from, values)]

\* A message that is decoded with success is the one that was encoded in its place: each
\* field the receiver knows has the value and the presence it had, whatever the end of the
\* stream cuts off and whichever of the two types is the newer one.
GotAsSent ==
  \A i \in DOMAIN got :
    /\ i <= sent
    /\ Seen(case.receiver, case.receiver, got[i]) = Seen(case.sender, case.receiver, case.messages[i])

\* What was encoded with success is decoded with success, up to where the stream ends: a
\* reader refuses only a message that is not there as a whole, or one with a value too
\* large for its field.
NothingRefused ==
  /\ failed => full \/ cut \/ case.narrow
  /\ sealed /\ rest = <<>> /\ ~cut => Len(got) = sent
=============================================================================
