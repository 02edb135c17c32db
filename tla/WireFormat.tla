----------------------------- MODULE WireFormat -----------------------------
(***************************************************************************)
(* nanopb's primitives (pb_encode.c, pb_decode.c): integers of up to 64    *)
(* bits as varints, zigzag and fixed-size words, and the reading of them   *)
(* from a stream.  A byte is the set of its bits 0..7, an integer of w     *)
(* bits a subset of 0..(w - 1), a stream a sequence of bytes.  A reader    *)
(* returns [ok, rest, v].                                                  *)
(***************************************************************************)
EXTENDS Integers, Sequences, FiniteSets, FiniteSetsExt, SequencesExt

Bits(n) == {b \in 0..30 : (n \div 2^b) % 2 = 1}

\* Lengths and counts; whatever does not fit into a stream here is just too long.
TooLong == 2^20
Number(v) == IF \E b \in v : b >= 20 THEN TooLong ELSE FoldSet(LAMBDA b, n : n + 2^b, 0, v)

Low(v, w) == v \cap 0..(w - 1)
Shifted(v, n) == {b + n : b \in v}
SignExtended(v, w) == v \cup (IF w - 1 \in v THEN w..63 ELSE {})

-----------------------------------------------------------------------------
(* Encoding *)

\* pb_encode_varint: groups of seven bits, the lowest first, bit 7 on all but the last.
EncodeVarint(v) ==
  LET n == IF v = {} THEN 1 ELSE Max(v) \div 7 + 1
  IN [i \in 1..n |-> {b \in 0..6 : b + 7 * (i - 1) \in v} \cup (IF i < n THEN {7} ELSE {})]

\* Mutant of ZigZag: the sign does not turn the bits round.
ZigZagUnsigned(v) == Low(Shifted(v, 1), 64)

\* pb_encode_svarint: the sign goes to bit 0.
ZigZag(v) ==
  IF 63 \in v THEN (0..63) \ Low(Shifted(v, 1), 64) ELSE Shifted(v, 1)

UnZigZag(v) ==
  LET half == {b - 1 : b \in v \ {0}}
  IN IF 0 \in v THEN (0..63) \ half ELSE half

\* pb_encode_fixed32, pb_encode_fixed64: the lowest byte first.
EncodeFixed(v, bytes) == [i \in 1..bytes |-> {b \in 0..7 : b + 8 * (i - 1) \in v}]
DecodedFixed(s) == UNION {Shifted(s[i], 8 * (i - 1)) : i \in DOMAIN s}

-----------------------------------------------------------------------------
(* Decoding *)

Fail == [ok |-> FALSE, rest |-> <<>>, v |-> {}]
Read(s, n, v) == [ok |-> TRUE, rest |-> SubSeq(s, n + 1, Len(s)), v |-> v]

\* What is done with the result of a reader that has not failed.
OnSuccess(r, Then(_)) == IF r.ok THEN Then(r) ELSE Fail

\* pb_read of n bytes
ReadBytes(s, n) == IF Len(s) < n THEN Fail ELSE Read(s, n, SubSeq(s, 1, n))

\* The length of the varint that s begins with, 0 if it does not end.
VarintLength(s) == Min({i \in DOMAIN s : 7 \notin s[i]} \cup {Len(s) + 1}) % (Len(s) + 1)

Groups(s, n) == UNION {Shifted(s[i] \ {7}, 7 * (i - 1)) : i \in 1..n}

Varint(s, n) == IF n \notin 1..10 THEN Fail ELSE Read(s, n, Low(Groups(s, n), 64))

\* pb_decode_varint
DecodeVarint(s) == Varint(s, VarintLength(s))

\* Of n bytes, those after the fifth may extend the sign of v, nothing else.
Varint32(s, n, v) ==
  LET extends(i) == 31 \in v /\ s[i] = IF i <= 9 THEN 0..7 ELSE {0}
  IN IF \/ n = 0
        \/ \E i \in 6..n : s[i] \ {7} # {} /\ ~extends(i)
        \/ n = 5 /\ s[5] \cap {4, 5, 6} # {}
     THEN Fail ELSE Read(s, n, v)

\* pb_decode_varint32
DecodeVarint32(s) ==
  LET n == VarintLength(s) IN Varint32(s, n, Low(Groups(s, Min({n, 5})), 32))

\* Mutant of Substream: what is there is taken for all of the value.
SubstreamShort(s) ==
  OnSuccess(DecodeVarint32(s),
            LAMBDA size : ReadBytes(size.rest, Min({Number(size.v), Len(size.rest)})))

\* pb_make_string_substream: the bytes of a length-delimited value.
Substream(s) ==
  OnSuccess(DecodeVarint32(s), LAMBDA size : ReadBytes(size.rest, Number(size.v)))

\* pb_skip_field
Skip(s, wireType) ==
  CASE wireType = 0 -> LET n == VarintLength(s) IN IF n = 0 THEN Fail ELSE Read(s, n, {})
    [] wireType = 1 -> ReadBytes(s, 8)
    [] wireType = 2 -> Substream(s)
    [] wireType = 5 -> ReadBytes(s, 4)
    [] OTHER -> Fail

\* The field decoders' check: the value as stored in w bits, if that keeps it.
Clamped(r, w, value, stored) == IF stored = value THEN [r EXCEPT !.v = Low(value, w)] ELSE Fail
ClampedSigned(r, w, value) == Clamped(r, w, value, SignExtended(Low(value, w), w))

\* pb_dec_varint: fields of up to 32 bits take the lowest 32 bits.
DecodeInt(s, w) ==
  OnSuccess(DecodeVarint(s), LAMBDA r :
    ClampedSigned(r, w, IF w = 64 THEN r.v ELSE SignExtended(Low(r.v, 32), 32)))

\* pb_dec_uvarint
DecodeUnsigned(s, w) ==
  OnSuccess(DecodeVarint(s), LAMBDA r : Clamped(r, w, r.v, Low(r.v, w)))

\* pb_dec_svarint
DecodeSigned(s, w) ==
  OnSuccess(DecodeVarint(s), LAMBDA r : ClampedSigned(r, w, UnZigZag(r.v)))

\* pb_decode_fixed32, pb_decode_fixed64
DecodeFixed(s, bytes) ==
  OnSuccess(ReadBytes(s, bytes), LAMBDA r : [r EXCEPT !.v = DecodedFixed(r.v)])
=============================================================================
