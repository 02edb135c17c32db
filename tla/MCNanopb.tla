------------------------------ MODULE MCNanopb ------------------------------
(* Instances of Nanopb for TLC: message types, and messages of them. *)
EXTENDS Nanopb

Field(tag, ltype, htype, width, max) ==
  [tag |-> tag, ltype |-> ltype, htype |-> htype, width |-> width, max |-> max, sub |-> ""]
Sub(tag, htype, max, type) == [Field(tag, "message", htype, 0, max) EXCEPT !.sub = type]

MCTypes == [
  Point |-> <<Field(1, "svarint", "required", 32, 1), Field(2, "varint", "optional", 64, 1)>>,
  Point1 |-> <<Field(1, "svarint", "required", 32, 1), Field(3, "fixed32", "optional", 32, 1)>>,
  Narrow |-> <<Field(1, "svarint", "required", 8, 1), Field(2, "varint", "optional", 64, 1)>>,
  Lists |-> <<Field(1, "uvarint", "repeated", 32, 2), Field(2, "string", "repeated", 2, 2),
              Field(20, "fixed64", "repeated", 64, 2)>>,
  Lists1 |-> <<Field(2, "string", "repeated", 2, 2)>>,
  Tree |-> <<Sub(1, "optional", 1, "Point"), Sub(2, "repeated", 2, "Point"), Field(3, "bytes", "optional", 2, 1)>>,
  Tree1 |-> <<Sub(2, "repeated", 2, "Point1"), Sub(1, "optional", 1, "Point1"), Field(9, "uvarint", "repeated", 8, 1)>>,
  Choice |-> <<Field(1, "varint", "oneof", 16, 1), Sub(2, "oneof", 1, "Point"), Field(3, "fixedbytes", "singular", 2, 1)>>,
  Plain |-> <<Field(1, "uvarint", "singular", 8, 1), Sub(2, "singular", 1, "Inner"), Field(3, "string", "singular", 2, 1)>>,
  Inner |-> <<Field(1, "varint", "singular", 32, 1), Field(2, "uvarint", "repeated", 8, 2)>>,
  Arrays |-> <<Field(1, "fixed32", "fixed", 32, 2), Field(2, "svarint", "fixed", 16, 2)>>]

One(vs) == {[n |-> 1, data |-> <<v>>] : v \in vs}
Absent(type, i) == {Defaults(type)[i]}
Maybe(type, i, vs) == One(vs) \cup Absent(type, i)
\* A singular field has no has_ member: its value is there, zero or not.
Singular(vs) == {[n |-> 0, data |-> <<v>>] : v \in vs}
\* Up to two values, the rest of the array left at zero.
List(type, i, vs) ==
  LET zero == Defaults(type)[i].data IN
  {[n |-> 0, data |-> zero]} \cup {[n |-> 1, data |-> [zero EXCEPT ![1] = v]] : v \in vs}
    \cup {[n |-> 2, data |-> <<v, w>>] : v \in vs, w \in vs}

Minus(n, w) == (0..(w - 1)) \ Bits(n - 1)
X == <<{0}>>
XY == <<{0}, {7}>>

SmallPoints == {<<p, q>> : p \in One({{}, Minus(1, 32)}), q \in Maybe("Point", 2, {Bits(300)})}
PointOf(x) == <<[n |-> 1, data |-> <<x>>], [n |-> 0, data |-> <<{}>>]>>
Inners == One({{}, Minus(7, 32)}) \X List("Inner", 2, {Bits(200)})
Pairs(v, w) == [n |-> 2, data |-> <<v, w>>]

\* The first message of a stream, of each type.
First == [
  Point |-> One({{}, Bits(70), Minus(1, 32), {31}}) \X Maybe("Point", 2, {Bits(300), Minus(1, 64), {63}, {}}),
  Point1 |-> One({Bits(70)}) \X Maybe("Point1", 2, {{0, 31}}),
  Lists |-> List("Lists", 1, {{}, Bits(200)}) \X List("Lists", 2, {<<>>, XY}) \X List("Lists", 3, {{0, 63}}),
  Tree |-> Maybe("Tree", 1, SmallPoints) \X List("Tree", 2, {PointOf(Bits(5))}) \X Maybe("Tree", 3, {X, XY}),
  Choice |->
    LET fill == One({<<{}, {7}>>}) IN
      (One({Minus(2, 16), {}}) \X Absent("Choice", 2) \X fill)
        \cup (Absent("Choice", 1) \X One(SmallPoints) \X fill)
        \cup (Absent("Choice", 1) \X Absent("Choice", 2) \X fill),
  Plain |-> Singular({{}, Bits(200)}) \X Singular(Inners) \X Singular({<<>>, XY}),
  Arrays |-> {Pairs({0, 31}, v) : v \in {{}, {8}}} \X {Pairs(v, Minus(300, 16)) : v \in {Bits(1), {15}}}]

\* The one that follows it.
Second == [type \in DOMAIN First |-> CHOOSE m \in First[type] : m # Defaults(type)]

Case(sender, receiver, framing, size, isCut, narrow) ==
  {[sender |-> sender, receiver |-> receiver, messages |-> <<m, Second[sender]>>, framing |-> framing,
    size |-> size, cut |-> isCut, narrow |-> narrow] : m \in First[sender]}

\* The whole stream arrives. With delimited messages the buffer may be too small; a
\* null-terminated one that ends between two fields would be taken for complete.
Whole == UNION {Case(t, t, f[1], f[2], FALSE, FALSE) :
                  t \in {"Point", "Lists", "Tree", "Choice", "Plain", "Arrays"},
                  f \in {<<"delimited", 12>>, <<"delimited", 60>>, <<"nullterminated", 60>>}}
\* Types of another version.
OtherVersion == Case("Point", "Point1", "delimited", 40, FALSE, FALSE)
                  \cup Case("Point1", "Point", "delimited", 40, FALSE, FALSE)
                  \cup Case("Lists", "Lists1", "nullterminated", 60, FALSE, FALSE)
                  \cup Case("Tree", "Tree1", "delimited", 60, FALSE, FALSE)
                  \cup Case("Point", "Narrow", "delimited", 40, FALSE, TRUE)
\* A stream that ends early.
CutShort == UNION {Case(t, t, "delimited", 40, TRUE, FALSE) : t \in {"Point", "Tree", "Arrays"}}

MCCases == Whole \cup OtherVersion \cup CutShort
=============================================================================
