-------------------------------- MODULE Wire --------------------------------
(***************************************************************************)
(* The encoding that all the generated message codecs share                 *)
(* (gen/proto/go/frostdb/*/*_vtproto.pb.go): base 128 varints, the field    *)
(* forms, and the loop that takes an encoding apart again.  Each package    *)
(* has its own copy of encodeVarint, sov and skip; they do not differ.      *)
(*                                                                         *)
(* An encoding is a sequence of bytes.  Numbers are below 2^31, where the   *)
(* code has 64 bits.                                                        *)
(***************************************************************************)
EXTENDS Integers, Sequences, FiniteSets, FiniteSetsExt, SequencesExt

Error == [error |-> TRUE]
Nil   == [nil |-> TRUE]

RECURSIVE encodeVarint(_)
encodeVarint(v) ==
    IF v < 128 THEN <<v>> ELSE <<128 + (v % 128)>> \o encodeVarint(v \div 128)

\* bits.Len64(x|1)
BitLength(x) == Cardinality({k \in 0..30 : k = 0 \/ 2^k <= x})

\* mutant: rounds down, so that a number of 8 bits counts as one byte
ShortSov(x) == (BitLength(x) + 5) \div 7

sov(x) == (BitLength(x) + 6) \div 7
-----------------------------------------------------------------------------
(***************************************************************************)
(* What a field of each type adds to an encoding and to its size.  All      *)
(* field numbers are below 16, so that a key is one byte.                   *)
(***************************************************************************)
Field(num, body) == <<8 * num + 2>> \o encodeVarint(Len(body)) \o body

BytesField(num, b)  == IF b = <<>> THEN <<>> ELSE Field(num, b)
VarintField(num, v) == IF v = 0 THEN <<>> ELSE <<8 * num>> \o encodeVarint(v)
BoolField(num, b)   == IF b THEN <<8 * num, 1>> ELSE <<>>

FieldSize(l)  == 1 + l + sov(l)
BytesSize(b)  == IF b = <<>> THEN 0 ELSE FieldSize(Len(b))
VarintSize(v) == IF v = 0 THEN 0 ELSE 1 + sov(v)
BoolSize(b)   == IF b THEN 2 ELSE 0

(***************************************************************************)
(* MarshalToSizedBufferVT fills a buffer from its end.  With a buffer that  *)
(* is too small it panics; one that is too large keeps what it held in      *)
(* front (a new buffer holds zeros).                                        *)
(***************************************************************************)
MarshalToSizedBuffer(size, body) ==
    IF Len(body) > size THEN <<>> ELSE [i \in 1..(size - Len(body)) |-> 0] \o body

\* MarshalVT returns as many bytes of that buffer as the message took
MarshalVT(size, body) == SubSeq(MarshalToSizedBuffer(size, body), 1, Len(body))
-----------------------------------------------------------------------------
\* the varint at position p: its value, and the position after it
RECURSIVE VarintAt(_, _, _)
Prepend(b, rest) ==
    IF rest = Error THEN Error
    ELSE [value |-> (b % 128) + 128 * rest.value, next |-> rest.next]

VarintAt(bs, p, shift) ==
    IF shift >= 64 \/ p > Len(bs) THEN Error
    ELSE IF bs[p] < 128 THEN [value |-> bs[p], next |-> p + 1]
    ELSE Prepend(bs[p], VarintAt(bs, p + 1, shift + 7))

Varint(bs, p) == VarintAt(bs, p, 0)

\* where the value v of type wire ends that follows key, inside depth groups;
\* 0 is an error
ValueEnd(key, wire, depth, v) ==
    CASE wire = 0 -> IF v = Error THEN 0 ELSE v.next
      [] wire = 1 -> key.next + 8
      [] wire = 2 -> IF v = Error THEN 0 ELSE v.next + v.value
      [] wire = 3 -> key.next
      [] wire = 4 -> IF depth = 0 THEN 0 ELSE key.next
      [] wire = 5 -> key.next + 4
      [] OTHER    -> 0

RECURSIVE skip(_, _, _)
Depth(wire, depth) == depth + (IF wire = 3 THEN 1 ELSE IF wire = 4 THEN -1 ELSE 0)

SkipFrom(bs, key, depth, end) ==
    IF end = 0 \/ Depth(key.value % 8, depth) = 0 THEN end
    ELSE skip(bs, end, Depth(key.value % 8, depth))

SkipKey(bs, key, depth) ==
    IF key = Error THEN 0
    ELSE SkipFrom(bs, key, depth,
                  ValueEnd(key, key.value % 8, depth, Varint(bs, key.next)))

skip(bs, p, depth) ==
    IF p > Len(bs) THEN 0 ELSE SkipKey(bs, Varint(bs, p), depth)

(***************************************************************************)
(* The head of every UnmarshalVT loop and the parsing of a field's value:   *)
(* the field at p, in which value is a varint's and body what a length      *)
(* delimits.  raw is what goes to the unknown fields.                       *)
(***************************************************************************)
FieldUpTo(bs, p, key, v, end) ==
    IF end = 0 \/ end > Len(bs) + 1 THEN Error
    ELSE [num   |-> key.value \div 8,
          wire  |-> key.value % 8,
          value |-> IF key.value % 8 = 0 THEN v.value ELSE 0,
          body  |-> IF key.value % 8 = 2 THEN SubSeq(bs, v.next, end - 1) ELSE <<>>,
          raw   |-> SubSeq(bs, p, end - 1)]

FieldAt(bs, p, key) ==
    IF key = Error THEN Error
    ELSE IF key.value % 8 = 4 \/ key.value \div 8 = 0 THEN Error
    ELSE FieldUpTo(bs, p, key, Varint(bs, key.next), skip(bs, p, 0))

\* the fields from position p on, up to the first error
RECURSIVE Fields(_, _)
FieldsFrom(bs, p, f) ==
    IF f = Error THEN <<Error>> ELSE <<f>> \o Fields(bs, p + Len(f.raw))

Fields(bs, p) ==
    IF p > Len(bs) THEN <<>> ELSE FieldsFrom(bs, p, FieldAt(bs, p, Varint(bs, p)))

(***************************************************************************)
(* UnmarshalVT into the message m, whose field switch is Set.  Several      *)
(* occurrences of a field are applied one after the other.                  *)
(***************************************************************************)
Unmarshal(Set(_, _), m, bs) ==
    LET fields     == Fields(bs, 1)
        Step(a, f) == IF a = Error \/ f = Error THEN Error ELSE Set(a, f)
        read[i \in 0 .. Len(fields)] == IF i = 0 THEN m ELSE Step(read[i - 1], fields[i])
    IN  read[Len(fields)]

\* the cases of a field switch
SetBytes(m, name, f)  == IF f.wire = 2 THEN [m EXCEPT ![name] = f.body] ELSE Error
SetVarint(m, name, f) == IF f.wire = 0 THEN [m EXCEPT ![name] = f.value] ELSE Error
SetBool(m, name, f)   == IF f.wire = 0 THEN [m EXCEPT ![name] = (f.value # 0)] ELSE Error

\* a message decoded from the field's body, into the one already there or a new one
SetDecoded(m, name, f, sub) ==
    IF f.wire # 2 \/ sub = Error THEN Error ELSE [m EXCEPT ![name] = sub]

AddDecoded(m, name, f, sub) ==
    IF f.wire # 2 \/ sub = Error THEN Error ELSE [m EXCEPT ![name] = Append(@, sub)]

OrNew(sub, new) == IF sub = Nil THEN new ELSE sub

\* a oneof is [kind, msg]: another message of its kind is decoded into it
SetOneof(m, name, f, kind, sub) ==
    IF f.wire # 2 \/ sub = Error THEN Error ELSE [m EXCEPT ![name] = [kind |-> kind, msg |-> sub]]

OfKind(oneof, kind, new) == IF oneof.kind = kind THEN oneof.msg ELSE new

NoOneof == [kind |-> "none"]

AppendUnknown(m, f) == [m EXCEPT !.unknown = @ \o f.raw]
=============================================================================
