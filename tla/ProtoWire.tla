---------------------------- MODULE ProtoWire --------------------------------
(***************************************************************************)
(* The protobuf bytes of a payload, from both ends: the encoder            *)
(* (codec/proto_codec.py and the pb.* instructions of rfn/vm.py), the      *)
(* schema-driven decoder, and the reader of scripts (rfn/reader.py and the *)
(* rd.* instructions).  Bytes are numbers below 256; the widths of fixed   *)
(* fields are constants.  Numbers, strings (sequences of bytes) and one    *)
(* level of messages are modelled, floating point is not.                  *)
(***************************************************************************)
EXTENDS Integers, Sequences, FiniteSets, SequencesExt

CONSTANTS
    Fixed32, Fixed64,   \* bytes of a fixed field: 4 and 8
    MaxGroups,          \* bytes of the longest varint: 11
    MaxSkip             \* bytes that may precede a payload: 8

VARINT == 0
FIXED64 == 1
LEN == 2
FIXED32 == 5
W32 == 256 ^ Fixed32
W64 == 256 ^ Fixed64

-----------------------------------------------------------------------------
(* Varints, tags and scalars.                                              *)

Groups(v) == CHOOSE n \in 1..MaxGroups :
                /\ v < 128 ^ n
                /\ n > 1 => v >= 128 ^ (n - 1)
EncodeVarint(v) ==
    LET u == IF v < 0 THEN v % W64 ELSE v
        n == Groups(u)
    IN  [i \in 1..n |-> ((u \div 128 ^ (i - 1)) % 128) + IF i < n THEN 128 ELSE 0]

Bad == [ok |-> FALSE]
Good(v, next) == [ok |-> TRUE, v |-> v, next |-> next]
RECURSIVE Weigh(_, _, _)
Weigh(buf, i, j) == IF i > j THEN 0 ELSE (buf[i] % 128) + 128 * Weigh(buf, i + 1, j)
(* i bytes have been read; a varint ends at the first byte below 128.      *)
DecodeVarint(buf, i) ==
    LET ends == {j \in i + 1..Len(buf) : j <= i + MaxGroups /\ buf[j] < 128}
    IN  IF ends = {} THEN Bad
        ELSE LET j == CHOOSE j \in ends : \A k \in ends : j <= k
             IN  Good(Weigh(buf, i + 1, j), j)

LittleEndian(v, n) == [i \in 1..n |-> (v \div 256 ^ (i - 1)) % 256]
RECURSIVE FromBytes(_)
FromBytes(s) == IF s = <<>> THEN 0 ELSE s[1] + 256 * FromBytes(Tail(s))
Zigzag(v, w) == (IF v >= 0 THEN 2 * v ELSE -2 * v - 1) % w
Unzigzag(v) == IF v % 2 = 0 THEN v \div 2 ELSE -(v \div 2) - 1

VarintTypes == {"int32", "int64", "uint32", "uint64", "sint32", "sint64", "bool", "enum"}
WireType(t) ==
    CASE t \in VarintTypes -> VARINT
      [] t \in {"fixed32", "sfixed32"} -> FIXED32
      [] t \in {"fixed64", "sfixed64"} -> FIXED64
      [] t \in {"string", "message"} -> LEN
Packable(t) == WireType(t) # LEN
Tag(no, wt) == EncodeVarint(no * 8 + wt)
ValidTagByte(x) == x % 8 \in {VARINT, FIXED64, LEN, FIXED32} /\ x \div 8 >= 1

Sized(bytes) == EncodeVarint(Len(bytes)) \o bytes
EncodeScalar(t, v) ==
    CASE t \in {"int32", "int64", "uint32", "uint64", "enum"} -> EncodeVarint(v)
      [] t = "bool" -> EncodeVarint(IF v THEN 1 ELSE 0)
      [] t = "sint32" -> EncodeVarint(Zigzag(v, W32))
      [] t = "sint64" -> EncodeVarint(Zigzag(v, W64))
      [] t \in {"fixed32", "sfixed32"} -> LittleEndian(v % W32, Fixed32)
      [] t \in {"fixed64", "sfixed64"} -> LittleEndian(v % W64, Fixed64)
      [] t = "string" -> Sized(v)
(* A message is a sequence of <<number, value>> pairs.                     *)
RECURSIVE EncodeMessage(_, _)
EncodeOne(f, v) ==
    Tag(f.no, WireType(f.type)) \o
        (IF f.type = "message" THEN Sized(EncodeMessage(f.fields, v))
                               ELSE EncodeScalar(f.type, v))
EncodePacked(f, vs) ==
    LET body == FlattenSeq([i \in DOMAIN vs |-> EncodeScalar(f.type, vs[i])])
    IN  IF body = <<>> THEN <<>> ELSE Tag(f.no, LEN) \o Sized(body)
EncodeField(f, v) ==
    IF ~f.repeated THEN EncodeOne(f, v)
    ELSE IF f.packed /\ Packable(f.type) THEN EncodePacked(f, v)
    ELSE FlattenSeq([i \in DOMAIN v |-> EncodeOne(f, v[i])])
EncodeMessage(schema, m) ==
    IF m = <<>> THEN <<>>
    ELSE EncodeField(CHOOSE f \in schema : f.no = m[1][1], m[1][2])
           \o EncodeMessage(schema, Tail(m))

-----------------------------------------------------------------------------
(* Decoding.                                                               *)

ReadWire(buf, i, wt) ==
    LET n == DecodeVarint(buf, i)
        fixed(k) == IF i + k > Len(buf) THEN Bad
                    ELSE Good(FromBytes(SubSeq(buf, i + 1, i + k)), i + k)
    IN  CASE wt = VARINT -> n
          [] wt = LEN -> IF ~n.ok THEN Bad
                         ELSE IF n.next + n.v > Len(buf) THEN Bad
                         ELSE Good(SubSeq(buf, n.next + 1, n.next + n.v), n.next + n.v)
          [] wt = FIXED32 -> fixed(Fixed32)
          [] wt = FIXED64 -> fixed(Fixed64)
          [] OTHER -> Bad

(* int32 comes back signed only if it fitted 32 bits on the wire; sfixed   *)
(* and enum are passed through.                                            *)
DecodeNumber(t, raw) ==
    CASE t = "bool" -> raw # 0
      [] t = "sint32" -> Unzigzag(raw % W32)
      [] t = "sint64" -> Unzigzag(raw % W64)
      [] t = "int32" -> IF raw >= W32 \div 2 /\ raw < W32 THEN raw - W32 ELSE raw
      [] t = "int64" -> IF raw >= W64 \div 2 /\ raw < W64 THEN raw - W64 ELSE raw
      [] OTHER -> raw
RECURSIVE PackedValues(_, _, _)
PackedValues(t, buf, i) ==
    IF i = Len(buf) THEN [ok |-> TRUE, vs |-> <<>>]
    ELSE LET one == ReadWire(buf, i, WireType(t))
         IN  IF ~one.ok THEN Bad
             ELSE LET rest == PackedValues(t, buf, one.next)
                  IN  IF ~rest.ok THEN Bad
                      ELSE [ok |-> TRUE, vs |-> <<DecodeNumber(t, one.v)>> \o rest.vs]

(* What was found: field number -> value or list, and how it went.         *)
Nothing(i) == [out |-> <<>>, next |-> i, known |-> 0, unknown |-> 0]
Knows(r, no) == no \in DOMAIN r.out
Listed(f, r, vs) ==
    [n \in DOMAIN r.out \cup {f.no} |->
        IF n = f.no THEN (IF Knows(r, n) THEN r.out[n] ELSE <<>>) \o vs ELSE r.out[n]]
Stored(f, r, v) ==
    IF f.repeated THEN Listed(f, r, <<v>>)
    ELSE IF Knows(r, f.no) THEN r.out
    ELSE [n \in DOMAIN r.out \cup {f.no} |-> IF n = f.no THEN v ELSE r.out[n]]

RECURSIVE Parse(_, _, _)
DecodeValue(f, raw) ==
    CASE f.type = "message" -> Parse(f.fields, raw, Nothing(0)).out
      [] f.type = "string" -> raw
      [] OTHER -> DecodeNumber(f.type, raw)
Taken(schema, no, wt, raw, r) ==
    LET fs == {f \in schema : f.no = no}
        f == CHOOSE f \in fs : TRUE
        vs == PackedValues(f.type, raw, 0)
    IN  IF fs = {} THEN [r EXCEPT !.unknown = @ + 1]
        ELSE IF wt = WireType(f.type)
        THEN [r EXCEPT !.known = @ + 1, !.out = Stored(f, r, DecodeValue(f, raw))]
        ELSE IF f.repeated /\ wt = LEN /\ Packable(f.type) /\ vs.ok
        THEN [r EXCEPT !.known = @ + 1, !.out = Listed(f, r, vs.vs)]
        ELSE [r EXCEPT !.known = @ + 1, !.unknown = @ + 1]
Parse(schema, buf, r) ==
    IF r.next >= Len(buf) THEN r
    ELSE LET tag == DecodeVarint(buf, r.next)
             wt == tag.v % 8
             raw == ReadWire(buf, tag.next, wt)
         IN  IF ~tag.ok THEN r
             ELSE IF ~raw.ok THEN [r EXCEPT !.next = tag.next]
             ELSE Parse(schema, buf,
                        [Taken(schema, tag.v \div 8, wt, raw.v, r) EXCEPT !.next = raw.next])

(* Every plausible start is tried; known fields, no unknown ones and no    *)
(* rest count most, in this order, then the earlier start.                 *)
Starts(buf) == {s \in 0..MaxSkip : s < Len(buf) /\ (s > 0 => ValidTagByte(buf[s + 1]))}
Found(schema, buf, s) == Parse(schema, buf, Nothing(s))
Score(schema, buf, s) ==
    LET r == Found(schema, buf, s)
    IN  (IF r.known > 0 THEN 4 ELSE 0) + (IF r.unknown = 0 THEN 2 ELSE 0)
          + (IF r.next >= Len(buf) THEN 1 ELSE 0)
BestStart_Later(schema, buf) ==
    CHOOSE s \in Starts(buf) : \A t \in Starts(buf) :
        \/ Score(schema, buf, s) > Score(schema, buf, t)
        \/ Score(schema, buf, s) = Score(schema, buf, t) /\ s >= t
BestStart(schema, buf) ==
    CHOOSE s \in Starts(buf) : \A t \in Starts(buf) :
        \/ Score(schema, buf, s) > Score(schema, buf, t)
        \/ Score(schema, buf, s) = Score(schema, buf, t) /\ s <= t
DecodePayload(schema, buf) ==
    IF buf = <<>> THEN Nothing(0) ELSE Found(schema, buf, BestStart(schema, buf))

-----------------------------------------------------------------------------
(* The reader of scripts: take moves only when there is enough.            *)

Take(buf, pos, n) ==
    IF n < 0 \/ pos + n > Len(buf) THEN Bad
    ELSE Good(SubSeq(buf, pos + 1, pos + n), pos + n)
Seek(buf, off) == IF off < 0 \/ off > Len(buf) THEN Bad ELSE Good(<<>>, off)
SkipWire_LengthOnly(buf, pos, wt) ==
    CASE wt = FIXED64 -> Take(buf, pos, Fixed64)
      [] wt = FIXED32 -> Take(buf, pos, Fixed32)
      [] OTHER -> DecodeVarint(buf, pos)
SkipWire(buf, pos, wt) ==
    LET n == DecodeVarint(buf, pos)
    IN  CASE wt = VARINT -> n
          [] wt = FIXED64 -> Take(buf, pos, Fixed64)
          [] wt = FIXED32 -> Take(buf, pos, Fixed32)
          [] wt = LEN -> IF n.ok THEN Take(buf, n.next, n.v) ELSE Bad
          [] OTHER -> Bad
=============================================================================
