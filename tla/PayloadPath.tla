--------------------------- MODULE PayloadPath -------------------------------
(***************************************************************************)
(* A payload on its way: a script or the encoder appends fields one by one *)
(* in any order, a newer peer may add fields that this schema lacks, bytes *)
(* may precede it or its end be missing, and it is then decoded by schema  *)
(* and walked through by a script's reader.                                *)
(***************************************************************************)
EXTENDS ProtoWire

CONSTANTS
    Schema,         \* set of fields [no, type, repeated, packed, fields]
    Values,         \* field -> the values written
    Foreign,        \* fields of a newer schema, and Values of theirs
    Leads,          \* byte sequences that may come first
    FieldMax        \* bound: fields written

VARIABLES
    stage,          \* "writing", "sent" or "decoded"
    prefix, wire,   \* bytes
    sent,           \* <<number, value>> pairs in the order written
    ends,           \* lengths of wire at field boundaries (history)
    cut,            \* bytes lost at the end
    result,         \* of DecodePayload
    pos, failed     \* the script's reader, and whether a call of it failed

vars == <<stage, prefix, wire, sent, ends, cut, result, pos, failed>>

Init ==
    /\ stage = "writing" /\ prefix \in Leads /\ wire = <<>> /\ sent = <<>>
    /\ ends = {0} /\ cut = 0 /\ result = Nothing(0) /\ pos = 0 /\ failed = FALSE

Write(f, v) ==
    /\ stage = "writing" /\ Len(sent) < FieldMax
    /\ wire' = wire \o EncodeField(f, v)
    /\ sent' = Append(sent, <<f.no, v>>)
    /\ ends' = ends \cup {Len(wire')}
               \cup IF f.repeated /\ ~f.packed
                    THEN {Len(wire \o EncodeField(f, SubSeq(v, 1, k))) : k \in DOMAIN v} ELSE {}
    /\ UNCHANGED <<stage, prefix, cut, result, pos, failed>>
Send(n) ==
    /\ stage = "writing" /\ n <= Len(wire)
    /\ stage' = "sent" /\ cut' = n
    /\ wire' = SubSeq(wire, 1, Len(wire) - n)
    /\ UNCHANGED <<prefix, sent, ends, result, pos, failed>>
Decode ==
    /\ stage = "sent" /\ stage' = "decoded"
    /\ pos = 0 /\ ~failed     \* the script's reader is another consumer: one at a time
    /\ result' = DecodePayload(Schema, prefix \o wire)
    /\ UNCHANGED <<prefix, wire, sent, ends, cut, pos, failed>>

(* rd.tag and then rd.skip_wire, or rd.bytes, or rd.seek (and rd.skip); an *)
(* error ends the script, and its reader with it.                          *)
Reading == stage = "sent" /\ prefix = <<>> /\ ~failed
Moved(r) ==
    /\ failed' = ~r.ok
    /\ pos' = IF r.ok THEN r.next ELSE pos
    /\ UNCHANGED <<stage, prefix, wire, sent, ends, cut, result>>
SkipField ==
    /\ Reading /\ pos < Len(wire)
    /\ LET tag == DecodeVarint(wire, pos)
       IN  Moved(IF tag.ok THEN SkipWire(wire, tag.next, tag.v % 8) ELSE Bad)
ReadBytes(n) == Reading /\ Moved(Take(wire, pos, n))
SeekTo(off) == Reading /\ Moved(Seek(wire, off))

Next ==
    \/ \E f \in Schema \cup Foreign : \E v \in Values[f.no] : Write(f, v)
    \/ \E n \in 0..2 : Send(n)
    \/ Decode \/ SkipField
    \/ \E n \in {1, 3} : ReadBytes(n)
    \/ \E off \in {-1} \cup ends : SeekTo(off)
Spec == Init /\ [][Next]_vars

-----------------------------------------------------------------------------
FieldOf(no) == CHOOSE f \in Schema : f.no = no
WrittenTo(no) == SelectSeq(sent, LAMBDA p : p[1] = no)
(* What comes back of a number: negative ones of four types lose their    *)
(* sign, int32 and enum on 64 bits whatever the schema says.               *)
Back(t, v) ==
    CASE t \in {"int32", "enum", "sfixed64"} /\ v < 0 -> v + W64
      [] t = "sfixed32" /\ v < 0 -> v + W32
      [] OTHER -> v
(* What a reader of the schema should find: the first value of a single    *)
(* field, all of a repeated one; a message as a map; empty lists are not   *)
(* written.                                                                *)
RECURSIVE Meant(_, _)
MeantBy(f, ps) ==
    IF f.repeated
    THEN LET all == FlattenSeq([i \in DOMAIN ps |-> ps[i][2]])
         IN  [i \in DOMAIN all |-> Back(f.type, all[i])]
    ELSE IF f.type = "message" THEN Meant(f.fields, ps[1][2]) ELSE Back(f.type, ps[1][2])
Meant(schema, m) ==
    LET nos == {f.no : f \in {f \in schema : \E i \in DOMAIN m :
                    m[i][1] = f.no /\ ~(f.repeated /\ m[i][2] = <<>>)}}
    IN  [n \in nos |-> MeantBy(CHOOSE f \in schema : f.no = n,
                               SelectSeq(m, LAMBDA p : p[1] = n))]
(* All of it arrived, of this schema, behind nothing that could be a tag.  *)
Clean ==
    /\ cut = 0 /\ \A i \in DOMAIN sent : \E f \in Schema : f.no = sent[i][1]
    /\ \A i \in DOMAIN prefix : ~ValidTagByte(prefix[i])

PayloadTypeOK ==
    /\ \A i \in DOMAIN wire : wire[i] \in 0..255
    /\ pos \in 0..Len(wire)
    /\ stage \in {"writing", "sent", "decoded"}

(* Whatever order fields are written in, packed or not, doubled or behind  *)
(* a prefix that holds no possible tag, the decoder finds what the encoder *)
(* meant, but for the signs that Back names.  (Behind any other prefix,    *)
(* say <<8, 1>>, the search may start inside the prefix.)                  *)
RoundTrip ==
    stage = "decoded" /\ Clean /\ sent # <<>> /\ wire # <<>>
        => result.out = Meant(Schema, sent)
PayloadInv == PayloadTypeOK /\ RoundTrip

(* The reader that skips field by field stays on field boundaries, for     *)
(* every wire type and unknown field, until it fails.                      *)
SkipsWholeFields ==
    [][SkipField /\ pos \in ends /\ ~failed' => pos' \in ends]_vars

(* A signed number comes back with its sign.                               *)
SignedSurvives ==
    stage = "decoded" /\ Clean /\ prefix = <<>> =>
        \A no \in DOMAIN result.out :
            FieldOf(no).type \in {"int32", "sfixed32", "sfixed64", "enum"} =>
                result.out[no] = WrittenTo(no)[1][2]
=============================================================================
