------------------------------- MODULE MCScripts -------------------------------
(* An instance for TLC of what a script can do without the proxy: its      *)
(* instructions (Machine), and the payloads that it and the codec write    *)
(* and read (PayloadPath).  Nothing is shared, so TLC explores one at a    *)
(* time (half) instead of the product.                                     *)
EXTENDS Machine

CONSTANTS fn1, fn2, key1, key2, reg, lab1

MCNames == {fn1, fn2}
MCRegs == {Arg0, reg}

Inst0(op) == [op |-> op, dst |-> Nil, args |-> <<>>, to |-> Nil, prefixed |-> FALSE,
              label |-> Nil, last |-> Nil, need |-> <<>>, other |-> <<>>, selects |-> FALSE]
Key(k) == [prefix |-> k]
Instructions == {
    [Inst0("int.add") EXCEPT !.dst = reg, !.args = <<Arg0, 1>>],
    [Inst0("jlt") EXCEPT !.args = <<reg, 2>>, !.label = lab1, !.last = lab1],
    [Inst0("jmp") EXCEPT !.label = lab1],
    [Inst0("ret") EXCEPT !.args = <<reg>>],
    [Inst0("call") EXCEPT !.dst = reg, !.args = <<Arg0>>, !.to = fn2, !.prefixed = TRUE],
    [Inst0("call") EXCEPT !.dst = reg, !.args = <<reg>>, !.to = fn1],
    [Inst0("cache.get") EXCEPT !.dst = reg, !.need = Key(<<key1>>)],
    [Inst0("buffer.push") EXCEPT !.need = Key(<<key1, key2>>)],
    [Inst0("query.where") EXCEPT !.dst = reg, !.to = fn2]}
Caps == {
    [name |-> "cache.read", scope |-> Key(<<key1>>)],
    [name |-> "cache.write", scope |-> Key(<<key2>>)],
    [name |-> "cache.write", scope |-> Key(<<key1>>)],
    [name |-> "inject.query", scope |-> Key(Star)]}
MCLines ==
    {[kind |-> "function", name |-> fn1, arity |-> 1], [kind |-> "function", name |-> fn2, arity |-> 1],
     [kind |-> "function", name |-> fn2, arity |-> 2], [kind |-> "end"],
     [kind |-> "pure", pure |-> FALSE], [kind |-> "label", label |-> lab1]}
    \cup {[kind |-> "inst", inst |-> i] : i \in Instructions}
    \cup {[kind |-> "cap", cap |-> c] : c \in Caps}

-----------------------------------------------------------------------------
CONSTANTS Fixed32, Fixed64, MaxGroups, MaxSkip, Schema, Values, Foreign, Leads, FieldMax
VARIABLES stage, prefix, wire, sent, ends, cut, result, pos, failed, half
payload == <<stage, prefix, wire, sent, ends, cut, result, pos, failed>>

Pay == INSTANCE PayloadPath

Field(no, t) == [no |-> no, type |-> t, repeated |-> FALSE, packed |-> FALSE, fields |-> {}]
Inner == {Field(1, "uint32"), Field(2, "bool"), Field(3, "sint64"), Field(4, "fixed64"),
          Field(5, "uint64"), Field(6, "int32"), Field(7, "sfixed32"), Field(8, "sfixed64"),
          Field(9, "enum"), Field(10, "int64")}
(* The ends of every type, at fixed fields of one and two bytes.           *)
Low == <<<<2, FALSE>>, <<3, -32768>>, <<6, -128>>, <<7, -128>>, <<8, -32768>>, <<9, -128>>,
         <<10, -32768>>>>
High == <<<<10, 32767>>, <<9, 127>>, <<8, 32767>>, <<7, 127>>, <<6, 127>>, <<5, 65535>>,
          <<4, 65535>>, <<3, 32767>>, <<2, TRUE>>, <<1, 255>>>>
MCSchema == {
    Field(1, "uint32"), Field(2, "sint32"), Field(3, "string"), Field(20, "fixed32"),
    [Field(4, "int64") EXCEPT !.repeated = TRUE, !.packed = TRUE],
    [Field(5, "uint32") EXCEPT !.repeated = TRUE],
    [Field(6, "message") EXCEPT !.fields = Inner]}
Newer == {Field(7, "int32")}
MCValues == [n \in {1, 2, 3, 4, 5, 6, 7, 20} |->
    CASE n = 1 -> {0, 255}
      [] n = 2 -> {-128}
      [] n = 3 -> {<<8, 1>>}
      [] n = 4 -> {<<>>, <<-32768, 300>>}
      [] n = 5 -> {<<128, 1>>}
      [] n = 6 -> {Low, High}
      [] n = 7 -> {-128}
      [] n = 20 -> {200}]
MCLeads == {<<>>, <<3, 7>>}
SignedSchema == {Field(7, "int32")}
NoFields == {}

-----------------------------------------------------------------------------
(* The half that stands still has one initial state.                       *)
ScriptsInit ==
    /\ Init /\ Pay!Init
    /\ \/ half = "machine" /\ prefix = <<>>
       \/ half = "payload" /\ ~bare /\ mode = "live"
ScriptsNext ==
    \/ half = "machine" /\ Next /\ UNCHANGED <<payload, half>>
    \/ half = "payload" /\ Pay!Next /\ UNCHANGED <<vars, half>>
ScriptsSpec ==
    ScriptsInit /\ [][ScriptsNext]_<<vars, payload, half>> /\ WF_vars(Step)

PayloadInv == Pay!PayloadInv
SkipsWholeFields == Pay!SkipsWholeFields
SignedSurvives == Pay!SignedSurvives
=============================================================================
