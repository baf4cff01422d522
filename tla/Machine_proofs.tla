--------------------------- MODULE Machine_proofs ---------------------------
(***************************************************************************)
(* Proof that a script stays inside its code and its rights (StaysInside), *)
(* for all sources, budgets and depths, whatever the instructions hold: no *)
(* shape is assumed of them, only of the headers (LinesAssumption).        *)
(***************************************************************************)
EXTENDS Machine, SequenceTheorems, FiniteSetTheorems, TLAPS

-----------------------------------------------------------------------------
(* The inductive invariant.                                                *)

Instructions == {l.inst : l \in {k \in Lines : k.kind = "inst"}}

IsFunction(f) ==
    /\ DOMAIN f = {"name", "arity", "pure", "caps", "code", "labels"}
    /\ f.code \in Seq(Instructions)
    /\ FunctionOK(f)
ModuleInv ==
    /\ DOMAIN module = Names
    /\ current # Nil => IsFunction(current)
    /\ \A n \in Declared : IsFunction(module[n]) /\ module[n].name = n

(* A frame is in its code or just behind it.  One that waits for what it   *)
(* called stands at an instruction, so there is a place to go on.          *)
IsFrame(f) ==
    /\ DOMAIN f = {"fn", "pc", "ops", "regs", "dst", "how", "more"}
    /\ f.fn \in Declared
    /\ f.ops \in Nat /\ f.ops <= MaxOps /\ f.more \in 0 .. MaxPairs
    /\ f.pc \in 1 .. Len(module[f.fn].code) + 1
IsStack(s) ==
    /\ Len(s) \in Nat /\ s = [i \in 1 .. Len(s) |-> s[i]]
    /\ Len(s) <= MaxDepth
    /\ \A i \in 1 .. Len(s) : IsFrame(s[i])
    /\ \A i \in 1 .. Len(s) : i < Len(s) => s[i].pc <= Len(module[s[i].fn].code)
StackInv ==
    /\ IsStack(stack)
    /\ phase = "running" => stack # <<>>
    /\ phase # "running" => stack = <<>>

(* What the assembler has checked holds for as long as the module runs.    *)
CheckedInv ==
    /\ phase = "reading" => effects = {} /\ outcome = "none"
    /\ phase = "running" => CheckModule = "ok" /\ outcome = "none"
(* Only a jump that was not checked misses its label.                      *)
Unchecked == \E n \in Declared : \E i \in Insts(module[n]) : i.op \in Jumps /\ ~Checked(i)

IInv ==
    /\ phase \in {"reading", "running", "done"} /\ mode \in {"live", "replay"}
    /\ ModuleInv /\ StackInv /\ CheckedInv
    /\ OnlyDeclared /\ PureOnlyReads
    /\ outcome = "KeyError" => Unchecked

-----------------------------------------------------------------------------
(* Functions and sequences.                                                *)

LEMMA MadeSeq ==
    ASSUME NEW n \in Nat, NEW t, t = [i \in 1 .. n |-> t[i]]
    PROVE  /\ t \in Seq({t[i] : i \in 1 .. n})
           /\ Len(t) = n /\ DOMAIN t = 1 .. n
<1> DEFINE S == {t[i] : i \in 1 .. n}
<1>1. \A i \in 1 .. n : t[i] \in S
  OBVIOUS
<1> HIDE DEF S
<1>2. t \in [1 .. n -> S] /\ DOMAIN t = 1 .. n
  BY <1>1
<1>3. t \in Seq(S)
  BY <1>2, SeqDef
<1>4. Len(t) = n
  <2>1. Len(t) \in Nat /\ DOMAIN t = 1 .. Len(t)
    BY <1>3, LenProperties
  <2>2. 1 .. n = 1 .. Len(t)
    BY <1>2, <2>1
  <2>3. n = Len(t)
    BY <2>1, <2>2
  <2>4. QED BY <2>3
<1>5. QED BY <1>2, <1>3, <1>4 DEF S

LEMMA EmptyStack == IsStack(<<>>)
<1>1. Len(<<>>) = 0 /\ 1 .. 0 = {} /\ <<>> = [i \in 1 .. 0 |-> <<>>[i]]
  OBVIOUS
<1>2. 0 <= MaxDepth
  BY MachineAssumption
<1>3. QED BY <1>1, <1>2 DEF IsStack

(* A stack with another frame on top.                                      *)
LEMMA TopReplaced ==
    ASSUME IsStack(stack), stack # <<>>, NEW f, IsFrame(f)
    PROVE  /\ IsStack([stack EXCEPT ![Len(stack)] = f])
           /\ [stack EXCEPT ![Len(stack)] = f] # <<>>
           /\ Len([stack EXCEPT ![Len(stack)] = f]) = Len(stack)
           /\ [stack EXCEPT ![Len(stack)] = f][Len(stack)] = f
<1> DEFINE n == Len(stack)
           t == [stack EXCEPT ![n] = f]
<1>1. n \in Nat /\ stack = [i \in 1 .. n |-> stack[i]] /\ n <= MaxDepth
  BY DEF IsStack
<1>2. DOMAIN stack = 1 .. n
  BY <1>1
<1>3. n # 0
  <2>1. ASSUME n = 0 PROVE FALSE
    <3>1. stack = [i \in 1 .. 0 |-> stack[i]] /\ 1 .. 0 = {}
      BY <1>1, <2>1
    <3>2. stack = <<>>
      BY <3>1
    <3>3. QED BY <3>2
  <2>2. QED BY <2>1
<1>4. \A i \in 1 .. n : t[i] = IF i = n THEN f ELSE stack[i]
  BY <1>2
<1>5. t = [i \in 1 .. n |-> t[i]]
  BY <1>2
<1> HIDE DEF t
<1>6. Len(t) = n /\ DOMAIN t = 1 .. n
  <2> HIDE DEF n
  <2>1. QED BY <1>1, <1>5, MadeSeq
<1>7. n \in 1 .. n /\ t # <<>>
  BY <1>1, <1>3, <1>6
<1>8. IsStack(t)
  <2>1. \A i \in 1 .. n : IsFrame(t[i])
    BY <1>4 DEF IsStack
  <2>2. \A i \in 1 .. n : i < n => t[i].pc <= Len(module[t[i].fn].code)
    BY <1>1, <1>4 DEF IsStack
  <2>3. QED BY <1>1, <1>5, <1>6, <2>1, <2>2 DEF IsStack
<1>9. QED BY <1>4, <1>6, <1>7, <1>8 DEF t

(* A call: the frame on top waits at its instruction for a new one.        *)
LEMMA Pushed ==
    ASSUME IsStack(stack), stack # <<>>, Len(stack) < MaxDepth,
           NEW f, IsFrame(f), f.pc <= Len(module[f.fn].code), NEW g, IsFrame(g)
    PROVE  /\ IsStack(Append([stack EXCEPT ![Len(stack)] = f], g))
           /\ Append([stack EXCEPT ![Len(stack)] = f], g) # <<>>
<1> DEFINE n == Len(stack)
           t == [stack EXCEPT ![n] = f]
           u == Append(t, g)
<1>1. IsStack(t) /\ t # <<>> /\ Len(t) = n /\ t[n] = f
  BY TopReplaced
<1>2. n \in Nat /\ n + 1 <= MaxDepth /\ n + 1 \in Nat
  BY MachineAssumption DEF IsStack
<1> HIDE DEF t, n
<1>3. t = [i \in 1 .. n |-> t[i]]
  BY <1>1 DEF IsStack
<1> DEFINE S == {t[i] : i \in 1 .. n} \cup {g}
<1>4. t \in Seq(S)
  <2>1. t \in [1 .. n -> S]
    BY <1>3
  <2> HIDE DEF S
  <2>2. QED BY <1>2, <2>1, SeqDef
<1>5. g \in S
  OBVIOUS
<1> HIDE DEF S
<1>6. /\ u \in Seq(S) /\ u # <<>> /\ Len(u) = n + 1
      /\ \A i \in 1 .. n : u[i] = t[i]
      /\ u[n + 1] = g
  BY <1>1, <1>4, <1>5, AppendProperties
<1>7. DOMAIN u = 1 .. n + 1
  BY <1>6, LenProperties
<1>8. u = [i \in 1 .. n + 1 |-> u[i]]
  <2> HIDE DEF u
  <2>1. PICK m \in Nat : u \in [1 .. m -> S]
    BY <1>6, SeqDef
  <2>2. 1 .. m = 1 .. n + 1
    BY <1>7, <2>1
  <2>3. QED BY <2>1, <2>2
<1> HIDE DEF u
<1>9. \A i \in 1 .. n + 1 : i \in 1 .. n \/ i = n + 1
  BY <1>2
<1>10. \A i \in 1 .. n + 1 : IsFrame(u[i])
  BY <1>1, <1>6, <1>9 DEF IsStack
<1>11. ASSUME NEW i \in 1 .. n + 1, i < n + 1
       PROVE  u[i].pc <= Len(module[u[i].fn].code)
  <2>1. i \in 1 .. n /\ (i < n \/ i = n)
    BY <1>2, <1>11
  <2>2. QED BY <1>1, <1>6, <2>1 DEF IsStack
<1>12. QED BY <1>2, <1>6, <1>8, <1>10, <1>11 DEF IsStack, u, t, n

(* A return: the caller goes on behind its call.                           *)
LEMMA Popped ==
    ASSUME IsStack(stack), NEW n \in Nat, n + 1 = Len(stack), n > 0, NEW f,
           IsFrame(f),
           NEW u, u = [i \in 1 .. n |-> IF i < n THEN stack[i] ELSE f]
    PROVE  IsStack(u) /\ u # <<>>
<1>1. \A i \in 1 .. n : u[i] = IF i < n THEN stack[i] ELSE f
  OBVIOUS
<1>2. u = [i \in 1 .. n |-> u[i]]
  OBVIOUS
<1>3. Len(u) = n /\ DOMAIN u = 1 .. n
  BY <1>2, MadeSeq
<1>4. u # <<>>
  BY <1>3
<1>5. n <= MaxDepth /\ \A i \in 1 .. n : i \in 1 .. Len(stack) /\ i < Len(stack)
  BY MachineAssumption DEF IsStack
<1>6. \A i \in 1 .. n : IsFrame(u[i])
  BY <1>1, <1>5 DEF IsStack
<1>7. \A i \in 1 .. n : i < n => u[i].pc <= Len(module[u[i].fn].code)
  BY <1>1, <1>5 DEF IsStack
<1>8. QED BY <1>2, <1>3, <1>4, <1>5, <1>6, <1>7 DEF IsStack

-----------------------------------------------------------------------------
(* Rights.  What the host does for an instruction is among what was asserted*)
(* for it, and what alters anything asks for more than a right to read.    *)

LEMMA NeededFact ==
    ASSUME NEW c, NEW ops, <<c, ops>> \in Table, NEW op \in ops
    PROVE  c \in Needed(op)
<1>1. <<c, ops>>[1] = c /\ <<c, ops>>[2] = ops
  OBVIOUS
<1>2. QED BY <1>1 DEF Needed

LEMMA FamilyAsserts ==
    ASSUME NEW i, NEW c, NEW ops, <<c, ops>> \in Table, i.op \in ops,
           i.op \notin {"file.copy", "file.move", "db.exec"}
    PROVE  <<c, i.need>> \in Asserted(i)
<1>1. c \in Needed(i.op)
  BY NeededFact
<1>2. Asserted(i) = {<<n, i.need>> : n \in Needed(i.op)}
  BY DEF Asserted
<1>3. QED BY <1>1, <1>2

LEMMA UsesAsserted ==
    ASSUME NEW i, i.op \in HostOps
    PROVE  /\ Uses(i) \subseteq Asserted(i)
           /\ Alters(i) => \E u \in Uses(i) : u[1] \notin ReadCaps
<1>1. CASE i.op \in CacheReads
  <2>1. ~Alters(i)
    BY <1>1 DEF Alters, CacheReads
  <2>2. Uses(i) = {<<"cache.read", i.need>>}
    BY <1>1, <2>1 DEF Uses, Right, CacheReads, CacheWrites, DbReads, DbWrites, FileReads, FileWrites, QueryOps, ScheduleOps
  <2>3. <<"cache.read", CacheReads>> \in Table
    BY DEF Table
  <2>4. <<"cache.read", i.need>> \in Asserted(i)
    BY <1>1, <2>3, FamilyAsserts DEF CacheReads
  <2>5. QED BY <2>1, <2>2, <2>4
<1>2. CASE i.op \in CacheWrites
  <2>1. Alters(i)
    BY <1>2 DEF Alters, CacheWrites
  <2>2. Uses(i) = {<<"cache.write", i.need>>}
    BY <1>2, <2>1 DEF Uses, Right, CacheReads, CacheWrites, DbReads, DbWrites, FileReads, FileWrites, QueryOps, ScheduleOps
  <2>3. <<"cache.write", CacheWrites>> \in Table
    BY DEF Table
  <2>4. <<"cache.write", i.need>> \in Asserted(i)
    BY <1>2, <2>3, FamilyAsserts DEF CacheWrites
  <2>5. QED BY <2>2, <2>4 DEF ReadCaps
<1>3. CASE i.op \in DbReads
  <2>1. ~Alters(i)
    BY <1>3 DEF Alters, DbReads
  <2>2. Uses(i) = {<<"db.read", i.need>>}
    BY <1>3, <2>1 DEF Uses, Right, CacheReads, CacheWrites, DbReads, DbWrites, FileReads, FileWrites, QueryOps, ScheduleOps
  <2>3. <<"db.read", DbReads>> \in Table
    BY DEF Table
  <2>4. <<"db.read", i.need>> \in Asserted(i)
    BY <1>3, <2>3, FamilyAsserts DEF DbReads
  <2>5. QED BY <2>1, <2>2, <2>4
<1>4. CASE i.op \in DbWrites
  <2>1. Alters(i)
    BY <1>4 DEF Alters, DbWrites
  <2>2. Uses(i) = {<<"db.write", i.need>>}
    BY <1>4, <2>1 DEF Uses, Right, CacheReads, CacheWrites, DbReads, DbWrites, FileReads, FileWrites, QueryOps, ScheduleOps
  <2>3. <<"db.write", DbWrites>> \in Table
    BY DEF Table
  <2>4. <<"db.write", i.need>> \in Asserted(i)
    BY <1>4, <2>3, FamilyAsserts DEF DbWrites
  <2>5. QED BY <2>2, <2>4 DEF ReadCaps
<1>5. CASE i.op \in FileReads
  <2>1. ~Alters(i)
    BY <1>5 DEF Alters, FileReads
  <2>2. Uses(i) = {<<"file.read", i.need>>}
    BY <1>5, <2>1 DEF Uses, Right, CacheReads, CacheWrites, DbReads, DbWrites, FileReads, FileWrites, QueryOps, ScheduleOps
  <2>3. <<"file.read", FileReads>> \in Table
    BY DEF Table
  <2>4. <<"file.read", i.need>> \in Asserted(i)
    BY <1>5, <2>3, FamilyAsserts DEF FileReads
  <2>5. QED BY <2>1, <2>2, <2>4
<1>6. CASE i.op \in FileWrites
  <2>1. Alters(i)
    BY <1>6 DEF Alters, FileWrites
  <2>2. Uses(i) = {<<"file.write", i.need>>}
    BY <1>6, <2>1 DEF Uses, Right, CacheReads, CacheWrites, DbReads, DbWrites, FileReads, FileWrites, QueryOps, ScheduleOps
  <2>3. <<"file.write", FileWrites>> \in Table
    BY DEF Table
  <2>4. <<"file.write", i.need>> \in Asserted(i)
    BY <1>6, <2>3, FamilyAsserts DEF FileWrites
  <2>5. QED BY <2>2, <2>4 DEF ReadCaps
<1>7. CASE i.op \in HttpServerOps
  <2>1. Uses(i) = {} /\ ~Alters(i)
    BY <1>7 DEF Uses, Alters, CacheReads, CacheWrites, DbReads, DbWrites, FileReads, FileWrites, QueryOps, ScheduleOps, HttpServerOps
  <2>2. QED BY <2>1
<1>8. CASE i.op \in HttpClientOps
  <2>1. Uses(i) = {<<"http.client", i.need>>}
    BY <1>8 DEF Uses, CacheReads, CacheWrites, DbReads, DbWrites, FileReads, FileWrites, QueryOps, ScheduleOps, HttpClientOps
  <2>2. <<"http.client", HttpClientOps>> \in Table
    BY DEF Table
  <2>3. <<"http.client", i.need>> \in Asserted(i)
    BY <1>8, <2>2, FamilyAsserts DEF HttpClientOps
  <2>4. QED BY <2>1, <2>3 DEF ReadCaps
<1>9. CASE i.op \in InjectOps
  <2>1. Uses(i) = {<<"inject.send", i.need>>}
    BY <1>9 DEF Uses, CacheReads, CacheWrites, DbReads, DbWrites, FileReads, FileWrites, QueryOps, ScheduleOps, InjectOps
  <2>2. <<"inject.send", InjectOps>> \in Table
    BY DEF Table
  <2>3. <<"inject.send", i.need>> \in Asserted(i)
    BY <1>9, <2>2, FamilyAsserts DEF InjectOps
  <2>4. QED BY <2>1, <2>3 DEF ReadCaps
<1>10. CASE i.op \in QueryOps
  <2>1. Uses(i) = {<<"inject.query", i.need>>}
    BY <1>10 DEF Uses, CacheReads, CacheWrites, DbReads, DbWrites, FileReads, FileWrites, QueryOps, ScheduleOps
  <2>2. <<"inject.query", QueryOps>> \in Table
    BY DEF Table
  <2>3. <<"inject.query", i.need>> \in Asserted(i)
    BY <1>10, <2>2, FamilyAsserts DEF QueryOps
  <2>4. QED BY <2>1, <2>3 DEF ReadCaps
<1>11. CASE i.op \in SessionOps
  <2>1. Uses(i) = {<<"session.control", i.need>>}
    BY <1>11 DEF Uses, CacheReads, CacheWrites, DbReads, DbWrites, FileReads, FileWrites, QueryOps, ScheduleOps, SessionOps
  <2>2. <<"session.control", SessionOps>> \in Table
    BY DEF Table
  <2>3. <<"session.control", i.need>> \in Asserted(i)
    BY <1>11, <2>2, FamilyAsserts DEF SessionOps
  <2>4. QED BY <2>1, <2>3 DEF ReadCaps
<1>12. CASE i.op \in ScheduleOps
  <2>1. Uses(i) = {<<"schedule.write", i.need>>}
    BY <1>12 DEF Uses, CacheReads, CacheWrites, DbReads, DbWrites, FileReads, FileWrites, QueryOps, ScheduleOps
  <2>2. <<"schedule.write", ScheduleOps>> \in Table
    BY DEF Table
  <2>3. <<"schedule.write", i.need>> \in Asserted(i)
    BY <1>12, <2>2, FamilyAsserts DEF ScheduleOps
  <2>4. QED BY <2>1, <2>3 DEF ReadCaps
<1>13. CASE i.op \in EventOps
  <2>1. Uses(i) = {<<"event.emit", i.need>>}
    BY <1>13 DEF Uses, CacheReads, CacheWrites, DbReads, DbWrites, FileReads, FileWrites, QueryOps, ScheduleOps, EventOps
  <2>2. <<"event.emit", EventOps>> \in Table
    BY DEF Table
  <2>3. <<"event.emit", i.need>> \in Asserted(i)
    BY <1>13, <2>2, FamilyAsserts DEF EventOps
  <2>4. QED BY <2>1, <2>3 DEF ReadCaps
<1>14. CASE i.op \in AuditOps
  <2>1. Uses(i) = {} /\ ~Alters(i)
    BY <1>14 DEF Uses, Alters, CacheReads, CacheWrites, DbReads, DbWrites, FileReads, FileWrites, QueryOps, ScheduleOps, AuditOps
  <2>2. QED BY <2>1
<1>15. CASE i.op \in RouteOps
  <2>1. Uses(i) = {} /\ ~Alters(i)
    BY <1>15 DEF Uses, Alters, CacheReads, CacheWrites, DbReads, DbWrites, FileReads, FileWrites, QueryOps, ScheduleOps, RouteOps
  <2>2. QED BY <2>1
<1>16. CASE i.op = "file.copy"
  <2>1. Uses(i) = {<<"file.read", i.need>>, <<"file.write", i.other>>}
    BY <1>16 DEF Uses, CacheReads, CacheWrites, DbReads, DbWrites, FileReads, FileWrites, QueryOps, ScheduleOps
  <2>2. QED BY <1>16, <2>1 DEF Asserted, ReadCaps
<1>17. CASE i.op = "file.move"
  <2>1. Uses(i) = {<<"file.write", i.need>>, <<"file.write", i.other>>}
    BY <1>17 DEF Uses, CacheReads, CacheWrites, DbReads, DbWrites, FileReads, FileWrites, QueryOps, ScheduleOps
  <2>2. QED BY <1>17, <2>1 DEF Asserted, ReadCaps
<1>18. CASE i.op = "db.exec"
  <2>1. Alters(i) <=> ~i.selects
    BY <1>18 DEF Alters
  <2>2. Uses(i) = {<<IF i.selects THEN "db.read" ELSE "db.write", i.need>>}
    BY <1>18, <2>1 DEF Uses, Right, CacheReads, CacheWrites, DbReads, DbWrites, FileReads, FileWrites, QueryOps, ScheduleOps
  <2>3. QED BY <1>18, <2>1, <2>2 DEF Asserted, ReadCaps
<1>19. QED
  BY <1>1, <1>2, <1>3, <1>4, <1>5, <1>6, <1>7, <1>8, <1>9, <1>10, <1>11, <1>12, <1>13, <1>14, <1>15, <1>16, <1>17, <1>18 DEF HostOps

LEMMA HostErrors == \A op : op \in HostOps => HostError(op) # "KeyError"
BY DEF HostError

(* What reaches the host was permitted, so both promises survive it.       *)
LEMMA EffectOK ==
    ASSUME NEW sent, Effect(sent), Permitted, Inst.op \in HostOps, PureKept(Fn),
           module' = module, OnlyDeclared, PureOnlyReads
    PROVE  OnlyDeclared' /\ PureOnlyReads'
<1> DEFINE e0 == [fn |-> Top.fn, inst |-> Inst, sent |-> sent]
<1>1. effects' = effects \cup {e0}
  BY DEF Effect
<1>2. e0.fn = Top.fn /\ e0.inst = Inst
  OBVIOUS
<1> HIDE DEF e0
<1>3. \A u \in Uses(Inst) : \E c \in Fn.caps : c.name = u[1] /\ ScopeAllows(c.scope, u[2])
  <2>1. Uses(Inst) \subseteq Asserted(Inst)
    BY UsesAsserted
  <2>2. QED BY <2>1 DEF Permitted, Holds
<1>4. ASSUME NEW scope, NEW need, ScopeAllows(scope, need),
             "prefix" \in DOMAIN need, "prefix" \in DOMAIN scope
      PROVE  scope.prefix = Star \/ IsPrefix(scope.prefix, need.prefix)
  <2>1. KeyAllows("prefix", scope["prefix"], need["prefix"])
    BY <1>4 DEF ScopeAllows
  <2>2. QED BY <2>1 DEF KeyAllows
<1>5. \A u \in Uses(e0.inst) : \E c \in module[e0.fn].caps :
        /\ c.name = u[1]
        /\ "prefix" \in DOMAIN u[2] /\ "prefix" \in DOMAIN c.scope =>
             c.scope.prefix = Star \/ IsPrefix(c.scope.prefix, u[2].prefix)
  BY <1>2, <1>3, <1>4 DEF Fn
<1>6. module[e0.fn].pure => ~Alters(e0.inst)
  <2> SUFFICES ASSUME Fn.pure, Alters(Inst) PROVE FALSE
    BY <1>2 DEF Fn
  <2>1. PICK u \in Uses(Inst) : u[1] \notin ReadCaps
    BY UsesAsserted
  <2>2. PICK c \in Fn.caps : c.name = u[1]
    BY <1>3
  <2>3. QED BY <2>1, <2>2 DEF PureKept
<1>7. OnlyDeclared'
  BY <1>1, <1>5 DEF OnlyDeclared
<1>8. PureOnlyReads'
  BY <1>1, <1>6 DEF PureOnlyReads
<1>9. QED BY <1>7, <1>8

-----------------------------------------------------------------------------
(* The ways an instruction ends.  Result is what each leaves of the stack. *)

Result ==
    \/ stack' = <<>> /\ phase' = "done" /\ (outcome' = "KeyError" => Unchecked)
    \/ IsStack(stack') /\ stack' # <<>> /\ UNCHANGED <<phase, outcome>>

LEMMA StopOK == ASSUME NEW code, code # "KeyError", Stop(code) PROVE Result
BY DEF Stop, Result

(* The frame on top, while it has an instruction to execute.               *)
LEMMA TopFact ==
    ASSUME IsStack(stack), stack # <<>>
    PROVE  /\ Len(stack) \in Nat /\ Len(stack) > 0
           /\ Top = stack[Len(stack)] /\ IsFrame(Top)
<1>1. Len(stack) \in Nat /\ stack = [i \in 1 .. Len(stack) |-> stack[i]]
  BY DEF IsStack
<1>2. Len(stack) # 0
  <2>1. ASSUME Len(stack) = 0 PROVE FALSE
    <3>1. stack = [i \in 1 .. 0 |-> stack[i]] /\ 1 .. 0 = {}
      BY <1>1, <2>1
    <3>2. stack = <<>>
      BY <3>1
    <3>3. QED BY <3>2
  <2>2. QED BY <2>1
<1>3. Len(stack) \in 1 .. Len(stack)
  BY <1>1, <1>2
<1>4. QED BY <1>1, <1>2, <1>3 DEF IsStack, Top, Last

LEMMA CountedFact ==
    ASSUME IsStack(stack), stack # <<>>, Top.ops + 1 <= MaxOps
    PROVE  /\ IsFrame(Counted)
           /\ Counted.pc = Top.pc /\ Counted.fn = Top.fn /\ DOMAIN Counted = DOMAIN Top
<1>1. IsFrame(Top)
  BY TopFact
<1>2. Top.ops + 1 \in Nat
  BY <1>1 DEF IsFrame
<1>3. /\ DOMAIN Counted = DOMAIN Top
      /\ Counted.ops = Top.ops + 1 /\ Counted.fn = Top.fn /\ Counted.pc = Top.pc
      /\ Counted.more = Top.more
  BY <1>1 DEF Counted, IsFrame
<1>4. QED BY <1>1, <1>2, <1>3 DEF IsFrame

LEMMA GotoOK ==
    ASSUME IsStack(stack), stack # <<>>, Top.ops + 1 <= MaxOps,
           NEW pc \in 1 .. Len(Fn.code) + 1, Goto(pc)
    PROVE  Result
<1> DEFINE f == [Counted EXCEPT !.pc = pc]
<1>1. IsFrame(Counted) /\ Counted.fn = Top.fn
  BY CountedFact
<1>2. /\ DOMAIN f = DOMAIN Counted /\ f.pc = pc /\ f.fn = Counted.fn /\ f.ops = Counted.ops
      /\ f.more = Counted.more
  BY <1>1 DEF IsFrame
<1>3. stack' = [stack EXCEPT ![Len(stack)] = f] /\ UNCHANGED <<phase, outcome>>
  BY DEF Goto
<1> HIDE DEF f
<1>4. IsFrame(f)
  BY <1>1, <1>2 DEF IsFrame, Fn
<1>5. QED BY <1>3, <1>4, TopReplaced DEF Result

LEMMA PutOK ==
    ASSUME IsStack(stack), stack # <<>>, Top.ops + 1 <= MaxOps, Top.pc <= Len(Fn.code),
           Len(Fn.code) \in Nat, NEW r, NEW v, Put(r, v)
    PROVE  Result
<1> DEFINE f == [Counted EXCEPT !.pc = @ + 1,
                                !.regs = IF r = Nil THEN @ ELSE [@ EXCEPT ![r] = v]]
<1>1. IsFrame(Counted) /\ Counted.fn = Top.fn /\ Counted.pc = Top.pc
  BY CountedFact
<1>2. DOMAIN f = DOMAIN Counted /\ f.pc = Counted.pc + 1 /\ f.fn = Counted.fn
      /\ f.ops = Counted.ops /\ f.more = Counted.more
  BY <1>1 DEF IsFrame
<1>3. stack' = [stack EXCEPT ![Len(stack)] = f] /\ UNCHANGED <<phase, outcome>>
  BY DEF Put
<1> HIDE DEF f
<1>4. IsFrame(f)
  <2>1. Counted.pc \in 1 .. Len(Fn.code) + 1
    BY <1>1 DEF IsFrame, Fn
  <2>2. f.pc \in 1 .. Len(Fn.code) + 1
    BY <1>1, <1>2, <2>1
  <2>3. QED BY <1>1, <1>2, <2>2 DEF IsFrame, Fn
<1>5. QED BY <1>3, <1>4, TopReplaced DEF Result

LEMMA NewFrameOK ==
    ASSUME ModuleInv, NEW n \in Declared, NEW args, NEW dst, NEW how, NEW more \in 0 .. MaxPairs
    PROVE  IsFrame(NewFrame(n, args, dst, how, more))
<1>1. Len(module[n].code) \in Nat /\ 1 \in 1 .. Len(module[n].code) + 1
  BY LenProperties DEF ModuleInv, IsFunction
<1>2. 0 \in Nat /\ 0 <= MaxOps
  BY MachineAssumption
<1> DEFINE g == [fn |-> n, pc |-> 1, ops |-> 0, regs |-> Bound(args), dst |-> dst, how |-> how,
                 more |-> more]
<1>3. NewFrame(n, args, dst, how, more) = g
  BY DEF NewFrame, Frame
<1>4. /\ DOMAIN g = {"fn", "pc", "ops", "regs", "dst", "how", "more"}
      /\ g.fn = n /\ g.pc = 1 /\ g.ops = 0 /\ g.more = more
  OBVIOUS
<1> HIDE DEF g
<1>5. IsFrame(g)
  BY <1>1, <1>2, <1>4 DEF IsFrame
<1>6. QED BY <1>3, <1>5

LEMMA InvokeOK ==
    ASSUME ModuleInv, IsStack(stack), stack # <<>>, Top.ops + 1 <= MaxOps,
           Top.pc <= Len(Fn.code),
           NEW n, NEW args, NEW dst, NEW how, NEW more \in 0 .. MaxPairs,
           Invoke(n, args, dst, how, more)
    PROVE  Result
<1>1. CASE Stop("E_COMPILE") \/ Stop("E_ARG") \/ Stop("E_FAIL")
  BY <1>1, StopOK
<1>2. CASE /\ n \in Declared /\ Len(stack) # MaxDepth
           /\ stack' = Append([stack EXCEPT ![Len(stack)] = Counted],
                              NewFrame(n, args, dst, how, more))
           /\ UNCHANGED <<phase, outcome>>
  <2>1. IsFrame(NewFrame(n, args, dst, how, more))
    BY <1>2, NewFrameOK
  <2>2. IsFrame(Counted) /\ Counted.pc <= Len(module[Counted.fn].code)
    BY CountedFact DEF Fn
  <2>3. Len(stack) < MaxDepth
    BY <1>2, MachineAssumption DEF IsStack
  <2>4. QED BY <1>2, <2>1, <2>2, <2>3, Pushed DEF Result
<1>3. QED BY <1>1, <1>2 DEF Invoke

LEMMA ResumedFact ==
    ASSUME NEW f, IsFrame(f), NEW v
    PROVE  /\ DOMAIN Resumed(f, v) = DOMAIN f
           /\ Resumed(f, v).pc = f.pc + 1 /\ Resumed(f, v).fn = f.fn
           /\ Resumed(f, v).ops = f.ops /\ Resumed(f, v).more = f.more
BY DEF Resumed, IsFrame

LEMMA ReturnOK ==
    ASSUME ModuleInv, IsStack(stack), stack # <<>>, NEW v, Return(v)
    PROVE  Result
<1>1. CASE Stop("ok")
  BY <1>1, StopOK
<1>2. CASE NextPair /\ Top.more > 0
  <2>1. IsFrame(Top)
    BY TopFact
  <2>2. Top.fn \in Declared /\ Top.more - 1 \in 0 .. MaxPairs
    BY <1>2, <2>1, MachineAssumption DEF IsFrame
  <2>3. \A d : IsFrame(NewFrame(Top.fn, <<d, 1>>, Top.dst, "query", Top.more - 1))
    BY <2>2, NewFrameOK
  <2>4. QED BY <1>2, <2>3, TopReplaced DEF NextPair, Result
<1>3. ASSUME NEW got, HandUp(got), Len(stack) # 1 PROVE Result
  <2> DEFINE n == Len(stack) - 1
             f == Resumed(stack[n], got)
             u == [i \in 1 .. n |-> IF i < n THEN stack[i] ELSE f]
  <2>1. n \in Nat /\ n + 1 = Len(stack) /\ n > 0
    <3>1. Len(stack) \in Nat /\ Len(stack) > 0
      BY TopFact
    <3>2. \A k \in Nat : k > 0 /\ k # 1 => k - 1 \in Nat /\ k - 1 + 1 = k /\ k - 1 > 0
      OBVIOUS
    <3> HIDE DEF f, u
    <3>3. QED BY <1>3, <3>1, <3>2
  <2>2. /\ stack' = [i \in 1 .. n |-> IF i < n THEN stack[i] ELSE Resumed(stack[i], got)]
        /\ UNCHANGED <<phase, outcome>>
    BY <1>3 DEF HandUp
  <2>3. \A i \in 1 .. n : ~(i < n) => i = n
    <3> HIDE DEF n
    <3>1. QED BY <2>1
  <2>4. stack' = u
    BY <2>2, <2>3
  <2>5. IsFrame(stack[n]) /\ stack[n].pc <= Len(module[stack[n].fn].code)
    <3>1. n \in 1 .. Len(stack) /\ n < Len(stack)
      BY <2>1
    <3>2. QED BY <3>1 DEF IsStack
  <2>6. DOMAIN f = DOMAIN stack[n] /\ f.pc = stack[n].pc + 1 /\ f.fn = stack[n].fn
        /\ f.ops = stack[n].ops /\ f.more = stack[n].more
    BY <2>5, ResumedFact
  <2> HIDE DEF f
  <2>7. IsFrame(f)
    <3>1. Len(module[stack[n].fn].code) \in Nat
      BY <2>5, LenProperties DEF ModuleInv, IsFunction, IsFrame
    <3>2. f.pc \in 1 .. Len(module[stack[n].fn].code) + 1
      BY <2>5, <2>6, <3>1 DEF IsFrame
    <3>3. QED BY <2>5, <2>6, <3>2 DEF IsFrame
  <2> HIDE DEF n
  <2> DEFINE w == u
  <2>8. w = [i \in 1 .. n |-> IF i < n THEN stack[i] ELSE f]
    OBVIOUS
  <2> HIDE DEF w
  <2>9. IsStack(w) /\ w # <<>>
    BY <2>1, <2>7, <2>8, Popped
  <2>10. QED BY <2>2, <2>4, <2>8, <2>9 DEF Result
<1>4. QED BY <1>1, <1>2, <1>3 DEF Return

-----------------------------------------------------------------------------
(* One instruction.                                                        *)

(* What an instruction that does not reach the host leaves.                *)
LEMMA ControlOK ==
    ASSUME ModuleInv, IsStack(stack), stack # <<>>, Top.ops + 1 <= MaxOps,
           Top.pc <= Len(Fn.code), Len(Fn.code) \in Nat, Control
    PROVE  Result
<1> DEFINE args == [i \in DOMAIN Inst.args |-> Read(Inst.args[i])]
<1>1. \/ \E r, v : Put(r, v)
      \/ Return(Read(Inst.args[1]))
      \/ Stop("E_FAIL")
      \/ Invoke(Inst.to, args, Inst.dst, "call", 0)
  <2>1. CASE Inst.op = "nop"
    BY <2>1 DEF Control
  <2>2. CASE Inst.op = "mov"
    BY <2>2 DEF Control
  <2>3. CASE Inst.op = "ret"
    BY <2>3 DEF Control
  <2>4. CASE Inst.op = "fail"
    BY <2>4 DEF Control
  <2>5. CASE Inst.op = "call"
    BY <2>5 DEF Control
  <2>6. CASE Inst.op = "dbg.assert"
    BY <2>6 DEF Control
  <2>7. QED BY <2>1, <2>2, <2>3, <2>4, <2>5, <2>6 DEF Control
<1> HIDE DEF args
<1>2. 0 \in 0 .. MaxPairs
  BY MachineAssumption
<1>3. QED BY <1>1, <1>2, PutOK, ReturnOK, StopOK, InvokeOK

(* A jump goes to its label, which lies in the code, and which is there if *)
(* the assembler has checked it.                                           *)
LEMMA JumpOK ==
    ASSUME IsStack(stack), stack # <<>>, Top.ops + 1 <= MaxOps,
           Top.pc \in 1 .. Len(Fn.code), Len(Fn.code) \in Nat, Top.fn \in Declared,
           FunctionOK(Fn), LabelsKnown(Fn), Inst \in Insts(Fn), Jump
    PROVE  Result
<1>1. Top.pc + 1 \in 1 .. Len(Fn.code) + 1
  OBVIOUS
<1>2. Inst.label \in DOMAIN Fn.labels => Fn.labels[Inst.label] \in 1 .. Len(Fn.code) + 1
  BY DEF FunctionOK
<1>3. Inst.label \notin DOMAIN Fn.labels => Unchecked
  <2>1. Inst.label \notin DOMAIN Fn.labels => ~Checked(Inst)
    BY DEF LabelsKnown, Checked
  <2>2. QED BY <2>1 DEF Unchecked, Jump, Fn
<1>4. \/ Stop("E_FAIL") \/ Goto(Top.pc + 1)
      \/ Inst.label \in DOMAIN Fn.labels /\ Goto(Fn.labels[Inst.label])
      \/ Inst.label \notin DOMAIN Fn.labels /\ Stop("KeyError")
  BY DEF Jump
<1>5. CASE Inst.label \notin DOMAIN Fn.labels /\ Stop("KeyError")
  BY <1>3, <1>5 DEF Stop, Result
<1>6. QED BY <1>1, <1>2, <1>4, <1>5, GotoOK, StopOK

LEMMA HostOK ==
    ASSUME ModuleInv, IsStack(stack), stack # <<>>, Top.ops + 1 <= MaxOps,
           Top.pc <= Len(Fn.code), Len(Fn.code) \in Nat, Host
    PROVE  /\ Result
           /\ \/ effects' = effects
              \/ Permitted /\ Inst.op \in HostOps /\ \E sent : Effect(sent)
<1>1. CASE ~Permitted
  BY <1>1, StopOK DEF Host
<1>2. CASE Permitted /\ Inst.op \in QueryOps \cup InjectOps
  <2>1. Exchange
    BY <1>2 DEF Host
  <2>2. \/ \E ok \in Answers : Put(Inst.dst, ok)
        \/ Stop("E_SCHEMA")
        \/ \E pairs \in 1 .. MaxPairs, decoded \in {0, 1} :
             Invoke(Inst.to, <<decoded, 1>>, Inst.dst, "query", pairs - 1)
    BY <2>1 DEF Exchange
  <2>3. Inst.op \in HostOps /\ \E sent : Effect(sent)
    BY <2>1 DEF Host, Exchange
  <2>4. \A pairs \in 1 .. MaxPairs : pairs - 1 \in 0 .. MaxPairs
    BY MachineAssumption
  <2>5. QED BY <1>2, <2>2, <2>3, <2>4, PutOK, StopOK, InvokeOK
<1>3. CASE Permitted /\ Inst.op \notin QueryOps \cup InjectOps
  <2>1. Effect(FALSE) /\ (Put(Inst.dst, 1) \/ Stop(HostError(Inst.op))) /\ Inst.op \in HostOps
    BY <1>3 DEF Host
  <2>2. QED BY <1>3, <2>1, PutOK, StopOK, HostErrors
<1>4. QED BY <1>1, <1>2, <1>3

LEMMA StepOK ==
    ASSUME IInv, Step
    PROVE  IInv'
<1>1. /\ ModuleInv /\ IsStack(stack) /\ stack # <<>> /\ phase = "running" /\ outcome = "none"
      /\ CheckModule = "ok" /\ OnlyDeclared /\ PureOnlyReads
      /\ mode \in {"live", "replay"}
  BY DEF IInv, StackInv, CheckedInv, Step
<1>2. UNCHANGED <<bare, current, module, lines, mode>>
  BY DEF Step
<1>3. IsFrame(Top) /\ Fn = module[Top.fn]
  BY <1>1, TopFact DEF Fn
<1>4. IsFunction(Fn) /\ Top.fn \in Declared
  BY <1>1, <1>3 DEF IsFrame, ModuleInv
<1>5. PureKept(Fn) /\ LabelsKnown(Fn)
  <2>1. \A n \in Declared : PureKept(module[n]) /\ LabelsKnown(module[n])
    BY <1>1 DEF CheckModule
  <2>2. QED BY <1>3, <1>4, <2>1
<1>6. Fn.code \in Seq(Instructions) /\ Len(Fn.code) \in Nat /\ DOMAIN Fn.code = 1 .. Len(Fn.code)
  BY <1>4, LenProperties DEF IsFunction
<1>7. /\ Result
      /\ \/ effects' = effects
         \/ Permitted /\ Inst.op \in HostOps /\ \E sent : Effect(sent)
  <2>1. CASE Return(Nil) /\ effects' = effects
    BY <1>1, <2>1, ReturnOK
  <2>2. CASE Stop("E_LIMIT_OPS") /\ effects' = effects
    BY <2>2, StopOK
  <2>3. CASE /\ ~(Top.pc > Len(Fn.code)) /\ ~(Top.ops + 1 > MaxOps)
             /\ Control \/ Jump \/ Arithmetic \/ Host \/ Unknown
    <3>1. Top.ops + 1 <= MaxOps
      BY <1>3, <2>3, MachineAssumption DEF IsFrame
    <3>2. Top.pc \in 1 .. Len(Fn.code) /\ Top.pc <= Len(Fn.code)
      BY <1>3, <1>6, <2>3 DEF IsFrame
    <3>3. Inst \in Insts(Fn)
      BY <1>6, <3>2 DEF Inst, Insts
    <3>4. CASE Control
      <4>1. Result
        BY <1>1, <1>6, <3>1, <3>2, <3>4, ControlOK
      <4>2. QED BY <3>4, <4>1 DEF Control
    <3>5. CASE Jump
      <4>1. FunctionOK(Fn)
        BY <1>4 DEF IsFunction
      <4>2. Result
        BY <1>1, <1>4, <1>5, <1>6, <3>1, <3>2, <3>3, <3>5, <4>1, JumpOK
      <4>3. QED BY <3>5, <4>2 DEF Jump
    <3>6. CASE Arithmetic
      <4>1. Stop("E_FAIL") \/ \E v : Put(Inst.dst, v)
        BY <3>6 DEF Arithmetic
      <4>2. Result
        BY <1>1, <1>6, <3>1, <3>2, <4>1, StopOK, PutOK
      <4>3. QED BY <3>6, <4>2 DEF Arithmetic
    <3>7. CASE Host
      BY <1>1, <1>6, <3>1, <3>2, <3>7, HostOK
    <3>8. CASE Unknown
      BY <3>8, StopOK DEF Unknown
    <3>9. QED BY <2>3, <3>4, <3>5, <3>6, <3>7, <3>8
  <2>4. QED BY <2>1, <2>2, <2>3 DEF Step
<1>8. ModuleInv'
  BY <1>1, <1>2 DEF ModuleInv, Declared
<1>9. OnlyDeclared' /\ PureOnlyReads'
  <2>1. CASE effects' = effects
    BY <1>1, <1>2, <2>1 DEF OnlyDeclared, PureOnlyReads
  <2>2. CASE Permitted /\ Inst.op \in HostOps /\ \E sent : Effect(sent)
    BY <1>1, <1>2, <1>5, <2>2, EffectOK
  <2>3. QED BY <1>7, <2>1, <2>2
<1>10. CASE stack' = <<>> /\ phase' = "done" /\ (outcome' = "KeyError" => Unchecked)
  <2>1. StackInv'
    <3>1. IsStack(<<>>)'
      BY EmptyStack, <1>2 DEF IsStack, IsFrame, Declared
    <3>2. QED BY <1>10, <3>1 DEF StackInv
  <2>2. CheckedInv' /\ (outcome' = "KeyError" => Unchecked')
    BY <1>2, <1>10 DEF CheckedInv, Unchecked, Declared, Insts
  <2>3. QED BY <1>1, <1>2, <1>8, <1>9, <1>10, <2>1, <2>2 DEF IInv
<1>11. CASE IsStack(stack') /\ stack' # <<>> /\ UNCHANGED <<phase, outcome>>
  <2>1. IsStack(stack)'
    BY <1>2, <1>11 DEF IsStack, IsFrame, Declared
  <2>2. StackInv'
    BY <1>1, <1>11, <2>1 DEF StackInv
  <2>3. CheckedInv' /\ outcome' # "KeyError"
    BY <1>1, <1>2, <1>11
       DEF CheckedInv, CheckModule, Declared, PureKept, LabelsKnown, CallsKnown, Insts
  <2>4. QED BY <1>1, <1>2, <1>8, <1>9, <1>11, <2>2, <2>3 DEF IInv
<1>12. QED BY <1>7, <1>10, <1>11 DEF Result

-----------------------------------------------------------------------------
(* Reading the source.                                                     *)

LEMMA NewFunctionOK ==
    ASSUME NEW n \in Names, NEW arity \in Nat, NEW pure \in BOOLEAN
    PROVE  IsFunction(NewFunction(n, arity, pure))
<1>1. <<>> \in Seq(Instructions) /\ DOMAIN <<>> = {}
  BY EmptySeq
<1>2. QED BY <1>1 DEF IsFunction, FunctionOK, NewFunction

LEMMA ExtendedOK ==
    ASSUME IsFunction(current), NEW l \in Lines, l.kind \in {"pure", "cap", "label", "inst"}
    PROVE  IsFunction(Extended(l))
<1> DEFINE D == {"name", "arity", "pure", "caps", "code", "labels"}
<1>1. /\ DOMAIN current = D /\ current.code \in Seq(Instructions)
      /\ current.name \in Names /\ current.arity \in Nat /\ current.pure \in BOOLEAN
      /\ \A x \in DOMAIN current.labels : current.labels[x] \in 1 .. Len(current.code) + 1
      /\ Len(current.code) \in Nat
  BY LenProperties DEF IsFunction, FunctionOK
<1>2. CASE l.kind = "pure"
  <2> DEFINE g == [current EXCEPT !.pure = l.pure]
  <2>1. Extended(l) = g
    BY <1>2 DEF Extended
  <2>2. /\ DOMAIN g = D /\ g.code = current.code /\ g.name = current.name
        /\ g.arity = current.arity /\ g.labels = current.labels /\ g.pure = l.pure
    BY <1>1
  <2>3. l.pure \in BOOLEAN
    BY <1>2, LinesAssumption
  <2> HIDE DEF g
  <2>4. QED BY <1>1, <2>1, <2>2, <2>3 DEF IsFunction, FunctionOK
<1>3. CASE l.kind = "cap"
  <2> DEFINE g == [current EXCEPT !.caps = @ \cup {l.cap}]
  <2>1. Extended(l) = g
    BY <1>3 DEF Extended
  <2>2. /\ DOMAIN g = D /\ g.code = current.code /\ g.name = current.name
        /\ g.arity = current.arity /\ g.labels = current.labels /\ g.pure = current.pure
    BY <1>1
  <2> HIDE DEF g
  <2>3. QED BY <1>1, <2>1, <2>2 DEF IsFunction, FunctionOK
<1>4. CASE l.kind = "label"
  <2> DEFINE k == Len(current.code) + 1
             ls == Goes(current.labels, l.label, k)
             g == [current EXCEPT !.labels = ls]
  <2>1. Extended(l) = g
    BY <1>4 DEF Extended
  <2>2. /\ DOMAIN g = D /\ g.code = current.code /\ g.name = current.name
        /\ g.arity = current.arity /\ g.labels = ls /\ g.pure = current.pure
    BY <1>1
  <2>3. k \in 1 .. k
    BY <1>1
  <2>4. \A x \in DOMAIN ls : ls[x] \in 1 .. k
    BY <1>1, <2>3 DEF Goes
  <2> HIDE DEF g, ls
  <2>5. QED BY <1>1, <2>1, <2>2, <2>4 DEF IsFunction, FunctionOK
<1>5. CASE l.kind = "inst"
  <2> DEFINE c == Append(current.code, l.inst)
             g == [current EXCEPT !.code = c]
  <2>1. Extended(l) = g
    BY <1>5 DEF Extended
  <2>2. /\ DOMAIN g = D /\ g.code = c /\ g.name = current.name
        /\ g.arity = current.arity /\ g.labels = current.labels /\ g.pure = current.pure
    BY <1>1
  <2>3. l.inst \in Instructions
    BY <1>5 DEF Instructions
  <2>4. c \in Seq(Instructions) /\ Len(c) = Len(current.code) + 1
    BY <1>1, <2>3, AppendProperties
  <2> HIDE DEF g, c
  <2>5. \A x \in DOMAIN current.labels : current.labels[x] \in 1 .. Len(c) + 1
    BY <1>1, <2>4
  <2>6. QED BY <1>1, <2>1, <2>2, <2>4, <2>5 DEF IsFunction, FunctionOK
<1>6. QED BY <1>2, <1>3, <1>4, <1>5

LEMMA ReadOK ==
    ASSUME IInv, ReadLine
    PROVE  IInv'
<1>1. /\ ModuleInv /\ phase = "reading" /\ outcome = "none" /\ effects = {} /\ stack = <<>>
      /\ mode \in {"live", "replay"}
  BY DEF IInv, StackInv, CheckedInv, ReadLine
<1>2. UNCHANGED <<bare, mode, effects>>
  BY DEF ReadLine
<1>3. PICK l \in Lines : Declare(l) \/ End(l) \/ Body(l)
  BY DEF ReadLine
<1>4. stack' = <<>> /\ \/ phase' = "done" /\ outcome' # "KeyError"
                       \/ phase' = "reading" /\ outcome' = "none"
  <2>1. CASE Declare(l)
    BY <1>1, <2>1 DEF Declare, Stop
  <2>2. CASE End(l)
    BY <1>1, <2>2 DEF End, Stop
  <2>3. CASE Body(l)
    BY <1>1, <2>3 DEF Body, Stop
  <2>4. QED BY <1>3, <2>1, <2>2, <2>3
<1>5. ModuleInv'
  <2>1. CASE Declare(l)
    <3>1. l.name \in Names /\ l.arity \in Nat
      BY <2>1, LinesAssumption DEF Declare
    <3>2. IsFunction(NewFunction(l.name, l.arity, TRUE))
      BY <3>1, NewFunctionOK
    <3>3. module' = module /\ (current' = current \/ current' = NewFunction(l.name, l.arity, TRUE))
      BY <2>1 DEF Declare
    <3>4. QED BY <1>1, <3>2, <3>3 DEF ModuleInv, Declared
  <2>2. CASE End(l)
    <3>1. CASE UNCHANGED <<current, module>>
      BY <1>1, <3>1 DEF ModuleInv, Declared
    <3>2. CASE current # Nil /\ module' = [module EXCEPT ![current.name] = current] /\ current' = Nil
      <4>1. IsFunction(current) /\ current.name \in Names
        BY <1>1, <3>2 DEF ModuleInv, IsFunction, FunctionOK
      <4>2. QED BY <1>1, <3>2, <4>1 DEF ModuleInv, Declared
    <3>3. QED BY <2>2, <3>1, <3>2 DEF End
  <2>3. CASE Body(l)
    <3>1. module' = module /\ (current' = current \/ (current # Nil /\ current' = Extended(l)))
      BY <2>3 DEF Body
    <3>2. current # Nil => IsFunction(Extended(l))
      BY <1>1, <2>3, ExtendedOK DEF Body, ModuleInv
    <3>3. QED BY <1>1, <3>1, <3>2 DEF ModuleInv, Declared
  <2>4. QED BY <1>3, <2>1, <2>2, <2>3
<1>6. StackInv'
  <2>1. IsStack(stack)'
    <3>1. Len(<<>>) = 0 /\ 1 .. 0 = {} /\ <<>> = [i \in 1 .. 0 |-> <<>>[i]] /\ 0 <= MaxDepth
      BY MachineAssumption
    <3>2. QED BY <1>4, <3>1 DEF IsStack
  <2>2. QED BY <1>4, <2>1 DEF StackInv
<1>7. CheckedInv' /\ outcome' # "KeyError" /\ OnlyDeclared' /\ PureOnlyReads'
  BY <1>1, <1>2, <1>4 DEF CheckedInv, OnlyDeclared, PureOnlyReads
<1>8. QED BY <1>1, <1>2, <1>4, <1>5, <1>6, <1>7 DEF IInv

LEMMA FinishOK ==
    ASSUME IInv, Finish
    PROVE  IInv'
<1>1. /\ ModuleInv /\ phase = "reading" /\ outcome = "none" /\ effects = {} /\ stack = <<>>
      /\ mode \in {"live", "replay"}
  BY DEF IInv, StackInv, CheckedInv, Finish
<1>2. UNCHANGED <<bare, lines, mode, effects, module, current>>
  BY DEF Finish
<1>3. ModuleInv'
  BY <1>1, <1>2 DEF ModuleInv, Declared
<1>4. OnlyDeclared' /\ PureOnlyReads'
  BY <1>1, <1>2 DEF OnlyDeclared, PureOnlyReads
<1>5. \/ \E code : code # "KeyError" /\ Stop(code)
      \/ /\ CheckModule = "ok" /\ Main \in Declared
         /\ phase' = "running" /\ outcome' = outcome
         /\ \E v : stack' = <<NewFrame(Main, <<v>>, Nil, "call", 0)>>
  <2>1. CheckModule # "KeyError"
    BY DEF CheckModule
  <2>2. CASE current # Nil
    BY <2>2 DEF Finish
  <2>3. CASE current = Nil /\ CheckModule # "ok"
    BY <2>1, <2>3 DEF Finish
  <2>4. CASE current = Nil /\ CheckModule = "ok" /\ Main \notin Declared
    BY <2>4 DEF Finish
  <2>5. CASE current = Nil /\ CheckModule = "ok" /\ Main \in Declared
    BY <2>5 DEF Finish
  <2>6. QED BY <2>2, <2>3, <2>4, <2>5
<1>6. CASE \E code : code # "KeyError" /\ Stop(code)
  <2>1. stack' = <<>> /\ phase' = "done" /\ outcome' # "KeyError"
    BY <1>6 DEF Stop
  <2>2. IsStack(stack)'
    <3>1. Len(<<>>) = 0 /\ 1 .. 0 = {} /\ <<>> = [i \in 1 .. 0 |-> <<>>[i]] /\ 0 <= MaxDepth
      BY MachineAssumption
    <3>2. QED BY <2>1, <3>1 DEF IsStack
  <2>3. StackInv' /\ CheckedInv'
    BY <2>1, <2>2 DEF StackInv, CheckedInv
  <2>4. QED BY <1>1, <1>2, <1>3, <1>4, <2>1, <2>3 DEF IInv
<1>7. ASSUME NEW v, CheckModule = "ok", Main \in Declared, phase' = "running",
             outcome' = outcome, stack' = <<NewFrame(Main, <<v>>, Nil, "call", 0)>>
      PROVE  IInv'
  <2> DEFINE g == NewFrame(Main, <<v>>, Nil, "call", 0)
  <2>1. IsFrame(g)
    <3>1. 0 \in 0 .. MaxPairs
      BY MachineAssumption
    <3>2. QED BY <1>1, <1>7, <3>1, NewFrameOK
  <2>2. stack' = <<g>>
    BY <1>7
  <2> HIDE DEF g
  <2>3. Len(<<g>>) = 1 /\ <<g>>[1] = g /\ <<g>> # <<>> /\ <<g>> = [i \in 1 .. 1 |-> <<g>>[i]]
    OBVIOUS
  <2>4. 1 <= MaxDepth /\ \A i \in 1 .. 1 : i = 1
    BY MachineAssumption
  <2>5. IsStack(stack')
    BY <2>1, <2>2, <2>3, <2>4 DEF IsStack
  <2>6. IsStack(stack)'
    BY <1>2, <2>5 DEF IsStack, IsFrame, Declared
  <2>7. StackInv'
    BY <1>7, <2>2, <2>3, <2>6 DEF StackInv
  <2>8. CheckedInv' /\ outcome' # "KeyError"
    BY <1>1, <1>2, <1>7
       DEF CheckedInv, CheckModule, Declared, PureKept, LabelsKnown, CallsKnown, Insts
  <2>9. QED BY <1>1, <1>2, <1>3, <1>4, <1>7, <2>7, <2>8 DEF IInv
<1>8. QED BY <1>5, <1>6, <1>7

-----------------------------------------------------------------------------
LEMMA InitOK == ASSUME Init PROVE IInv
<1>1. ModuleInv
  <2>1. IsFunction(NewFunction(Main, 1, FALSE))
    BY MachineAssumption, NewFunctionOK
  <2>2. QED BY <2>1 DEF Init, ModuleInv, Declared
<1>2. StackInv /\ CheckedInv
  BY EmptyStack DEF Init, StackInv, CheckedInv
<1>3. QED BY <1>1, <1>2 DEF Init, IInv, OnlyDeclared, PureOnlyReads

LEMMA Inductive == Spec => []IInv
<1>1. Init => IInv
  BY InitOK
<1>2. IInv /\ [Next]_vars => IInv'
  <2> SUFFICES ASSUME IInv, [Next]_vars PROVE IInv'
    OBVIOUS
  <2>1. CASE Next
    BY <2>1, ReadOK, FinishOK, StepOK DEF Next
  <2>2. CASE UNCHANGED vars
    BY <2>2 DEF IInv, vars, ModuleInv, StackInv, CheckedInv, OnlyDeclared, PureOnlyReads,
                Unchecked, Insts, IsStack, IsFrame, Declared, CheckModule, CallsKnown
  <2>3. QED BY <2>1, <2>2
<1>3. QED BY <1>1, <1>2, PTL DEF Spec

(* A script stays inside its code and its rights: every frame in its code, *)
(* within its budget and the stack within its depth; what reached the host *)
(* was declared by the function that ran, under the right that the manual  *)
(* names for it (host.py assert_capability), what a function without side  *)
(* effects did altered nothing, and a jump whose label is its last argument*)
(* and a string finds it (assembler.py _check_module).                     *)
THEOREM ScriptsStayInside == Spec => []StaysInside
<1>1. IInv => StaysInside
  <2> SUFFICES ASSUME IInv PROVE MachineTypeOK /\ NoDanglingJump
    BY DEF IInv, StaysInside
  <2>1. current = Nil \/ FunctionOK(current)
    BY DEF IInv, ModuleInv, IsFunction
  <2>2. \A n \in Declared : FunctionOK(module[n]) /\ module[n].name = n
    BY DEF IInv, ModuleInv, IsFunction
  <2>3. IsStack(stack) /\ (phase = "running" => stack # <<>>)
    BY DEF IInv, StackInv
  <2>4. DOMAIN stack = 1 .. Len(stack) /\ Len(stack) <= MaxDepth
    BY <2>3 DEF IsStack
  <2>5. \A i \in DOMAIN stack :
          /\ stack[i].pc \in 1 .. Len(module[stack[i].fn].code) + 1
          /\ stack[i].ops <= MaxOps /\ stack[i].more \in 0 .. MaxPairs
    BY <2>3, <2>4 DEF IsStack, IsFrame
  <2>6. ASSUME phase = "running", Top.pc <= Len(Fn.code), Checked(Inst)
        PROVE  Inst.label \in DOMAIN Fn.labels
    <3>1. IsFrame(Top)
      BY <2>3, <2>6, TopFact
    <3>2. Top.fn \in Declared /\ Top.pc \in 1 .. Len(Fn.code) + 1
      BY <3>1 DEF IsFrame, Fn
    <3>3. Fn.code \in Seq(Instructions) /\ Len(Fn.code) \in Nat /\ DOMAIN Fn.code = 1 .. Len(Fn.code)
      BY <3>2, LenProperties DEF IInv, ModuleInv, IsFunction, Fn
    <3>4. Top.pc \in DOMAIN Fn.code
      BY <2>6, <3>2, <3>3
    <3>5. Inst \in Insts(Fn)
      BY <3>4 DEF Inst, Insts
    <3>6. CheckModule = "ok"
      BY <2>6 DEF IInv, CheckedInv
    <3>7. \A n \in Declared : LabelsKnown(module[n])
      BY <3>6 DEF CheckModule
    <3>8. QED BY <2>6, <3>2, <3>5, <3>7 DEF LabelsKnown, Checked, Fn
  <2>7. NoDanglingJump
    BY <2>6 DEF NoDanglingJump, IInv, Unchecked
  <2>8. QED BY <2>1, <2>2, <2>3, <2>4, <2>5, <2>7 DEF MachineTypeOK, IInv
<1>2. QED BY <1>1, Inductive, PTL
-----------------------------------------------------------------------------
(* Every call ends: the order of what is left, and that it has a floor.    *)

LEMMA LeftsFinite == IsFiniteSet(Lefts)
<1> DEFINE D == 1 .. MaxDepth
           N == Letters
           P == SUBSET (D \X N)
           Graph(f) == {<<d, f[d]>> : d \in D}
           g == [f \in Lefts |-> Graph(f)]
<1>1. IsFiniteSet(P)
  <2>1. /\ 1 \in Int /\ MaxDepth \in Int /\ 0 \in Int /\ MaxOps + 1 \in Int
        /\ MaxPairs \in Int
    BY MachineAssumption
  <2>2. IsFiniteSet(D) /\ IsFiniteSet(N)
    BY <2>1, FS_Interval, FS_Product DEF Letters
  <2> HIDE DEF D, N
  <2>3. IsFiniteSet(D \X N)
    BY <2>2, FS_Product
  <2>4. QED BY <2>3, FS_SUBSET
<1>2. g \in [Lefts -> P]
  <2>1. ASSUME NEW f \in Lefts, NEW d \in D PROVE <<d, f[d]>> \in D \X N
    BY DEF Lefts
  <2>2. QED BY <2>1
<1>3. ASSUME NEW f \in Lefts, NEW h \in Lefts, g[f] = g[h] PROVE f = h
  <2>1. Graph(f) = Graph(h)
    BY <1>3
  <2>2. ASSUME NEW d \in D PROVE f[d] = h[d]
    <3>1. <<d, f[d]>> \in Graph(h)
      BY <2>1
    <3>2. PICK e \in D : <<d, f[d]>> = <<e, h[e]>>
      BY <3>1
    <3>3. QED BY <3>2
  <2>3. f \in [D -> N] /\ h \in [D -> N]
    BY DEF Lefts
  <2> HIDE DEF D, N
  <2>4. QED BY <2>2, <2>3
<1> HIDE DEF g, P
<1>4. g \in Injection(Lefts, P)
  BY <1>2, <1>3 DEF Injection, IsInjective
<1>5. QED BY <1>1, <1>4, FS_Injection

(* Fewer is a strict order of letters, and so is Lower of words.           *)
LEMMA FewerOrder ==
    ASSUME NEW a \in Letters, NEW b \in Letters, NEW c \in Letters
    PROVE  /\ ~Fewer(a, a)
           /\ Fewer(a, b) /\ Fewer(b, c) => Fewer(a, c)
<1>1. /\ a[1] \in Int /\ a[2] \in Int /\ b[1] \in Int /\ b[2] \in Int
      /\ c[1] \in Int /\ c[2] \in Int
  BY MachineAssumption DEF Letters
<1>2. QED BY <1>1 DEF Fewer

LEMMA LowerOrder ==
    ASSUME NEW f \in Lefts, NEW g \in Lefts, Lower(f, g)
    PROVE  /\ ~Lower(g, g)
           /\ \A h \in Lefts : Lower(h, f) => Lower(h, g)
<1> DEFINE D == 1 .. MaxDepth
<1>1. /\ D \subseteq Nat
      /\ \A h \in Lefts : \A d \in D : h[d] \in Letters
  BY MachineAssumption DEF Lefts
<1>2. PICK d \in D : Fewer(f[d], g[d]) /\ \A i \in D : i < d => f[i] = g[i]
  BY DEF Lower
<1>3. ~Lower(g, g)
  <2>1. \A e \in D : ~Fewer(g[e], g[e])
    BY <1>1, FewerOrder
  <2>2. QED BY <2>1 DEF Lower
<1>4. ASSUME NEW h \in Lefts, Lower(h, f) PROVE Lower(h, g)
  <2>1. PICK e \in D : Fewer(h[e], f[e]) /\ \A i \in D : i < e => h[i] = f[i]
    BY <1>4 DEF Lower
  <2> HIDE DEF D
  <2>2. d \in Nat /\ e \in Nat /\ \A i \in D : i \in Nat
    BY <1>1
  <2>3. CASE e < d
    <3>1. Fewer(h[e], g[e])
      BY <1>2, <2>1, <2>3
    <3>2. ASSUME NEW i \in D, i < e PROVE h[i] = g[i]
      <4>1. i < d
        BY <2>2, <2>3, <3>2
      <4>2. QED BY <1>2, <2>1, <3>2, <4>1
    <3>3. QED BY <3>1, <3>2 DEF Lower, D
  <2>4. CASE e = d
    <3>1. Fewer(h[d], g[d])
      <4>1. h[d] \in Letters /\ f[d] \in Letters /\ g[d] \in Letters
        BY <1>1
      <4>2. QED BY <1>2, <2>1, <2>4, <4>1, FewerOrder
    <3>2. \A i \in D : i < d => h[i] = g[i]
      BY <1>2, <2>1, <2>4
    <3>3. QED BY <3>1, <3>2 DEF Lower, D
  <2>5. CASE d < e
    <3>1. Fewer(h[d], g[d])
      BY <1>2, <2>1, <2>5
    <3>2. ASSUME NEW i \in D, i < d PROVE h[i] = g[i]
      <4>1. i < e
        BY <2>2, <2>5, <3>2
      <4>2. QED BY <1>2, <2>1, <3>2, <4>1
    <3>3. QED BY <3>1, <3>2 DEF Lower, D
  <2>6. e < d \/ e = d \/ d < e
    BY <2>2
  <2>7. QED BY <2>3, <2>4, <2>5, <2>6
<1>5. QED BY <1>3, <1>4

(* So fewer ways remain below the lower one.                               *)
LEMMA LowerCounts ==
    ASSUME NEW f \in Lefts, NEW g \in Lefts, Lower(f, g)
    PROVE  Cardinality({h \in Lefts : Lower(h, f)}) < Cardinality({h \in Lefts : Lower(h, g)})
<1> DEFINE F == {h \in Lefts : Lower(h, f)}
           G == {h \in Lefts : Lower(h, g)}
<1>1. F \in SUBSET G
  BY LowerOrder
<1>2. f \in G /\ f \notin F
  <2>1. ~Lower(f, f)
    <3>1. \A d \in 1 .. MaxDepth : f[d] \in Letters
      BY DEF Lefts
    <3>2. \A d \in 1 .. MaxDepth : ~Fewer(f[d], f[d])
      BY <3>1, FewerOrder
    <3>3. QED BY <3>2 DEF Lower
  <2>2. QED BY <2>1
<1>3. IsFiniteSet(G)
  <2>1. G \in SUBSET Lefts
    OBVIOUS
  <2> HIDE DEF G
  <2>2. QED BY <2>1, LeftsFinite, FS_Subset
<1> HIDE DEF F, G
<1>4. IsFiniteSet(F) /\ Cardinality(F) <= Cardinality(G) /\ Cardinality(F) # Cardinality(G)
  BY <1>1, <1>2, <1>3, FS_Subset
<1>5. Cardinality(F) \in Nat /\ Cardinality(G) \in Nat
  BY <1>3, <1>4, FS_CardinalityType
<1>6. Cardinality(F) < Cardinality(G)
  BY <1>4, <1>5
<1>7. QED BY <1>6 DEF F, G

LEMMA LeftType ==
    ASSUME NEW s, IsStack(s)
    PROVE  Left(s) \in Lefts
<1>1. DOMAIN s = 1 .. Len(s)
  BY DEF IsStack
<1>2. \A d \in DOMAIN s : s[d].ops \in Nat /\ s[d].ops <= MaxOps /\ s[d].more \in 0 .. MaxPairs
  BY <1>1 DEF IsStack, IsFrame
<1>3. <<0, 0>> \in Letters
  BY MachineAssumption DEF Letters
<1>4. \A k \in Nat : k <= MaxOps => MaxOps + 1 - k \in 0 .. MaxOps + 1
  BY MachineAssumption
<1>5. \A d \in DOMAIN s : <<s[d].more, MaxOps + 1 - s[d].ops>> \in Letters
  BY <1>2, <1>4 DEF Letters
<1>6. QED BY <1>3, <1>5 DEF Left, Lefts

(* What a step does to the frames: below d nothing is spent, and the one   *)
(* at d has spent an instruction or a pair, or is gone.                    *)
Kept(f, g) == f.more = g.more /\ f.ops = g.ops
Used(f, g) == f.more < g.more \/ (f.more = g.more /\ f.ops = g.ops + 1)
Spent(t) ==
    \E d \in 1 .. Len(stack) :
        /\ \A i \in 1 .. Len(stack) : i < d => i \in DOMAIN t /\ Kept(t[i], stack[i])
        /\ d \in DOMAIN t => Used(t[d], stack[d])

LEMMA SpentLowers ==
    ASSUME IsStack(stack), NEW t, Spent(t)
    PROVE  Lower(Left(t), Left(stack))
<1>1. /\ DOMAIN stack = 1 .. Len(stack) /\ Len(stack) \in Nat /\ Len(stack) <= MaxDepth
      /\ MaxDepth \in Nat /\ MaxOps \in Nat /\ MaxPairs \in Nat
  BY MachineAssumption DEF IsStack
<1>2. PICK d \in 1 .. Len(stack) :
        /\ \A i \in 1 .. Len(stack) : i < d => i \in DOMAIN t /\ Kept(t[i], stack[i])
        /\ d \in DOMAIN t => Used(t[d], stack[d])
  BY DEF Spent
<1>3. stack[d].ops \in Nat /\ stack[d].ops <= MaxOps /\ stack[d].more \in Nat
  BY <1>1, <1>2 DEF IsStack, IsFrame
<1>4. d \in 1 .. MaxDepth
  BY <1>1
<1>5. Left(stack)[d] = <<stack[d].more, MaxOps + 1 - stack[d].ops>>
  BY <1>1, <1>4 DEF Left
<1>6. Fewer(Left(t)[d], Left(stack)[d])
  <2>1. CASE d \in DOMAIN t
    <3>1. Left(t)[d] = <<t[d].more, MaxOps + 1 - t[d].ops>>
      BY <1>4, <2>1 DEF Left
    <3>2. Used(t[d], stack[d])
      BY <1>2, <2>1
    <3>3. QED BY <1>1, <1>3, <1>5, <3>1, <3>2 DEF Used, Fewer
  <2>2. CASE d \notin DOMAIN t
    <3>1. Left(t)[d] = <<0, 0>>
      BY <1>4, <2>2 DEF Left
    <3>2. QED BY <1>1, <1>3, <1>5, <3>1 DEF Fewer
  <2>3. QED BY <2>1, <2>2
<1>7. ASSUME NEW i \in 1 .. MaxDepth, i < d PROVE Left(t)[i] = Left(stack)[i]
  <2>1. i \in 1 .. Len(stack)
    BY <1>1, <1>7
  <2>2. i \in DOMAIN t /\ i \in DOMAIN stack /\ Kept(t[i], stack[i])
    BY <1>1, <1>2, <1>7, <2>1
  <2>3. QED BY <2>2 DEF Left, Kept
<1>8. QED BY <1>4, <1>6, <1>7 DEF Lower

LEMMA StopSpends ==
    ASSUME IsStack(stack), stack # <<>>, NEW code, Stop(code)
    PROVE  Spent(stack')
<1>1. Len(stack) \in Nat /\ Len(stack) > 0
  BY TopFact
<1>2. 1 \in 1 .. Len(stack) /\ \A i \in 1 .. Len(stack) : ~(i < 1)
  BY <1>1
<1>3. stack' = <<>> /\ 1 \notin DOMAIN <<>>
  BY DEF Stop
<1>4. QED BY <1>2, <1>3 DEF Spent

(* The frame on top has executed one more instruction, or takes a pair.    *)
LEMMA TopSpends ==
    ASSUME IsStack(stack), stack # <<>>, NEW f, Used(f, Top),
           NEW t, DOMAIN stack \subseteq DOMAIN t,
           \A i \in DOMAIN stack : t[i] = [stack EXCEPT ![Len(stack)] = f][i]
    PROVE  Spent(t)
<1>1. Len(stack) \in 1 .. Len(stack) /\ Top = stack[Len(stack)] /\ Len(stack) \in Nat
  BY TopFact
<1>2. DOMAIN stack = 1 .. Len(stack)
  BY DEF IsStack
<1>3. t[Len(stack)] = f
  BY <1>1, <1>2
<1>4. \A i \in 1 .. Len(stack) : i < Len(stack) => i \in DOMAIN t /\ t[i] = stack[i]
  BY <1>1, <1>2
<1>5. QED BY <1>1, <1>3, <1>4 DEF Spent, Kept

LEMMA CountedSpends ==
    ASSUME IsStack(stack), stack # <<>>
    PROVE  /\ Counted.ops = Top.ops + 1 /\ Counted.more = Top.more
           /\ DOMAIN Counted = {"fn", "pc", "ops", "regs", "dst", "how", "more"}
<1>1. IsFrame(Top)
  BY TopFact
<1>2. QED BY <1>1 DEF Counted, IsFrame

LEMMA GotoSpends ==
    ASSUME IsStack(stack), stack # <<>>, NEW pc, Goto(pc)
    PROVE  Spent(stack')
<1> DEFINE f == [Counted EXCEPT !.pc = pc]
<1>1. Used(f, Top)
  BY CountedSpends DEF Used
<1>2. stack' = [stack EXCEPT ![Len(stack)] = f]
  BY DEF Goto
<1> HIDE DEF f
<1>3. DOMAIN stack \subseteq DOMAIN stack'
  BY <1>2
<1>4. QED BY <1>1, <1>2, <1>3, TopSpends

LEMMA PutSpends ==
    ASSUME IsStack(stack), stack # <<>>, NEW r, NEW v, Put(r, v)
    PROVE  Spent(stack')
<1> DEFINE f == [Counted EXCEPT !.pc = @ + 1,
                                !.regs = IF r = Nil THEN @ ELSE [@ EXCEPT ![r] = v]]
<1>1. Used(f, Top)
  BY CountedSpends DEF Used
<1>2. stack' = [stack EXCEPT ![Len(stack)] = f]
  BY DEF Put
<1> HIDE DEF f
<1>3. DOMAIN stack \subseteq DOMAIN stack'
  BY <1>2
<1>4. QED BY <1>1, <1>2, <1>3, TopSpends

LEMMA InvokeSpends ==
    ASSUME IsStack(stack), stack # <<>>, NEW n, NEW args, NEW dst, NEW how, NEW more,
           Top.ops + 1 <= MaxOps, Invoke(n, args, dst, how, more)
    PROVE  Spent(stack')
<1>1. CASE Stop("E_COMPILE") \/ Stop("E_ARG") \/ Stop("E_FAIL")
  BY <1>1, StopSpends
<1> DEFINE g == NewFrame(n, args, dst, how, more)
           m == Len(stack)
           t == [stack EXCEPT ![m] = Counted]
<1>2. CASE stack' = Append(t, g)
  <2>1. IsStack(t) /\ Len(t) = m /\ m \in Nat /\ DOMAIN stack = 1 .. m
    <3>1. IsFrame(Counted)
      BY CountedFact
    <3>2. QED BY <3>1, TopReplaced, TopFact DEF IsStack
  <2> DEFINE S == {t[i] : i \in 1 .. m} \cup {g}
  <2>2. t = [i \in 1 .. m |-> t[i]]
    BY <2>1 DEF IsStack
  <2> HIDE DEF t, m, g
  <2>3. t \in Seq(S) /\ g \in S
    <3>1. t \in [1 .. m -> S]
      BY <2>2
    <3> HIDE DEF S
    <3>2. t \in Seq(S)
      BY <2>1, <3>1, SeqDef
    <3>3. QED BY <3>2 DEF S
  <2> HIDE DEF S
  <2>4. Append(t, g) \in Seq(S) /\ Len(Append(t, g)) = m + 1 /\ \A i \in 1 .. m : Append(t, g)[i] = t[i]
    BY <2>1, <2>3, AppendProperties
  <2>5. DOMAIN Append(t, g) = 1 .. m + 1
    BY <2>4, LenProperties
  <2>6. 1 .. m \subseteq 1 .. m + 1
    BY <2>1
  <2>7. DOMAIN stack \subseteq DOMAIN stack' /\ \A i \in DOMAIN stack : stack'[i] = t[i]
    BY <1>2, <2>1, <2>4, <2>5, <2>6
  <2>8. Used(Counted, Top)
    BY CountedSpends DEF Used
  <2>9. QED BY <2>7, <2>8, TopSpends DEF t, m
<1>3. QED BY <1>1, <1>2 DEF Invoke

LEMMA ReturnSpends ==
    ASSUME IsStack(stack), stack # <<>>, NEW v, Return(v)
    PROVE  Spent(stack')
<1>1. CASE Stop("ok")
  BY <1>1, StopSpends
<1>2. CASE NextPair
  <2>1. PICK d \in {0, 1} : stack' = [stack EXCEPT ![Len(stack)] =
            NewFrame(Top.fn, <<d, 1>>, Top.dst, "query", Top.more - 1)]
    BY <1>2 DEF NextPair
  <2> DEFINE f == NewFrame(Top.fn, <<d, 1>>, Top.dst, "query", Top.more - 1)
  <2>2. Top.more \in Int
    BY TopFact, MachineAssumption DEF IsFrame
  <2>3. f.more = Top.more - 1
    BY DEF NewFrame, Frame
  <2> HIDE DEF f
  <2>4. Used(f, Top)
    BY <2>2, <2>3 DEF Used
  <2>5. stack' = [stack EXCEPT ![Len(stack)] = f]
    BY <2>1 DEF f
  <2>6. DOMAIN stack \subseteq DOMAIN stack'
    BY <2>5
  <2>7. QED BY <2>4, <2>5, <2>6, TopSpends
<1>3. ASSUME NEW got, HandUp(got) PROVE Spent(stack')
  <2> DEFINE m == Len(stack)
  <2>1. m \in Nat /\ m > 0 /\ DOMAIN stack = 1 .. m
    BY TopFact DEF IsStack
  <2>2. stack' = [i \in 1 .. m - 1 |-> IF i < m - 1 THEN stack[i] ELSE Resumed(stack[i], got)]
    BY <1>3 DEF HandUp
  <2>3. \A i \in 1 .. m : IsFrame(stack[i])
    BY DEF IsStack
  <2>4. DOMAIN stack' = 1 .. m - 1
    BY <2>2
  <2> HIDE DEF m
  <2>5. m \in 1 .. m /\ m \notin 1 .. m - 1 /\ \A i \in 1 .. m : i < m => i \in 1 .. m - 1
    BY <2>1
  <2>6. ASSUME NEW i \in 1 .. m - 1 PROVE Kept(stack'[i], stack[i])
    <3>1. IsFrame(stack[i])
      BY <2>1, <2>3
    <3>2. Resumed(stack[i], got).ops = stack[i].ops /\ Resumed(stack[i], got).more = stack[i].more
      BY <3>1, ResumedFact
    <3>3. QED BY <2>2, <3>2 DEF Kept
  <2>7. QED BY <2>4, <2>5, <2>6 DEF Spent, m
<1>4. QED BY <1>1, <1>2, <1>3 DEF Return

LEMMA StepSpends ==
    ASSUME IInv, Step
    PROVE  Spent(stack')
<1>1. IsStack(stack) /\ stack # <<>>
  BY DEF IInv, StackInv, Step
<1>2. CASE Return(Nil) \/ Stop("E_LIMIT_OPS")
  BY <1>1, <1>2, ReturnSpends, StopSpends
<1>3. CASE /\ ~(Top.ops + 1 > MaxOps)
           /\ Control \/ Jump \/ Arithmetic \/ Host \/ Unknown
  <2>1. Top.ops + 1 <= MaxOps
    <3>1. IsFrame(Top)
      BY <1>1, TopFact
    <3>2. QED BY <1>3, <3>1, MachineAssumption DEF IsFrame
  <2> DEFINE args == [i \in DOMAIN Inst.args |-> Read(Inst.args[i])]
  <2>2. CASE Control
    <3>1. CASE Inst.op = "nop"
      BY <1>1, <2>2, <3>1, PutSpends DEF Control
    <3>2. CASE Inst.op = "mov"
      BY <1>1, <2>2, <3>2, PutSpends DEF Control
    <3>3. CASE Inst.op = "ret"
      BY <1>1, <2>2, <3>3, ReturnSpends DEF Control
    <3>4. CASE Inst.op = "fail"
      BY <1>1, <2>2, <3>4, StopSpends DEF Control
    <3>5. CASE Inst.op = "call"
      <4>1. Invoke(Inst.to, args, Inst.dst, "call", 0)
        BY <2>2, <3>5 DEF Control
      <4> HIDE DEF args
      <4>2. QED BY <1>1, <2>1, <4>1, InvokeSpends
    <3>6. CASE Inst.op = "dbg.assert"
      BY <1>1, <2>2, <3>6, PutSpends, StopSpends DEF Control
    <3>7. QED BY <2>2, <3>1, <3>2, <3>3, <3>4, <3>5, <3>6 DEF Control
  <2>3. CASE Jump
    <3>1. (\E code : Stop(code)) \/ (\E pc : Goto(pc))
      BY <2>3 DEF Jump
    <3>2. QED BY <1>1, <3>1, StopSpends, GotoSpends
  <2>4. CASE Arithmetic
    <3>1. (\E code : Stop(code)) \/ (\E r, v : Put(r, v))
      BY <2>4 DEF Arithmetic
    <3>2. QED BY <1>1, <3>1, StopSpends, PutSpends
  <2>5. CASE Host
    <3>1. \/ \E code : Stop(code)
          \/ \E r, v : Put(r, v)
          \/ \E n, args1, dst, how, more : Invoke(n, args1, dst, how, more)
      BY <2>5 DEF Host, Exchange
    <3>2. QED BY <1>1, <2>1, <3>1, StopSpends, PutSpends, InvokeSpends
  <2>6. CASE Unknown
    BY <1>1, <2>6, StopSpends DEF Unknown
  <2>7. QED BY <1>3, <2>2, <2>3, <2>4, <2>5, <2>6
<1>4. QED BY <1>2, <1>3 DEF Step

(* A call ends after at most Budget steps, whatever its jumps and          *)
(* its recursion (vm.py: max_ops per frame, the interpreter's own limit on *)
(* frames, one predicate after the other over the observed pairs that match*)
(* a replayed query): every step of a running script has less left than    *)
(* before.                                                                 *)
THEOREM EveryCallSpends == Spec => EveryStepSpends
<1>1. ASSUME IInv, IInv', [Next]_vars, phase = "running", vars' # vars
      PROVE  Budget' < Budget
  <2>1. Step
    BY <1>1 DEF Next, ReadLine, Finish
  <2>2. IsStack(stack) /\ IsStack(stack)'
    BY <1>1 DEF IInv, StackInv
  <2>3. Spent(stack')
    BY <1>1, <2>1, StepSpends
  <2>4. Lower(Left(stack'), Left(stack))
    BY <2>2, <2>3, SpentLowers
  <2>5. Left(stack) \in Lefts
    BY <2>2, LeftType
  <2>6. Left(stack') \in Lefts
    <3>1. module' = module
      BY <2>1 DEF Step
    <3>2. IsStack(stack')
      BY <2>2, <3>1 DEF IsStack, IsFrame, Declared
    <3>3. QED BY <3>2, LeftType
  <2>7. QED BY <2>4, <2>5, <2>6, LowerCounts DEF Budget
<1>2. IInv /\ IInv' /\ [Next]_vars => [phase = "running" => Budget' < Budget]_vars
  BY <1>1
<1>3. QED BY <1>2, Inductive, PTL DEF Spec, EveryStepSpends
=============================================================================
