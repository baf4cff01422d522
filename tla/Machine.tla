------------------------------ MODULE Machine --------------------------------
(***************************************************************************)
(* The RFN virtual machine: a script is read line by line (rfn/assembler.py*)
(* and the wrapping of bare scripts in rfn/importer.py), checked as a whole*)
(* and then run (rfn/vm.py), each instruction that reaches the host after  *)
(* its function's capabilities were asserted (rfn/host.py).                *)
(*                                                                         *)
(* One call runs on one thread, so a frame is executed to its end unless it*)
(* calls another function of the module.  Errors unwind the whole stack.   *)
(* Registers hold numbers or Nil; a literal is its own value, and what a   *)
(* query or an injection returns is its "ok".  A jump has the label that   *)
(* the machine goes to, the text of one of its arguments (label), and the  *)
(* argument that was written last, Nil unless it is a string (last).       *)
(***************************************************************************)
EXTENDS Integers, Sequences, FiniteSets, SequencesExt, Capabilities

CONSTANTS
    Names,          \* function names
    Main,           \* the function the host calls
    Lines,          \* the lines a source may have
    Regs, Arg0,     \* registers, and the one of the only parameter
    Nil,
    MaxOps,         \* max_ops of every function
    MaxDepth,       \* frames the interpreter allows before a RecursionError
    MaxPairs,       \* observed pairs of a replaying host that match one query
    MaxLines        \* bound: lines between declarations and .end

ASSUME MachineAssumption ==
    /\ Main \in Names /\ Arg0 \in Regs /\ Nil \notin Regs
    /\ {MaxOps, MaxDepth, MaxPairs, MaxLines} \subseteq Nat /\ MaxDepth > 0
(* The header of a function gives its name and lists its parameters.       *)
ASSUME LinesAssumption == \A l \in Lines :
    /\ l.kind = "function" => l.name \in Names /\ l.arity \in Nat
    /\ l.kind = "pure" => l.pure \in BOOLEAN

VARIABLES
    bare,           \* the source has no .function: it was wrapped
    phase,          \* "reading", "running" or "done"
    current,        \* the function being read, or Nil
    module,         \* name -> function, or Nil
    lines,          \* lines read (bound)
    mode,           \* of the host: "live" or "replay"
    stack,          \* frames, the running one last
    outcome,        \* "none", "ok", or the code of the error
    effects         \* what reached the host (history)

vars == <<bare, phase, current, module, lines, mode, stack, outcome, effects>>

Jumps == {"jmp", "jz", "jnz", "jeq", "jne", "jlt", "jle", "jgt", "jge"}

-----------------------------------------------------------------------------
(* Assembling.                                                             *)

NewFunction(n, arity, pure) ==
    [name |-> n, arity |-> arity, pure |-> pure, caps |-> {}, code |-> <<>>, labels |-> <<>>]

(* A script without .function is the body of __main__, which may act.      *)
Init ==
    /\ phase = "reading" /\ lines = 0
    /\ bare \in BOOLEAN
    /\ current = IF bare THEN NewFunction(Main, 1, FALSE) ELSE Nil
    /\ module = [n \in Names |-> Nil]
    /\ mode \in {"live", "replay"}
    /\ stack = <<>> /\ outcome = "none" /\ effects = {}

Stop(code) ==
    /\ phase' = "done" /\ outcome' = code /\ stack' = <<>>
Goes(f, l, i) == [x \in DOMAIN f \cup {l} |-> IF x = l THEN i ELSE f[x]]

Declare(l) ==
    /\ l.kind = "function" /\ ~bare
    /\ IF current # Nil THEN Stop("E_PARSE") /\ UNCHANGED current
       ELSE /\ current' = NewFunction(l.name, l.arity, TRUE)
            /\ UNCHANGED <<phase, outcome, stack>>
    /\ UNCHANGED <<module, lines>>
End(l) ==
    /\ l.kind = "end"
    /\ CASE current = Nil -> Stop("E_PARSE") /\ UNCHANGED <<current, module>>
         [] current # Nil /\ module[current.name] # Nil ->
              Stop("E_COMPILE") /\ UNCHANGED <<current, module>>
         [] OTHER ->
              /\ module' = [module EXCEPT ![current.name] = current]
              /\ current' = Nil
              /\ UNCHANGED <<phase, outcome, stack>>
    /\ UNCHANGED lines
(* The label is the index of the next instruction; the last one wins.      *)
Extended(l) ==
    CASE l.kind = "pure"  -> [current EXCEPT !.pure = l.pure]
      [] l.kind = "cap"   -> [current EXCEPT !.caps = @ \cup {l.cap}]
      [] l.kind = "label" -> [current EXCEPT !.labels = Goes(@, l.label, Len(current.code) + 1)]
      [] l.kind = "inst"  -> [current EXCEPT !.code = Append(@, l.inst)]
Body(l) ==
    /\ l.kind \in {"pure", "cap", "label", "inst"}
    /\ lines < MaxLines /\ lines' = lines + 1
    /\ IF current = Nil THEN Stop("E_PARSE") /\ UNCHANGED current
       ELSE current' = Extended(l) /\ UNCHANGED <<phase, outcome, stack>>
    /\ UNCHANGED module
ReadLine ==
    /\ phase = "reading"
    /\ \E l \in Lines : Declare(l) \/ End(l) \/ Body(l)
    /\ UNCHANGED <<bare, mode, effects>>

Declared == {n \in Names : module[n] # Nil}
Insts(f) == {f.code[i] : i \in DOMAIN f.code}
PureKept(f) == f.pure => \A c \in f.caps : c.name \in ReadCaps
(* What is checked is the last argument, and only if it is a string.       *)
LabelsKnown(f) ==
    \A i \in Insts(f) : i.op \in Jumps /\ i.last # Nil => i.last \in DOMAIN f.labels
(* Only a reference with its prefix is looked up now.                      *)
CallsKnown(f) == \A i \in Insts(f) : i.op = "call" /\ i.prefixed => i.to \in Declared
CheckModule ==
    IF \E n \in Declared : ~PureKept(module[n]) THEN "E_PERMISSION"
    ELSE IF \A n \in Declared : LabelsKnown(module[n]) /\ CallsKnown(module[n])
         THEN "ok" ELSE "E_COMPILE"

-----------------------------------------------------------------------------
(* Calling and returning.                                                  *)

Top == Last(stack)
Fn == module[Top.fn]
Inst == Fn.code[Top.pc]
Read(x) == IF x \in Regs THEN Top.regs[x] ELSE x
Truthy(v) == v # Nil /\ v # 0
(* more: the observed pairs behind the one that a predicate is called for. *)
Frame(n, regs, dst, how, more) ==
    [fn |-> n, pc |-> 1, ops |-> 0, regs |-> regs, dst |-> dst, how |-> how, more |-> more]
Bound(args) == [r \in Regs |-> IF r = Arg0 /\ args # <<>> THEN args[1] ELSE Nil]
NewFrame(n, args, dst, how, more) == Frame(n, Bound(args), dst, how, more)
(* The end of the file: check the module, then call the host's choice.     *)
Finish ==
    /\ phase = "reading" /\ (bare => current = Nil)
    /\ UNCHANGED <<bare, lines, mode, effects, module, current>>
    /\ CASE current # Nil -> Stop("E_PARSE")
         [] current = Nil /\ CheckModule # "ok" -> Stop(CheckModule)
         [] current = Nil /\ CheckModule = "ok" /\ Main \notin Declared -> Stop("E_NOT_FOUND")
         [] OTHER -> IF module[Main].arity # 1 THEN Stop("E_ARG")
                     ELSE /\ phase' = "running" /\ UNCHANGED outcome
                          /\ \E v \in {0, 1} : stack' = <<NewFrame(Main, <<v>>, Nil, "call", 0)>>

(* The frame executes one more instruction and goes on behind it.          *)
Counted_Never == Top
Counted == [Top EXCEPT !.ops = @ + 1]
Goto(pc) == /\ stack' = [stack EXCEPT ![Len(stack)] = [Counted EXCEPT !.pc = pc]]
            /\ UNCHANGED <<phase, outcome>>
Put(r, v) == /\ stack' = [stack EXCEPT ![Len(stack)] =
                            [Counted EXCEPT !.pc = @ + 1,
                                            !.regs = IF r = Nil THEN @ ELSE [@ EXCEPT ![r] = v]]]
             /\ UNCHANGED <<phase, outcome>>
(* call: the name is looked up, then the arguments counted.                *)
Invoke(n, args, dst, how, more) ==
    CASE n \notin Declared -> Stop("E_COMPILE")
      [] n \in Declared /\ Len(args) # module[n].arity -> Stop("E_ARG")
      [] OTHER ->
           IF Len(stack) = MaxDepth THEN Stop("E_FAIL")
           ELSE /\ stack' = Append([stack EXCEPT ![Len(stack)] = Counted],
                                   NewFrame(n, args, dst, how, more))
                /\ UNCHANGED <<phase, outcome>>
(* The predicate is called for the next observed pair, on new instructions.*)
NextPair ==
    /\ \E decoded \in {0, 1} : stack' = [stack EXCEPT ![Len(stack)] =
            NewFrame(Top.fn, <<decoded, 1>>, Top.dst, "query", Top.more - 1)]
    /\ UNCHANGED <<phase, outcome>>
(* The caller goes on behind its call, with the value in its register.     *)
Resumed(f, v) == [f EXCEPT !.pc = @ + 1, !.regs[Top.dst] = v]
HandUp(v) ==
    LET below == Len(stack) - 1
    IN  /\ stack' = [i \in 1..below |-> IF i < below THEN stack[i] ELSE Resumed(stack[i], v)]
        /\ UNCHANGED <<phase, outcome>>
(* A value decides the query whose predicate has just run: it takes the    *)
(* first pair that is accepted.                                            *)
Return(v) ==
    IF Len(stack) = 1 THEN Stop("ok")
    ELSE IF Top.how = "call" THEN HandUp(v)
    ELSE IF Top.more > 0 /\ ~Truthy(v) THEN NextPair
    ELSE HandUp(IF Truthy(v) THEN 1 ELSE 0)

-----------------------------------------------------------------------------
(* One instruction.                                                        *)

Control ==
    /\ Inst.op \in {"nop", "mov", "ret", "fail", "call", "dbg.assert"}
    /\ CASE Inst.op = "nop" -> Put(Nil, Nil)
         [] Inst.op = "mov" -> Put(Inst.dst, Read(Inst.args[1]))
         [] Inst.op = "ret" -> Return(Read(Inst.args[1]))
         [] Inst.op = "fail" -> Stop("E_FAIL")
         [] Inst.op = "call" ->
              Invoke(Inst.to, [i \in DOMAIN Inst.args |-> Read(Inst.args[i])], Inst.dst, "call", 0)
         [] Inst.op = "dbg.assert" ->
              IF Truthy(Read(Inst.args[1])) THEN Put(Nil, Nil) ELSE Stop("E_FAIL")
    /\ UNCHANGED effects

(* Comparing Nil with a number raises.                                     *)
Less(a, b) == a < b
Taken(op, a, b) ==
    CASE op = "jmp" -> TRUE
      [] op = "jz"  -> ~Truthy(a)
      [] op = "jnz" -> Truthy(a)
      [] op = "jeq" -> a = b
      [] op = "jne" -> a # b
      [] op = "jlt" -> Less(a, b)
      [] op = "jle" -> ~Less(b, a)
      [] op = "jgt" -> Less(b, a)
      [] op = "jge" -> ~Less(a, b)
(* All six comparisons are computed before one is chosen.  A label that is *)
(* not there is a KeyError, and any error of a called function an E_FAIL.  *)
Jump ==
    /\ Inst.op \in Jumps
    /\ LET a == IF Inst.op = "jmp" THEN Nil ELSE Read(Inst.args[1])
           b == IF Inst.op \in {"jmp", "jz", "jnz"} THEN Nil ELSE Read(Inst.args[2])
       IN  IF Inst.op \notin {"jmp", "jz", "jnz"} /\ Nil \in {a, b} THEN Stop("E_FAIL")
           ELSE IF ~Taken(Inst.op, a, b) THEN Goto(Top.pc + 1)
           ELSE IF Inst.label \in DOMAIN Fn.labels THEN Goto(Fn.labels[Inst.label])
           ELSE Stop(IF Len(stack) = 1 THEN "KeyError" ELSE "E_FAIL")
    /\ UNCHANGED effects

Arithmetic ==
    /\ Inst.op \in {"int.add", "int.sub"}
    /\ LET a == Read(Inst.args[1])  b == Read(Inst.args[2])
       IN  IF Nil \in {a, b} THEN Stop("E_FAIL")
           ELSE Put(Inst.dst, IF Inst.op = "int.add" THEN a + b ELSE a - b)
    /\ UNCHANGED effects

(* Asserted: the running function's own capabilities, not its caller's.    *)
Permitted_CallersToo ==
    \E i \in DOMAIN stack : Holds(module[stack[i].fn].caps, Inst)
Permitted == Holds(Fn.caps, Inst)
Effect(sent) == effects' = effects \cup {[fn |-> Top.fn, inst |-> Inst, sent |-> sent]}
(* A replaying host answers from what was observed and sends nothing.  The *)
(* predicate of a query runs on this thread then, for one matching pair    *)
(* after the other until it accepts one, so without any the query fails.   *)
Asks == mode = "replay" /\ Inst.op \in QueryOps
Answers ==
    CASE mode = "live" \/ (Asks /\ Inst.to = Nil) -> {0, 1}
      [] mode = "replay" /\ ~Asks -> {1}
      [] Asks /\ Inst.to # Nil -> {0}
Exchange ==
    /\ Effect(mode = "live")
    /\ \/ \E ok \in Answers : Put(Inst.dst, ok)
       \/ ~Asks /\ Stop("E_SCHEMA")
       \/ /\ Asks /\ Inst.to # Nil
          /\ \E pairs \in 1..MaxPairs, decoded \in {0, 1} :
                Invoke(Inst.to, <<decoded, 1>>, Inst.dst, "query", pairs - 1)
Host ==
    /\ Inst.op \in HostOps
    /\ IF ~Permitted THEN Stop("E_PERMISSION") /\ UNCHANGED effects
       ELSE IF Inst.op \in QueryOps \cup InjectOps THEN Exchange
       ELSE /\ Effect(FALSE)
            /\ Put(Inst.dst, 1) \/ Stop(HostError(Inst.op))
(* Anything else, and a jump or call that got through, ends the call.      *)
Unknown ==
    /\ Inst.op = "unknown"
    /\ Stop("E_COMPILE") /\ UNCHANGED effects

Step ==
    /\ phase = "running"
    /\ UNCHANGED <<bare, current, module, lines, mode>>
    /\ IF Top.pc > Len(Fn.code) THEN Return(Nil) /\ UNCHANGED effects
       ELSE IF Top.ops + 1 > MaxOps THEN Stop("E_LIMIT_OPS") /\ UNCHANGED effects
       ELSE \/ Control \/ Jump \/ Arithmetic \/ Host \/ Unknown

Next == ReadLine \/ Finish \/ Step
Spec == Init /\ [][Next]_vars /\ WF_vars(Step)

-----------------------------------------------------------------------------
FunctionOK(f) ==
    /\ f.name \in Names /\ f.arity \in Nat /\ f.pure \in BOOLEAN
    /\ \A l \in DOMAIN f.labels : f.labels[l] \in 1..Len(f.code) + 1
MachineTypeOK ==
    /\ phase \in {"reading", "running", "done"} /\ mode \in {"live", "replay"}
    /\ current = Nil \/ FunctionOK(current)
    /\ \A n \in Declared : FunctionOK(module[n]) /\ module[n].name = n
    /\ phase = "running" => stack # <<>> /\ Len(stack) <= MaxDepth
    /\ \A i \in DOMAIN stack :
         /\ stack[i].pc \in 1..Len(module[stack[i].fn].code) + 1
         /\ stack[i].ops <= MaxOps /\ stack[i].more \in 0..MaxPairs

(* What reaches the host was declared by the function that was running:    *)
(* neither its caller's rights nor those of what it called count.  The     *)
(* right is the one that the manual names for what the host does (Uses),   *)
(* not the one that the machine asked for.                                 *)
OnlyDeclared ==
    \A e \in effects : \A u \in Uses(e.inst) : \E c \in module[e.fn].caps :
        /\ c.name = u[1]
        /\ "prefix" \in DOMAIN u[2] /\ "prefix" \in DOMAIN c.scope =>
             c.scope.prefix = Star \/ IsPrefix(c.scope.prefix, u[2].prefix)

(* A function without side effects that got through the assembler changes  *)
(* nothing in the host itself; only the audit log is open to it.           *)
PureOnlyReads == \A e \in effects : module[e.fn].pure => ~Alters(e.inst)

(* A jump whose label is its last argument, a string, finds it, in every   *)
(* function of a module that assembled.  A call breaks off for want of a   *)
(* label only if some function has a jump that is not written so.          *)
Checked(i) == i.op \in Jumps /\ i.last # Nil /\ i.last = i.label
NoDanglingJump ==
    /\ phase = "running" /\ Top.pc <= Len(Fn.code) /\ Checked(Inst)
         => Inst.label \in DOMAIN Fn.labels
    /\ outcome = "KeyError" =>
         \E n \in Declared : \E i \in Insts(module[n]) : i.op \in Jumps /\ ~Checked(i)

(* So a script stays inside its code and its rights.                       *)
StaysInside == MachineTypeOK /\ OnlyDeclared /\ PureOnlyReads /\ NoDanglingJump

(* Every call ends, whatever the script's jumps and recursion: each frame  *)
(* has its budget of instructions, the stack its depth, and a query its    *)
(* observed pairs.                                                         *)
CallEnds == phase = "running" ~> phase = "done"

(* Why it does: what the frames have left, the oldest first (nothing where *)
(* there is no frame), gets lower as words do in a dictionary, and Budget  *)
(* counts the ways to have less.  A frame has pairs left and instructions; *)
(* a predicate called for the next pair has its instructions again and one *)
(* pair less.  Every instruction spends of it, a call and a return too, so *)
(* a call ends after at most Budget steps.                                 *)
Letters == (0..MaxPairs) \X (0..MaxOps + 1)
Fewer(a, b) == a[1] < b[1] \/ (a[1] = b[1] /\ a[2] < b[2])
Left(s) ==
    [d \in 1..MaxDepth |-> IF d \in DOMAIN s THEN <<s[d].more, MaxOps + 1 - s[d].ops>>
                           ELSE <<0, 0>>]
Lower(f, g) ==
    \E d \in 1..MaxDepth : Fewer(f[d], g[d]) /\ \A i \in 1..MaxDepth : i < d => f[i] = g[i]
Lefts == [1..MaxDepth -> Letters]
Budget == Cardinality({f \in Lefts : Lower(f, Left(stack))})
EveryStepSpends == [][phase = "running" => Budget' < Budget]_vars
=============================================================================
