-------------------------- MODULE Scheduler_proofs --------------------------
(***************************************************************************)
(* Proofs about Scheduler for any job keys, bindings, batch size and       *)
(* numbers of operations and restarts: memory agrees with the table        *)
(* wherever two operations did not meet and no write failed or was rolled  *)
(* back, and the tick never runs a one-shot job twice.                     *)
(***************************************************************************)
EXTENDS Scheduler, SequenceTheorems, TLAPS

-----------------------------------------------------------------------------
(* The operations on a key that are under way, and what each has done in   *)
(* memory so far.                                                          *)
On(a, k) == half[a] # None /\ half[a].key = k

InStep(k) ==
    /\ \A a, b \in Actors : On(a, k) /\ On(b, k) => a = b
    /\ \A a \in Actors : On(a, k) =>
        /\ half[a].op = "store" => jobs[k] = half[a].kind
        /\ half[a].op = "delete" => jobs[k] = None
    /\ jobs[k] # None /\ ~Pending(k) /\ k \notin unsaved => stored[k] = Row(jobs[k])

(* The tick reschedules only when its job has no operation left, and a     *)
(* one-shot job that has run is out of memory, or next to be taken out.    *)
TickInv ==
    /\ at = "resched" => half["tick"] = None
    /\ \A k \in ran : jobs[k] = "after" => at = "resched" /\ Head(batch).key = k

Inv == TypeOK /\ (\A k \in Keys \ raced : InStep(k)) /\ TickInv

LEMMA NoneIsNoKind == None # "every" /\ None # "after"
BY NoneAssumption DEF Kinds

LEMMA UnfinishedIsNotNone == \A u \in Unfinished : u # None
BY NoneAssumption

-----------------------------------------------------------------------------
(* What is due without k is what was due, in order and once, but not k.    *)
LEMMA WithoutFact ==
    ASSUME TypeOK, NEW k \in Keys
    PROVE  /\ Without(k) \in Seq(Keys) /\ IsInjective(Without(k))
           /\ \A i \in 1 .. Len(Without(k)) :
                Without(k)[i] # k /\ jobs[Without(k)[i]] # None
<1> DEFINE n == CHOOSE i \in 1 .. Len(due) : due[i] = k
           rest == [i \in 1 .. Len(due) - 1 |-> due[IF i < n THEN i ELSE i + 1]]
<1>1. /\ due \in Seq(Keys) /\ Len(due) \in Nat /\ DOMAIN due = 1 .. Len(due)
      /\ \A i \in 1 .. Len(due) : due[i] \in Keys /\ jobs[due[i]] # None
      /\ \A i, j \in 1 .. Len(due) : due[i] = due[j] => i = j
  BY DEF TypeOK, IsInjective
<1>2. CASE ~Contains(due, k)
  BY <1>1, <1>2 DEF Without, Contains, IsInjective
<1>3. CASE Contains(due, k)
  <2>1. n \in 1 .. Len(due) /\ due[n] = k
    BY <1>3 DEF Contains
  <2>2. Without(k) = rest
    BY <1>3 DEF Without
  <2> HIDE DEF n
  <2>3. Len(due) - 1 \in Nat
    BY <1>1, <2>1
  <2>4. \A i \in 1 .. Len(due) - 1 : (IF i < n THEN i ELSE i + 1) \in 1 .. Len(due) \ {n}
    BY <1>1, <2>1
  <2>5. rest \in [1 .. Len(due) - 1 -> Keys]
    BY <1>1, <2>4
  <2>6. rest \in Seq(Keys) /\ DOMAIN rest = 1 .. Len(due) - 1 /\ Len(rest) = Len(due) - 1
    BY <2>3, <2>5, SeqDef, LenProperties
  <2>7. \A i \in 1 .. Len(due) - 1 : rest[i] # k /\ jobs[rest[i]] # None
    BY <1>1, <2>1, <2>4
  <2>8. \A i, j \in 1 .. Len(due) - 1 : rest[i] = rest[j] => i = j
    <3> SUFFICES ASSUME NEW i \in 1 .. Len(due) - 1, NEW j \in 1 .. Len(due) - 1,
                        rest[i] = rest[j]
                 PROVE  i = j
      OBVIOUS
    <3> DEFINE x == IF i < n THEN i ELSE i + 1
               y == IF j < n THEN j ELSE j + 1
    <3>1. due[x] = due[y] /\ x \in 1 .. Len(due) /\ y \in 1 .. Len(due)
      BY <2>4
    <3>2. x = y
      BY <1>1, <3>1
    <3>3. QED BY <1>1, <2>1, <3>2
  <2> HIDE DEF rest
  <2>9. IsInjective(rest)
    BY <2>6, <2>8 DEF IsInjective
  <2>10. QED BY <2>2, <2>6, <2>7, <2>9
<1>4. QED BY <1>2, <1>3

(* So both memory operations keep the types of memory and of what is due.  *)
MemoryOK ==
    /\ jobs \in [Keys -> Kinds \union {None}]
    /\ due \in Seq(Keys) /\ IsInjective(due) /\ \A i \in 1 .. Len(due) : jobs[due[i]] # None

LEMMA MemoryKept ==
    ASSUME TypeOK, NEW k \in Keys, NEW kind \in Kinds \union {None},
           jobs' = [jobs EXCEPT ![k] = kind], due' = Without(k)
    PROVE  MemoryOK'
<1>1. jobs' \in [Keys -> Kinds \union {None}]
  BY DEF TypeOK
<1>2. \A j \in Keys : j # k => jobs'[j] = jobs[j]
  BY DEF TypeOK
<1>3. /\ due' \in Seq(Keys) /\ IsInjective(due')
      /\ \A i \in 1 .. Len(due') : due'[i] # k /\ jobs[due'[i]] # None
  BY WithoutFact
<1>4. \A i \in 1 .. Len(due') : due'[i] \in Keys
  BY <1>3
<1>5. QED BY <1>1, <1>2, <1>3, <1>4 DEF MemoryOK

(* SetJob and PopJob, by whomever.                                         *)
LEMMA SetJobKeeps ==
    ASSUME TypeOK, NEW a \in Actors, NEW k \in Keys, NEW kind \in Kinds, SetJob(a, k, kind)
    PROVE  MemoryOK' /\ stored' = stored /\ half' \in [Actors -> Unfinished \union {None}]
<1>1. [op |-> "store", key |-> k, kind |-> kind] \in Unfinished
  BY DEF Unfinished
<1>2. QED BY <1>1, MemoryKept DEF SetJob, TypeOK

LEMMA PopJobKeeps ==
    ASSUME TypeOK, NEW a \in Actors, NEW k \in Keys, PopJob(a, k)
    PROVE  MemoryOK' /\ stored' = stored /\ half' \in [Actors -> Unfinished \union {None}]
<1>1. [op |-> "delete", key |-> k, kind |-> "every"] \in Unfinished
  BY DEF Unfinished, Kinds
<1>2. QED BY <1>1, MemoryKept DEF PopJob, TypeOK

(* The four second halves.                                                 *)
LEMMA FinishCases ==
    ASSUME TypeOK, NEW a \in Actors, Finish(a)
    PROVE  /\ half[a] \in Unfinished /\ half[a].key \in Keys /\ half[a].kind \in Kinds
           /\ UNCHANGED <<at, batch, ops, restarts, raced, cancelled, saved>>
           /\ \/ /\ half[a].op = "store"
                 /\ stored' = [stored EXCEPT ![half[a].key] = Row(half[a].kind)]
                 /\ unsaved' = unsaved \ {half[a].key}
                 /\ half' = [half EXCEPT ![a] = None] /\ UNCHANGED <<jobs, due, ran>>
              \/ /\ half[a].op = "delete"
                 /\ stored' = [stored EXCEPT ![half[a].key] = None]
                 /\ unsaved' = unsaved \ {half[a].key}
                 /\ half' = [half EXCEPT ![a] = None] /\ UNCHANGED <<jobs, due, ran>>
              \/ /\ half[a].op = "pop"
                 /\ jobs' = [jobs EXCEPT ![half[a].key] = None]
                 /\ due' = Without(half[a].key)
                 /\ half' = [half EXCEPT ![a] = None] /\ UNCHANGED <<stored, ran, unsaved>>
              \/ /\ half[a].op = "enable" /\ UNCHANGED unsaved
                 /\ SetJob(a, half[a].key, half[a].kind) /\ ran' = ran \ {half[a].key}
<1>1. half[a] \in Unfinished
  BY DEF Finish, TypeOK
<1>2. half[a].op \in {"store", "delete", "pop", "enable"}
      /\ half[a].key \in Keys /\ half[a].kind \in Kinds
  BY <1>1 DEF Unfinished
<1>3. UNCHANGED <<at, batch, ops, restarts, raced, cancelled, saved>>
  BY DEF Finish, tick, bounds
<1>4. CASE half[a].op = "store"
  BY <1>1, <1>2, <1>3, <1>4 DEF Finish, Writes, Written
<1>5. CASE half[a].op = "delete"
  BY <1>1, <1>2, <1>3, <1>5 DEF Finish, Writes, Written
<1>6. CASE half[a].op = "pop"
  BY <1>1, <1>2, <1>3, <1>6 DEF Finish
<1>7. CASE half[a].op = "enable"
  BY <1>1, <1>2, <1>3, <1>7 DEF Finish
<1>8. QED BY <1>2, <1>4, <1>5, <1>6, <1>7

(* A second half that raises: the row is written or it is not.             *)
LEMMA FailureCases ==
    ASSUME TypeOK, NEW a \in Actors, FinishFails(a)
    PROVE  /\ half[a] \in Unfinished /\ half[a].key \in Keys /\ half[a].kind \in Kinds
           /\ half' = [half EXCEPT ![a] = None]
           /\ UNCHANGED <<jobs, due, ops, restarts, ran, raced, cancelled, saved>>
           /\ (at' = "idle" /\ batch' = <<>>) \/ (at' = at /\ batch' = batch)
           /\ \/ /\ stored' = [stored EXCEPT ![half[a].key] = Written(half[a])]
                 /\ unsaved' = unsaved \ {half[a].key}
              \/ /\ half[a].op = "store" /\ stored' = stored
                 /\ unsaved' = unsaved \union {half[a].key}
              \/ /\ half[a].op = "delete" /\ stored' = stored /\ unsaved' = unsaved
           /\ half[a].op = "store" \/ half[a].op = "delete"
<1>1. half[a] \in Unfinished
  BY DEF FinishFails, TypeOK
<1>2. half[a].key \in Keys /\ half[a].kind \in Kinds
  BY <1>1 DEF Unfinished
<1>3. half[a].op = "store" \/ half[a].op = "delete"
  BY DEF FinishFails
<1>4. QED BY <1>1, <1>2, <1>3 DEF FinishFails, Writes, tick, bounds, history

-----------------------------------------------------------------------------
(* Types.                                                                  *)
LEMMA InitType == Init => TypeOK
<1> SUFFICES ASSUME Init PROVE TypeOK
  OBVIOUS
<1>1. Bindings \in [Keys -> Kinds \union {None}]
  BY DEF Bindings, Kinds
<1>2. \A kind \in Kinds : Row(kind) \in Rows
  BY DEF Row, Rows
<1>3. stored \in [Keys -> Rows \union {None}]
  BY <1>1, <1>2, NoneIsNoKind DEF Init, Installed, Bindings, Kinds
<1>4. due \in Seq(Keys) /\ Len(due) = 0 /\ batch \in Seq([key : Keys, kind : Kinds])
  BY DEF Init
<1>5. IsInjective(due)
  BY DEF Init, IsInjective
<1>6. half \in [Actors -> Unfinished \union {None}]
  BY DEF Init
<1>7. QED BY <1>1, <1>3, <1>4, <1>5, <1>6, SchedulerLimits DEF Init, TypeOK, Places

LEMMA RestartType == TypeOK /\ Restart => TypeOK'
<1> SUFFICES ASSUME TypeOK, Restart PROVE TypeOK'
  OBVIOUS
<1>1. Bindings \in [Keys -> Kinds \union {None}]
  BY DEF Bindings, Kinds
<1>2. \A kind \in Kinds : Row(kind) \in Rows
  BY DEF Row, Rows
<1>3. stored' \in [Keys -> Rows \union {None}]
  BY <1>1, <1>2, NoneIsNoKind DEF Restart, Installed, Bindings, Kinds, TypeOK
<1>4. due' \in Seq(Keys) /\ Len(due') = 0 /\ batch' \in Seq([key : Keys, kind : Kinds])
  BY DEF Restart
<1>5. IsInjective(due')
  BY DEF Restart, IsInjective
<1>6. half' \in [Actors -> Unfinished \union {None}]
  BY DEF Restart
<1>7. restarts' \in 0 .. RestartMax
  BY SchedulerLimits DEF Restart, TypeOK
<1>8. at' = "idle" /\ ran' = {} /\ raced' = {} /\ cancelled' \subseteq Keys
      /\ jobs' = Bindings /\ ops' = ops /\ saved' = None /\ unsaved' = {}
  BY DEF Restart, TypeOK
<1>9. QED BY <1>1, <1>3, <1>4, <1>5, <1>6, <1>7, <1>8 DEF TypeOK, Places

LEMMA OperateType == TypeOK /\ Operate => TypeOK'
<1> SUFFICES ASSUME TypeOK, Operate PROVE TypeOK'
  OBVIOUS
<1>1. \A k \in Keys : Racing(k) \subseteq Keys
  BY DEF Racing, TypeOK
<1>2. ASSUME NEW a \in Actors, MayOperate(a) PROVE ops' \in 0 .. OpMax
  BY <1>2, SchedulerLimits DEF MayOperate, TypeOK
<1>3. ASSUME NEW k \in Keys, NEW a \in Actors, NEW kind \in Kinds, Register(a, k, kind)
      PROVE  TypeOK'
  <2>1. MemoryOK' /\ stored' = stored /\ half' \in [Actors -> Unfinished \union {None}]
    BY <1>3, SetJobKeeps DEF Register
  <2>2. ops' \in 0 .. OpMax
    BY <1>2, <1>3 DEF Register
  <2>3. QED BY <1>1, <1>3, <2>1, <2>2 DEF Register, tick, database, TypeOK, MemoryOK
<1>4. ASSUME NEW k \in Keys, NEW a \in Actors, Cancel(a, k) PROVE TypeOK'
  <2>1. MemoryOK' /\ stored' = stored /\ half' \in [Actors -> Unfinished \union {None}]
    BY <1>4, PopJobKeeps DEF Cancel
  <2>2. ops' \in 0 .. OpMax
    BY <1>2, <1>4 DEF Cancel
  <2>3. QED BY <1>1, <1>4, <2>1, <2>2 DEF Cancel, tick, database, TypeOK, MemoryOK
<1>5. ASSUME NEW k \in Keys, Disable(k) PROVE TypeOK'
  <2>1. stored' \in [Keys -> Rows \union {None}]
    <3>1. CASE stored[k] = None
      BY <1>5, <3>1 DEF Disable, TypeOK
    <3>2. CASE stored[k] # None
      <4>1. [stored[k] EXCEPT !.enabled = FALSE] \in Rows
        BY <3>2 DEF TypeOK, Rows
      <4>2. stored' = [stored EXCEPT ![k] = [stored[k] EXCEPT !.enabled = FALSE]]
        BY <1>5, <3>2 DEF Disable, TypeOK
      <4>3. QED BY <4>1, <4>2 DEF TypeOK
    <3>3. QED BY <3>1, <3>2
  <2>2. [op |-> "pop", key |-> k, kind |-> "every"] \in Unfinished /\ "web" \in Actors
    BY DEF Unfinished, Kinds, Actors
  <2>3. half' \in [Actors -> Unfinished \union {None}]
    BY <1>5, <2>2 DEF Disable, TypeOK
  <2>4. ops' \in 0 .. OpMax
    BY <1>2, <1>5, <2>2 DEF Disable
  <2>5. QED BY <1>1, <1>5, <2>1, <2>3, <2>4 DEF Disable, tick, database, TypeOK
<1>6. ASSUME NEW k \in Keys, Enable(k) PROVE TypeOK'
  <2>1. stored[k] \in Rows
    BY <1>6 DEF Enable, TypeOK
  <2>2. [op |-> "enable", key |-> k, kind |-> stored[k].kind] \in Unfinished /\ "web" \in Actors
    BY <2>1 DEF Unfinished, Rows, Actors
  <2>3. half' \in [Actors -> Unfinished \union {None}]
    BY <1>6, <2>2 DEF Enable, TypeOK
  <2>4. ops' \in 0 .. OpMax
    BY <1>2, <1>6, <2>2 DEF Enable
  <2>5. QED BY <1>1, <1>6, <2>3, <2>4 DEF Enable, tick, database, TypeOK
<1>7. QED BY <1>3, <1>4, <1>5, <1>6 DEF Operate

LEMMA FinishType ==
    ASSUME TypeOK, NEW a \in Actors, Finish(a)
    PROVE  TypeOK'
<1>1. /\ half[a].key \in Keys /\ half[a].kind \in Kinds
      /\ UNCHANGED <<at, batch, ops, restarts, raced, cancelled, saved>>
      /\ unsaved' \subseteq Keys
  BY FinishCases DEF TypeOK
<1>2. Row(half[a].kind) \in Rows
  BY <1>1 DEF Row, Rows
<1>3. CASE /\ stored' = [stored EXCEPT ![half[a].key] = Row(half[a].kind)]
           /\ half' = [half EXCEPT ![a] = None] /\ UNCHANGED <<jobs, due, ran>>
  <2>1. stored' \in [Keys -> Rows \union {None}] /\ half' \in [Actors -> Unfinished \union {None}]
    BY <1>1, <1>2, <1>3 DEF TypeOK
  <2>2. QED BY <1>1, <1>3, <2>1 DEF TypeOK
<1>4. CASE /\ stored' = [stored EXCEPT ![half[a].key] = None]
           /\ half' = [half EXCEPT ![a] = None] /\ UNCHANGED <<jobs, due, ran>>
  <2>1. stored' \in [Keys -> Rows \union {None}] /\ half' \in [Actors -> Unfinished \union {None}]
    BY <1>1, <1>4 DEF TypeOK
  <2>2. QED BY <1>1, <1>4, <2>1 DEF TypeOK
<1>5. CASE /\ jobs' = [jobs EXCEPT ![half[a].key] = None]
           /\ due' = Without(half[a].key)
           /\ half' = [half EXCEPT ![a] = None] /\ UNCHANGED <<stored, ran>>
  <2>1. MemoryOK'
    BY <1>1, <1>5, MemoryKept
  <2>2. half' \in [Actors -> Unfinished \union {None}]
    BY <1>5 DEF TypeOK
  <2>3. QED BY <1>1, <1>5, <2>1, <2>2 DEF TypeOK, MemoryOK
<1>6. CASE SetJob(a, half[a].key, half[a].kind) /\ ran' = ran \ {half[a].key}
  <2>1. MemoryOK' /\ stored' = stored /\ half' \in [Actors -> Unfinished \union {None}]
    BY <1>1, <1>6, SetJobKeeps
  <2>2. QED BY <1>1, <1>6, <2>1 DEF TypeOK, MemoryOK
<1>7. QED BY <1>3, <1>4, <1>5, <1>6, FinishCases

LEMMA FailureType ==
    ASSUME TypeOK, NEW a \in Actors, FinishFails(a)
    PROVE  TypeOK'
<1>1. Written(half[a]) \in Rows \union {None} /\ unsaved' \subseteq Keys
  BY FailureCases DEF Written, Row, Rows, TypeOK
<1>2. stored' \in [Keys -> Rows \union {None}] /\ half' \in [Actors -> Unfinished \union {None}]
  BY <1>1, FailureCases DEF TypeOK
<1>3. /\ at' \in Places /\ batch' \in Seq([key : Keys, kind : Kinds])
      /\ at' \in {"body", "resched"} => batch' # <<>>
  <2>1. <<>> \in Seq([key : Keys, kind : Kinds]) /\ "idle" \in Places \ {"body", "resched"}
    BY DEF Places
  <2>2. /\ at \in Places /\ batch \in Seq([key : Keys, kind : Kinds])
        /\ at \in {"body", "resched"} => batch # <<>>
    BY DEF TypeOK
  <2>3. (at' = "idle" /\ batch' = <<>>) \/ (at' = at /\ batch' = batch)
    BY FailureCases
  <2>4. CASE at' = "idle" /\ batch' = <<>>
    BY <2>1, <2>4
  <2>5. CASE at' = at /\ batch' = batch
    BY <2>2, <2>5
  <2>6. QED BY <2>3, <2>4, <2>5
<1>4. QED BY <1>1, <1>2, <1>3, FailureCases DEF TypeOK

LEMMA TransactionType == TypeOK /\ Transaction => TypeOK'
<1> SUFFICES ASSUME TypeOK, Transaction PROVE TypeOK'
  OBVIOUS
<1> USE DEF tick, bounds, history
<1>1. CASE Begin
  BY <1>1, SchedulerLimits DEF Begin, TypeOK
<1>2. CASE Commit
  BY <1>2 DEF Commit, TypeOK
<1>3. CASE Rollback
  BY <1>3 DEF Rollback, TypeOK
<1>4. QED BY <1>1, <1>2, <1>3 DEF Transaction

LEMMA RunDueJobsType == TypeOK /\ RunDueJobs => TypeOK'
<1> SUFFICES ASSUME TypeOK, RunDueJobs PROVE TypeOK'
  OBVIOUS
<1> USE DEF bounds, history, database, Places
<1>1. ASSUME batch # <<>>
      PROVE  /\ Head(batch).key \in Keys /\ Head(batch).kind \in Kinds
             /\ Tail(batch) \in Seq([key : Keys, kind : Kinds])
  <2>1. batch \in Seq([key : Keys, kind : Kinds])
    BY DEF TypeOK
  <2>2. Head(batch) \in [key : Keys, kind : Kinds] /\ Tail(batch) \in Seq([key : Keys, kind : Kinds])
    BY <1>1, <2>1, HeadTailProperties
  <2>3. QED BY <2>2
<1>2. CASE Collect
  <2> DEFINE n == IF Len(due) < BatchMax THEN Len(due) ELSE BatchMax
  <2>1. n \in Nat /\ n <= Len(due)
    BY SchedulerLimits DEF TypeOK
  <2>2. \A i \in 1 .. n : due[i] \in Keys /\ jobs[due[i]] \in Kinds
    BY <2>1 DEF TypeOK
  <2> HIDE DEF n
  <2>3. [i \in 1 .. n |-> [key |-> due[i], kind |-> jobs[due[i]]]]
          \in [1 .. n -> [key : Keys, kind : Kinds]]
    BY <2>2
  <2>4. batch' = [i \in 1 .. n |-> [key |-> due[i], kind |-> jobs[due[i]]]]
    BY <1>2 DEF Collect, n
  <2>5. batch' \in Seq([key : Keys, kind : Kinds])
    BY <2>1, <2>3, <2>4, SeqDef
  <2>6. QED BY <1>2, <2>5 DEF Collect, TypeOK
<1>3. CASE RunJob
  BY <1>3 DEF RunJob, TypeOK
<1>4. CASE JobReturns
  BY <1>1, <1>4 DEF JobReturns, TypeOK
<1>5. CASE JobRaises
  BY <1>5 DEF JobRaises, TypeOK
<1>6. CASE Reschedule
  <2>1. batch # <<>> /\ "tick" \in Actors
    BY <1>6 DEF Reschedule, TypeOK, Actors
  <2>2. MemoryOK' /\ stored' = stored /\ half' \in [Actors -> Unfinished \union {None}]
    BY <1>1, <1>6, <2>1, SetJobKeeps, PopJobKeeps DEF Reschedule
  <2>3. raced' \subseteq Keys
    BY <1>1, <1>6, <2>1 DEF Reschedule, Racing, TypeOK
  <2>4. QED BY <1>1, <1>6, <2>1, <2>2, <2>3 DEF Reschedule, TypeOK, MemoryOK
<1>7. CASE TickEnds
  BY <1>7 DEF TickEnds, TypeOK
<1>8. QED BY <1>2, <1>3, <1>4, <1>5, <1>6, <1>7 DEF RunDueJobs

LEMMA BecomesDueType ==
    ASSUME TypeOK, NEW k \in Keys, BecomesDue(k)
    PROVE  TypeOK'
<1>1. due' = Append(due, k) /\ jobs[k] # None /\ \A i \in 1 .. Len(due) : due[i] # k
  BY DEF BecomesDue, Contains
<1>2. due \in Seq(Keys) /\ Len(due) \in Nat /\ DOMAIN due = 1 .. Len(due)
      /\ \A i, j \in 1 .. Len(due) : due[i] = due[j] => i = j
  BY DEF TypeOK, IsInjective
<1>3. /\ due' \in Seq(Keys) /\ Len(due') = Len(due) + 1 /\ DOMAIN due' = 1 .. Len(due')
      /\ \A i \in 1 .. Len(due) : due'[i] = due[i]
      /\ due'[Len(due) + 1] = k
  BY <1>1, <1>2, AppendProperties
<1>4. \A i \in 1 .. Len(due') : jobs[due'[i]] # None
  BY <1>1, <1>2, <1>3 DEF TypeOK
<1>5. \A i, j \in 1 .. Len(due') : due'[i] = due'[j] => i = j
  BY <1>1, <1>2, <1>3
<1>6. IsInjective(due')
  BY <1>3, <1>5 DEF IsInjective
<1>7. UNCHANGED <<jobs, stored, at, batch, half, ops, restarts, ran, raced, cancelled,
                  saved, unsaved>>
  BY DEF BecomesDue, tick, bounds, history, database
<1>8. QED BY <1>3, <1>4, <1>6, <1>7 DEF TypeOK

LEMMA NextType == TypeOK /\ [Next]_vars => TypeOK'
<1>1. TypeOK /\ UNCHANGED vars => TypeOK'
  BY DEF vars, tick, bounds, history, database, TypeOK
<1>2. QED BY <1>1, RunDueJobsType, OperateType, TransactionType, RestartType, FinishType,
              FailureType, BecomesDueType DEF Next

-----------------------------------------------------------------------------
(* A key is touched by an operation that begins, and only by it: every     *)
(* other key keeps what InStep says of it.                                 *)
LEMMA OthersInStep ==
    ASSUME NEW k \in Keys, InStep(k),
           \A a \in Actors : On(a, k)' <=> On(a, k),
           \A a \in Actors : On(a, k) => half'[a] = half[a],
           jobs'[k] = jobs[k],
           stored'[k] = stored[k] \/ k \in unsaved', k \in unsaved => k \in unsaved'
    PROVE  InStep(k)'
BY DEF InStep, Pending, On

(* An operation that begins on a key where none is under way; otherwise    *)
(* the key is noted in raced.                                              *)
LEMMA BeginsInStep ==
    ASSUME TypeOK, NEW a \in Actors, NEW k \in Keys, NEW u \in Unfinished,
           u.key = k, half[a] = None, half' = [half EXCEPT ![a] = u],
           \A j \in Keys \ raced : InStep(j),
           raced' = Racing(k), unsaved' = unsaved,
           \A j \in Keys \ {k} : jobs'[j] = jobs[j] /\ stored'[j] = stored[j],
           u.op = "store" => jobs'[k] = u.kind,
           u.op = "delete" => jobs'[k] = None
    PROVE  \A j \in Keys \ raced' : InStep(j)'
<1>1. /\ \A b \in Actors \ {a} : half'[b] = half[b]
      /\ half'[a] = u /\ u # None
  BY UnfinishedIsNotNone DEF TypeOK
<1>2. ASSUME NEW j \in Keys \ raced', j # k PROVE InStep(j)'
  <2>1. InStep(j)
    BY <1>2 DEF Racing
  <2>2. \A b \in Actors : On(b, j)' <=> On(b, j)
    BY <1>1, <1>2 DEF On
  <2>3. \A b \in Actors : On(b, j) => half'[b] = half[b]
    BY <1>1 DEF On
  <2>4. QED BY <1>2, <2>1, <2>2, <2>3, OthersInStep
<1>3. ASSUME k \notin raced' PROVE InStep(k)'
  <2>1. ~Pending(k)
    BY <1>3 DEF Racing
  <2>2. \A b \in Actors : On(b, k)' <=> b = a
    BY <1>1, <2>1 DEF On, Pending
  <2>3. Pending(k)'
    BY <1>1 DEF Pending
  <2>4. QED BY <1>1, <2>2, <2>3 DEF InStep
<1>4. QED BY <1>2, <1>3

(* An operation that ends and leaves its key in step.                      *)
LEMMA EndsInStep ==
    ASSUME TypeOK, NEW a \in Actors, NEW k \in Keys, half[a] # None, half[a].key = k,
           half' = [half EXCEPT ![a] = None],
           \A j \in Keys \ raced : InStep(j),
           raced' = raced, unsaved \ {k} \subseteq unsaved',
           \A j \in Keys \ {k} : jobs'[j] = jobs[j] /\ stored'[j] = stored[j],
           k \notin raced /\ jobs'[k] # None => stored'[k] = Row(jobs'[k]) \/ k \in unsaved'
    PROVE  \A j \in Keys \ raced' : InStep(j)'
<1>1. /\ \A b \in Actors \ {a} : half'[b] = half[b]
      /\ half'[a] = None
  BY DEF TypeOK
<1>2. ASSUME NEW j \in Keys \ raced', j # k PROVE InStep(j)'
  <2>1. InStep(j)
    BY <1>2
  <2>2. \A b \in Actors : On(b, j)' <=> On(b, j)
    BY <1>1, <1>2 DEF On
  <2>3. \A b \in Actors : On(b, j) => half'[b] = half[b]
    BY <1>1, <1>2 DEF On
  <2>4. QED BY <1>2, <2>1, <2>2, <2>3, OthersInStep
<1>3. ASSUME k \notin raced' PROVE InStep(k)'
  <2>1. InStep(k) /\ On(a, k)
    BY <1>1, <1>3 DEF On
  <2>2. \A b \in Actors : ~On(b, k)'
    BY <1>1, <2>1 DEF InStep, On
  <2>3. QED BY <1>3, <2>2 DEF InStep
<1>4. QED BY <1>2, <1>3

-----------------------------------------------------------------------------
(* Steps of the tick, of the operations, and the new host.                 *)
LEMMA SetJobBegins ==
    ASSUME TypeOK, NEW a \in Actors, NEW k \in Keys, NEW kind \in Kinds, SetJob(a, k, kind),
           half[a] = None, \A j \in Keys \ raced : InStep(j), raced' = Racing(k), unsaved' = unsaved
    PROVE  \A j \in Keys \ raced' : InStep(j)'
<1> DEFINE u == [op |-> "store", key |-> k, kind |-> kind]
<1>1. u \in Unfinished /\ u.key = k /\ u.op = "store" /\ u.kind = kind
  BY DEF Unfinished
<1>2. /\ \A j \in Keys \ {k} : jobs'[j] = jobs[j] /\ stored'[j] = stored[j]
      /\ jobs'[k] = kind /\ half' = [half EXCEPT ![a] = u]
  BY DEF SetJob, TypeOK
<1> HIDE DEF u
<1>3. QED BY <1>1, <1>2, BeginsInStep

LEMMA PopJobBegins ==
    ASSUME TypeOK, NEW a \in Actors, NEW k \in Keys, PopJob(a, k),
           half[a] = None, \A j \in Keys \ raced : InStep(j), raced' = Racing(k), unsaved' = unsaved
    PROVE  \A j \in Keys \ raced' : InStep(j)'
<1> DEFINE u == [op |-> "delete", key |-> k, kind |-> "every"]
<1>1. u \in Unfinished /\ u.key = k /\ u.op = "delete"
  BY DEF Unfinished, Kinds
<1>2. /\ \A j \in Keys \ {k} : jobs'[j] = jobs[j] /\ stored'[j] = stored[j]
      /\ jobs'[k] = None /\ half' = [half EXCEPT ![a] = u]
  BY DEF PopJob, TypeOK
<1> HIDE DEF u
<1>3. QED BY <1>1, <1>2, BeginsInStep

LEMMA InitInv == Init => Inv
<1> SUFFICES ASSUME Init PROVE Inv
  OBVIOUS
<1>1. ASSUME NEW k \in Keys PROVE InStep(k)
  <2>1. \A a \in Actors : half[a] = None
    BY DEF Init
  <2>2. jobs[k] # None => stored[k] = Row(jobs[k])
    BY DEF Init, Installed
  <2>3. QED BY <2>1, <2>2 DEF InStep, On
<1>2. TickInv
  BY DEF Init, TickInv
<1>3. QED BY <1>1, <1>2, InitType DEF Inv

LEMMA RestartInv == Inv /\ Restart => Inv'
<1> SUFFICES ASSUME Inv, Restart PROVE Inv'
  OBVIOUS
<1>1. ASSUME NEW k \in Keys PROVE InStep(k)'
  <2>1. \A a \in Actors : half'[a] = None
    BY DEF Restart
  <2>2. jobs'[k] # None => stored'[k] = Row(jobs'[k])
    BY DEF Restart, Installed
  <2>3. QED BY <2>1, <2>2 DEF InStep, On
<1>2. TickInv'
  BY DEF Restart, TickInv
<1>3. TypeOK'
  BY RestartType DEF Inv
<1>4. QED BY <1>1, <1>2, <1>3 DEF Inv

LEMMA OperateInv == Inv /\ Operate => Inv'
<1> SUFFICES ASSUME Inv, Operate PROVE Inv'
  OBVIOUS
<1> USE DEF Inv
<1>1. TypeOK'
  BY OperateType
<1>2. ASSUME NEW k \in Keys, NEW a \in Actors, NEW kind \in Kinds, Register(a, k, kind)
      PROVE  Inv'
  <2>1. half[a] = None /\ SetJob(a, k, kind) /\ raced' = Racing(k) /\ unsaved' = unsaved
    BY <1>2 DEF Register, MayOperate, database
  <2>2. \A j \in Keys \ raced' : InStep(j)'
    BY <2>1, SetJobBegins
  <2>3. TickInv'
    <3>1. at' = at /\ batch' = batch /\ ran' = ran \ {k} /\ (a = "tick" => at = "body")
      BY <1>2 DEF Register, MayOperate, tick
    <3>2. \A j \in Keys \ {k} : jobs'[j] = jobs[j]
      BY <2>1 DEF SetJob, TypeOK
    <3>3. at = "resched" => half'["tick"] = half["tick"]
      BY <2>1, <3>1 DEF SetJob, Actors, TypeOK
    <3>4. ran \subseteq Keys
      BY DEF TypeOK
    <3>5. QED BY <3>1, <3>2, <3>3, <3>4 DEF TickInv
  <2>4. QED BY <1>1, <2>2, <2>3
<1>3. ASSUME NEW k \in Keys, NEW a \in Actors, Cancel(a, k) PROVE Inv'
  <2>1. half[a] = None /\ PopJob(a, k) /\ raced' = Racing(k) /\ unsaved' = unsaved
    BY <1>3 DEF Cancel, MayOperate, database
  <2>2. \A j \in Keys \ raced' : InStep(j)'
    BY <2>1, PopJobBegins
  <2>3. TickInv'
    <3>1. at' = at /\ batch' = batch /\ ran' = ran /\ (a = "tick" => at = "body")
      BY <1>3 DEF Cancel, MayOperate, tick
    <3>2. jobs'[k] = None /\ \A j \in Keys \ {k} : jobs'[j] = jobs[j]
      BY <2>1 DEF PopJob, TypeOK
    <3>3. at = "resched" => half'["tick"] = half["tick"]
      BY <2>1, <3>1 DEF PopJob, Actors, TypeOK
    <3>4. ran \subseteq Keys
      BY DEF TypeOK
    <3>5. QED BY <3>1, <3>2, <3>3, <3>4, NoneIsNoKind DEF TickInv
  <2>4. QED BY <1>1, <2>2, <2>3
<1>4. ASSUME NEW k \in Keys, Disable(k) PROVE Inv'
  <2> DEFINE u == [op |-> "pop", key |-> k, kind |-> "every"]
  <2>1. u \in Unfinished /\ u.key = k /\ u.op = "pop" /\ "web" \in Actors /\ "tick" \in Actors
    BY DEF Unfinished, Kinds, Actors
  <2>2. /\ half["web"] = None /\ half' = [half EXCEPT !["web"] = u]
        /\ jobs' = jobs /\ raced' = Racing(k) /\ unsaved' = unsaved
        /\ \A j \in Keys \ {k} : stored'[j] = stored[j]
        /\ UNCHANGED <<at, batch, ran>>
    BY <1>4 DEF Disable, MayOperate, tick, database, TypeOK
  <2> HIDE DEF u
  <2>3. \A j \in Keys \ raced' : InStep(j)'
    BY <2>1, <2>2, BeginsInStep
  <2>4. TickInv'
    BY <2>1, <2>2 DEF TickInv, TypeOK
  <2>5. QED BY <1>1, <2>3, <2>4
<1>5. ASSUME NEW k \in Keys, Enable(k) PROVE Inv'
  <2>1. stored[k] \in Rows
    BY <1>5 DEF Enable, TypeOK
  <2>2. PICK u \in Unfinished :
            u.key = k /\ u.op = "enable" /\ half' = [half EXCEPT !["web"] = u]
    BY <1>5, <2>1 DEF Enable, Unfinished, Rows
  <2>3. /\ half["web"] = None /\ jobs' = jobs /\ stored' = stored /\ raced' = Racing(k)
        /\ UNCHANGED <<at, batch, ran, unsaved>> /\ "web" \in Actors /\ "tick" \in Actors
    BY <1>5 DEF Enable, MayOperate, tick, database, Actors
  <2>4. \A j \in Keys \ raced' : InStep(j)'
    BY <2>2, <2>3, BeginsInStep
  <2>5. TickInv'
    BY <2>2, <2>3 DEF TickInv, TypeOK
  <2>6. QED BY <1>1, <2>4, <2>5
<1>6. QED BY <1>2, <1>3, <1>4, <1>5 DEF Operate

(* The second half of an operation: three of them end it, enabling goes on *)
(* to store the job that it has put back.                                  *)
LEMMA FinishInStep ==
    ASSUME Inv, NEW a \in Actors, Finish(a)
    PROVE  \A j \in Keys \ raced' : InStep(j)'
<1> USE DEF Inv
<1>1. PICK k \in Keys : k = half[a].key
  BY FinishCases
<1>2. PICK kind \in Kinds : kind = half[a].kind
  BY FinishCases
<1>3. half[a] # None /\ On(a, k) /\ raced' = raced
  BY <1>1, FinishCases DEF Finish, On
<1>4. CASE /\ half[a].op = "store"
           /\ stored' = [stored EXCEPT ![k] = Row(kind)] /\ unsaved' = unsaved \ {k}
           /\ half' = [half EXCEPT ![a] = None] /\ jobs' = jobs
  <2>1. k \notin raced => jobs'[k] = kind
    BY <1>2, <1>3, <1>4 DEF InStep
  <2>2. stored'[k] = Row(kind) /\ \A j \in Keys \ {k} : stored'[j] = stored[j]
    BY <1>4 DEF TypeOK
  <2>3. QED BY <1>1, <1>3, <1>4, <2>1, <2>2, EndsInStep
<1>5. CASE /\ half[a].op = "delete"
           /\ stored' = [stored EXCEPT ![k] = None] /\ unsaved' = unsaved \ {k}
           /\ half' = [half EXCEPT ![a] = None] /\ jobs' = jobs
  <2>1. k \notin raced => jobs'[k] = None
    BY <1>3, <1>5 DEF InStep
  <2>2. \A j \in Keys \ {k} : stored'[j] = stored[j]
    BY <1>5 DEF TypeOK
  <2>3. QED BY <1>1, <1>3, <1>5, <2>1, <2>2, EndsInStep
<1>6. CASE /\ jobs' = [jobs EXCEPT ![k] = None]
           /\ half' = [half EXCEPT ![a] = None] /\ UNCHANGED <<stored, unsaved>>
  <2>1. jobs'[k] = None /\ \A j \in Keys \ {k} : jobs'[j] = jobs[j]
    BY <1>6 DEF TypeOK
  <2>2. QED BY <1>1, <1>3, <1>6, <2>1, EndsInStep
<1>7. CASE SetJob(a, k, kind) /\ unsaved' = unsaved
  <2>1. /\ half'[a] = [op |-> "store", key |-> k, kind |-> kind] /\ stored' = stored
        /\ \A b \in Actors \ {a} : half'[b] = half[b]
        /\ jobs'[k] = kind /\ \A j \in Keys \ {k} : jobs'[j] = jobs[j]
    BY <1>7 DEF SetJob, TypeOK
  <2>2. half'[a] # None /\ half'[a].key = k /\ half'[a].op = "store" /\ half'[a].kind = kind
    BY <2>1, UnfinishedIsNotNone DEF Unfinished
  <2>3. ASSUME NEW j \in Keys \ raced, j # k PROVE InStep(j)'
    <3>1. \A b \in Actors : On(b, j)' <=> On(b, j)
      BY <1>1, <2>1, <2>2, <2>3 DEF On
    <3>2. \A b \in Actors : On(b, j) => half'[b] = half[b]
      BY <1>1, <2>1, <2>3 DEF On
    <3>3. QED BY <1>7, <2>1, <2>3, <3>1, <3>2, OthersInStep
  <2>4. ASSUME k \notin raced PROVE InStep(k)'
    <3>1. \A b \in Actors : On(b, k)' <=> b = a
      BY <1>3, <2>1, <2>2, <2>4 DEF InStep, On
    <3>2. Pending(k)'
      BY <2>2 DEF Pending
    <3>3. QED BY <2>1, <2>2, <3>1, <3>2 DEF InStep
  <2>5. QED BY <1>3, <2>3, <2>4
<1>8. QED BY <1>1, <1>2, <1>4, <1>5, <1>6, <1>7, FinishCases

LEMMA FinishInv ==
    ASSUME Inv, NEW a \in Actors, Finish(a)
    PROVE  Inv'
<1> USE DEF Inv
<1>1. PICK k \in Keys : k = half[a].key
  BY FinishCases
<1>2. PICK kind \in Kinds : kind = half[a].kind
  BY FinishCases
<1>3. half[a] # None /\ at' = at /\ batch' = batch /\ ran \subseteq Keys
  BY FinishCases DEF Finish, TypeOK
<1>4. at = "resched" => half'["tick"] = None
  <2>1. at = "resched" => a # "tick" /\ half["tick"] = None
    BY <1>3 DEF TickInv
  <2>2. \A b \in Actors \ {a} : half'[b] = half[b]
    BY FinishCases DEF SetJob, TypeOK
  <2>3. QED BY <2>1, <2>2 DEF Actors
<1>5. \A j \in ran' : jobs'[j] = "after" => j \in ran /\ jobs[j] = "after"
  <2>1. CASE jobs' = jobs /\ ran' = ran
    BY <2>1
  <2>2. CASE jobs' = [jobs EXCEPT ![k] = None] /\ ran' = ran
    BY <1>3, <2>2, NoneIsNoKind DEF TypeOK
  <2>3. CASE SetJob(a, k, kind) /\ ran' = ran \ {k}
    BY <1>3, <2>3 DEF SetJob, TypeOK
  <2>4. QED BY <1>1, <1>2, <2>1, <2>2, <2>3, FinishCases
<1>6. TickInv'
  BY <1>3, <1>4, <1>5 DEF TickInv
<1>7. QED BY <1>6, FinishInStep, FinishType

(* One that raises leaves its key in step with the row it has written, and *)
(* notes it in unsaved when it was to store one and has not.               *)
LEMMA FailureInv ==
    ASSUME Inv, NEW a \in Actors, FinishFails(a)
    PROVE  Inv'
<1> USE DEF Inv
<1>1. PICK k \in Keys : k = half[a].key
  BY FailureCases
<1>2. half[a] # None /\ On(a, k) /\ raced' = raced /\ jobs' = jobs
  BY <1>1, FailureCases DEF FinishFails, On
<1>3. /\ \A j \in Keys \ {k} : stored'[j] = stored[j]
      /\ unsaved \ {k} \subseteq unsaved'
  BY <1>1, FailureCases DEF TypeOK
<1>4. ASSUME k \notin raced, jobs'[k] # None
      PROVE  stored'[k] = Row(jobs'[k]) \/ k \in unsaved'
  <2>1. half[a].op = "store" /\ jobs[k] = half[a].kind
    BY <1>2, <1>4, FailureCases DEF InStep
  <2>2. CASE stored' = [stored EXCEPT ![k] = Written(half[a])]
    BY <1>2, <2>1, <2>2 DEF Written, TypeOK
  <2>3. CASE unsaved' = unsaved \union {k}
    BY <2>3
  <2>4. QED BY <1>1, <2>1, <2>2, <2>3, FailureCases
<1>5. \A j \in Keys \ raced' : InStep(j)'
  BY <1>1, <1>2, <1>3, <1>4, EndsInStep, FailureCases
<1>6. TickInv'
  <2>1. at' = "resched" => half'["tick"] = None
    <3>1. "tick" \in Actors /\ (half["tick"] = None => half'["tick"] = None)
      BY FailureCases DEF Actors, TypeOK
    <3>2. QED BY <3>1, FailureCases DEF TickInv
  <2>2. ASSUME a = "tick", at = "resched" PROVE FALSE
    BY <1>2, <2>2 DEF TickInv
  <2>3. CASE a # "tick"
    BY <1>2, <2>1, <2>3, FailureCases DEF TickInv, FinishFails, tick
  <2>4. CASE a = "tick"
    BY <1>2, <2>1, <2>2, <2>4, FailureCases DEF TickInv
  <2>5. QED BY <2>3, <2>4
<1>7. QED BY <1>5, <1>6, FailureType

LEMMA TransactionInv == Inv /\ Transaction => Inv'
<1> SUFFICES ASSUME Inv, Transaction PROVE Inv'
  OBVIOUS
<1> USE DEF Inv, tick, history
<1>1. TypeOK'
  BY TransactionType
<1>2. UNCHANGED <<jobs, half, raced, ran, at, batch>>
  BY DEF Transaction, Begin, Commit, Rollback
<1>3. TickInv'
  BY <1>2 DEF TickInv
<1>4. ASSUME NEW k \in Keys \ raced' PROVE InStep(k)'
  <2>1. InStep(k) /\ \A a \in Actors : On(a, k)' <=> On(a, k)
    BY <1>2, <1>4 DEF On
  <2>2. k \in unsaved => k \in unsaved'
    BY DEF Transaction, Begin, Commit, Rollback
  <2>3. stored'[k] = stored[k] \/ k \in unsaved' \/ jobs[k] = None
    BY DEF Transaction, Begin, Commit, Rollback
  <2>4. QED BY <1>2, <2>1, <2>2, <2>3 DEF InStep, Pending, On
<1>5. QED BY <1>1, <1>3, <1>4

LEMMA RunDueJobsInv == Inv /\ RunDueJobs => Inv'
<1> SUFFICES ASSUME Inv, RunDueJobs PROVE Inv'
  OBVIOUS
<1> USE DEF Inv, bounds, history, database
<1>1. TypeOK'
  BY RunDueJobsType
<1>2. ASSUME UNCHANGED <<jobs, stored, half, raced, unsaved>>
      PROVE  \A j \in Keys \ raced' : InStep(j)'
  BY <1>2 DEF InStep, On, Pending
<1>3. CASE Collect
  BY <1>1, <1>2, <1>3 DEF Collect, TickInv
<1>4. CASE RunJob
  BY <1>1, <1>2, <1>4 DEF RunJob, TickInv
<1>5. CASE JobReturns
  BY <1>1, <1>2, <1>5 DEF JobReturns, TickInv
<1>6. CASE JobRaises
  BY <1>1, <1>2, <1>6 DEF JobRaises, TickInv
<1>7. CASE TickEnds
  BY <1>1, <1>2, <1>7 DEF TickEnds, TickInv
<1>8. CASE Reschedule
  <2>1. batch # <<>> /\ batch \in Seq([key : Keys, kind : Kinds]) /\ "tick" \in Actors
    BY <1>8 DEF Reschedule, TypeOK, Actors
  <2>2. Head(batch) \in [key : Keys, kind : Kinds]
    BY <2>1, HeadTailProperties
  <2>3. PICK k \in Keys, kind \in Kinds : k = Head(batch).key /\ kind = Head(batch).kind
    BY <2>2
  <2>4. /\ half["tick"] = None /\ raced' = Racing(k) /\ ran' = ran /\ at' = "next"
        /\ unsaved' = unsaved
        /\ IF kind = "after" THEN PopJob("tick", k) ELSE SetJob("tick", k, kind)
    BY <1>8, <2>3 DEF Reschedule, TickInv
  <2>5. \A j \in Keys \ raced' : InStep(j)'
    BY <2>1, <2>4, SetJobBegins, PopJobBegins
  <2>6. jobs'[k] # "after" /\ \A j \in Keys \ {k} : jobs'[j] = jobs[j]
    BY <2>4, NoneIsNoKind DEF PopJob, SetJob, TypeOK
  <2>7. ran \subseteq Keys /\ \A j \in ran : jobs[j] = "after" => j = k
    BY <1>8, <2>3 DEF TypeOK, TickInv
  <2>8. TickInv'
    BY <2>4, <2>6, <2>7 DEF TickInv
  <2>9. QED BY <1>1, <2>5, <2>8
<1>9. QED BY <1>3, <1>4, <1>5, <1>6, <1>7, <1>8 DEF RunDueJobs

LEMMA NextInv == Inv /\ [Next]_vars => Inv'
<1> SUFFICES ASSUME Inv, [Next]_vars PROVE Inv'
  OBVIOUS
<1>1. TypeOK'
  BY NextType DEF Inv
<1>2. ASSUME UNCHANGED <<jobs, stored, tick, half, history, database>> PROVE Inv'
  BY <1>1, <1>2 DEF Inv, InStep, On, Pending, TickInv, tick, history, database
<1>3. ASSUME NEW k \in Keys, BecomesDue(k) PROVE Inv'
  BY <1>2, <1>3 DEF BecomesDue
<1>4. CASE UNCHANGED vars
  BY <1>2, <1>4 DEF vars
<1>5. QED BY <1>3, <1>4, RunDueJobsInv, OperateInv, TransactionInv, RestartInv, FinishInv,
              FailureInv DEF Next

-----------------------------------------------------------------------------
THEOREM Invariance == Spec => []Inv
BY InitInv, NextInv, PTL DEF Spec

(* Every variable has its type, and what is due is in memory, once; and a  *)
(* job in memory is stored and enabled, as that kind, whatever scripts, the*)
(* web and the tick do, unless two operations on its key have met, or the  *)
(* last write of its row failed (host.py, _store_job) or was rolled back   *)
(* with the transaction of some script (db_rollback).                      *)
THEOREM MemoryAgrees == Spec => []JobsInv
<1>1. Inv => JobsInv
  BY DEF Inv, InStep, JobsInv, MemoryIsStored
<1>2. QED BY <1>1, Invariance, PTL

(* The tick never runs a one-shot job again that has run and has not been  *)
(* registered again, whatever was cancelled, enabled or reloaded meanwhile.*)
THEOREM OneShotRunsOnce == Spec => AfterRunsOnce
<1>1. Inv /\ [Next]_vars =>
        [at' = "body" /\ at # "body" =>
            ~(jobs[Head(batch).key] = "after" /\ Head(batch).key \in ran)]_vars
  <2> SUFFICES ASSUME Inv, Next, at' = "body", at # "body"
               PROVE  ~(jobs[Head(batch).key] = "after" /\ Head(batch).key \in ran)
    OBVIOUS
  <2>1. RunJob
    BY DEF Next, RunDueJobs, Collect, JobReturns, JobRaises, Reschedule, TickEnds, Operate,
           Register, Cancel, Disable, Enable, Restart, Finish, FinishFails, BecomesDue,
           Transaction, Begin, Commit, Rollback, tick
  <2>2. at = "next"
    BY <2>1 DEF RunJob
  <2>3. QED BY <2>2 DEF Inv, TickInv
<1>2. QED BY <1>1, Invariance, PTL DEF Spec, AfterRunsOnce

-----------------------------------------------------------------------------
(* The order of what is due.                                               *)

LEMMA DueFact ==
    ASSUME TypeOK
    PROVE  /\ due \in Seq(Keys) /\ Len(due) \in Nat /\ DOMAIN due = 1 .. Len(due)
           /\ \A i, j \in 1 .. Len(due) : due[i] = due[j] => i = j
BY DEF TypeOK, IsInjective

LEMMA SameKeepsPlaces == ASSUME TypeOK PROVE KeepsPlaces(due, due)
<1> SUFFICES ASSUME NEW i \in 1 .. Len(due), NEW j \in 1 .. Len(due), due[i] = due[j]
             PROVE  j <= i /\ \A h \in 1 .. j : \E g \in 1 .. i : due[g] = due[h]
  BY DEF KeepsPlaces
<1>1. i = j /\ i \in Nat
  BY DueFact
<1>2. QED BY <1>1

LEMMA WithoutKeepsPlaces ==
    ASSUME TypeOK, NEW k \in Keys
    PROVE  KeepsPlaces(due, Without(k))
<1>1. CASE ~Contains(due, k)
  BY <1>1, SameKeepsPlaces DEF Without
<1>2. CASE Contains(due, k)
  <2> DEFINE n == CHOOSE i \in 1 .. Len(due) : due[i] = k
             x(i) == IF i < n THEN i ELSE i + 1
             rest == [i \in 1 .. Len(due) - 1 |-> due[x(i)]]
  <2>1. n \in 1 .. Len(due) /\ due[n] = k
    BY <1>2, DueFact DEF Contains
  <2>2. Without(k) = rest
    BY <1>2 DEF Without
  <2> HIDE DEF n
  <2>3. /\ Len(due) \in Nat /\ Len(due) - 1 \in Nat
        /\ \A i \in 1 .. Len(due) - 1 : x(i) \in 1 .. Len(due) /\ i <= x(i)
        /\ \A i, j \in 1 .. Len(due) - 1 : i <= j => x(i) <= x(j)
    BY <2>1, DueFact
  <2>4. \A i \in 1 .. Len(due) - 1 : rest[i] = due[x(i)]
    OBVIOUS
  <2>5. Len(rest) = Len(due) - 1
    <3>1. rest \in [1 .. Len(due) - 1 -> Keys]
      BY <2>3, DueFact
    <3> HIDE DEF rest
    <3>2. rest \in Seq(Keys) /\ DOMAIN rest = 1 .. Len(due) - 1
      BY <2>3, <3>1, SeqDef
    <3>3. DOMAIN rest = 1 .. Len(rest) /\ Len(rest) \in Nat
      BY <3>2, LenProperties
    <3>4. QED BY <2>3, <3>2, <3>3
  <2> HIDE DEF rest
  <2>6. ASSUME NEW i \in 1 .. Len(due), NEW j \in 1 .. Len(rest), due[i] = rest[j]
        PROVE  j <= i /\ \A h \in 1 .. j : \E g \in 1 .. i : due[g] = rest[h]
    <3>1. j \in 1 .. Len(due) - 1 /\ i = x(j)
      BY <2>3, <2>4, <2>5, <2>6, DueFact
    <3>2. j <= i
      BY <2>3, <3>1
    <3>3. ASSUME NEW h \in 1 .. j PROVE \E g \in 1 .. i : due[g] = rest[h]
      <4>1. h \in 1 .. Len(due) - 1 /\ h <= j
        BY <2>3, <3>1
      <4>2. x(h) \in 1 .. Len(due) /\ x(h) <= x(j)
        BY <2>3, <3>1, <4>1
      <4>3. x(h) \in 1 .. i /\ rest[h] = due[x(h)]
        BY <2>3, <2>4, <3>1, <4>1, <4>2
      <4>4. QED BY <4>3
    <3>4. QED BY <3>2, <3>3
  <2>7. QED BY <2>2, <2>6 DEF KeepsPlaces
<1>3. QED BY <1>1, <1>2

LEMMA LastKeepsPlaces ==
    ASSUME TypeOK, NEW k \in Keys, ~Contains(due, k)
    PROVE  KeepsPlaces(due, Append(due, k))
<1> DEFINE t == Append(due, k)
<1>1. /\ Len(t) = Len(due) + 1 /\ t[Len(due) + 1] = k
      /\ \A i \in 1 .. Len(due) : t[i] = due[i]
  BY DueFact, AppendProperties
<1> HIDE DEF t
<1>2. ASSUME NEW i \in 1 .. Len(due), NEW j \in 1 .. Len(t), due[i] = t[j]
      PROVE  j <= i /\ \A h \in 1 .. j : \E g \in 1 .. i : due[g] = t[h]
  <2>1. j # Len(due) + 1
    BY <1>1, <1>2, DueFact DEF Contains
  <2>2. j \in 1 .. Len(due)
    BY <1>1, <2>1, DueFact
  <2>3. i = j /\ i \in Nat /\ Len(due) \in Nat
    BY <1>1, <1>2, <2>2, DueFact
  <2>4. \A h \in 1 .. j : h \in 1 .. Len(due) /\ h \in 1 .. i
    BY <2>2, <2>3
  <2>5. QED BY <1>1, <2>3, <2>4
<1>3. QED BY <1>2 DEF KeepsPlaces, t

(* A job that is due is never passed by one that came due later, whatever  *)
(* scripts and the web register, cancel or enable meanwhile (run_due_jobs  *)
(* of runtime.py sorts by next_run_at and takes the first).                *)
THEOREM NothingDueIsPassed == Spec => DueKeepsItsPlace
<1>1. ASSUME TypeOK, Next PROVE KeepsPlaces(due, due')
  <2>1. CASE due' = due
    BY <1>1, <2>1, SameKeepsPlaces
  <2>2. ASSUME NEW k \in Keys, due' = Without(k) PROVE KeepsPlaces(due, due')
    BY <1>1, <2>2, WithoutKeepsPlaces
  <2>3. ASSUME NEW k \in Keys, BecomesDue(k) PROVE KeepsPlaces(due, due')
    BY <1>1, <2>3, LastKeepsPlaces DEF BecomesDue
  <2>4. CASE Restart
    BY <2>4 DEF Restart, KeepsPlaces
  <2>5. CASE RunDueJobs
    <3>1. CASE Reschedule
      <4>1. batch # <<>> /\ batch \in Seq([key : Keys, kind : Kinds])
        BY <1>1, <3>1 DEF Reschedule, TypeOK
      <4>2. Head(batch).key \in Keys
        <5>1. Head(batch) \in [key : Keys, kind : Kinds]
          BY <4>1, HeadTailProperties
        <5>2. QED BY <5>1
      <4>3. due' = Without(Head(batch).key)
        BY <3>1 DEF Reschedule, SetJob, PopJob
      <4>4. QED BY <2>2, <4>2, <4>3
    <3>2. CASE ~Reschedule
      BY <2>1, <2>5, <3>2 DEF RunDueJobs, Collect, RunJob, JobReturns, JobRaises, TickEnds
    <3>3. QED BY <3>1, <3>2
  <2>6. CASE Operate
    <3>1. PICK k \in Keys :
            \/ \E a \in Actors : Cancel(a, k) \/ \E kind \in Kinds : Register(a, k, kind)
            \/ Disable(k) \/ Enable(k)
      BY <2>6 DEF Operate
    <3>2. due' = due \/ due' = Without(k)
      BY <3>1 DEF Cancel, Register, Disable, Enable, PopJob, SetJob
    <3>3. QED BY <2>1, <2>2, <3>2
  <2>7. ASSUME NEW a \in Actors, Finish(a) PROVE KeepsPlaces(due, due')
    <3>1. half[a].key \in Keys
      BY <1>1, <2>7, FinishCases
    <3>2. due' = due \/ due' = Without(half[a].key)
      BY <1>1, <2>7, FinishCases DEF SetJob
    <3>3. QED BY <2>1, <2>2, <3>1, <3>2
  <2>8. ASSUME NEW a \in Actors, FinishFails(a) PROVE KeepsPlaces(due, due')
    BY <1>1, <2>1, <2>8, FailureCases
  <2>9. CASE Transaction
    BY <2>1, <2>9 DEF Transaction, Begin, Commit, Rollback
  <2>10. QED BY <1>1, <2>3, <2>4, <2>5, <2>6, <2>7, <2>8, <2>9 DEF Next
<1>2. TypeOK /\ [Next]_vars => [KeepsPlaces(due, due')]_vars
  BY <1>1
<1>3. Inv => TypeOK
  BY DEF Inv
<1>4. QED BY <1>2, <1>3, Invariance, PTL DEF Spec, DueKeepsItsPlace
=============================================================================
