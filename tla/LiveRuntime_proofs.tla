------------------------- MODULE LiveRuntime_proofs -------------------------
(***************************************************************************)
(* Proofs about LiveRuntime, for any number of threads, keys, packets,     *)
(* rotates and reloads.                                                    *)
(*                                                                         *)
(* A query is answered with a response only if one was observed while it   *)
(* was open.  To keep that, the registered queries must be open ones, a    *)
(* query that a failed send is about to fail must not be registered, and   *)
(* no caller of a registered query may have been cut off.                  *)
(***************************************************************************)
EXTENDS LiveRuntime, FiniteSetTheorems, TLAPS

-----------------------------------------------------------------------------
(* The inductive invariant.                                                *)

(* A pending query is created by the thread it is named after, and all who *)
(* wait on it have its key; until its creator waits, it works on its own.  *)
Creators ==
    /\ \A t \in Threads : pend[t] # None =>
          key[pend[t]] = key[t] /\ pend[pend[t]] = pend[t]
    /\ \A k \in Keys : pending[k] # None => pend[pending[k]] = pending[k]
    /\ \A t \in Threads : at[t] \in Joined => pend[t] # None
    /\ \A t \in Threads : at[t] \in Joined \ {"wait"} => pend[t] = t

(* A thread that has made no query has left no trace of one.               *)
Fresh == \A t \in Threads : pend[t] = None => result[t] = None /\ t \notin cut

(* A query whose result is about to be overwritten is not registered.      *)
Popped == \A t \in Threads : at[t] = "overwrite" => \A k \in Keys : pending[k] # t

(* Whoever waits on a registered query has not been cut off.               *)
Uncut ==
    \A t \in Threads, k \in Keys :
        at[t] \in Joined /\ pend[t] = pending[k] => t \notin cut

(* Whoever waits on a query that a packet matched has heard that packet.   *)
MatchHeard ==
    \A t \in Threads : at[t] \in Joined /\ result[pend[t]] = "match" => t \in heard

QueryInv ==
    RegisteredIsOpen /\ Creators /\ Fresh /\ Popped /\ Uncut /\ MatchHeard /\ AnswerHeard

IInv == TypeOK /\ QueryInv

-----------------------------------------------------------------------------
(* Types.                                                                  *)

LEMMA TypeCall ==
    ASSUME NEW t \in Threads, TypeOK, CallStep(t) \/ Join(t) \/ DeadlinePasses(t) \/ LoopInject(t)
    PROVE  TypeOK'
<1> USE ThreadAssumption, NoneAssumption
    DEF TypeOK, Places, Inside, Joined, Sending, Outcomes, Threads,
        call, query, hosts, env, history, Goto, LockFree
<1>1. CASE Capture(t) BY <1>1 DEF Capture, conc
<1>2. CASE Enter(t) BY <1>2, SMTT(30) DEF Enter
<1>3. CASE End(t) BY <1>3 DEF End
<1>4. CASE Join(t) BY <1>4 DEF Join
<1>5. CASE DeadlinePasses(t) BY <1>5 DEF DeadlinePasses, conc
<1>6. CASE LoopInject(t) BY <1>6 DEF LoopInject
<1> QED BY <1>1, <1>2, <1>3, <1>4, <1>5, <1>6 DEF CallStep

LEMMA TypeQuery ==
    ASSUME NEW t \in Threads, TypeOK, QueryStep(t) /\ ~LeaveWait(t)
    PROVE  TypeOK'
<1> USE ThreadAssumption, NoneAssumption
    DEF TypeOK, Places, Inside, Joined, Sending, Outcomes, Threads,
        call, query, hosts, env, history, Goto, LockFree, LeaveQuery
<1>1. CASE StartSend(t) BY <1>1 DEF StartSend
<1>2. CASE SendRaises(t) BY <1>2 DEF SendRaises
<1>3. CASE InjectTimeout(t) BY <1>3 DEF InjectTimeout, conc
<1>4. CASE Release(t) BY <1>4 DEF Release
<1>5. CASE PopFailed(t) BY <1>5 DEF PopFailed, conc
<1>6. CASE Overwrite(t) BY <1>6 DEF Overwrite
<1> QED BY <1>1, <1>2, <1>3, <1>4, <1>5, <1>6 DEF QueryStep

(* What FailPending leaves behind, whoever calls it.                       *)
LEMMA TypeFailPending ==
    ASSUME TypeOK, NEW code \in Outcomes, FailPending(code)
    PROVE  /\ pending' \in [Keys -> Threads \union {None}]
           /\ result' \in [Threads -> Outcomes \union {None}]
           /\ cut' \subseteq Threads
BY DEF TypeOK, FailPending, Cut

LEMMA TypeEvent ==
    ASSUME TypeOK, LoopBegin \/ LoopResumes \/ ThreadRotates
    PROVE  TypeOK'
<1> DEFINE Rests == UNCHANGED <<at, key, pend, answer, pkt, waiters, due, lock, active, posted,
                                host, open, reload, old, made, heard>>
<1>1. Rests BY DEF LoopBegin, LoopResumes, ThreadRotates, call, hosts
<1>2. /\ pending' \in [Keys -> Threads \union {None}]
      /\ result' \in [Threads -> Outcomes \union {None}]
      /\ cut' \subseteq Threads
      /\ rfnq' \in Seq(Packets)
  <2>1. ASSUME NEW e \in Packets \union {Rotate}, Run(e) PROVE <1>2
    <3>1. CASE e = Rotate
      <4>1. FailPending("rotate") /\ rfnq' = rfnq BY <2>1, <3>1 DEF Run, SessionRotate
      <4> QED BY <4>1, TypeFailPending DEF TypeOK, Outcomes
    <3>2. CASE e # Rotate
      <4>1. EnqueuePacket(e) BY <2>1, <3>2 DEF Run
      <4> QED BY <4>1, <2>1, <3>2 DEF EnqueuePacket, TypeOK
    <3> QED BY <3>1, <3>2
  <2>2. CASE LoopBegin BY <2>1, <2>2 DEF LoopBegin, TypeOK
  <2>3. CASE LoopResumes
    <3>1. loop \in Packets \union {Rotate} /\ Run(loop) BY <2>3 DEF LoopResumes, TypeOK
    <3> QED BY <3>1, <2>1
  <2>4. CASE ThreadRotates
    <3>1. FailPending("rotate") /\ rfnq' = rfnq BY <2>4 DEF ThreadRotates, SessionRotate
    <3> QED BY <3>1, TypeFailPending DEF TypeOK, Outcomes
  <2> QED BY <2>2, <2>3, <2>4
<1>3. loop' \in Packets \union {Rotate, Free} /\ arrived' \in Nat /\ rotated' \in Nat
  BY DEF LoopBegin, LoopResumes, ThreadRotates, TypeOK, env
<1> QED BY <1>1, <1>2, <1>3 DEF TypeOK

LEMMA TypeReload ==
    ASSUME TypeOK, ReloadBegin \/ ReloadStep
    PROVE  TypeOK'
<1> USE DEF call, query, conc, env, history
<1>1. CASE ReloadBegin
  <2>1. FailPending("reload") BY <1>1 DEF ReloadBegin
  <2> QED BY <1>1, <2>1, TypeFailPending DEF ReloadBegin, TypeOK, Outcomes
<1>2. CASE Drained BY <1>2 DEF Drained, TypeOK
<1>3. CASE DrainTimeout BY <1>3 DEF DrainTimeout, TypeOK
<1>4. CASE TakeHostOut BY <1>4 DEF TakeHostOut, TypeOK
<1>5. CASE CloseHost BY <1>5 DEF CloseHost, TypeOK
<1>6. CASE Install
  <2>1. made \in 1 .. made BY DEF TypeOK
  <2>2. host' \in 1 .. made \union {None} /\ open' \subseteq 1 .. made
    BY <1>6, <2>1 DEF Install, TypeOK
  <2> QED BY <1>6, <2>2 DEF Install, TypeOK
<1> QED BY <1>1, <1>2, <1>3, <1>4, <1>5, <1>6 DEF ReloadStep

LEMMA TypeWorker ==
    ASSUME TypeOK, TakePacket \/ Observe
    PROVE  TypeOK'
<1>1. CASE TakePacket
  <2>1. pkt' \in Packets /\ rfnq' \in Seq(Packets) BY <1>1 DEF TakePacket, TypeOK
  <2>2. at' \in [Threads -> Places] /\ \A t \in Threads : lock = t <=> at'[t] \in Sending
    BY <1>1, ThreadAssumption
    DEF TakePacket, TypeOK, Goto, Threads, Places, Inside, Joined, Sending
  <2> QED BY <1>1, <2>1, <2>2 DEF TakePacket, TypeOK, query, hosts, env, history
<1>2. CASE Observe
  BY <1>2, ThreadAssumption
  DEF Observe, TypeOK, Goto, Hear, LockFree, Threads, Places, Inside, Joined, Sending,
      Outcomes, conc, hosts, env
<1> QED BY <1>1, <1>2

LEMMA TypeInit == Init => TypeOK
BY ThreadAssumption, NoneAssumption
DEF Init, TypeOK, Places, Inside, Joined, Sending, Outcomes, Threads, Packets, Rotate, Free

-----------------------------------------------------------------------------
(* The queries.                                                            *)

(* A step that leaves the queries alone, in which no thread starts to wait *)
(* and none gets to the point of overwriting.                              *)
LEMMA StepAside ==
    ASSUME IInv,
           UNCHANGED <<key, pend, answer, pending, result, heard, cut>>,
           \A u \in Threads :
              /\ at'[u] \in Joined => at[u] \in Joined
              /\ at'[u] \in Joined \ {"wait"} => at[u] \in Joined \ {"wait"}
              /\ at'[u] = "overwrite" => at[u] = "overwrite"
    PROVE  QueryInv'
<1>1. RegisteredIsOpen' BY DEF IInv, QueryInv, RegisteredIsOpen
<1>2. Creators' BY DEF IInv, QueryInv, Creators
<1>3. Fresh' /\ Popped' BY DEF IInv, QueryInv, Fresh, Popped
<1>4. Uncut' BY DEF IInv, QueryInv, Uncut
<1>5. MatchHeard' /\ AnswerHeard' BY DEF IInv, QueryInv, MatchHeard, AnswerHeard
<1> QED BY <1>1, <1>2, <1>3, <1>4, <1>5 DEF QueryInv

LEMMA RegisteredHasCreator ==
    ASSUME IInv, NEW k \in Keys, NEW u \in Threads, pending[k] = u
    PROVE  pend[u] # None
BY ThreadAssumption DEF IInv, QueryInv, Creators

(* A rotate or a reload cuts off every query, and leaves none registered.  *)
LEMMA AllFailed ==
    ASSUME IInv, NEW code \in {"rotate", "reload"}, FailPending(code),
           UNCHANGED <<at, key, pend, answer, heard>>
    PROVE  QueryInv'
<1> USE ThreadAssumption, NoneAssumption
    DEF IInv, QueryInv, TypeOK, FailPending, Cut, Joined, Sending, Outcomes
<1>1. RegisteredIsOpen' BY DEF RegisteredIsOpen
<1>2. Creators' BY DEF Creators
<1>3. Fresh'
  <2>1. ASSUME NEW u \in Threads, pend[u] = None PROVE \A k \in Keys : pending[k] # u
    BY <2>1, RegisteredHasCreator
  <2>2. ASSUME NEW u \in Threads, pend[u] = None PROVE at[u] \notin Joined
    BY <2>2 DEF Creators
  <2> QED BY <2>1, <2>2 DEF Fresh
<1>4. Popped' BY DEF Popped
<1>5. Uncut' BY DEF Uncut, Creators
<1>6. MatchHeard' BY DEF MatchHeard, Creators
<1>7. AnswerHeard' BY DEF AnswerHeard
<1> QED BY <1>1, <1>2, <1>3, <1>4, <1>5, <1>6, <1>7

(* The packet that matches a query is heard by all who wait on it.         *)
LEMMA QueryObserve == ASSUME IInv, Observe PROVE QueryInv'
<1> USE ThreadAssumption, NoneAssumption
    DEF IInv, QueryInv, TypeOK, Observe, Goto, Hear, call, query, conc, hosts, env,
        Places, Inside, Joined, Sending, Outcomes
<1>1. RegisteredIsOpen' BY DEF RegisteredIsOpen
<1>2. Creators' BY DEF Creators
<1>3. Fresh' BY DEF Fresh, Creators
<1>4. Popped' BY DEF Popped
<1>5. Uncut' BY DEF Uncut, Creators
<1>6. MatchHeard' BY DEF MatchHeard, RegisteredIsOpen, Creators, Uncut
<1>7. AnswerHeard' BY DEF AnswerHeard
<1> QED BY <1>1, <1>2, <1>3, <1>4, <1>5, <1>6, <1>7

(* A caller joins a query that is open, or creates one.                    *)
LEMMA QueryJoin == ASSUME NEW t \in Threads, IInv, Join(t) PROVE QueryInv'
<1> USE ThreadAssumption, NoneAssumption
    DEF IInv, QueryInv, TypeOK, Join, Goto, call, query, conc, hosts, env, history,
        Places, Inside, Joined, Sending, Outcomes
<1>1. RegisteredIsOpen' BY DEF RegisteredIsOpen, Fresh
<1>2. Creators' BY DEF Creators, RegisteredIsOpen
<1>3. Fresh' BY DEF Fresh
<1>4. Popped' BY DEF Popped
<1>5. Uncut' BY DEF Uncut, Fresh, Creators
<1>6. MatchHeard' BY DEF MatchHeard, RegisteredIsOpen, Fresh, Creators
<1>7. AnswerHeard' BY DEF AnswerHeard
<1> QED BY <1>1, <1>2, <1>3, <1>4, <1>5, <1>6, <1>7

(* The ways out of a query: an exception, a failed send, the end of a wait.*)
LEMMA QueryRaise == ASSUME NEW t \in Threads, IInv, SendRaises(t) PROVE QueryInv'
<1> USE ThreadAssumption, NoneAssumption
    DEF IInv, QueryInv, TypeOK, SendRaises, Goto, LeaveQuery, query, hosts, env, history,
        Places, Inside, Joined, Sending, Outcomes
<1>1. RegisteredIsOpen' /\ Fresh' /\ Popped' BY DEF RegisteredIsOpen, Fresh, Popped
<1>2. Creators' BY DEF Creators
<1>3. Uncut' BY DEF Uncut
<1>4. MatchHeard' /\ AnswerHeard' BY DEF MatchHeard, AnswerHeard
<1> QED BY <1>1, <1>2, <1>3, <1>4

LEMMA QueryFail ==
    ASSUME NEW t \in Threads, IInv, PopFailed(t) \/ Overwrite(t) PROVE QueryInv'
<1> USE ThreadAssumption, NoneAssumption
    DEF IInv, QueryInv, TypeOK, Goto, LeaveQuery, conc, hosts, env, history,
        Places, Inside, Joined, Sending, Outcomes
<1>1. CASE PopFailed(t)
  <2> USE <1>1 DEF PopFailed
  <2>1. RegisteredIsOpen' /\ Fresh' BY DEF RegisteredIsOpen, Fresh
  <2>2. Creators' BY DEF Creators
  <2>3. Popped' BY DEF Popped, RegisteredIsOpen
  <2>4. Uncut' BY DEF Uncut, Creators
  <2>5. MatchHeard' /\ AnswerHeard' BY DEF MatchHeard, AnswerHeard
  <2> QED BY <2>1, <2>2, <2>3, <2>4, <2>5
<1>2. CASE Overwrite(t)
  <2> USE <1>2 DEF Overwrite
  <2>1. RegisteredIsOpen' BY DEF RegisteredIsOpen, Popped
  <2>2. Creators' /\ Fresh' BY DEF Creators, Fresh
  <2>3. Popped' BY DEF Popped
  <2>4. Uncut' BY DEF Uncut
  <2>5. MatchHeard' /\ AnswerHeard' BY DEF MatchHeard, AnswerHeard
  <2> QED BY <2>1, <2>2, <2>3, <2>4, <2>5
<1> QED BY <1>1, <1>2

LEMMA LeaveWaitType == ASSUME NEW t \in Threads, IInv, LeaveWait(t) PROVE TypeOK'
<1>1. pend[t] \in Threads BY DEF LeaveWait, IInv, QueryInv, Creators, TypeOK, Joined
<1>2. /\ answer' \in [Threads -> Outcomes \union {"timeout", "raised", None}]
      /\ waiters' \in [Threads -> Int]
      /\ pending' \in [Keys -> Threads \union {None}]
      /\ active' \in Nat
  BY <1>1 DEF LeaveWait, LeaveQuery, IInv, TypeOK
<1>3. at' \in [Threads -> Places] /\ \A u \in Threads : lock' = u <=> at'[u] \in Sending
  BY ThreadAssumption DEF LeaveWait, LeaveQuery, Goto, LockFree, IInv, TypeOK, Threads,
                          Places, Inside, Joined, Sending
<1> QED BY <1>2, <1>3 DEF LeaveWait, IInv, TypeOK, hosts, env, history

LEMMA QueryLeave == ASSUME NEW t \in Threads, IInv, LeaveWait(t) PROVE QueryInv'
<1> USE ThreadAssumption, NoneAssumption
    DEF IInv, QueryInv, TypeOK, LeaveWait, Goto, LeaveQuery, hosts, env, history,
        Places, Inside, Joined, Sending, Outcomes
<1>1. RegisteredIsOpen' /\ Fresh' BY DEF RegisteredIsOpen, Fresh
<1>2. Creators' BY DEF Creators
<1>3. Popped' BY DEF Popped
<1>4. Uncut' BY DEF Uncut, Creators
<1>5. MatchHeard' BY DEF MatchHeard
<1>6. AnswerHeard' BY DEF AnswerHeard, MatchHeard
<1> QED BY <1>1, <1>2, <1>3, <1>4, <1>5, <1>6

(* The other steps of a thread only move it.                               *)
LEMMA QueryMove ==
    ASSUME NEW t \in Threads, IInv,
           \/ CallStep(t) \/ DeadlinePasses(t) \/ LoopInject(t)
           \/ StartSend(t) \/ InjectTimeout(t) \/ Release(t)
    PROVE  QueryInv'
<1>1. UNCHANGED <<key, pend, answer, pending, result, heard, cut>>
  BY DEF CallStep, Capture, Enter, End, DeadlinePasses, LoopInject, StartSend,
         InjectTimeout, Release, call, query, history
<1>2. \A u \in Threads : u # t => at'[u] = at[u]
  BY DEF CallStep, Capture, Enter, End, DeadlinePasses, LoopInject, StartSend,
         InjectTimeout, Release, Goto, call, TypeOK, IInv
<1>3. /\ at'[t] \in Joined => at[t] \in Joined
      /\ at'[t] \in Joined \ {"wait"} => at[t] \in Joined \ {"wait"}
      /\ at'[t] = "overwrite" => at[t] = "overwrite"
  <2> USE DEF IInv, TypeOK, Goto, Joined, Sending
  <2>1. CASE CallStep(t) BY <2>1 DEF CallStep, Capture, Enter, End
  <2>2. CASE DeadlinePasses(t) BY <2>2 DEF DeadlinePasses, call
  <2>3. CASE LoopInject(t) BY <2>3 DEF LoopInject
  <2>4. CASE StartSend(t) BY <2>4 DEF StartSend
  <2>5. CASE InjectTimeout(t) BY <2>5 DEF InjectTimeout
  <2>6. CASE Release(t) BY <2>6 DEF Release
  <2> QED BY <2>1, <2>2, <2>3, <2>4, <2>5, <2>6
<1> QED BY <1>1, <1>2, <1>3, StepAside

(* Packets on the loop and the later steps of a reload touch no query.     *)
LEMMA QueryElsewhere ==
    ASSUME IInv, TakePacket \/ LoopBegin \/ LoopResumes \/ ThreadRotates \/ ReloadBegin \/ ReloadStep
    PROVE  QueryInv'
<1> DEFINE Aside == UNCHANGED <<at, key, pend, answer, pending, result, heard, cut>>
<1>1. ASSUME Aside PROVE QueryInv'
  BY <1>1, StepAside
<1>2. CASE TakePacket
  <2>1. UNCHANGED <<key, pend, answer, pending, result, heard, cut>>
    BY <1>2 DEF TakePacket, query, history
  <2>2. \A u \in Threads : u # Worker => at'[u] = at[u]
    BY <1>2 DEF TakePacket, Goto, IInv, TypeOK
  <2>3. at'[Worker] \in {"idle", "captured"}
    BY <1>2 DEF TakePacket, Goto, IInv, TypeOK, Threads
  <2> QED BY <2>1, <2>2, <2>3, StepAside DEF Joined, Sending
<1>3. CASE LoopBegin \/ LoopResumes \/ ThreadRotates
  <2>1. UNCHANGED <<at, key, pend, answer, heard>>
    BY <1>3 DEF LoopBegin, LoopResumes, ThreadRotates, call
  <2>2. \/ \E e \in Packets \union {Rotate} : Run(e)
        \/ SessionRotate \/ UNCHANGED <<pending, result, cut>>
    BY <1>3 DEF LoopBegin, LoopResumes, ThreadRotates, IInv, TypeOK
  <2>3. FailPending("rotate") \/ UNCHANGED <<pending, result, cut>>
    BY <2>2 DEF Run, SessionRotate, EnqueuePacket
  <2> QED BY <2>1, <2>3, <1>1, AllFailed
<1>4. CASE ReloadBegin
  BY <1>4, AllFailed DEF ReloadBegin, call
<1>5. CASE ReloadStep
  BY <1>5, <1>1 DEF ReloadStep, Drained, DrainTimeout, TakeHostOut, CloseHost, Install,
                    call, query, history
<1> QED BY <1>2, <1>3, <1>4, <1>5

LEMMA InvInit == Init => IInv
<1> SUFFICES ASSUME Init PROVE QueryInv BY TypeInit DEF IInv
<1> QED BY ThreadAssumption, NoneAssumption
        DEF Init, QueryInv, RegisteredIsOpen, Creators, Fresh, Popped, Uncut, MatchHeard,
            AnswerHeard, Joined, Sending, Outcomes

LEMMA InvStep == ASSUME IInv, [Next]_vars PROVE IInv'
<1>1. TypeOK'
  <2>1. CASE Next
    BY <2>1, TypeCall, TypeQuery, LeaveWaitType, TypeEvent, TypeReload, TypeWorker
    DEF Next, QueryStep, IInv
  <2>2. CASE UNCHANGED vars
    BY <2>2 DEF vars, call, query, conc, hosts, env, history, IInv, TypeOK
  <2> QED BY <2>1, <2>2
<1>2. CASE UNCHANGED vars
  <2>1. QueryInv' BY <1>2, StepAside DEF vars, call, query, history
  <2> QED BY <1>1, <2>1 DEF IInv
<1>3. ASSUME NEW t \in Threads,
             CallStep(t) \/ Join(t) \/ QueryStep(t) \/ DeadlinePasses(t) \/ LoopInject(t)
      PROVE  QueryInv'
  BY <1>3, QueryJoin, QueryRaise, QueryFail, QueryLeave, QueryMove DEF QueryStep
<1>4. CASE Next
  <2>1. QueryInv' BY <1>3, <1>4, QueryObserve, QueryElsewhere DEF Next
  <2> QED BY <1>1, <2>1 DEF IInv
<1> QED BY <1>2, <1>4

THEOREM Invariance == Spec => []IInv
BY InvInit, InvStep, PTL DEF Spec

(* Every variable keeps its type.  (The type of an answer rests on the     *)
(* rest of the invariant: a waiting thread waits on some thread's query.)  *)
THEOREM TypeCorrect == Spec => []TypeOK
BY Invariance, PTL DEF IInv

(* A new caller never joins a query that is already answered.              *)
THEOREM RegisteredAreOpen == Spec => []RegisteredIsOpen
BY Invariance, PTL DEF IInv, QueryInv

(* A query is answered with a response only if a matching packet was       *)
(* observed while it was open, before any rotate or reload cut it off.     *)
THEOREM AnswersAreHeard == Spec => []AnswerHeard
BY Invariance, PTL DEF IInv, QueryInv

-----------------------------------------------------------------------------
(* The waiters of a registered query.                                      *)

(* A thread is answered when it leaves its query and not before, and the   *)
(* count of a query that was never made is still at zero.                  *)
Unanswered == \A t \in Threads : at[t] \in Joined \/ pend[t] = None => answer[t] = None
NoneYet == \A t \in Threads : pend[t] = None => waiters[t] = 0

CountInv == Unanswered /\ NoneYet /\ WaitersCounted

OnWhere(pd, a, p) == {t \in Threads : pd[t] = p /\ a[t] \in Joined}
Raised(ans, p) == IF ans[p] = "raised" THEN 1 ELSE 0

(* What one thread's move does to the number of those who wait on query p. *)
LEMMA OnMoves ==
    ASSUME NEW t \in Threads, NEW p,
           \A u \in Threads \ {t} : at'[u] = at[u] /\ pend'[u] = pend[u]
    PROVE  LET before == t \in OnWhere(pend, at, p)
               after  == t \in OnWhere(pend', at', p)
               n == Cardinality(OnWhere(pend, at, p))
               m == Cardinality(OnWhere(pend', at', p))
           IN  /\ n \in Nat /\ m \in Nat
               /\ (before <=> after) => m = n
               /\ ~before /\ after => m = n + 1
               /\ before /\ ~after => m = n - 1
<1> DEFINE B == OnWhere(pend, at, p)
           A == OnWhere(pend', at', p)
<1>1. IsFiniteSet(B) /\ IsFiniteSet(A)
  BY ThreadAssumption, FS_Subset DEF OnWhere
<1>2. Cardinality(B) \in Nat /\ Cardinality(A) \in Nat
  BY <1>1, FS_CardinalityType
<1>3. ASSUME t \in B <=> t \in A PROVE A = B BY <1>3 DEF OnWhere
<1>4. ASSUME t \notin B, t \in A PROVE Cardinality(A) = Cardinality(B) + 1
  <2>1. A = B \union {t} BY <1>4 DEF OnWhere
  <2> QED BY <2>1, <1>1, <1>4, FS_AddElement
<1>5. ASSUME t \in B, t \notin A PROVE Cardinality(A) = Cardinality(B) - 1
  <2>1. A = B \ {t} BY <1>5 DEF OnWhere
  <2> QED BY <2>1, <1>1, <1>5, FS_RemoveElement
<1> HIDE DEF A, B
<1>6. /\ Cardinality(B) \in Nat /\ Cardinality(A) \in Nat
      /\ (t \in B <=> t \in A) => Cardinality(A) = Cardinality(B)
      /\ t \notin B /\ t \in A => Cardinality(A) = Cardinality(B) + 1
      /\ t \in B /\ t \notin A => Cardinality(A) = Cardinality(B) - 1
  BY <1>2, <1>3, <1>4, <1>5
<1> QED BY <1>6 DEF A, B

(* The count of one registered query, in terms that can be compared across *)
(* a step.                                                                 *)
RightFor(w, pd, a, ans, p) == w[p] = Cardinality(OnWhere(pd, a, p)) + Raised(ans, p)

LEMMA CountedFor ==
    /\ WaitersCounted <=> \A k \in Keys : pending[k] # None =>
          RightFor(waiters, pend, at, answer, pending[k])
    /\ WaitersCounted' <=> \A k \in Keys : pending'[k] # None =>
          RightFor(waiters', pend', at', answer', pending'[k])
BY DEF WaitersCounted, RightFor, OnWhere, On, Raised, Joined, Sending

(* A step that registers nothing and moves no thread into or out of a      *)
(* query keeps the counts.                                                 *)
LEMMA CountAside ==
    ASSUME IInv, CountInv, UNCHANGED <<pend, answer, waiters>>,
           \A t \in Threads : at'[t] \in Joined <=> at[t] \in Joined,
           \A k \in Keys : pending'[k] \in {pending[k], None}
    PROVE  CountInv'
<1>1. Unanswered' /\ NoneYet'
  BY DEF CountInv, Unanswered, NoneYet, Joined, Sending
<1>2. ASSUME NEW p PROVE OnWhere(pend', at', p) = OnWhere(pend, at, p)
  BY DEF OnWhere
<1>3. \A k \in Keys : pending'[k] # None => RightFor(waiters', pend', at', answer', pending'[k])
  BY <1>2, CountedFor DEF CountInv, RightFor
<1>4. WaitersCounted' BY <1>3, CountedFor
<1> QED BY <1>1, <1>4 DEF CountInv

LEMMA CountJoin == ASSUME NEW t \in Threads, IInv, CountInv, Join(t) PROVE CountInv'
<1> DEFINE p == IF pending[key[t]] = None THEN t ELSE pending[key[t]]
<1>1. /\ at[t] = "run" /\ pend[t] = None /\ UNCHANGED <<answer, key>>
      /\ pend' = [pend EXCEPT ![t] = p] /\ pending' = [pending EXCEPT ![key[t]] = p]
      /\ waiters' = [waiters EXCEPT ![p] = @ + 1]
      /\ at'[t] \in {"send", "wait"} /\ \A u \in Threads \ {t} : at'[u] = at[u]
  BY DEF Join, Goto, IInv, TypeOK
<1>2. /\ p \in Threads /\ key[t] \in Keys /\ None \notin Threads
      /\ pend \in [Threads -> Threads \union {None}] /\ waiters \in [Threads -> Int]
      /\ pending \in [Keys -> Threads \union {None}]
  BY NoneAssumption, ThreadAssumption DEF IInv, TypeOK
<1>3. pend'[t] = p /\ \A u \in Threads \ {t} : pend'[u] = pend[u]
  BY <1>1, <1>2
<1>4. Unanswered' BY <1>1, <1>2, <1>3 DEF CountInv, Unanswered
<1>5. NoneYet'
  <2> SUFFICES ASSUME NEW u \in Threads, pend'[u] = None PROVE waiters'[u] = 0 BY DEF NoneYet
  <2>1. u # t /\ pend[u] = None BY <1>2, <1>3
  <2>2. u # p
    BY <2>1, <1>2 DEF IInv, QueryInv, Creators
  <2> HIDE DEF p
  <2> QED BY <2>1, <2>2, <1>1, <1>2 DEF CountInv, NoneYet
<1>6. RightFor(waiters, pend, at, answer, p)
  <2>1. CASE pending[key[t]] # None
    BY <2>1, <1>2, CountedFor DEF CountInv
  <2>2. CASE pending[key[t]] = None
    <3>1. p = t /\ waiters[t] = 0 /\ answer[t] = None
      BY <2>2, <1>1 DEF CountInv, NoneYet, Unanswered
    <3>2. OnWhere(pend, at, t) = {}
      BY <1>1, <1>2 DEF OnWhere, IInv, QueryInv, Creators
    <3>3. Raised(answer, t) = 0 BY <3>1, NoneAssumption DEF Raised
    <3>4. Cardinality(OnWhere(pend, at, t)) = 0 BY <3>2, FS_EmptySet
    <3> HIDE DEF p
    <3> QED BY <3>1, <3>3, <3>4 DEF RightFor
  <2> QED BY <2>1, <2>2
<1> HIDE DEF p
<1>7. t \notin OnWhere(pend, at, p) /\ t \in OnWhere(pend', at', p)
  BY <1>1, <1>3 DEF OnWhere, Joined, Sending
<1>8. /\ Cardinality(OnWhere(pend, at, p)) \in Nat
      /\ Cardinality(OnWhere(pend', at', p)) = Cardinality(OnWhere(pend, at, p)) + 1
  BY <1>1, <1>3, <1>7, OnMoves
<1>9. RightFor(waiters', pend', at', answer', p)
  <2>1. waiters'[p] = waiters[p] + 1 /\ Raised(answer', p) = Raised(answer, p)
        /\ Raised(answer, p) \in Nat
    BY <1>1, <1>2 DEF Raised
  <2> QED BY <2>1, <1>6, <1>8 DEF RightFor
<1>10. ASSUME NEW q \in Threads, q # p, RightFor(waiters, pend, at, answer, q)
       PROVE  RightFor(waiters', pend', at', answer', q)
  <2>1. OnWhere(pend', at', q) = OnWhere(pend, at, q)
    BY <1>10, <1>1, <1>2, <1>3 DEF OnWhere
  <2>2. waiters'[q] = waiters[q] BY <1>10, <1>1, <1>2
  <2> QED BY <2>1, <2>2, <1>1, <1>10 DEF RightFor, Raised
<1>11. ASSUME NEW k \in Keys, pending'[k] # None
       PROVE  RightFor(waiters', pend', at', answer', pending'[k])
  <2>1. CASE pending'[k] = p BY <2>1, <1>9
  <2>2. CASE pending'[k] # p
    <3>1. k # key[t] /\ pending'[k] = pending[k] BY <2>2, <1>1, <1>2
    <3>2. pending[k] \in Threads /\ RightFor(waiters, pend, at, answer, pending[k])
      BY <3>1, <1>11, <1>2, CountedFor DEF CountInv
    <3> QED BY <3>1, <3>2, <2>2, <1>10
  <2> QED BY <2>1, <2>2
<1>12. WaitersCounted' BY <1>11, CountedFor
<1> QED BY <1>4, <1>5, <1>12 DEF CountInv

(* A thread leaves its query: it takes its count with it, or its exception *)
(* is what the count is short of, or the query is registered no more.      *)
LEMMA CountLeave ==
    ASSUME NEW t \in Threads, IInv, CountInv, at[t] \in Joined, at'[t] = "run",
           \A u \in Threads \ {t} : at'[u] = at[u],
           \A u \in Threads \ {t} : answer'[u] = answer[u],
           UNCHANGED pend, \A k \in Keys : pending'[k] \in {pending[k], None},
           \/ /\ waiters' = [waiters EXCEPT ![pend[t]] = @ - 1] /\ answer'[t] # "raised"
           \/ UNCHANGED waiters /\ answer'[t] = "raised" /\ pend[t] = t
           \/ /\ UNCHANGED waiters /\ pend[t] = t
              /\ \A k \in Keys : pending[k] # t
    PROVE  CountInv'
<1> DEFINE p == pend[t]
<1>1. /\ p \in Threads /\ None \notin Threads /\ waiters \in [Threads -> Int]
      /\ pend \in [Threads -> Threads \union {None}]
      /\ pending \in [Keys -> Threads \union {None}]
  BY NoneAssumption, ThreadAssumption DEF IInv, TypeOK, QueryInv, Creators
<1>2. answer[t] = None /\ Raised(answer, t) = 0
  BY NoneAssumption DEF CountInv, Unanswered, Raised
<1>3. Unanswered'
  <2> SUFFICES ASSUME NEW u \in Threads, at'[u] \in Joined \/ pend'[u] = None
               PROVE  answer'[u] = None BY DEF Unanswered, Joined, Sending
  <2>1. u # t BY <1>1 DEF Joined, Sending
  <2> QED BY <2>1 DEF CountInv, Unanswered
<1>4. NoneYet'
  <2> SUFFICES ASSUME NEW u \in Threads, pend[u] = None PROVE waiters'[u] = 0 BY DEF NoneYet
  <2>1. u # p BY <1>1 DEF IInv, QueryInv, Creators
  <2>2. waiters[u] = 0 BY DEF CountInv, NoneYet
  <2> QED BY <2>1, <2>2, <1>1
<1> HIDE DEF p
<1>5. t \in OnWhere(pend, at, p) /\ t \notin OnWhere(pend', at', p)
  BY DEF OnWhere, Joined, Sending, p
<1>6. /\ Cardinality(OnWhere(pend, at, p)) \in Nat
      /\ Cardinality(OnWhere(pend', at', p)) = Cardinality(OnWhere(pend, at, p)) - 1
  BY <1>5, OnMoves
<1>7. ASSUME NEW k \in Keys, pending'[k] # None
      PROVE  RightFor(waiters', pend', at', answer', pending'[k])
  <2> DEFINE q == pending[k]
  <2>1. pending'[k] = q /\ q \in Threads /\ RightFor(waiters, pend, at, answer, q)
    BY <1>7, <1>1, CountedFor DEF CountInv
  <2> HIDE DEF q
  <2>2. CASE q # p
    <3>1. OnWhere(pend', at', q) = OnWhere(pend, at, q)
      BY <2>2 DEF OnWhere, p
    <3>2. waiters'[q] = waiters[q] BY <2>1, <2>2, <1>1 DEF p
    <3>3. Raised(answer', q) = Raised(answer, q)
      <4>1. CASE q # t BY <4>1, <2>1 DEF Raised
      <4>2. CASE q = t
        <5>1. answer'[t] # "raised" BY <4>2, <2>2, <1>7, <2>1 DEF p, q
        <5> QED BY <4>2, <5>1, <1>2 DEF Raised
      <4> QED BY <4>1, <4>2
    <3> QED BY <2>1, <3>1, <3>2, <3>3 DEF RightFor
  <2>3. CASE q = p
    <3>1. waiters[p] = Cardinality(OnWhere(pend, at, p)) + Raised(answer, p)
      BY <2>1, <2>3 DEF RightFor
    <3>2. Raised(answer, p) \in Nat BY DEF Raised
    <3>3. CASE waiters' = [waiters EXCEPT ![pend[t]] = @ - 1] /\ answer'[t] # "raised"
      <4>1. waiters'[p] = waiters[p] - 1 BY <3>3, <1>1 DEF p
      <4>2. Raised(answer', p) = Raised(answer, p)
        <5>1. CASE p = t BY <5>1, <3>3, <1>2 DEF Raised
        <5>2. CASE p # t BY <5>2, <1>1 DEF Raised
        <5> QED BY <5>1, <5>2
      <4>3. RightFor(waiters', pend', at', answer', p)
        BY <3>1, <3>2, <4>1, <4>2, <1>6 DEF RightFor
      <4> QED BY <4>3, <2>1, <2>3
    <3>4. CASE UNCHANGED waiters /\ answer'[t] = "raised" /\ pend[t] = t
      <4>1. p = t BY <3>4 DEF p
      <4>2. Raised(answer', p) = 1 /\ Raised(answer, p) = 0 BY <3>4, <4>1, <1>2 DEF Raised
      <4>3. RightFor(waiters', pend', at', answer', p)
        BY <3>1, <3>4, <4>2, <1>6 DEF RightFor
      <4> QED BY <4>3, <2>1, <2>3
    <3>5. CASE pend[t] = t /\ \A j \in Keys : pending[j] # t
      BY <3>5, <2>3 DEF p, q
    <3> QED BY <3>3, <3>4, <3>5
  <2> QED BY <2>2, <2>3
<1>8. WaitersCounted' BY <1>7, CountedFor
<1> QED BY <1>3, <1>4, <1>8 DEF CountInv

LEMMA CountStep == ASSUME IInv, CountInv, [Next]_vars PROVE CountInv'
<1>1. ASSUME NEW t \in Threads, CallStep(t) \/ DeadlinePasses(t) \/ LoopInject(t)
      PROVE  CountInv'
  <2>1. UNCHANGED <<pend, answer, waiters, pending>>
    BY <1>1 DEF CallStep, Capture, Enter, End, DeadlinePasses, LoopInject, call, query
  <2>2. \A u \in Threads : at'[u] \in Joined <=> at[u] \in Joined
    BY <1>1 DEF CallStep, Capture, Enter, End, DeadlinePasses, LoopInject, call, Goto,
                IInv, TypeOK, Joined, Sending
  <2> QED BY <2>1, <2>2, CountAside
<1>2. ASSUME NEW t \in Threads, StartSend(t) \/ InjectTimeout(t) \/ Release(t) \/ PopFailed(t)
      PROVE  CountInv'
  <2>1. /\ UNCHANGED <<pend, answer, waiters>>
        /\ \A k \in Keys : pending'[k] \in {pending[k], None}
    BY <1>2 DEF StartSend, InjectTimeout, Release, PopFailed, query, IInv, TypeOK
  <2>2. \A u \in Threads : at'[u] \in Joined <=> at[u] \in Joined
    BY <1>2 DEF StartSend, InjectTimeout, Release, PopFailed, Goto, IInv, TypeOK, Joined, Sending
  <2> QED BY <2>1, <2>2, CountAside
<1>3. ASSUME NEW t \in Threads, SendRaises(t) PROVE CountInv'
  <2>1. /\ at[t] = "send" /\ at'[t] = "run" /\ answer'[t] = "raised" /\ pend[t] = t
        /\ UNCHANGED <<pend, pending, waiters>>
        /\ \A u \in Threads \ {t} : at'[u] = at[u]
        /\ \A u \in Threads \ {t} : answer'[u] = answer[u]
    BY <1>3 DEF SendRaises, LeaveQuery, Goto, query, IInv, TypeOK, QueryInv, Creators,
                Joined, Sending
  <2>2. at[t] \in Joined BY <2>1 DEF Joined
  <2> QED BY <2>1, <2>2, CountLeave
<1>4. ASSUME NEW t \in Threads, Overwrite(t) PROVE CountInv'
  <2>1. /\ at[t] = "overwrite" /\ at'[t] = "run" /\ pend[t] = t
        /\ UNCHANGED <<pend, pending, waiters>>
        /\ \A u \in Threads \ {t} : at'[u] = at[u]
        /\ \A u \in Threads \ {t} : answer'[u] = answer[u]
        /\ \A k \in Keys : pending[k] # t
    BY <1>4 DEF Overwrite, LeaveQuery, Goto, IInv, TypeOK, QueryInv, Creators, Popped,
                Joined, Sending
  <2>2. at[t] \in Joined BY <2>1 DEF Joined
  <2> QED BY <2>1, <2>2, CountLeave
<1>5. ASSUME NEW t \in Threads, LeaveWait(t) PROVE CountInv'
  <2>1. /\ at[t] = "wait" /\ at'[t] = "run" /\ UNCHANGED pend
        /\ waiters' = [waiters EXCEPT ![pend[t]] = @ - 1]
        /\ \A u \in Threads \ {t} : at'[u] = at[u]
        /\ \A u \in Threads \ {t} : answer'[u] = answer[u]
        /\ answer'[t] \in {"timeout", result[pend[t]]}
    BY <1>5 DEF LeaveWait, LeaveQuery, Goto, IInv, TypeOK
  <2>2. at[t] \in Joined /\ pend[t] \in Threads
    BY <2>1 DEF Joined, IInv, TypeOK, QueryInv, Creators
  <2>3. answer'[t] # "raised"
    BY <2>1, <2>2, NoneAssumption DEF IInv, TypeOK, Outcomes
  <2>4. \A k \in Keys : pending'[k] \in {pending[k], None}
    BY <1>5 DEF LeaveWait, IInv, TypeOK
  <2> QED BY <2>1, <2>2, <2>3, <2>4, CountLeave
<1>6. ASSUME \/ LoopBegin \/ LoopResumes \/ ThreadRotates \/ ReloadBegin \/ ReloadStep
             \/ UNCHANGED vars
      PROVE  CountInv'
  <2>1. UNCHANGED <<at, pend, answer, waiters>>
    BY <1>6 DEF LoopBegin, LoopResumes, ThreadRotates, ReloadBegin, ReloadStep, Drained,
       DrainTimeout, TakeHostOut, CloseHost, Install, vars, call, query
  <2>2. \/ \E code : FailPending(code)
        \/ UNCHANGED pending
    BY <1>6 DEF LoopBegin, LoopResumes, ThreadRotates, ReloadBegin, ReloadStep, Drained,
       DrainTimeout, TakeHostOut, CloseHost, Install, vars, query, Run, SessionRotate,
       EnqueuePacket
  <2>3. \A k \in Keys : pending'[k] \in {pending[k], None}
    BY <2>2 DEF FailPending
  <2> QED BY <2>1, <2>3, CountAside
<1>7. ASSUME TakePacket \/ Observe PROVE CountInv'
  <2>1. /\ UNCHANGED <<pend, answer, waiters>>
        /\ \A k \in Keys : pending'[k] \in {pending[k], None}
    BY <1>7 DEF TakePacket, Observe, query
  <2>2. \A u \in Threads : at'[u] \in Joined <=> at[u] \in Joined
    BY <1>7 DEF TakePacket, Observe, Goto, IInv, TypeOK, Joined, Sending, Threads
  <2> QED BY <2>1, <2>2, CountAside
<1> QED BY <1>1, <1>2, <1>3, <1>4, <1>5, <1>6, <1>7, CountJoin DEF Next, QueryStep

(* The waiters of a registered query are counted exactly, except that an   *)
(* inject_send that raises leaves its thread in the count: the last one to *)
(* time out unregisters the query, and no one does so before it.           *)
THEOREM WaitersAreCounted == Spec => []WaitersCounted
<1>1. Init => CountInv
  BY DEF Init, CountInv, Unanswered, NoneYet, WaitersCounted
<1>2. CountInv => WaitersCounted BY DEF CountInv
<1> QED BY <1>1, <1>2, CountStep, Invariance, PTL DEF Spec

-----------------------------------------------------------------------------
(* The hosts.                                                              *)

HostInv ==
    /\ TypeOK /\ CurrentIsOpen
    /\ reload \in {"close", "install"} => host = None

LEMMA HostStep == ASSUME HostInv, TypeOK', [Next]_vars PROVE HostInv'
<1>1. CASE UNCHANGED <<host, open, reload>> BY <1>1 DEF HostInv, CurrentIsOpen
<1>2. CASE ReloadBegin BY <1>2 DEF ReloadBegin, HostInv, CurrentIsOpen
<1>3. CASE ReloadStep
  BY <1>3 DEF ReloadStep, Drained, DrainTimeout, TakeHostOut, CloseHost, Install,
              HostInv, CurrentIsOpen
<1>4. ASSUME NEW t \in Threads,
             CallStep(t) \/ Join(t) \/ QueryStep(t) \/ DeadlinePasses(t) \/ LoopInject(t)
      PROVE  UNCHANGED <<host, open, reload>>
  BY <1>4 DEF CallStep, Capture, Enter, End, Join, QueryStep, StartSend, SendRaises,
              InjectTimeout, Release, PopFailed, Overwrite, LeaveWait, DeadlinePasses,
              LoopInject, hosts
<1>5. ASSUME TakePacket \/ Observe \/ LoopBegin \/ LoopResumes \/ ThreadRotates
      PROVE  UNCHANGED <<host, open, reload>>
  BY <1>5 DEF TakePacket, Observe, LoopBegin, LoopResumes, ThreadRotates, hosts
<1>6. CASE UNCHANGED vars BY <1>1, <1>6 DEF vars, hosts
<1> QED BY <1>1, <1>2, <1>3, <1>4, <1>5, <1>6 DEF Next

(* The host that new calls see is never one that reload has closed.        *)
THEOREM CurrentStaysOpen == Spec => []CurrentIsOpen
<1>1. Init => HostInv BY TypeInit DEF Init, HostInv, CurrentIsOpen
<1>2. HostInv => CurrentIsOpen BY DEF HostInv
<1> QED BY <1>1, <1>2, HostStep, TypeCorrect, PTL DEF Spec

-----------------------------------------------------------------------------
(* The calls in progress: _active_calls counts each thread that is inside  *)
(* a call once, and once more while it is inside a query.                  *)

Spot(f, P) == {t \in Threads : f[t] \in P}

Counted == active = Cardinality(Spot(at, Inside)) + Cardinality(Spot(at, Joined))

(* What one thread's move does to the number of threads in some places.    *)
LEMMA SpotMoves ==
    ASSUME NEW t \in Threads, NEW P,
           \A u \in Threads \ {t} : at'[u] = at[u]
    PROVE  /\ Cardinality(Spot(at, P)) \in Nat
           /\ at[t] \in P <=> at'[t] \in P => Cardinality(Spot(at', P)) = Cardinality(Spot(at, P))
           /\ at[t] \notin P /\ at'[t] \in P => Cardinality(Spot(at', P)) = Cardinality(Spot(at, P)) + 1
           /\ at[t] \in P /\ at'[t] \notin P =>
                 /\ Cardinality(Spot(at', P)) = Cardinality(Spot(at, P)) - 1
                 /\ Cardinality(Spot(at, P)) > 0
<1>1. IsFiniteSet(Spot(at, P)) /\ IsFiniteSet(Spot(at', P))
  BY ThreadAssumption, FS_Subset DEF Spot
<1>2. Cardinality(Spot(at, P)) \in Nat /\ Cardinality(Spot(at', P)) \in Nat
  BY <1>1, FS_CardinalityType
<1>3. ASSUME at[t] \in P <=> at'[t] \in P PROVE Spot(at', P) = Spot(at, P)
  BY <1>3 DEF Spot
<1>4. ASSUME at[t] \notin P, at'[t] \in P
      PROVE  Cardinality(Spot(at', P)) = Cardinality(Spot(at, P)) + 1
  <2>1. Spot(at', P) = Spot(at, P) \union {t} /\ t \notin Spot(at, P) BY <1>4 DEF Spot
  <2> QED BY <2>1, <1>1, FS_AddElement
<1>5. ASSUME at[t] \in P, at'[t] \notin P
      PROVE  Cardinality(Spot(at, P)) = Cardinality(Spot(at', P)) + 1
  <2>1. Spot(at, P) = Spot(at', P) \union {t} /\ t \notin Spot(at', P) BY <1>5 DEF Spot
  <2> QED BY <2>1, <1>1, FS_AddElement
<1> QED BY <1>2, <1>3, <1>4, <1>5

LEMMA CountedInit == Init => Counted
<1> SUFFICES ASSUME Init PROVE Counted OBVIOUS
<1>1. Spot(at, Inside) = {} /\ Spot(at, Joined) = {}
  BY DEF Init, Spot, Inside, Joined, Sending
<1>2. active = 0 BY DEF Init
<1>3. Cardinality(Spot(at, Inside)) = 0 /\ Cardinality(Spot(at, Joined)) = 0
  BY <1>1, FS_EmptySet
<1> QED BY <1>2, <1>3 DEF Counted

LEMMA CountedStep == ASSUME TypeOK, Counted, [Next]_vars PROVE Counted'
<1> DEFINE i == Cardinality(Spot(at, Inside))
           j == Cardinality(Spot(at, Joined))
<1>1. CASE UNCHANGED <<at, active>>
  BY <1>1 DEF Counted, Spot
<1>2. ASSUME NEW t \in Threads, NEW p, Goto(t, p)
      PROVE  /\ i \in Nat /\ j \in Nat
             /\ at[t] \in Inside <=> p \in Inside => i' = i
             /\ at[t] \notin Inside /\ p \in Inside => i' = i + 1
             /\ at[t] \in Inside /\ p \notin Inside => i' = i - 1 /\ i > 0
             /\ at[t] \in Joined <=> p \in Joined => j' = j
             /\ at[t] \notin Joined /\ p \in Joined => j' = j + 1
             /\ at[t] \in Joined /\ p \notin Joined => j' = j - 1 /\ j > 0
  <2>1. at'[t] = p /\ \A u \in Threads \ {t} : at'[u] = at[u] BY <1>2 DEF TypeOK, Goto
  <2>2. i' = Cardinality(Spot(at', Inside)) /\ j' = Cardinality(Spot(at', Joined))
    BY DEF Spot, Inside, Joined, Sending
  <2>3. ASSUME NEW P
        PROVE  /\ Cardinality(Spot(at, P)) \in Nat
               /\ at[t] \in P <=> p \in P =>
                    Cardinality(Spot(at', P)) = Cardinality(Spot(at, P))
               /\ at[t] \notin P /\ p \in P =>
                    Cardinality(Spot(at', P)) = Cardinality(Spot(at, P)) + 1
               /\ at[t] \in P /\ p \notin P =>
                    /\ Cardinality(Spot(at', P)) = Cardinality(Spot(at, P)) - 1
                    /\ Cardinality(Spot(at, P)) > 0
    BY <2>1, SpotMoves
  <2> HIDE DEF i, j
  <2>4. i = Cardinality(Spot(at, Inside)) /\ j = Cardinality(Spot(at, Joined)) BY DEF i, j
  <2> QED BY <2>2, <2>3, <2>4
<1> HIDE DEF i, j
<1>3. active = i + j /\ active \in Nat BY DEF Counted, TypeOK, i, j
<1>4. ASSUME active' = i' + j' PROVE Counted' BY <1>4 DEF Counted, i, j
<1>5. ASSUME NEW t \in Threads, CallStep(t) PROVE Counted'
  <2> USE DEF Inside, Joined, Sending
  <2>1. CASE Capture(t)
    BY <2>1, <1>2, <1>3, <1>4 DEF Capture, conc
  <2>2. CASE Enter(t)
    <3>1. CASE UNCHANGED active /\ Goto(t, "idle") /\ at[t] = "captured"
      BY <3>1, <1>2, <1>3, <1>4
    <3>2. CASE /\ active' = active + 1 /\ at[t] = "captured"
               /\ Goto(t, IF t = Worker THEN "observe" ELSE "run")
      BY <3>2, <1>2, <1>3, <1>4
    <3> QED BY <2>2, <3>1, <3>2 DEF Enter
  <2>3. CASE End(t)
    BY <2>3, <1>2, <1>3, <1>4 DEF End
  <2> QED BY <1>5, <2>1, <2>2, <2>3 DEF CallStep
<1>6. ASSUME NEW t \in Threads, Join(t) PROVE Counted'
  <2>1. PICK p \in {"send", "wait"} : Goto(t, p)
    BY <1>6 DEF Join
  <2> QED BY <2>1, <1>6, <1>2, <1>3, <1>4 DEF Join, Inside, Joined, Sending
<1>7. ASSUME NEW t \in Threads, LeaveQuery(t), at[t] \in Joined PROVE Counted'
  BY <1>7, <1>2, <1>3, <1>4 DEF LeaveQuery, Inside, Joined, Sending
<1>8. ASSUME NEW t \in Threads, QueryStep(t) PROVE Counted'
  <2>1. CASE SendRaises(t) \/ Overwrite(t) \/ LeaveWait(t)
    BY <2>1, <1>7 DEF SendRaises, Overwrite, LeaveWait, Joined
  <2>2. CASE StartSend(t) \/ InjectTimeout(t) \/ Release(t) \/ PopFailed(t)
    <3>1. active' = active /\ at[t] \in Joined
      BY <2>2 DEF StartSend, InjectTimeout, Release, PopFailed, conc, Joined, Sending
    <3>2. PICK p \in Joined : Goto(t, p)
      BY <2>2 DEF StartSend, InjectTimeout, Release, PopFailed, Joined, Sending
    <3> QED BY <3>1, <3>2, <1>2, <1>3, <1>4 DEF Inside
  <2> QED BY <1>8, <2>1, <2>2 DEF QueryStep
<1>9. ASSUME NEW t \in Threads, LoopInject(t) PROVE Counted'
  <2>1. CASE UNCHANGED at BY <1>9, <1>1, <2>1 DEF LoopInject
  <2>2. CASE at' # at
    <3>1. PICK p \in {"sentOk", "sentFail"} : Goto(t, p) /\ at[t] = "sending"
      BY <1>9, <2>2 DEF LoopInject
    <3> QED BY <3>1, <1>9, <1>2, <1>3, <1>4 DEF LoopInject, Inside, Joined, Sending
  <2> QED BY <2>1, <2>2
<1>10. ASSUME TakePacket \/ Observe PROVE Counted'
  <2>1. Worker \in Threads BY DEF Threads
  <2>2. CASE TakePacket
    <3> DEFINE p == IF host = None THEN "idle" ELSE "captured"
    <3>1. Goto(Worker, p) /\ active' = active /\ at[Worker] = "idle" BY <2>2 DEF TakePacket
    <3>2. p \in {"idle", "captured"} OBVIOUS
    <3> HIDE DEF p
    <3> QED BY <2>1, <3>1, <3>2, <1>2, <1>3, <1>4 DEF Inside, Joined, Sending
  <2>3. CASE Observe
    BY <2>1, <2>3, <1>2, <1>3, <1>4 DEF Observe, conc, Inside, Joined, Sending
  <2> QED BY <1>10, <2>2, <2>3
<1>11. ASSUME \/ LoopBegin \/ LoopResumes \/ ThreadRotates \/ ReloadBegin \/ ReloadStep \/ UNCHANGED vars
              \/ \E t \in Threads : DeadlinePasses(t)
       PROVE  Counted'
  BY <1>11, <1>1 DEF LoopBegin, LoopResumes, ThreadRotates, ReloadBegin, ReloadStep, Drained, DrainTimeout,
     TakeHostOut, CloseHost, Install, DeadlinePasses, vars, call, conc
<1> QED BY <1>5, <1>6, <1>8, <1>9, <1>10, <1>11 DEF Next

THEOREM ActiveIsCounted == Spec => []Counted
BY CountedInit, CountedStep, TypeCorrect, PTL DEF Spec

(* When reload has seen its drain end, no call is inside.                  *)
THEOREM DrainIsComplete == Spec => DrainSeesEveryCall
<1>1. ASSUME TypeOK, Counted, reload = "drain", reload' = "swap", Next
      PROVE  \A t \in Threads : at[t] \notin Inside
  <2>1. active = 0
    BY <1>1 DEF Next, CallStep, Capture, Enter, End, Join, QueryStep, StartSend, SendRaises,
       InjectTimeout, Release, PopFailed, Overwrite, LeaveWait, DeadlinePasses, LoopInject,
       TakePacket, Observe, LoopBegin, LoopResumes, ThreadRotates, ReloadBegin, ReloadStep, Drained,
       DrainTimeout, TakeHostOut, CloseHost, Install, hosts
  <2>2. IsFiniteSet(Spot(at, Inside)) /\ IsFiniteSet(Spot(at, Joined))
    BY ThreadAssumption, FS_Subset DEF Spot
  <2>3. Cardinality(Spot(at, Inside)) = 0
    BY <2>1, <2>2, <1>1, FS_CardinalityType DEF Counted
  <2>4. Spot(at, Inside) = {} BY <2>2, <2>3, FS_EmptySet
  <2> QED BY <2>4 DEF Spot
<1>2. ASSUME TypeOK, Counted, [Next]_vars
      PROVE  [reload = "drain" /\ reload' = "swap" => \A t \in Threads : at[t] \notin Inside]_vars
  BY <1>1, <1>2
<1> QED BY <1>2, TypeCorrect, ActiveIsCounted, PTL DEF Spec, DrainSeesEveryCall
=============================================================================
