---------------------------- MODULE LiveRuntime ----------------------------
(***************************************************************************)
(* RFNLiveRuntime (rfn/live.py) with the threads and the event loop around *)
(* it: script calls that run in executor threads, queries that share one   *)
(* pending entry per singleflight key, the packet worker that delivers     *)
(* responses, the session rotate that comes from the loop, and reload,     *)
(* which drains the calls before it replaces the host.                     *)
(*                                                                         *)
(* Every `with self._lock` section is one action that needs the lock free, *)
(* except the one in which the creator of a query injects: it keeps the    *)
(* lock while it waits for the loop (web/app.py, _rfn_inject).             *)
(***************************************************************************)
EXTENDS Integers, FiniteSets, Sequences

CONSTANTS
    Callers,      \* executor threads of HTTP, exec and schedule calls
    Worker,       \* the thread behind _rfn_packet_worker
    Keys,         \* singleflight keys
    None,
    RfnQueueMax,  \* _rfn_queue_capacity
    PacketMax,    \* bound: packets that reach the loop
    RotateMax,    \* bound: session key changes
    HostMax       \* bound: hosts made, the first one and one per reload

Threads == Callers \union {Worker}

ASSUME ThreadAssumption ==
    /\ IsFiniteSet(Threads) /\ Worker \notin Callers
    /\ None \notin Threads /\ None \notin Keys

ASSUME LimitAssumption ==
    RfnQueueMax \in Nat /\ PacketMax \in Nat /\ RotateMax \in Nat /\ HostMax \in Nat \ {0}

(* A thread makes at most one query, so a _PendingQuery is named after the *)
(* thread that created it.                                                 *)
VARIABLES
    at,        \* where each thread is
    key,       \* singleflight key of the thread's query
    pend,      \* the pending query the thread waits on, or None
    answer,    \* what its query answered, or None
    pkt,       \* packet the Worker handles
    pending,   \* _pending: for each key the registered query, or None
    result,    \* _PendingQuery.result: its outcome, or None
    waiters,   \* _PendingQuery.waiters
    due,       \* threads whose query deadline has passed
    lock,      \* thread that keeps _lock across inject_send, or None
    active,    \* _active_calls
    loop,      \* event that holds the event loop, or Free
    posted,    \* injects scheduled on the loop that it has not run
    rfnq,      \* _rfn_packet_queue
    host,      \* self.host / self.runtime, or None
    open,      \* hosts made and not closed
    reload,    \* where reload() is
    old,       \* host that reload() took out
    made,      \* hosts made so far
    arrived,   \* packets so far
    rotated,   \* session rotates so far
    heard,     \* threads that a matching packet was observed for, see Hear
    cut        \* threads whose query a rotate or a reload has cut off

call == <<at, key, pend, answer, pkt>>
query == <<pending, result, waiters, due>>
conc == <<lock, active, loop, posted, rfnq>>
hosts == <<host, open, reload, old, made>>
env == <<arrived, rotated>>
history == <<heard, cut>>
vars == <<call, query, conc, hosts, env, history>>

-----------------------------------------------------------------------------
(* Events of the proxy.  Of a packet: the keys whose response predicate    *)
(* accepts it, and whether a packet binding of the manifest wants it.      *)
Packets == [kind : {"packet"}, keys : SUBSET Keys, trig : BOOLEAN]
Rotate  == [kind |-> "rotate", keys |-> {}, trig |-> FALSE]
Free    == [kind |-> "free", keys |-> {}, trig |-> FALSE]

(* Where a thread can be.  Joined: between the join and the end of the     *)
(* wait, where it counts as a waiter.                                      *)
Sending == {"sending", "sentOk", "sentFail"}
Joined  == {"send", "failed", "overwrite", "wait"} \union Sending
Inside  == {"observe", "run"} \union Joined
Places  == {"idle", "captured", "done"} \union Inside
Outcomes == {"match", "failed", "rotate", "reload"}

ASSUME NoneAssumption == None \notin Outcomes \union {"timeout", "raised"}

LockFree == lock = None

Init ==
    /\ at = [t \in Threads |-> "idle"]
    /\ key \in [Threads -> Keys] /\ pend = [t \in Threads |-> None]
    /\ answer = [t \in Threads |-> None] /\ pkt = [kind |-> "packet", keys |-> {}, trig |-> FALSE]
    /\ pending = [k \in Keys |-> None] /\ result = [t \in Threads |-> None]
    /\ waiters = [t \in Threads |-> 0] /\ due = {}
    /\ lock = None /\ active = 0 /\ loop = Free /\ posted = {} /\ rfnq = <<>>
    /\ host = 1 /\ open = {1} /\ reload = "idle" /\ old = None /\ made = 1
    /\ arrived = 0 /\ rotated = 0 /\ heard = {} /\ cut = {}

Goto(t, place) == at' = [at EXCEPT ![t] = place]

-----------------------------------------------------------------------------
(* The calls: handle_http, exec_function, run_due_jobs, handle_packet.     *)

(* A call reads self.runtime before it registers as active.                *)
Capture(t) ==
    /\ t # Worker /\ at[t] = "idle" /\ host # None
    /\ Goto(t, "captured")
    /\ UNCHANGED <<key, pend, answer, pkt, query, conc, hosts, env, history>>

(* The worker takes the next packet; without a runtime it is dropped.      *)
TakePacket ==
    /\ at[Worker] = "idle" /\ rfnq # <<>>
    /\ pkt' = Head(rfnq) /\ rfnq' = Tail(rfnq)
    /\ Goto(Worker, IF host = None THEN "idle" ELSE "captured")
    /\ UNCHANGED <<key, pend, answer, query, lock, active, loop, posted, hosts, env, history>>

(* _packet_has_active_interest: the packet has the opcode some pending     *)
(* query waits for, or a binding matches it.                               *)
Interest(p) == p.trig \/ \E k \in Keys : pending[k] # None

(* _enter_active_call; handle_packet checks the interest first.            *)
Enter(t) ==
    /\ LockFree /\ at[t] = "captured"
    /\ IF t = Worker /\ ~Interest(pkt)
       THEN Goto(t, "idle") /\ UNCHANGED active
       ELSE Goto(t, IF t = Worker THEN "observe" ELSE "run") /\ active' = active + 1
    /\ UNCHANGED <<key, pend, answer, pkt, query,
                   lock, loop, posted, rfnq, hosts, env, history>>

(* History: the threads with a query open for one of the packet's keys     *)
(* have heard it, unless a rotate or a reload has cut them off before.     *)
Hear(p) == heard' = heard \union {t \in Threads \ cut : at[t] \in Joined /\ key[t] \in p.keys}
Cut == cut' = cut \union {t \in Threads : at[t] \in Joined /\ t \notin heard}

(* Broken: a matched query stays registered.                               *)
Observe_KeepsMatched ==
    /\ LockFree /\ at[Worker] = "observe"
    /\ result' = [t \in Threads |->
                     IF \E k \in pkt.keys : pending[k] = t THEN "match" ELSE result[t]]
    /\ Hear(pkt)
    /\ Goto(Worker, "run")
    /\ UNCHANGED <<key, pend, answer, pkt, pending, waiters, due, conc, hosts, env, cut>>

(* observe_packet: forget what has expired, answer what the packet matches.*)
Observe ==
    /\ LockFree /\ at[Worker] = "observe"
    /\ LET live    == {k \in Keys : pending[k] # None /\ pending[k] \notin due}
           matched == live \intersect pkt.keys
       IN  /\ pending' = [k \in Keys |-> IF k \in live \ matched THEN pending[k] ELSE None]
           /\ result' = [t \in Threads |->
                            IF \E k \in matched : pending[k] = t THEN "match" ELSE result[t]]
    /\ Hear(pkt)
    /\ Goto(Worker, "run")
    /\ UNCHANGED <<key, pend, answer, pkt, waiters, due, conc, hosts, env, cut>>

(* The call ends, by return or by exception: _leave_active_call.           *)
End(t) ==
    /\ LockFree /\ at[t] = "run"
    /\ active' = IF active > 0 THEN active - 1 ELSE 0
    /\ Goto(t, IF t = Worker THEN "idle" ELSE "done")
    /\ UNCHANGED <<key, pend, answer, pkt, query,
                   lock, loop, posted, rfnq, hosts, env, history>>

-----------------------------------------------------------------------------
(* _query.  Its finally, _leave_active_call, only touches the count of a   *)
(* call that is active anyway, so it is one with the step before.          *)
LeaveQuery_Twice(t) ==   \* Broken: the exit is counted twice.
    /\ active' = IF active > 1 THEN active - 2 ELSE 0
    /\ Goto(t, "run")
LeaveQuery(t) ==
    /\ active' = IF active > 0 THEN active - 1 ELSE 0
    /\ Goto(t, "run")

(* Broken: only the creator counts as a waiter.                            *)
Join_CountsCreator(t) ==
    /\ LockFree /\ at[t] = "run" /\ pend[t] = None
    /\ t = Worker => pkt.trig
    /\ active' = active + 1
    /\ LET p == IF pending[key[t]] = None THEN t ELSE pending[key[t]]
       IN  /\ pend' = [pend EXCEPT ![t] = p]
           /\ pending' = [pending EXCEPT ![key[t]] = p]
           /\ waiters' = [waiters EXCEPT ![p] = 1]
           /\ Goto(t, IF p = t THEN "send" ELSE "wait")
    /\ UNCHANGED <<key, answer, pkt, result, due, lock, loop, posted, rfnq,
                   hosts, env, history>>

(* Enter once more, then join the registered query for the key or create   *)
(* one.  The call is active already, so the two lock sections are one.     *)
Join(t) ==
    /\ LockFree /\ at[t] = "run" /\ pend[t] = None
    /\ t = Worker => pkt.trig
    /\ active' = active + 1
    /\ LET p == IF pending[key[t]] = None THEN t ELSE pending[key[t]]
       IN  /\ pend' = [pend EXCEPT ![t] = p]
           /\ pending' = [pending EXCEPT ![key[t]] = p]
           /\ waiters' = [waiters EXCEPT ![p] = @ + 1]
           /\ Goto(t, IF p = t THEN "send" ELSE "wait")
    /\ UNCHANGED <<key, answer, pkt, result, due, lock, loop, posted, rfnq,
                   hosts, env, history>>

(* deadline_ms goes by, while somebody can still notice: the creator's is  *)
(* the pending query's own.                                                *)
DeadlinePasses(t) ==
    /\ at[t] = "wait" \/ pending[key[t]] = t
    /\ t \notin due /\ due' = due \union {t}
    /\ UNCHANGED <<call, pending, result, waiters, conc, hosts, env, history>>

(* The creator takes the lock.  Without a host the send fails at once;     *)
(* else inject_send posts the inject on the loop and waits for its result. *)
StartSend(t) ==
    /\ LockFree /\ at[t] = "send"
    /\ IF host = None
       THEN Goto(t, "failed") /\ UNCHANGED <<lock, posted>>
       ELSE Goto(t, "sending") /\ lock' = t /\ posted' = posted \union {t}
    /\ UNCHANGED <<key, pend, answer, pkt, query, active, loop, rfnq,
                   hosts, env, history>>

(* inject_send raises before it injects (no schema for the target, a value *)
(* that cannot be encoded): the exception leaves _query past every pop.    *)
SendRaises(t) ==
    /\ LockFree /\ at[t] = "send" /\ host # None
    /\ answer' = [answer EXCEPT ![t] = "raised"]
    /\ LeaveQuery(t)
    /\ UNCHANGED <<key, pend, pkt, query, lock, loop, posted, rfnq, hosts, env, history>>

(* The loop runs a posted inject, also one whose caller has given up.      *)
LoopInject(t) ==
    /\ loop = Free /\ t \in posted /\ posted' = posted \ {t}
    /\ IF at[t] = "sending"
       THEN \E reply \in {"sentOk", "sentFail"} : Goto(t, reply)
       ELSE UNCHANGED at
    /\ UNCHANGED <<key, pend, answer, pkt, query, lock, active, loop, rfnq,
                   hosts, env, history>>

(* Broken: the script's thread waits for the loop as long as it takes.     *)
InjectTimeout_Never(t) == FALSE /\ UNCHANGED <<vars, at[t]>>

(* fut.result(timeout=2.0) expires: E_INJECT_TIMEOUT.                      *)
InjectTimeout(t) ==
    /\ at[t] = "sending" /\ Goto(t, "sentFail")
    /\ UNCHANGED <<key, pend, answer, pkt, query, conc, hosts, env, history>>


Release(t) ==
    /\ at[t] \in {"sentOk", "sentFail"} /\ lock' = None
    /\ Goto(t, IF at[t] = "sentOk" THEN "wait" ELSE "failed")
    /\ UNCHANGED <<key, pend, answer, pkt, query, active, loop, posted, rfnq,
                   hosts, env, history>>

(* A failed send pops whatever is registered for the key ...               *)
PopFailed(t) ==
    /\ LockFree /\ at[t] = "failed"
    /\ pending' = [pending EXCEPT ![key[t]] = None]
    /\ Goto(t, "overwrite")
    /\ UNCHANGED <<key, pend, answer, pkt, result, waiters, due, conc,
                   hosts, env, history>>

(* ... and sets the result, under the condition only.                      *)
Overwrite(t) ==
    /\ LockFree /\ at[t] = "overwrite"
    /\ result' = [result EXCEPT ![t] = "failed"]
    /\ answer' = [answer EXCEPT ![t] = "failed"]
    /\ LeaveQuery(t)
    /\ UNCHANGED <<key, pend, pkt, pending, waiters, due, lock, loop, posted, rfnq,
                   hosts, env, history>>

(* Broken: the wait has no timeout.                                        *)
LeaveWait_NoTimeout(t) ==
    /\ LockFree /\ at[t] = "wait" /\ result[pend[t]] # None
    /\ waiters' = [waiters EXCEPT ![pend[t]] = @ - 1]
    /\ answer' = [answer EXCEPT ![t] = result[pend[t]]]
    /\ LeaveQuery(t)
    /\ UNCHANGED <<key, pend, pkt, pending, result, due, lock, loop, posted, rfnq,
                   hosts, env, history>>

(* The wait ends with a result or at the thread's own deadline; the last   *)
(* waiter that goes without a result takes the pending entry with it.      *)
LeaveWait(t) ==
    /\ LockFree /\ at[t] = "wait"
    /\ LET p == pend[t]
       IN  /\ result[p] # None \/ t \in due
           /\ waiters' = [waiters EXCEPT ![p] = @ - 1]
           /\ pending' = IF result[p] = None /\ pending[key[t]] = p /\ waiters[p] <= 1
                         THEN [pending EXCEPT ![key[t]] = None] ELSE pending
           /\ answer' = [answer EXCEPT ![t] = IF result[p] = None THEN "timeout" ELSE result[p]]
    /\ LeaveQuery(t)
    /\ UNCHANGED <<key, pend, pkt, result, due, lock, loop, posted, rfnq, hosts, env, history>>

-----------------------------------------------------------------------------
(* The proxy's hooks, on the event loop and in the observe thread.         *)

(* Broken: the registered queries are left alone.                          *)
FailPending_Forgets(code) == Cut /\ UNCHANGED <<result, pending>>

(* Fail every registered query and forget it.                              *)
FailPending(code) ==
    /\ result' = [t \in Threads |-> IF \E k \in Keys : pending[k] = t THEN code ELSE result[t]]
    /\ pending' = [k \in Keys |-> None]
    /\ Cut

(* _enqueue_rfn_packet after wants_packet; a full queue drops the packet.  *)
EnqueuePacket(p) ==
    /\ rfnq' = IF host # None /\ Interest(p) /\ Len(rfnq) < RfnQueueMax
               THEN Append(rfnq, p) ELSE rfnq
    /\ UNCHANGED <<pending, result, cut>>

(* on_session_rotate.                                                      *)
SessionRotate == FailPending("rotate") /\ UNCHANGED rfnq

Run(event) == IF event = Rotate THEN SessionRotate ELSE EnqueuePacket(event)

(* The loop gets a packet event or a session key change.  Both need the    *)
(* lock: while a thread keeps it the loop can do nothing else.             *)
LoopBegin ==
    /\ loop = Free
    /\ \E event \in Packets \union {Rotate} :
        /\ IF event = Rotate
           THEN rotated < RotateMax /\ rotated' = rotated + 1 /\ UNCHANGED arrived
           ELSE arrived < PacketMax /\ arrived' = arrived + 1 /\ UNCHANGED rotated
        /\ IF LockFree
           THEN Run(event) /\ UNCHANGED loop
           ELSE loop' = event /\ UNCHANGED <<rfnq, pending, result, cut>>
    /\ UNCHANGED <<call, waiters, due, lock, active, posted, hosts, heard>>

LoopResumes ==
    /\ LockFree /\ loop # Free /\ loop' = Free
    /\ Run(loop)
    /\ UNCHANGED <<call, waiters, due, lock, active, posted, hosts, env, heard>>

(* With observe_s2c on, the observe thread finds the new key and rotates,  *)
(* beside the loop.                                                        *)
ThreadRotates ==
    /\ LockFree /\ rotated < RotateMax /\ rotated' = rotated + 1
    /\ SessionRotate
    /\ UNCHANGED <<call, waiters, due, lock, active, loop, posted, hosts, arrived, heard>>

-----------------------------------------------------------------------------
(* reload, in an executor thread; close() is a reload that installs nothing*)

ReloadBegin ==
    /\ LockFree /\ reload = "idle" /\ made < HostMax
    /\ made' = made + 1
    /\ FailPending("reload")
    /\ reload' = "drain"
    /\ UNCHANGED <<call, waiters, due, conc, host, open, old, env, heard>>

(* _wait_for_active_calls: no call is left, or five seconds have gone by.  *)
Drained ==
    /\ LockFree /\ reload = "drain" /\ active = 0 /\ reload' = "swap"
    /\ UNCHANGED <<call, query, conc, host, open, old, made, env, history>>

DrainTimeout_Never == FALSE /\ UNCHANGED vars   \* Broken: waits without a deadline.

DrainTimeout ==
    /\ LockFree /\ reload = "drain" /\ active > 0 /\ reload' = "idle"
    /\ UNCHANGED <<call, query, conc, host, open, old, made, env, history>>


TakeHostOut ==
    /\ LockFree /\ reload = "swap"
    /\ old' = host /\ host' = None /\ reload' = "close"
    /\ UNCHANGED <<call, query, conc, open, made, env, history>>

CloseHost ==
    /\ reload = "close"
    /\ open' = open \ {old} /\ old' = None /\ reload' = "install"
    /\ UNCHANGED <<call, query, conc, host, made, env, history>>

(* The scripts may fail to load; then no host is there until a reload.     *)
Install ==
    /\ LockFree /\ reload = "install" /\ reload' = "idle"
    /\ \/ host' = made /\ open' = open \union {made}
       \/ UNCHANGED <<host, open>>
    /\ UNCHANGED <<call, query, conc, old, made, env, history>>

CallStep(t) == Capture(t) \/ Enter(t) \/ End(t)
QueryStep(t) ==
    \/ StartSend(t) \/ SendRaises(t) \/ InjectTimeout(t) \/ Release(t)
    \/ PopFailed(t) \/ Overwrite(t) \/ LeaveWait(t)
ReloadStep == Drained \/ DrainTimeout \/ TakeHostOut \/ CloseHost \/ Install

Next ==
    \/ \E t \in Threads :
        CallStep(t) \/ Join(t) \/ QueryStep(t) \/ DeadlinePasses(t) \/ LoopInject(t)
    \/ TakePacket \/ Observe \/ LoopBegin \/ LoopResumes \/ ThreadRotates
    \/ ReloadBegin \/ ReloadStep

Spec == Init /\ [][Next]_vars

(* Runnable threads run, timers fire, and the loop gets to its next job.   *)
(* Nothing is assumed of packets, rotates and reloads, of a script, which  *)
(* may run as long as it likes before its call ends, and of the loop's     *)
(* luck in running a posted inject before the two seconds are over.        *)
Fairness ==
    /\ \A t \in Threads :
        WF_vars(Enter(t) \/ QueryStep(t)) /\ WF_vars(DeadlinePasses(t))
    /\ WF_vars(Observe) /\ WF_vars(LoopResumes) /\ WF_vars(ReloadStep)

FairSpec == Spec /\ Fairness

-----------------------------------------------------------------------------
(* Every variable has its type, and the lock is kept exactly by a thread   *)
(* that waits for the loop to inject.                                      *)
TypeOK ==
    /\ at \in [Threads -> Places] /\ key \in [Threads -> Keys]
    /\ pend \in [Threads -> Threads \union {None}]
    /\ answer \in [Threads -> Outcomes \union {"timeout", "raised", None}]
    /\ pkt \in Packets
    /\ pending \in [Keys -> Threads \union {None}]
    /\ result \in [Threads -> Outcomes \union {None}]
    /\ waiters \in [Threads -> Int] /\ due \subseteq Threads
    /\ lock \in Threads \union {None}
    /\ \A t \in Threads : lock = t <=> at[t] \in Sending
    /\ active \in Nat /\ posted \subseteq Threads
    /\ loop \in Packets \union {Rotate, Free}
    /\ rfnq \in Seq(Packets)
    /\ made \in Nat \ {0} /\ host \in 1 .. made \union {None} /\ open \subseteq 1 .. made
    /\ reload \in {"idle", "drain", "swap", "close", "install"}
    /\ old \in 1 .. made \union {None}
    /\ arrived \in Nat /\ rotated \in Nat
    /\ heard \subseteq Threads /\ cut \subseteq Threads

(* A query answered with a response was answered by a packet observed      *)
(* after its caller joined, and neither a session rotate nor a reload came *)
(* between: no caller joins an entry that is already answered, and no      *)
(* entry survives the rotate under which its request was made.             *)
AnswerHeard == \A t \in Threads : answer[t] = "match" => t \in heard

(* A registered query is an open one: a new caller that joins it waits for *)
(* an answer still to come.                                                *)
RegisteredIsOpen ==
    \A k \in Keys : pending[k] # None => result[pending[k]] = None /\ key[pending[k]] = k

(* The threads that wait on query p or are about to.                       *)
On(p) == {t \in Threads : pend[t] = p /\ at[t] \in Joined}

(* The waiters of a registered query are counted exactly, so that the last *)
(* of them to time out unregisters it.  The one way to leave an entry      *)
(* behind is an inject_send that raises.                                   *)
WaitersCounted ==
    \A k \in Keys : pending[k] # None =>
        waiters[pending[k]] = Cardinality(On(pending[k]))
            + (IF answer[pending[k]] = "raised" THEN 1 ELSE 0)

(* When reload has seen its drain end, no call is inside: neither a        *)
(* handler nor a query nested in it is lost from the count.                *)
DrainSeesEveryCall ==
    [][reload = "drain" /\ reload' = "swap" => \A t \in Threads : at[t] \notin Inside]_vars

(* The host that new calls see is never one that reload has closed.        *)
CurrentIsOpen == host # None => host \in open

(* Every query comes back to its script, whatever is rotated, reloaded,    *)
(* lost or stuck meanwhile.                                                *)
QueryReturns == \A t \in Threads : at[t] \in Joined ~> at[t] \notin Joined

(* The loop and a thread that keeps the lock may wait for each other, but  *)
(* not forever.                                                            *)
LoopComesFree == loop # Free ~> loop = Free

(* A reload ends, also while calls keep it from draining.                  *)
ReloadEnds == reload # "idle" ~> reload = "idle"
=============================================================================
