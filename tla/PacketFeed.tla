---------------------------- MODULE PacketFeed -------------------------------
(***************************************************************************)
(* From the packet hook to the browsers (web/app.py).  The observe threads *)
(* of the proxy hand packets, and a changed session key a reset, to the    *)
(* event loop; the loop publishes each packet, queues it for decoding by   *)
(* priority, and the worker decodes one at a time in an executor and       *)
(* publishes the result as an update of the packet it belongs to.  A       *)
(* packet that RFN scripts want goes on to the RFN worker, which may       *)
(* decode it again and publish a second update.                            *)
(***************************************************************************)
EXTENDS EventBus, FiniteSets

CONSTANTS
    Viewers,
    QueueMax,       \* _packet_queue_capacity
    RfnMax,         \* _rfn_queue_capacity
    BatchMax,       \* BATCH_MAX of _ws_sender
    PacketMax,      \* bound: packets that the hook is called with
    ResetMax,       \* bound: changes of the session key
    PassingMax      \* bound: other events

ASSUME PacketFeedAssumption ==
    QueueMax \in Nat \ {0} /\ RfnMax \in Nat \ {0} /\ BatchMax \in Nat \ {0}

Classes == {"inject", "c2s", "s2c", "bare"}     \* bare: no opcode or no payload
Idle == [n |-> 0]
Down == [at |-> "down"]         \* the task was not started yet, or has ended
Works(worker_) == worker_ \notin {Idle, Down}
Event(kind, of) == [kind |-> kind, of |-> of]

VARIABLES
    calls,          \* given to call_soon_threadsafe and not run yet
    bus,            \* the EventBus
    jobs,           \* _packet_queue: [prio, n, p, target, rfn]
    worker,         \* the job of _packet_enrich_worker, Idle or Down
    rfnQueue,       \* _rfn_packet_queue, as far as decoded again: [p, target]
    rfnWorker,      \* that job of _rfn_packet_worker, Idle or Down
    jobSeq,         \* _packet_job_seq
    injected,       \* _recent_injects is not empty
    auto,           \* observe.auto_decode_packets
    hooked, resets, passing,    \* packets, resets and other events so far
    eraOf,          \* packet -> resets scheduled before it (history)
    place,          \* packet -> its number on the bus (history)
    owed,           \* packets published as queued that have no update (history)
    lost,           \* those among them whose job was with a worker that died (history)
    died            \* jobSeq when it died last (history)

rfn == <<rfnQueue, rfnWorker>>
hooks == <<hooked, resets, passing>>
past == <<eraOf, place, owed, lost, died>>
feed == <<calls, bus, jobs, worker, rfn, jobSeq, injected, auto, hooks, past>>

FeedInit ==
    /\ calls = <<>> /\ bus = NoBus(Viewers) /\ jobs = {} /\ worker = Down /\ jobSeq = 0
    /\ rfnQueue = <<>> /\ rfnWorker = Down
    /\ injected = FALSE /\ auto \in BOOLEAN
    /\ hooked = 0 /\ resets = 0 /\ passing = 0
    /\ eraOf = <<>> /\ place = <<>> /\ owed = {} /\ lost = {} /\ died = 0

-----------------------------------------------------------------------------
(* Any thread: the hooks.                                                  *)

HookPacket(class) ==
    /\ hooked < PacketMax
    /\ hooked' = hooked + 1
    /\ calls' = Append(calls, [do |-> "packet", p |-> hooked + 1, class |-> class])
    /\ eraOf' = Append(eraOf, resets)
    /\ UNCHANGED <<bus, jobs, worker, rfn, jobSeq, injected, auto, resets, passing>>
    /\ UNCHANGED <<place, owed, lost, died>>
HookReset_AtOnce ==
    /\ resets < ResetMax
    /\ resets' = resets + 1
    /\ bus' = Publish(Clear(bus), Event("reset", resets + 1), TRUE)
    /\ UNCHANGED <<calls, jobs, worker, rfn, jobSeq, injected, auto, hooked, passing, past>>
HookReset ==
    /\ resets < ResetMax
    /\ resets' = resets + 1
    /\ calls' = Append(calls, [do |-> "reset", p |-> resets + 1, class |-> "bare"])
    /\ UNCHANGED <<bus, jobs, worker, rfn, jobSeq, injected, auto, hooked, passing, past>>

(* Log lines, and session events that reset nothing.                       *)
HookEvent ==
    /\ passing < PassingMax /\ passing' = passing + 1
    /\ calls' = Append(calls, [do |-> "event", p |-> 0, class |-> "bare"])
    /\ UNCHANGED <<bus, jobs, worker, rfn, jobSeq, injected, auto, hooked, resets, past>>

-----------------------------------------------------------------------------
(* The loop.                                                               *)

(* Injects and the replies to recent ones come first.                      *)
Priorities(class) ==
    CASE class = "inject" -> {0}
      [] class = "c2s" -> {10}
      [] OTHER -> IF injected THEN {0, 20} ELSE {20}

(* The target is the number that publish gave to the packet.               *)
Target_JobSeq(published) == jobSeq + 1
Target(published) == published.seq

FullQueue_Silent(published, p) == bus' = published /\ owed' = owed \cup {p}
FullQueue(published, p) ==
    /\ bus' = Publish(published, Event("update", <<Target(published), p>>), TRUE)
    /\ UNCHANGED owed

(* _enqueue_rfn_packet: a runtime that wants the packet gets it, its       *)
(* worker is started if need be, and a full queue drops it.  The packets   *)
(* that need no second decode take places in the queue too (so it may be   *)
(* full at any time); what comes of them are events like HookEvent's.      *)
Offer(published, again) ==
    \/ bus' = published /\ UNCHANGED rfn
    \/ /\ rfnWorker' = IF rfnWorker = Down THEN Idle ELSE rfnWorker
       /\ \/ /\ bus' = published
             /\ rfnQueue' = rfnQueue \o again /\ Len(rfnQueue') <= RfnMax
          \/ bus' = Publish(published, Event("passing", 0), FALSE) /\ UNCHANGED rfnQueue

(* A packet that is queued for decoding starts the worker if need be; one  *)
(* that is not is offered to the scripts at once, without its number.      *)
RunPacket ==
    /\ calls # <<>> /\ Head(calls).do = "packet"
    /\ LET c == Head(calls)
           published == Publish(bus, Event("packet", c.p), TRUE)
       IN  /\ place' = [q \in DOMAIN place \cup {c.p} |->
                            IF q = c.p THEN published.seq ELSE place[q]]
           /\ calls' = Tail(calls)
           /\ IF c.class = "bare" \/ ~auto
              THEN /\ IF c.class = "inject" THEN bus' = published /\ UNCHANGED rfn
                                            ELSE Offer(published, <<>>)
                   /\ UNCHANGED <<jobs, worker, jobSeq, injected, owed>>
              ELSE /\ jobSeq' = jobSeq + 1
                   /\ injected' = (injected \/ c.class = "inject")
                   /\ worker' = IF worker = Down THEN Idle ELSE worker
                   /\ IF Cardinality(jobs) = QueueMax
                      THEN FullQueue(published, c.p) /\ UNCHANGED jobs
                      ELSE /\ \E prio \in Priorities(c.class) :
                                jobs' = jobs \cup {[prio |-> prio, n |-> jobSeq + 1, p |-> c.p,
                                                    target |-> Target(published),
                                                    rfn |-> c.class # "inject"]}
                           /\ bus' = published /\ owed' = owed \cup {c.p}
                   /\ UNCHANGED rfn
    /\ UNCHANGED <<auto, hooks, eraOf, lost, died>>

(* _clear_and_publish: the bus is emptied, the reset and the session event *)
(* follow.                                                                 *)
RunReset ==
    /\ calls # <<>> /\ Head(calls).do = "reset"
    /\ calls' = Tail(calls)
    /\ bus' = Publish(Publish(Clear(bus), Event("reset", Head(calls).p), TRUE),
                      Event("session", Head(calls).p), TRUE)
    /\ UNCHANGED <<jobs, worker, rfn, jobSeq, injected, auto, hooks, past>>

RunEvent ==
    /\ calls # <<>> /\ Head(calls).do = "event"
    /\ calls' = Tail(calls)
    /\ bus' = Publish(bus, Event("session", 0), TRUE)
    /\ UNCHANGED <<jobs, worker, rfn, jobSeq, injected, auto, hooks, past>>

Before(a, b) == a.prio < b.prio \/ (a.prio = b.prio /\ a.n < b.n)
WorkerTakes ==
    /\ worker = Idle
    /\ \E j \in jobs :
        /\ \A k \in jobs \ {j} : Before(j, k)
        /\ worker' = j /\ jobs' = jobs \ {j}
    /\ UNCHANGED <<calls, bus, rfn, jobSeq, injected, auto, hooks, past>>
(* The packet goes on to the scripts, to be decoded again if the opcode    *)
(* had no schema.                                                          *)
WorkerPublishes ==
    /\ Works(worker) /\ worker' = Idle
    /\ LET published == Publish(bus, Event("update", <<worker.target, worker.p>>), TRUE)
       IN  \/ bus' = published /\ UNCHANGED rfn
          \/ /\ worker.rfn
             /\ \E again \in {<<>>, <<[p |-> worker.p, target |-> worker.target]>>} :
                   Offer(published, again)
    /\ owed' = owed \ {worker.p}
    /\ UNCHANGED <<calls, jobs, jobSeq, injected, auto, hooks, eraOf, place, lost, died>>
(* Outside its try, _decode_packet_patch raises for a detail file that is  *)
(* no object: the task ends, the job is lost.                              *)
WorkerDies ==
    /\ Works(worker) /\ worker' = Down /\ lost' = lost \cup {worker.p}
    /\ died' = jobSeq
    /\ UNCHANGED <<calls, bus, jobs, rfn, jobSeq, injected, auto, hooks, eraOf, place, owed>>

RfnTakes ==
    /\ rfnWorker = Idle /\ rfnQueue # <<>>
    /\ rfnWorker' = Head(rfnQueue) /\ rfnQueue' = Tail(rfnQueue)
    /\ UNCHANGED <<calls, bus, jobs, worker, jobSeq, injected, auto, hooks, past>>
RfnPublishes ==
    /\ Works(rfnWorker) /\ rfnWorker' = Idle
    /\ bus' = Publish(bus, Event("update", <<rfnWorker.target, rfnWorker.p>>), TRUE)
    /\ UNCHANGED <<calls, jobs, worker, rfnQueue, jobSeq, injected, auto, hooks, past>>
RfnDies ==
    /\ rfnWorker # Down /\ rfnWorker' = Down
    /\ UNCHANGED <<calls, bus, jobs, worker, rfnQueue, jobSeq, injected, auto, hooks, past>>

(* Performance, schedule and drop events have "_history": False.           *)
PublishPassing ==
    /\ passing < PassingMax /\ passing' = passing + 1
    /\ bus' = Publish(bus, Event("passing", 0), FALSE)
    /\ UNCHANGED <<calls, jobs, worker, rfn, jobSeq, injected, auto, hooked, resets, past>>
(* _recent_injects forgets after thirty seconds.                           *)
Prune ==
    /\ injected /\ injected' = FALSE
    /\ UNCHANGED <<calls, bus, jobs, worker, rfn, jobSeq, auto, hooks, past>>
Bus(new) ==
    /\ bus' = new
    /\ UNCHANGED <<calls, jobs, worker, rfn, jobSeq, injected, auto, hooks, past>>
Come(v) == ~bus.viewer[v].here /\ Bus(Subscribe(bus, v))
Leave(v) == bus.viewer[v].here /\ Bus(Unsubscribe(bus, v))
(* The sender gathers what comes within 80 ms, and sends it together.      *)
Gather(v) ==
    /\ bus.viewer[v].here /\ bus.viewer[v].sending
    /\ bus.viewer[v].queue # <<>> /\ bus.viewer[v].hand < BatchMax
    /\ Bus(Take(bus, v))
Send(v) ==
    /\ bus.viewer[v].here /\ bus.viewer[v].sending /\ bus.viewer[v].hand > 0
    /\ Bus(Deliver(bus, v)) \/ Bus(Fail(bus, v))

FeedNext ==
    \/ \E class \in Classes : HookPacket(class)
    \/ HookReset \/ HookEvent \/ RunPacket \/ RunReset \/ RunEvent
    \/ WorkerTakes \/ WorkerPublishes \/ WorkerDies
    \/ RfnTakes \/ RfnPublishes \/ RfnDies \/ PublishPassing \/ Prune
    \/ \E v \in Viewers : Come(v) \/ Leave(v) \/ Gather(v) \/ Send(v)
FeedSpec == FeedInit /\ [][FeedNext]_feed

(* The loop runs what it was given, the executor ends a decode.            *)
FeedFairness ==
    /\ WF_feed(RunPacket \/ RunReset \/ RunEvent) /\ WF_feed(WorkerTakes)
    /\ WF_feed(WorkerPublishes \/ WorkerDies)

-----------------------------------------------------------------------------
FeedTypeOK ==
    /\ Cardinality(jobs) <= QueueMax /\ Len(bus.history) <= HistoryMax
    /\ \A v \in Viewers : bus.viewer[v].here =>
            Len(bus.viewer[v].queue) <= Capacity /\ bus.viewer[v].hand <= BatchMax
    /\ owed \subseteq DOMAIN place /\ Len(rfnQueue) <= RfnMax

ViewersInOrder == InOrder(bus)
GapsAreCounted == Accounted(bus)
(* The decode queue stands still only from the death of its worker to the  *)
(* next packet for it.                                                     *)
StandsStill == worker = Down => jobSeq = died
FeedInv == FeedTypeOK /\ ViewersInOrder /\ GapsAreCounted /\ StandsStill

(* After a reset no viewer, and nobody who asks for the history, finds a   *)
(* packet that the proxy reported before it, whichever threads reported.   *)
Lists == {bus.history} \cup {v.queue : v \in Here(bus)}
ResetsRun == resets - Cardinality({i \in DOMAIN calls : calls[i].do = "reset"})
ResetSeparates ==
    /\ \A s \in Lists : \A i \in DOMAIN s :
        s[i].kind = "packet" => eraOf[s[i].of] >= ResetsRun
    /\ \A v \in Here(bus) : v.reset <= ResetsRun

(* An update, the first or the one of the RFN worker, names the number     *)
(* under which its own packet was published.                               *)
UpdateIsOfItsPacket ==
    \A s \in Lists : \A i \in DOMAIN s :
        s[i].kind = "update" => place[s[i].of[2]] = s[i].of[1] /\ s[i].of[1] < s[i].seq

(* What is owed an update waits in the queue or is with the worker, and    *)
(* there once, or was with a worker when it died: no packet is forgotten   *)
(* and none is decoded twice by it, however full the queue, and through a  *)
(* reset of the bus.                                                       *)
Decoding == jobs \cup ({worker} \ {Idle, Down})
OwedIsQueued ==
    /\ owed = {j.p : j \in Decoding} \cup lost
    /\ \A j \in Decoding : j.p \notin lost
    /\ \A j, k \in Decoding : j.p = k.p => j = k

(* Every packet that was published as queued gets an update in the end,    *)
(* decoded or skipped: unless the worker died with it, or dies and no      *)
(* packet comes any more to start it again (StandsStill).  An endless      *)
(* stream of packets of a higher priority, which would starve it, is more  *)
(* than PacketMax.                                                         *)
QueuedIsSettled ==
    \A p \in 1..PacketMax : p \in owed ~> (p \notin owed \/ p \in lost \/ [](worker = Down))
=============================================================================
