------------------------------ MODULE MitmC2S ------------------------------
(***************************************************************************)
(* The client-to-server half of one MitmSession (proxy/server.py): the     *)
(* pump that reads client packets and renumbers them, the bounded outbound *)
(* queue, injections that share that queue, the task that writes batches   *)
(* to the upstream, the observe worker that learns the injection baseline, *)
(* and the end of the session.                                             *)
(*                                                                         *)
(* Everything but the observe thread runs on one asyncio loop, so a stretch*)
(* of code without a suspending await is one action, or several during     *)
(* which no other loop action may run (LoopFree).                          *)
(***************************************************************************)
EXTENDS Integers, FiniteSets, Sequences

CONSTANTS
    RealSids,      \* session ids >= _MIN_REAL_SESSION_ID seen in DATA packets
    SmallSids,     \* session ids below it (heartbeat-like DATA packets)
    Keys,          \* session keys
    Control,       \* a packet whose command is not DATA (syn, heartbeat)
    Odd,           \* a DATA packet whose body is no whole number of blocks
    Bodies,        \* what a packet of the client may carry
    Garbage,       \* bytes in the stream that are no packet header
    NoSid,         \* last_internal is None
    NoKey,         \* state.cipher is None
    Slow,          \* transports whose peer may leave bytes unread
    First,         \* sequence number of the client's first packet
    SeqMod,        \* size of the 32-bit sequence space
    QueueMax,      \* OUTBOUND_QUEUE_MAXSIZE
    ObserveMax,    \* observe_queue_max (0: no observe queue)
    BatchMax,      \* c2s_batch_packets
    ClientMax,     \* bound: packets the client sends
    ChunkMax,      \* bound: packets completed by one read
    InjectMax      \* bound: injections that succeed

Sids   == RealSids \union SmallSids
Data   == [sid : Sids, key : Keys]

ASSUME SidAssumption == RealSids \intersect SmallSids = {} /\ NoSid \notin Sids

ASSUME BodyAssumption ==
    /\ Bodies \subseteq Data \union {Control, Odd}
    /\ Control \notin Data /\ Odd \notin Data /\ Garbage \notin Bodies /\ NoKey \notin Keys

ASSUME SlowAssumption == Slow \subseteq {"client", "upstream"}

ASSUME BoundAssumption ==
    /\ First \in Nat /\ SeqMod \in Nat \ {0} /\ First < SeqMod
    /\ QueueMax \in Nat \ {0} /\ BatchMax \in Nat \ {0}
    /\ ObserveMax \in Nat /\ ClientMax \in Nat /\ ChunkMax \in Nat /\ InjectMax \in Nat

VARIABLES
    cipher,     \* the key of state.cipher, or NoKey
    acked,      \* history: keys that ACKs of this connection announced
    baseline,   \* session id of state.last_internal, or NoSid
    lastSeq,    \* state.last_gcp_seq
    offset,     \* state.c2s_seq_offset
    outq,       \* _outbound_queue
    obsq,       \* _observe_queue
    thread,     \* packet the observe thread works on: <<>> or <<packet>>
    cnext,      \* number of the next client packet, not reduced modulo SeqMod
    buf,        \* complete packets read from the client, not yet forwarded
    observed,   \* packets of this read already forwarded, not yet observed
    pump,       \* where _pump_c2s is: "read", "run", "blocked" or "done"
    held,       \* <<item>> that a full outbound queue keeps waiting, or <<>>
    sender,     \* where _pump_upstream_send is: "get", "linger", "drain", "done"
    hand,       \* the item _pump_upstream_send holds while it lingers
    sent,       \* items handed to the upstream transport, in order
    s2cDone,    \* _pump_s2c has returned
    closed,     \* _closed
    unflushed,  \* closed transports that still have bytes to deliver
    stage,      \* run(): waits for its "tasks", is "closing", has "ended"
    accepted    \* injections whose caller got a success answer

state == <<cipher, acked, baseline, lastSeq, offset>>
queues == <<outq, obsq>>
reader == <<cnext, buf, observed, pump, held>>
writer == <<sender, hand, sent>>
life == <<s2cDone, closed, unflushed, stage>>
vars == <<state, queues, thread, reader, writer, life, accepted>>

-----------------------------------------------------------------------------
(* A wire packet on its way up.  key is what its body is encrypted with and *)
(* c1 the counter1 that key shows: NoBody for a packet without a body that *)
(* any key can decrypt, Spoiled if the key shows no packet any more.       *)
NoBody  == -1
Spoiled == -2
Items == [tag : {"C2S>", "INJECT>"}, seq : Nat,
          key : Keys \union {NoKey}, c1 : Nat \union {NoBody, Spoiled}]

(* A client packet as the client sent it.  The client numbers its packets  *)
(* one after the other and repeats the number in its own counter1.         *)
Packets == [seq : Nat, body : Bodies]

(* Everything numbered so far, in the order in which the upstream gets it. *)
Stream == sent \o hand \o outq \o held

Init ==
    /\ cipher = NoKey /\ acked = {} /\ baseline = NoSid /\ lastSeq = 0 /\ offset = 0
    /\ outq = <<>> /\ obsq = <<>> /\ thread = <<>>
    /\ cnext = First /\ buf = <<>> /\ observed = <<>>
    /\ pump = "read" /\ held = <<>>
    /\ sender = "get" /\ hand = <<>> /\ sent = <<>>
    /\ s2cDone = FALSE /\ closed = FALSE /\ unflushed = {} /\ stage = "tasks"
    /\ accepted = 0

(* The pump handles the packets of one read without giving up the loop     *)
(* unless the outbound queue is full.                                      *)
LoopFree == pump # "run"

Full == Len(outq) >= QueueMax

-----------------------------------------------------------------------------
KeyOf(pkt) == IF pkt.body \in Data THEN pkt.body.key ELSE NoKey

(* Broken: only the header gets the shifted number.                        *)
RewriteC2sSeq_HeaderOnly(pkt) ==
    [tag |-> "C2S>", seq |-> (pkt.seq + offset) % SeqMod, key |-> KeyOf(pkt),
     c1  |-> IF pkt.body \in Data THEN pkt.seq ELSE NoBody]

(* _rewrite_c2s_seq: unchanged while nothing was injected; else the wire   *)
(* number is shifted, and in a DATA body, if a key is known, counter1 too. *)
(* An Odd body makes the decryption raise and keeps only the new header; a *)
(* body of another key is decrypted and encrypted with the wrong one.      *)
RewriteC2sSeq(pkt) ==
    LET new == (pkt.seq + offset) % SeqMod
        c1  == CASE pkt.body \notin Data -> NoBody
                 [] pkt.body \in Data /\ (offset = 0 \/ cipher = NoKey) -> pkt.seq
                 [] pkt.body \in Data /\ offset # 0 /\ cipher # NoKey ->
                       IF cipher = pkt.body.key THEN new ELSE Spoiled
    IN  [tag |-> "C2S>", seq |-> IF offset = 0 THEN pkt.seq ELSE new,
         key |-> KeyOf(pkt), c1 |-> c1]

(* _note_c2s_sequence, on the loop and again in the observe thread.        *)
NoteC2sSequence(pkt) == lastSeq' = IF pkt.seq > lastSeq THEN pkt.seq ELSE lastSeq

(* _queue_observe for each packet in turn: what finds the queue full is    *)
(* dropped, and nothing leaves the queue meanwhile.                        *)
QueueObserve(pkts) ==
    LET room == IF ObserveMax > Len(obsq) THEN ObserveMax - Len(obsq) ELSE 0
    IN  obsq' = obsq \o SubSeq(pkts, 1, IF room < Len(pkts) THEN room ELSE Len(pkts))

(* One read of the client socket that completes some packets, the last of  *)
(* which may be followed by bytes that are no header.                      *)
ReadChunk ==
    /\ LoopFree /\ pump = "read"
    /\ \E n \in 0 .. ChunkMax, junk \in BOOLEAN :
        /\ n > 0 \/ junk
        /\ (cnext - First) + n <= ClientMax
        /\ \E bodies \in [1 .. n -> Bodies] :
            buf' = IF junk THEN Append(bodies, Garbage) ELSE bodies
    /\ pump' = "run"
    /\ UNCHANGED <<state, queues, thread, cnext, observed, held, writer, life, accepted>>

(* One turn of the inner loop of _pump_c2s: pop, rewrite, note, put.       *)
ForwardPacket ==
    /\ pump = "run" /\ buf # <<>> /\ Head(buf) # Garbage
    /\ LET pkt  == [seq |-> cnext % SeqMod, body |-> Head(buf)]
           item == RewriteC2sSeq(pkt)
       IN  /\ NoteC2sSequence(pkt)
           /\ observed' = Append(observed, pkt)
           /\ IF Full
              THEN /\ pump' = "blocked" /\ held' = <<item>> /\ UNCHANGED outq
              ELSE /\ outq' = Append(outq, item) /\ UNCHANGED <<pump, held>>
    /\ cnext' = cnext + 1 /\ buf' = Tail(buf)
    /\ UNCHANGED <<cipher, acked, baseline, offset, obsq, thread, writer, life, accepted>>


(* The loop ran on since the put was suspended; there is room again.       *)
ResumePut ==
    /\ LoopFree /\ pump = "blocked" /\ ~Full
    /\ outq' = outq \o held /\ held' = <<>> /\ pump' = "run"
    /\ UNCHANGED <<state, obsq, thread, cnext, buf, observed, writer, life, accepted>>

(* The read is used up: hand its packets to the observe queue, read again. *)
FinishChunk ==
    /\ pump = "run" /\ buf = <<>>
    /\ QueueObserve(observed)
    /\ observed' = <<>> /\ pump' = "read"
    /\ UNCHANGED <<state, outq, thread, cnext, buf, held, writer, life, accepted>>

(* _try_pop_packet raises on a bad magic: the pump returns at once and the *)
(* packets of this read never reach the observe queue.                     *)
RejectHeader ==
    /\ pump = "run" /\ buf # <<>> /\ Head(buf) = Garbage
    /\ pump' = "done" /\ buf' = <<>> /\ observed' = <<>>
    /\ UNCHANGED <<state, queues, thread, cnext, held, writer, life, accepted>>

(* The client closed, or close() closed its transport: read() gives b"".   *)
ClientEOF ==
    /\ LoopFree /\ pump = "read" /\ pump' = "done"
    /\ UNCHANGED <<state, queues, thread, cnext, buf, observed, held, writer, life, accepted>>

-----------------------------------------------------------------------------
(* _pump_s2c sees an ACK: the key it announces replaces the one in use.    *)
PrimeS2cState ==
    /\ LoopFree /\ ~s2cDone
    /\ \E k \in Keys : cipher' = k /\ acked' = acked \union {k}
    /\ UNCHANGED <<baseline, lastSeq, offset, queues, thread, reader, writer, life, accepted>>

(* The observe thread handles an ACK the loop has handled before and sets  *)
(* its key again, at any later time (S2CPath has the queue it waits in).   *)
PrimeAgain ==
    /\ cipher' \in acked
    /\ UNCHANGED <<acked, baseline, lastSeq, offset, queues, thread, reader, writer, life, accepted>>

S2cEOF ==
    /\ LoopFree /\ ~s2cDone /\ s2cDone' = TRUE
    /\ UNCHANGED <<state, queues, thread, reader, writer, closed, unflushed, stage, accepted>>

(* _observe_worker takes the next packet and starts a thread on it; it     *)
(* starts no second one before the first has finished.                     *)
StartObserve ==
    /\ LoopFree /\ stage = "tasks" /\ obsq # <<>> /\ thread = <<>>
    /\ thread' = <<Head(obsq)>> /\ obsq' = Tail(obsq)
    /\ UNCHANGED <<state, outq, reader, writer, life, accepted>>

(* Broken: whatever decrypts may seed the injections.                      *)
IsInjectBaselineCandidate_Any(sid) == sid \in Sids

(* _is_inject_baseline_candidate                                           *)
IsInjectBaselineCandidate(sid) ==
    \/ sid \in RealSids
    \/ baseline # NoSid /\ sid = baseline

(* _observe on a c2s packet.  It runs in the thread: neither LoopFree nor  *)
(* the end of the session stops it.  Under another key than the packet's   *)
(* the decryption fails.                                                   *)
Observe ==
    /\ thread # <<>> /\ thread' = <<>>
    /\ LET pkt == Head(thread)
       IN  /\ NoteC2sSequence(pkt)
           /\ baseline' = IF /\ pkt.body \in Data /\ cipher = pkt.body.key
                             /\ IsInjectBaselineCandidate(pkt.body.sid)
                          THEN pkt.body.sid ELSE baseline
    /\ UNCHANGED <<cipher, acked, offset, queues, reader, writer, life, accepted>>

-----------------------------------------------------------------------------
InjectSeq == lastSeq + offset + 1
InjectItem == [tag |-> "INJECT>", seq |-> InjectSeq, key |-> cipher, c1 |-> InjectSeq]

(* Broken: offset moves before put_nowait finds the queue full.            *)
Inject_MovesOffsetFirst ==
    /\ LoopFree /\ accepted < InjectMax /\ cipher # NoKey /\ baseline # NoSid /\ ~closed
    /\ InjectSeq < SeqMod
    /\ offset' = offset + 1
    /\ IF Full
       THEN UNCHANGED <<outq, accepted>>
       ELSE /\ outq' = Append(outq, InjectItem)
            /\ accepted' = accepted + 1
    /\ UNCHANGED <<cipher, acked, baseline, lastSeq, obsq, thread, reader, writer, life>>

(* Broken: the caller is answered although nothing could be queued.        *)
Inject_AnswersAnyway ==
    /\ LoopFree /\ accepted < InjectMax /\ cipher # NoKey /\ baseline # NoSid /\ ~closed
    /\ (Full \/ InjectSeq >= SeqMod)
    /\ accepted' = accepted + 1
    /\ UNCHANGED <<state, queues, thread, reader, writer, life>>

(* inject, called on the loop by the web socket and by RFN scripts.  A     *)
(* number that does not fit in 32 bits makes the header packing raise, and *)
(* a full queue raises before offset moves: then nothing has changed.      *)
Inject ==
    /\ LoopFree /\ accepted < InjectMax
    /\ IF cipher # NoKey /\ baseline # NoSid /\ ~closed /\ InjectSeq < SeqMod /\ ~Full
       THEN /\ outq' = Append(outq, InjectItem)
            /\ offset' = offset + 1
            /\ accepted' = accepted + 1
       ELSE UNCHANGED <<outq, offset, accepted>>
    /\ UNCHANGED <<cipher, acked, baseline, lastSeq, obsq, thread, reader, writer, life>>

-----------------------------------------------------------------------------
(* Broken: the item that lingered goes behind the ones that came later.    *)
FillAndWrite_SwapsOrder(b) ==
    /\ \E n \in 0 .. Len(outq) :
        /\ Len(b) + n \in 1 .. BatchMax
        /\ sent' = sent \o SubSeq(outq, 1, n) \o b
        /\ outq' = SubSeq(outq, n + 1, Len(outq))
    /\ hand' = <<>> /\ sender' = "drain"

(* Broken: what is written stays in the queue and is written again.        *)
FillAndWrite_KeepsQueue(b) ==
    /\ \E n \in 0 .. Len(outq) :
        /\ Len(b) + n \in 1 .. BatchMax
        /\ sent' = sent \o b \o SubSeq(outq, 1, n)
    /\ outq' = outq /\ hand' = <<>> /\ sender' = "drain"

(* _pump_upstream_send: add to the batch b what the queue holds, as far as *)
(* c2s_batch_packets and c2s_batch_bytes allow (sizes are abstracted, so   *)
(* the byte limit may stop it anywhere), and write the batch.              *)
FillAndWrite(b) ==
    /\ \E n \in 0 .. Len(outq) :
        /\ Len(b) + n \in 1 .. BatchMax
        /\ sent' = sent \o b \o SubSeq(outq, 1, n)
        /\ outq' = SubSeq(outq, n + 1, Len(outq))
    /\ hand' = <<>> /\ sender' = "drain"

WriteBatch ==
    /\ LoopFree /\ sender = "get" /\ outq # <<>>
    /\ FillAndWrite(<<>>)
    /\ UNCHANGED <<state, obsq, thread, reader, life, accepted>>

(* c2s_drain_interval_ms > 0: hold the first item and wait for a second.   *)
Linger ==
    /\ LoopFree /\ sender = "get" /\ outq # <<>> /\ BatchMax > 1
    /\ hand' = <<Head(outq)>> /\ outq' = Tail(outq) /\ sender' = "linger"
    /\ UNCHANGED <<state, obsq, thread, reader, sent, life, accepted>>

(* Broken: the wait for a second item has no timeout.                      *)
EndLinger_NoTimeout ==
    /\ LoopFree /\ sender = "linger" /\ outq # <<>>
    /\ FillAndWrite(hand)
    /\ UNCHANGED <<state, obsq, thread, reader, life, accepted>>

(* The second item came, or the interval passed.                           *)
EndLinger ==
    /\ LoopFree /\ sender = "linger"
    /\ FillAndWrite(hand)
    /\ UNCHANGED <<state, obsq, thread, reader, life, accepted>>

(* The drain returned, or raised because the transport is closing.         *)
Drained ==
    /\ LoopFree /\ sender = "drain"
    /\ sender' = "get" \/ (closed /\ sender' = "done")
    /\ UNCHANGED <<state, queues, thread, reader, hand, sent, life, accepted>>

(* close(): a transport that still holds bytes is not closed before its    *)
(* peer has read them or has reset the connection.                         *)
CloseTransports ==
    /\ closed' = TRUE
    /\ IF closed THEN UNCHANGED unflushed
       ELSE unflushed' \in SUBSET (IF sent = <<>> THEN Slow \ {"upstream"} ELSE Slow)

(* UPSTREAM_DRAIN_TIMEOUT passed: close the session.                       *)
DrainTimeout ==
    /\ LoopFree /\ sender = "drain"
    /\ sender' = "done" /\ CloseTransports
    /\ UNCHANGED <<state, queues, thread, reader, hand, sent, s2cDone, stage, accepted>>

-----------------------------------------------------------------------------
(* close() from outside: request_shutdown or RFN session.disconnect.       *)
Close ==
    /\ LoopFree /\ ~closed /\ CloseTransports
    /\ UNCHANGED <<state, queues, thread, reader, writer, s2cDone, stage, accepted>>

(* A peer takes the rest of a closed transport's bytes, or resets it.      *)
Flushed(end) ==
    /\ end \in unflushed /\ unflushed' = unflushed \ {end}
    /\ UNCHANGED <<state, queues, thread, reader, writer, s2cDone, closed, stage, accepted>>

(* run(): the first task to return makes run cancel the other two, one     *)
(* after the other; what is queued, held or lingering is left behind.      *)
SomeTaskDone == pump = "done" \/ sender = "done" \/ s2cDone

(* Broken: a suspended put swallows the cancellation.                      *)
CancelPump_NotInPut ==
    /\ LoopFree /\ SomeTaskDone /\ pump = "read" /\ pump' = "done"
    /\ UNCHANGED <<state, queues, thread, cnext, buf, observed, held, writer, life, accepted>>

CancelPump ==
    /\ LoopFree /\ SomeTaskDone /\ pump # "done" /\ pump' = "done"
    /\ UNCHANGED <<state, queues, thread, cnext, buf, observed, held, writer, life, accepted>>

CancelSender ==
    /\ LoopFree /\ SomeTaskDone /\ sender # "done" /\ sender' = "done"
    /\ UNCHANGED <<state, queues, thread, reader, hand, sent, life, accepted>>

CancelS2c ==
    /\ LoopFree /\ SomeTaskDone /\ ~s2cDone /\ s2cDone' = TRUE
    /\ UNCHANGED <<state, queues, thread, reader, writer, closed, unflushed, stage, accepted>>

(* The finally block: cancel the observe worker, close(), and then wait,   *)
(* with no timeout, for both transports to be closed.                      *)
Finally ==
    /\ LoopFree /\ stage = "tasks" /\ pump = "done" /\ sender = "done" /\ s2cDone
    /\ stage' = "closing" /\ CloseTransports
    /\ UNCHANGED <<state, queues, thread, reader, writer, s2cDone, accepted>>

EndRun ==
    /\ LoopFree /\ stage = "closing" /\ unflushed = {} /\ stage' = "ended"
    /\ UNCHANGED <<state, queues, thread, reader, writer, s2cDone, closed, unflushed, accepted>>

PumpC2s == ReadChunk \/ ForwardPacket \/ ResumePut \/ FinishChunk \/ RejectHeader \/ ClientEOF
PumpUpstreamSend == WriteBatch \/ Linger \/ EndLinger \/ Drained \/ DrainTimeout
Teardown == CancelPump \/ CancelSender \/ CancelS2c \/ Finally \/ EndRun

Next ==
    \/ PumpC2s \/ PumpUpstreamSend \/ Teardown
    \/ PrimeS2cState \/ PrimeAgain \/ S2cEOF \/ StartObserve \/ Observe \/ Inject \/ Close
    \/ \E end \in Slow : Flushed(end)

Spec == Init /\ [][Next]_vars

(* What the asyncio scheduler owes: a runnable task runs, a timer fires, a *)
(* closed transport that has delivered its bytes ends the reads.  While the*)
(* client's still holds some, _pump_s2c may hang in client_w.drain().      *)
(* Neither a peer (to read, send or close) nor a caller of inject has to   *)
(* do anything.                                                            *)
Fairness ==
    /\ WF_vars(ForwardPacket) /\ WF_vars(ResumePut)
    /\ WF_vars(FinishChunk) /\ WF_vars(RejectHeader)
    /\ WF_vars(WriteBatch \/ Linger) /\ WF_vars(EndLinger)
    /\ WF_vars(Drained \/ DrainTimeout)
    /\ WF_vars(closed /\ "client" \notin unflushed /\ ClientEOF)
    /\ WF_vars(closed /\ unflushed = {} /\ S2cEOF)
    /\ WF_vars(CancelPump) /\ WF_vars(CancelSender) /\ WF_vars(CancelS2c)
    /\ WF_vars(Finally) /\ WF_vars(EndRun)

FairSpec == Spec /\ Fairness

-----------------------------------------------------------------------------
(* Every variable has its type; the hand and the held item exist exactly   *)
(* while their task waits with one.                                        *)
TypeOK ==
    /\ cipher \in acked \union {NoKey} /\ acked \subseteq Keys /\ baseline \in Sids \union {NoSid}
    /\ lastSeq \in Nat /\ offset \in Nat
    /\ outq \in Seq(Items) /\ obsq \in Seq(Packets)
    /\ thread \in Seq(Packets) /\ Len(thread) <= 1
    /\ cnext \in Nat /\ buf \in Seq(Bodies \union {Garbage}) /\ observed \in Seq(Packets)
    /\ pump \in {"read", "run", "blocked", "done"}
    /\ held \in Seq(Items) /\ Len(held) <= 1
    /\ held # <<>> => pump \in {"blocked", "done"}
    /\ pump = "blocked" => held # <<>>
    /\ sender \in {"get", "linger", "drain", "done"}
    /\ hand \in Seq(Items) /\ Len(hand) <= 1
    /\ hand # <<>> => sender \in {"linger", "done"}
    /\ sent \in Seq(Items)
    /\ s2cDone \in BOOLEAN /\ closed \in BOOLEAN
    /\ unflushed \subseteq Slow /\ (unflushed # {} => closed)
    /\ stage \in {"tasks", "closing", "ended"}
    /\ accepted \in Nat

(* The numbers on the packets of this connection, client packets and       *)
(* injections together, are consecutive: none is skipped and none is used  *)
(* twice, although the client, the injections and the observe thread share *)
(* last_gcp_seq and c2s_seq_offset.                                        *)
Numbered ==
    /\ \A n \in 0 .. Len(Stream) - 1 :
          \E i \in 1 .. Len(Stream) : Stream[i].seq = (First + n) % SeqMod
    /\ \A i, j \in 1 .. Len(Stream) : Stream[i].seq = Stream[j].seq => i = j

(* A number of this connection before it was reduced modulo SeqMod, for a  *)
(* connection of at most SeqMod packets: one below First has wrapped.      *)
Unwrapped(seq) == IF seq < First THEN seq + SeqMod ELSE seq

(* The upstream gets the numbers in increasing order except for this: an   *)
(* injection made while _pump_c2s waits in put() on a full outbound queue  *)
(* goes ahead of the one client packet that waits.                         *)
Overtakes(i, j) == i < j /\ Unwrapped(Stream[i].seq) > Unwrapped(Stream[j].seq)

InOrderButForTheWaiting ==
    \A i, j \in 1 .. Len(Stream) : Overtakes(i, j) =>
        /\ Stream[i].tag = "INJECT>" /\ Stream[j].tag = "C2S>"
        /\ \A k \in 1 .. Len(Stream) : Overtakes(i, k) => k = j

(* Inside a body that its key decrypts counter1 repeats the number on the  *)
(* header, also after injections have shifted it: no body ever shows       *)
(* another number.  It shows none at all only if an ACK of this connection *)
(* announced another key than the one the client used for the packet.      *)
BodyRepeatsHeader ==
    \A i \in 1 .. Len(Stream) :
        \/ Stream[i].c1 \in {NoBody, Stream[i].seq}
        \/ Stream[i].c1 = Spoiled /\ \E k \in acked : k # Stream[i].key

(* An injection that answered its caller with success is queued or sent    *)
(* once; one that raised has left nothing behind.                          *)
AnsweredInjections ==
    Cardinality({i \in 1 .. Len(Stream) : Stream[i].tag = "INJECT>"}) = accepted

(* On its way up nothing that was numbered is dropped, doubled, replaced   *)
(* or moved by itself, through the queue, the held packet, the lingering   *)
(* one and the batches: a step puts at most one packet between the others, *)
(* and what the transport was given stays as it was given.                 *)
PutIn(s, t) ==
    /\ Len(t) = Len(s) + 1
    /\ \E p \in 1 .. Len(t) : \A i \in 1 .. Len(s) : t[IF i < p THEN i ELSE i + 1] = s[i]
NothingIsLost == [][
    /\ Stream' = Stream \/ PutIn(Stream, Stream')
    /\ Len(sent) <= Len(sent') /\ \A i \in 1 .. Len(sent) : sent'[i] = sent[i]]_vars

(* Injections are built on a session id that a real packet carried, never  *)
(* on a heartbeat's.                                                       *)
BaselineIsReal == baseline \in RealSids \union {NoSid}

(* Whatever was accepted, from the client or by inject, is given to the    *)
(* upstream's transport, or the session is closed.                         *)
AcceptedIsWritten ==
    \A n \in 1 .. ClientMax + InjectMax : (Len(Stream) >= n) ~> (Len(sent) >= n \/ closed)

(* A closed session whose transports get rid of their bytes comes to its   *)
(* end, even with a full queue, a suspended put and a drain that never     *)
(* returns.  With a peer that neither reads nor resets it may never end.   *)
CloseEnds == (closed /\ unflushed = {}) ~> (stage = "ended")

-----------------------------------------------------------------------------
(* What the wire is promised, told by SeqNumbers: numbers are issued one   *)
(* by one and each is written at most once.                                *)
Promise == INSTANCE SeqNumbers WITH
    issued  <- First + Len(Stream),
    written <- {Unwrapped(sent[i].seq) : i \in 1 .. Len(sent)}

NumbersPromise == Promise!Spec
=============================================================================
