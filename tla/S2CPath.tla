------------------------------ MODULE S2CPath ------------------------------
(***************************************************************************)
(* The server-to-client half of one MitmSession (proxy/server.py): the     *)
(* pump that reassembles packets and learns the session key, the switch to *)
(* passthrough, the observe worker that primes the key a second time and   *)
(* announces it, and the web application that remembers the announced key  *)
(* to rotate the RFN state (web/app.py, _handle_session_key_update).       *)
(*                                                                         *)
(* The server's bytes are abstracted to halves of packets: half 2n - 1     *)
(* holds the header (and the key) of packet n, half 2n the rest.           *)
(***************************************************************************)
EXTENDS Integers, Sequences

CONSTANTS
    Keys,         \* session keys an ACK can carry
    Data,         \* what every other packet carries
    NoKey,        \* cipher is None, emitted_session_key_hex is ""
    ObserveMax,   \* observe_queue_max (0: no observe queue)
    PacketMax,    \* bound: packets the server sends
    ReadMax,      \* bound: halves that one read returns
    SwitchMax     \* bound: changes of the proxy options

ASSUME KeyAssumption == Data \notin Keys /\ NoKey \notin Keys \union {Data}

ASSUME LimitAssumption ==
    /\ ObserveMax \in Nat /\ PacketMax \in Nat
    /\ ReadMax \in Nat \ {0} /\ SwitchMax \in Nat

VARIABLES
    server,       \* what each packet of the server carries
    got,          \* halves read from the upstream so far
    buf,          \* the reassembly buffer of _pump_s2c
    out,          \* halves written to the client, in order
    pump,         \* where _pump_s2c is: see Places
    passthrough,  \* options.s2c_passthrough_after_key
    observing,    \* options.observe_s2c
    switched,     \* option changes so far
    cipher,       \* the key of state.cipher
    emitted,      \* state.emitted_session_key_hex
    observed,     \* packets of this read, to be observed
    obsq,         \* _observe_queue
    thread,       \* packet the observe thread works on: <<>> or <<packet>>
    primed,       \* the observe thread has set the cipher for it
    webKey,       \* AppContext._last_session_key_hex
    torn,         \* history: passthrough was switched inside a packet
    newest,       \* history: key of the last ACK that the pump parsed
    blind         \* history: an ACK was dropped, or overtaken by a switch

stream == <<server, got, buf, out>>
options == <<passthrough, observing, switched>>
key == <<cipher, emitted, webKey>>
worker == <<observed, obsq, thread, primed>>
history == <<torn, newest, blind>>
vars == <<stream, pump, options, key, worker, history>>

Places == {"read", "parse", "drain", "failed", "done"}
Ended == pump \in {"failed", "done"}

(* Between two awaits of the pump nothing else runs on the loop.           *)
LoopFree == pump # "parse"

Packet(half) == (half + 1) \div 2
IsHeader(half) == half % 2 = 1
Ack(pkt) == server[pkt] \in Keys
SomeAck(pkts) == \E i \in 1 .. Len(pkts) : Ack(pkts[i])

Halves(first, last) == [i \in 1 .. last - first + 1 |-> first - 1 + i]

Init ==
    /\ server \in [1 .. PacketMax -> Keys \union {Data}]
    /\ got = 0 /\ buf = <<>> /\ out = <<>> /\ pump = "read"
    /\ passthrough \in BOOLEAN /\ observing \in BOOLEAN /\ switched = 0
    /\ cipher = NoKey /\ emitted = NoKey /\ webKey = NoKey
    /\ observed = <<>> /\ obsq = <<>> /\ thread = <<>> /\ primed = FALSE
    /\ torn = FALSE /\ newest = NoKey /\ blind = FALSE

-----------------------------------------------------------------------------

(* The session_key event, once per change, and what the web makes of it.   *)
Announce(k) ==
    IF emitted # k THEN emitted' = k /\ webKey' = k ELSE UNCHANGED <<emitted, webKey>>

(* _queue_observe for each packet; what finds the queue full is dropped.   *)
QueueObserve(pkts) ==
    LET room == IF ObserveMax > Len(obsq) THEN ObserveMax - Len(obsq) ELSE 0
        n    == IF room < Len(pkts) THEN room ELSE Len(pkts)
    IN  /\ obsq' = obsq \o SubSeq(pkts, 1, n)
        /\ blind' = (blind \/ SomeAck(SubSeq(pkts, n + 1, Len(pkts))))

(* One read.  With a key and the option on, the bytes go straight through. *)
Read ==
    /\ pump = "read"
    /\ \E n \in 1 .. ReadMax :
        /\ got + n <= 2 * PacketMax /\ got' = got + n
        /\ LET data == Halves(got + 1, got + n)
           IN  IF cipher # NoKey /\ passthrough
               THEN out' = out \o data /\ pump' = "drain" /\ UNCHANGED buf
               ELSE buf' = buf \o data /\ pump' = "parse" /\ UNCHANGED out
    /\ UNCHANGED <<server, options, key, worker, history>>

(* Broken: one byte more than the packet is waited for.                    *)
Complete_NeedsMore == Len(buf) > 2 /\ IsHeader(buf[1])

(* _try_pop_packet finds the magic and all of the packet.                  *)
Complete == Len(buf) >= 2 /\ IsHeader(buf[1])

(* Broken: what follows the packet that brought the key stays behind.      *)
Forward_KeepsRest(switch) ==
    /\ out' = out \o SubSeq(buf, 1, 2)
    /\ buf' = SubSeq(buf, 3, Len(buf))
    /\ pump' = IF switch THEN "drain" ELSE "parse"

(* The packet goes to the client; when passthrough begins, so does what    *)
(* has been read behind it.                                                *)
Forward(switch) ==
    IF switch
    THEN out' = out \o buf /\ buf' = <<>> /\ pump' = "drain"
    ELSE out' = out \o SubSeq(buf, 1, 2) /\ buf' = SubSeq(buf, 3, Len(buf)) /\ UNCHANGED pump

(* One turn of the inner loop: prime the key, write, keep for the observer.*)
ParsePacket ==
    /\ pump = "parse" /\ Complete
    /\ LET pkt == Packet(buf[1])
       IN  /\ IF Ack(pkt)
              THEN /\ cipher' = server[pkt] /\ newest' = server[pkt]
                   /\ IF observing THEN UNCHANGED <<emitted, webKey>>
                                   ELSE Announce(server[pkt])
              ELSE UNCHANGED <<key, newest>>
           /\ observed' = IF observing THEN Append(observed, pkt) ELSE observed
    /\ Forward(cipher' # NoKey /\ passthrough)
    /\ UNCHANGED <<server, got, options, obsq, thread, primed, torn, blind>>


(* The rest is no complete packet.                                         *)
ParseEnd ==
    /\ pump = "parse" /\ Len(buf) < 2
    /\ pump' = "drain"
    /\ UNCHANGED <<stream, options, key, worker, history>>

(* The rest does not begin with a header: the pump ends the session.  (The *)
(* check needs 21 bytes, so a short rest may be waited for, see ParseEnd.) *)
RejectHeader ==
    /\ pump = "parse" /\ buf # <<>> /\ ~IsHeader(buf[1])
    /\ pump' = "failed" /\ observed' = <<>>
    /\ UNCHANGED <<stream, options, key, obsq, thread, primed, history>>

(* Broken: what was read is not handed to the observe queue.               *)
Drained_Forgets ==
    /\ pump = "drain" /\ pump' = "read" /\ observed' = <<>>
    /\ UNCHANGED <<stream, options, key, obsq, thread, primed, history>>


(* client_w.drain() is over: the packets of this read get observed.        *)
Drained ==
    /\ pump = "drain" /\ pump' = "read"
    /\ QueueObserve(observed) /\ observed' = <<>>
    /\ UNCHANGED <<stream, options, key, thread, primed, torn, newest>>

(* End of stream, a broken connection, or run() cancels the pump.          *)
End ==
    /\ LoopFree /\ ~Ended /\ pump' = "done" /\ observed' = <<>>
    /\ UNCHANGED <<stream, options, key, obsq, thread, primed, history>>

-----------------------------------------------------------------------------
(* Broken: the worker takes the newest packet first.                       *)
StartObserve_Newest ==
    /\ LoopFree /\ ~Ended /\ obsq # <<>> /\ thread = <<>>
    /\ thread' = <<obsq[Len(obsq)]>> /\ obsq' = SubSeq(obsq, 1, Len(obsq) - 1)
    /\ UNCHANGED <<stream, pump, options, key, observed, primed, history>>

(* _observe_worker: one packet at a time, in a thread of its own.          *)
StartObserve ==
    /\ LoopFree /\ ~Ended /\ obsq # <<>> /\ thread = <<>>
    /\ thread' = <<Head(obsq)>> /\ obsq' = Tail(obsq)
    /\ UNCHANGED <<stream, pump, options, key, observed, primed, history>>

(* In the thread, beside the loop: an ACK sets the cipher once more ...    *)
ThreadPrimes ==
    /\ thread # <<>> /\ ~primed /\ Ack(thread[1])
    /\ cipher' = server[thread[1]] /\ primed' = TRUE
    /\ UNCHANGED <<stream, pump, options, emitted, webKey, observed, obsq, thread, history>>

(* ... and is announced; other packets do nothing to the key.              *)
ThreadEnds ==
    /\ thread # <<>> /\ thread' = <<>> /\ primed' = FALSE
    /\ IF Ack(thread[1])
       THEN primed /\ Announce(server[thread[1]])
       ELSE UNCHANGED <<emitted, webKey>>
    /\ UNCHANGED <<stream, pump, options, cipher, observed, obsq, history>>

(* The settings page installs new proxy options, on the loop.              *)
SwitchOptions ==
    /\ LoopFree /\ switched < SwitchMax /\ switched' = switched + 1
    /\ passthrough' \in BOOLEAN /\ observing' \in BOOLEAN
    /\ torn' = (torn \/ (passthrough' # passthrough /\ cipher # NoKey /\ got % 2 = 1))
    /\ blind' = (blind \/ (observing' # observing /\ SomeAck(thread \o obsq \o observed)))
    /\ UNCHANGED <<stream, pump, key, worker, newest>>

PumpS2c == Read \/ ParsePacket \/ ParseEnd \/ RejectHeader \/ Drained \/ End
ObserveWorker == StartObserve \/ ThreadPrimes \/ ThreadEnds

Next == PumpS2c \/ ObserveWorker \/ SwitchOptions

Spec == Init /\ [][Next]_vars

(* Tasks and threads that can run do run.  That the client takes what it   *)
(* is sent is not assumed: client_w.drain() has no timeout.                *)
Fairness ==
    /\ WF_vars(ParsePacket) /\ WF_vars(ParseEnd \/ RejectHeader)
    /\ WF_vars(StartObserve) /\ WF_vars(ThreadPrimes) /\ WF_vars(ThreadEnds)

FairSpec == Spec /\ Fairness

-----------------------------------------------------------------------------
(* Every variable has its type; only the pump keeps packets of a read back.*)
TypeOK ==
    /\ server \in [1 .. PacketMax -> Keys \union {Data}]
    /\ got \in 0 .. 2 * PacketMax
    /\ buf \in Seq(1 .. 2 * PacketMax) /\ out \in Seq(1 .. 2 * PacketMax)
    /\ pump \in Places
    /\ passthrough \in BOOLEAN /\ observing \in BOOLEAN /\ switched \in Nat
    /\ cipher \in Keys \union {NoKey} /\ emitted \in Keys \union {NoKey}
    /\ webKey \in Keys \union {NoKey} /\ newest \in Keys \union {NoKey}
    /\ observed \in Seq(1 .. PacketMax) /\ obsq \in Seq(1 .. PacketMax)
    /\ thread \in Seq(1 .. PacketMax) /\ Len(thread) <= 1
    /\ primed \in BOOLEAN /\ torn \in BOOLEAN /\ blind \in BOOLEAN
    /\ observed # <<>> => pump \in {"parse", "drain"}

(* The client has got exactly what the server sent, in order and without a *)
(* gap, up to a rest that is still buffered.  Only a switch of passthrough *)
(* in the middle of a packet breaks this.                                  *)
ClientStream == ~torn => out \o buf = Halves(1, got)

(* The pump never takes a well-formed stream for a broken one, but for the *)
(* same switch.                                                            *)
NotRejected == pump = "failed" => torn

(* The observe thread primes the key again, from older packets.  While the *)
(* cipher is not the newest key of the stream, the ACK that will set it    *)
(* right is on its way to the thread.                                      *)
OnTheWay == thread \o obsq \o observed

CipherHeals ==
    ~blind /\ ~Ended /\ cipher # newest =>
        \E i \in 1 .. Len(OnTheWay) : server[OnTheWay[i]] = newest

(* When all packets have been observed the web application knows the       *)
(* newest key, so a change of the key has rotated the RFN state.           *)
Quiet == pump = "read" /\ obsq = <<>> /\ thread = <<>>

KeyKnown == Quiet /\ ~blind /\ newest # NoKey => webKey = newest

(* Both together: no order of packets, observations and switches leaves    *)
(* the cipher or the web application with an older key.                    *)
KeyHeld == TypeOK /\ CipherHeals /\ KeyKnown

(* While the client keeps reading, a new key reaches the web application.  *)
KeyArrives ==
    []<>(pump # "drain") =>
        \A k \in Keys : newest = k ~> (webKey = k \/ newest # k \/ blind \/ Ended)

(* What is read is written, also when no further byte comes.               *)
PacketsFlow ==
    \A n \in 1 .. PacketMax : got >= 2 * n ~> (Len(out) >= 2 * n \/ Ended \/ torn)
=============================================================================
