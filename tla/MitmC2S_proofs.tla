--------------------------- MODULE MitmC2S_proofs ---------------------------
(***************************************************************************)
(* Proofs about MitmC2S for every capacity, batch size and number of       *)
(* packets and injections.                                                 *)
(***************************************************************************)
EXTENDS MitmC2S, SequenceTheorems, FiniteSetTheorems, TLAPS

(* The connection has at most as many packets as there are numbers, so that*)
(* none has to be used again.  It may begin anywhere and wrap around.      *)
NoReuse == ClientMax + InjectMax <= SeqMod

-----------------------------------------------------------------------------
(* Facts about a sequence of items s numbered from First.                  *)

Number(s, i) == Unwrapped(s[i].seq)

InRange(s) == \A i \in 1 .. Len(s) : Number(s, i) \in First .. First + Len(s) - 1

Onto(s) == \A n \in 0 .. Len(s) - 1 : \E i \in 1 .. Len(s) : Number(s, i) = First + n

OneToOne(s) == \A i, j \in 1 .. Len(s) : Number(s, i) = Number(s, j) => i = j

Reduced(s) == \A i \in 1 .. Len(s) : s[i].seq < SeqMod

Passes(s, i, j) == i < j /\ Number(s, i) > Number(s, j)

InjectionsPassOne(s) ==
    \A i, j \in 1 .. Len(s) : Passes(s, i, j) =>
        /\ s[i].tag = "INJECT>" /\ s[j].tag = "C2S>"
        /\ \A k \in 1 .. Len(s) : Passes(s, i, k) => k = j

(* What x says of its number, if the keys were announced.                  *)
BodyAgrees(x, keys) ==
    \/ x.c1 \in {NoBody, x.seq}
    \/ x.c1 = Spoiled /\ \E k \in keys : k # x.key

BodiesAgree(s, keys) == \A i \in 1 .. Len(s) : BodyAgrees(s[i], keys)

Good(s) == InRange(s) /\ Onto(s) /\ OneToOne(s) /\ InjectionsPassOne(s) /\ Reduced(s)

(* t is s with x inserted as the p-th item.                                *)
Inserted(s, t, p, x) ==
    /\ p \in 1 .. Len(s) + 1
    /\ t \in Seq(Items) /\ Len(t) = Len(s) + 1
    /\ \A i \in 1 .. Len(t) : t[i] = IF i < p THEN s[i] ELSE IF i = p THEN x ELSE s[i - 1]

(* The item that gets the next number may go to the end, and an injection  *)
(* may also go directly before a client packet that is last.               *)
LEMMA InsertKeepsGood ==
    ASSUME First \in Nat, SeqMod \in Nat,
           NEW s \in Seq(Items), NEW t, NEW p, NEW x \in Items,
           Good(s), Inserted(s, t, p, x),
           Unwrapped(x.seq) = First + Len(s), x.seq < SeqMod,
           \/ p = Len(s) + 1
           \/ p = Len(s) /\ x.tag = "INJECT>" /\ s[p].tag = "C2S>"
    PROVE  Good(t)
<1> DEFINE old(i) == IF i < p THEN i ELSE i - 1
<1>1. Len(s) \in Nat /\ p \in Nat /\ Len(t) = Len(s) + 1 /\ p \in 1 .. Len(s) + 1
  BY DEF Inserted
<1>2. t[p] = x
  BY <1>1 DEF Inserted
<1>3. ASSUME NEW i \in 1 .. Len(t), i # p
      PROVE  old(i) \in 1 .. Len(s) /\ t[i] = s[old(i)] /\ Number(t, i) = Number(s, old(i))
  BY <1>1, <1>3 DEF Inserted, Number
<1>4. \A i \in 1 .. Len(s) : Number(s, i) \in Nat
  BY <1>1 DEF Good, InRange
<1>5. /\ Number(t, p) = First + Len(s) /\ Number(t, p) \in Nat
      /\ \A i \in 1 .. Len(s) : Number(s, i) < Number(t, p)
  BY <1>1, <1>2, <1>4 DEF Good, InRange, Number
<1>6. InRange(t) /\ Reduced(t)
  <2>1. InRange(t)
    BY <1>1, <1>3, <1>4, <1>5 DEF Good, InRange
  <2>2. Reduced(t)
    BY <1>1, <1>2, <1>3 DEF Good, Reduced
  <2>3. QED BY <2>1, <2>2
<1>7. Onto(t)
  <2> SUFFICES ASSUME NEW n \in 0 .. Len(t) - 1
               PROVE  \E i \in 1 .. Len(t) : Number(t, i) = First + n
    BY DEF Onto
  <2>1. CASE n = Len(s)
    BY <2>1, <1>1, <1>5
  <2>2. CASE n # Len(s)
    <3>1. n \in 0 .. Len(s) - 1
      BY <2>2, <1>1
    <3>2. PICK i \in 1 .. Len(s) : Number(s, i) = First + n
      BY <3>1 DEF Good, Onto
    <3>3. CASE i < p
      <4>1. i \in 1 .. Len(t) /\ i # p /\ old(i) = i
        BY <3>3, <1>1
      <4>2. QED BY <4>1, <3>2, <1>3
    <3>4. CASE i >= p
      <4>1. i + 1 \in 1 .. Len(t) /\ i + 1 # p /\ old(i + 1) = i
        BY <3>4, <1>1
      <4>2. QED BY <4>1, <3>2, <1>3
    <3>5. QED BY <3>3, <3>4, <1>1
  <2>3. QED BY <2>1, <2>2
<1>8. OneToOne(t)
  <2> SUFFICES ASSUME NEW i \in 1 .. Len(t), NEW j \in 1 .. Len(t),
                      Number(t, i) = Number(t, j)
               PROVE  i = j
    BY DEF OneToOne
  <2>1. CASE i = p \/ j = p
    BY <2>1, <1>1, <1>3, <1>4, <1>5
  <2>2. CASE i # p /\ j # p
    <3>1. old(i) = old(j)
      BY <2>2, <1>3 DEF Good, OneToOne
    <3>2. QED BY <3>1, <2>2, <1>1
  <2>3. QED BY <2>1, <2>2
<1>9. InjectionsPassOne(t)
  <2>1. ASSUME NEW i \in 1 .. Len(t), NEW j \in 1 .. Len(t), Passes(t, i, j)
        PROVE  \/ i # p /\ j # p /\ Passes(s, old(i), old(j))
               \/ i = p /\ p = Len(s) /\ j = Len(t)
    <3>1. CASE j = p
      BY <3>1, <2>1, <1>1, <1>3, <1>4, <1>5 DEF Passes
    <3>2. CASE i = p
      BY <3>2, <2>1, <1>1 DEF Passes
    <3>3. CASE i # p /\ j # p
      BY <3>3, <2>1, <1>1, <1>3 DEF Passes
    <3>4. QED BY <3>1, <3>2, <3>3
  <2> SUFFICES ASSUME NEW i \in 1 .. Len(t), NEW j \in 1 .. Len(t), Passes(t, i, j)
               PROVE  /\ t[i].tag = "INJECT>" /\ t[j].tag = "C2S>"
                      /\ \A k \in 1 .. Len(t) : Passes(t, i, k) => k = j
    BY DEF InjectionsPassOne
  <2>2. CASE i = p /\ p = Len(s) /\ j = Len(t)
    <3>1. t[i] = x /\ t[j] = s[p] /\ j # p
      BY <2>2, <1>1, <1>2 DEF Inserted
    <3>2. x.tag = "INJECT>" /\ s[p].tag = "C2S>"
      BY <2>2, <1>1
    <3>3. \A k \in 1 .. Len(t) : Passes(t, i, k) => k = j
      BY <2>1, <2>2
    <3>4. QED BY <3>1, <3>2, <3>3
  <2>3. CASE i # p /\ j # p /\ Passes(s, old(i), old(j))
    <3>1. /\ s[old(i)].tag = "INJECT>" /\ s[old(j)].tag = "C2S>"
          /\ \A k \in 1 .. Len(s) : Passes(s, old(i), k) => k = old(j)
      BY <2>3, <1>3 DEF Good, InjectionsPassOne
    <3>2. t[i].tag = "INJECT>" /\ t[j].tag = "C2S>"
      BY <3>1, <2>3, <1>3
    <3>3. ASSUME NEW k \in 1 .. Len(t), Passes(t, i, k)
          PROVE  k = j
      <4>1. k # p /\ Passes(s, old(i), old(k))
        BY <2>1, <2>3, <3>3
      <4>2. old(k) = old(j)
        BY <4>1, <3>1, <1>3
      <4>3. QED BY <4>1, <4>2, <2>3, <1>1
    <3>4. QED BY <3>2, <3>3
  <2>4. QED BY <2>1, <2>2, <2>3
<1>10. QED BY <1>6, <1>7, <1>8, <1>9 DEF Good

(* Numbers around the end of the sequence space.                           *)
LEMMA SmallMod ==
    ASSUME NEW a \in Nat, NEW m \in Nat \ {0}, a < m PROVE a % m = a
OBVIOUS

LEMMA OneWrap ==
    ASSUME NEW a \in Nat, NEW m \in Nat \ {0}, m <= a, a < m + m PROVE a % m = a - m
OBVIOUS

(* Reducing a number of the connection and unwrapping it are inverses.     *)
LEMMA ReduceUnwrap ==
    ASSUME BoundAssumption, NEW n \in Nat, First <= n, n < First + SeqMod
    PROVE  Unwrapped(n % SeqMod) = n /\ n % SeqMod \in Nat /\ n % SeqMod < SeqMod
<1>1. First \in Nat /\ SeqMod \in Nat \ {0} /\ First < SeqMod
  BY DEF BoundAssumption
<1>2. CASE n < SeqMod
  BY <1>1, <1>2, SmallMod DEF Unwrapped
<1>3. CASE n >= SeqMod
  <2>1. SeqMod <= n /\ n < SeqMod + SeqMod
    BY <1>1, <1>3
  <2>2. n % SeqMod = n - SeqMod
    BY <1>1, <2>1, OneWrap
  <2>3. QED BY <1>1, <1>3, <2>2 DEF Unwrapped
<1>4. QED BY <1>1, <1>2, <1>3

LEMMA UnwrapReduce ==
    ASSUME BoundAssumption, NEW w \in Nat, w < SeqMod
    PROVE  Unwrapped(w) \in Nat /\ Unwrapped(w) % SeqMod = w
<1>1. First \in Nat /\ SeqMod \in Nat \ {0} /\ First < SeqMod
  BY DEF BoundAssumption
<1>2. CASE w < First
  <2>1. (w + SeqMod) % SeqMod = (w + SeqMod) - SeqMod
    BY <1>1, <1>2, OneWrap
  <2>2. QED BY <1>1, <1>2, <2>1 DEF Unwrapped
<1>3. CASE w >= First
  BY <1>1, <1>3, SmallMod DEF Unwrapped
<1>4. QED BY <1>1, <1>2, <1>3

-----------------------------------------------------------------------------
(* Type correctness.                                                       *)

LEMMA RewriteType ==
    ASSUME TypeOK, BoundAssumption, NEW pkt \in Packets
    PROVE  RewriteC2sSeq(pkt) \in Items /\ RewriteC2sSeq(pkt).tag = "C2S>"
<1>1. (pkt.seq + offset) % SeqMod \in Nat
  BY DEF TypeOK, BoundAssumption, Packets
<1>2. KeyOf(pkt) \in Keys \union {NoKey}
  BY DEF KeyOf, Data
<1>3. RewriteC2sSeq(pkt).c1 \in Nat \union {NoBody, Spoiled}
  <2>1. CASE pkt.body \notin Data
    BY <2>1 DEF RewriteC2sSeq
  <2>2. CASE pkt.body \in Data /\ (offset = 0 \/ cipher = NoKey)
    BY <2>2 DEF RewriteC2sSeq, Packets
  <2>3. CASE pkt.body \in Data /\ offset # 0 /\ cipher # NoKey
    BY <1>1, <2>3 DEF RewriteC2sSeq
  <2>4. QED BY <2>1, <2>2, <2>3
<1>4. RewriteC2sSeq(pkt).tag = "C2S>" /\ RewriteC2sSeq(pkt).key = KeyOf(pkt)
      /\ RewriteC2sSeq(pkt).seq \in Nat
  BY <1>1 DEF RewriteC2sSeq, Packets
<1>5. RewriteC2sSeq(pkt) = [tag |-> RewriteC2sSeq(pkt).tag, seq |-> RewriteC2sSeq(pkt).seq,
                            key |-> RewriteC2sSeq(pkt).key, c1 |-> RewriteC2sSeq(pkt).c1]
  BY DEF RewriteC2sSeq
<1>6. QED BY <1>2, <1>3, <1>4, <1>5 DEF Items

LEMMA TakePrefix ==
    ASSUME NEW S, NEW q \in Seq(S), NEW n \in 0 .. Len(q)
    PROVE  /\ SubSeq(q, 1, n) \in Seq(S) /\ SubSeq(q, n + 1, Len(q)) \in Seq(S)
           /\ Len(SubSeq(q, 1, n)) = n
<1>1. \A i \in 1 .. Len(q) : q[i] \in S
  BY ElementOfSeq
<1>2. Len(q) \in Nat
  BY LenProperties
<1>3. QED BY <1>1, <1>2, SubSeqProperties

LEMMA TypeInit == Init => TypeOK
<1>1. <<>> \in Seq(Items) /\ <<>> \in Seq(Packets) /\ <<>> \in Seq(Bodies \union {Garbage})
  BY EmptySeq
<1>2. Len(<<>>) = 0
  BY EmptySeq
<1> SUFFICES ASSUME Init PROVE TypeOK
  OBVIOUS
<1>3. /\ outq \in Seq(Items) /\ obsq \in Seq(Packets) /\ sent \in Seq(Items)
      /\ buf \in Seq(Bodies \union {Garbage}) /\ observed \in Seq(Packets)
      /\ held \in Seq(Items) /\ hand \in Seq(Items) /\ thread \in Seq(Packets)
  BY <1>1 DEF Init
<1>4. Len(thread) <= 1 /\ Len(held) <= 1 /\ Len(hand) <= 1
  BY <1>2 DEF Init
<1>5. QED BY <1>3, <1>4, BoundAssumption DEF Init, TypeOK, BoundAssumption

LEMMA TypeReader ==
    ASSUME TypeOK, PumpC2s PROVE TypeOK'
<1> USE BoundAssumption DEF BoundAssumption, state, queues, reader, writer, life
<1>1. CASE ReadChunk
  <2>1. PICK n \in 0 .. ChunkMax, junk \in BOOLEAN :
          \E bodies \in [1 .. n -> Bodies] :
              buf' = IF junk THEN Append(bodies, Garbage) ELSE bodies
    BY <1>1 DEF ReadChunk
  <2>2. PICK bodies \in [1 .. n -> Bodies] :
          buf' = IF junk THEN Append(bodies, Garbage) ELSE bodies
    BY <2>1
  <2>3. bodies \in Seq(Bodies \union {Garbage})
    BY <2>2, SeqDef
  <2>4. buf' \in Seq(Bodies \union {Garbage})
    BY <2>2, <2>3, AppendProperties
  <2>5. QED BY <1>1, <2>4 DEF TypeOK, ReadChunk
<1>2. CASE ForwardPacket
  <2> DEFINE pkt == [seq |-> cnext % SeqMod, body |-> Head(buf)]
             item == RewriteC2sSeq(pkt)
  <2>1. Head(buf) \in Bodies /\ Tail(buf) \in Seq(Bodies \union {Garbage})
    BY <1>2, HeadTailProperties DEF TypeOK, ForwardPacket
  <2>2. pkt \in Packets
    BY <2>1 DEF TypeOK, Packets
  <2>3. item \in Items
    BY <2>2, RewriteType
  <2>4. lastSeq' \in Nat /\ observed' \in Seq(Packets)
    BY <1>2, <2>2, AppendProperties DEF TypeOK, ForwardPacket, NoteC2sSequence, Packets
  <2>5. CASE Full
    <3>1. held' = <<item>> /\ pump' = "blocked" /\ UNCHANGED outq
      BY <1>2, <2>5 DEF ForwardPacket
    <3>2. <<item>> \in Seq(Items) /\ Len(<<item>>) = 1 /\ <<item>> # <<>>
      BY <2>3
    <3> HIDE DEF item
    <3>3. /\ UNCHANGED <<cipher, acked, baseline, offset, obsq, thread, writer, life, accepted>>
          /\ cnext' = cnext + 1 /\ buf' = Tail(buf)
      BY <1>2 DEF ForwardPacket
    <3>4. pump' = "blocked" /\ held' # <<>> /\ held' \in Seq(Items) /\ Len(held') <= 1
      BY <3>1, <3>2
    <3>5. QED BY <2>1, <2>4, <3>1, <3>3, <3>4 DEF TypeOK
  <2>6. CASE ~Full
    <3>1. outq' = Append(outq, item) /\ UNCHANGED <<pump, held>>
      BY <1>2, <2>6 DEF ForwardPacket
    <3>2. outq' \in Seq(Items)
      BY <2>3, <3>1, AppendProperties DEF TypeOK
    <3> HIDE DEF item
    <3>3. /\ UNCHANGED <<cipher, acked, baseline, offset, obsq, thread, writer, life, accepted>>
          /\ cnext' = cnext + 1 /\ buf' = Tail(buf)
      BY <1>2 DEF ForwardPacket
    <3>4. QED BY <2>1, <2>4, <3>1, <3>2, <3>3 DEF TypeOK
  <2>7. QED BY <2>5, <2>6
<1>3. CASE ResumePut
  BY <1>3, ConcatProperties DEF TypeOK, ResumePut
<1>4. CASE FinishChunk
  <2> DEFINE room == IF ObserveMax > Len(obsq) THEN ObserveMax - Len(obsq) ELSE 0
             n == IF room < Len(observed) THEN room ELSE Len(observed)
  <2>1. n \in 0 .. Len(observed)
    BY LenProperties DEF TypeOK
  <2>2. obsq' = obsq \o SubSeq(observed, 1, n)
    BY <1>4 DEF FinishChunk, QueueObserve
  <2> HIDE DEF n
  <2>3. obsq' \in Seq(Packets)
    BY <2>1, <2>2, TakePrefix, ConcatProperties DEF TypeOK
  <2>4. QED BY <1>4, <2>3 DEF TypeOK, FinishChunk
<1>5. CASE RejectHeader
  BY <1>5 DEF TypeOK, RejectHeader
<1>6. CASE ClientEOF
  BY <1>6 DEF TypeOK, ClientEOF
<1>7. QED BY <1>1, <1>2, <1>3, <1>4, <1>5, <1>6 DEF PumpC2s

LEMMA FillType ==
    ASSUME NEW b \in Seq(Items), TypeOK, FillAndWrite(b)
    PROVE  sent' \in Seq(Items) /\ outq' \in Seq(Items)
<1>1. PICK n \in 0 .. Len(outq) : /\ sent' = sent \o b \o SubSeq(outq, 1, n)
                                  /\ outq' = SubSeq(outq, n + 1, Len(outq))
  BY DEF FillAndWrite
<1>2. SubSeq(outq, 1, n) \in Seq(Items) /\ SubSeq(outq, n + 1, Len(outq)) \in Seq(Items)
  BY TakePrefix DEF TypeOK
<1>3. sent \o b \in Seq(Items)
  BY ConcatProperties DEF TypeOK
<1>4. sent \o b \o SubSeq(outq, 1, n) \in Seq(Items)
  BY <1>2, <1>3, ConcatProperties
<1>5. QED BY <1>1, <1>2, <1>4

LEMMA TypeWriter ==
    ASSUME TypeOK, PumpUpstreamSend PROVE TypeOK'
<1> USE DEF state, queues, reader, writer, life
<1>1. CASE WriteBatch
  <2>1. sent' \in Seq(Items) /\ outq' \in Seq(Items) /\ hand' = <<>> /\ sender' = "drain"
    BY <1>1, FillType, EmptySeq DEF WriteBatch, FillAndWrite
  <2>2. QED BY <1>1, <2>1 DEF TypeOK, WriteBatch
<1>2. CASE Linger
  <2>1. Head(outq) \in Items /\ Tail(outq) \in Seq(Items)
    BY <1>2, HeadTailProperties DEF TypeOK, Linger
  <2>2. hand' \in Seq(Items) /\ Len(hand') = 1
    BY <1>2, <2>1 DEF Linger
  <2>3. QED BY <1>2, <2>1, <2>2 DEF TypeOK, Linger
<1>3. CASE EndLinger
  <2>1. sent' \in Seq(Items) /\ outq' \in Seq(Items) /\ hand' = <<>> /\ sender' = "drain"
    BY <1>3, FillType DEF EndLinger, FillAndWrite, TypeOK
  <2>2. QED BY <1>3, <2>1 DEF TypeOK, EndLinger
<1>4. CASE Drained
  BY <1>4 DEF TypeOK, Drained
<1>5. CASE DrainTimeout
  BY <1>5 DEF TypeOK, DrainTimeout, CloseTransports
<1>6. QED BY <1>1, <1>2, <1>3, <1>4, <1>5 DEF PumpUpstreamSend

LEMMA TypeNext == TypeOK /\ [Next]_vars => TypeOK'
<1> SUFFICES ASSUME TypeOK, [Next]_vars PROVE TypeOK'
  OBVIOUS
<1> USE DEF state, queues, reader, writer, life
<1>1. CASE PumpC2s
  BY <1>1, TypeReader
<1>2. CASE PumpUpstreamSend
  BY <1>2, TypeWriter
<1>3. CASE Teardown
  BY <1>3 DEF Teardown, CancelPump, CancelSender, CancelS2c, Finally, EndRun, CloseTransports, TypeOK
<1>4. CASE PrimeS2cState \/ PrimeAgain \/ S2cEOF \/ Close \/ \E end \in Slow : Flushed(end)
  <2>1. CASE PrimeS2cState \/ PrimeAgain
    <3>1. cipher' \in acked' \union {NoKey} /\ acked' \subseteq Keys
      BY <2>1 DEF PrimeS2cState, PrimeAgain, TypeOK
    <3>2. UNCHANGED <<baseline, lastSeq, offset, queues, thread, reader, writer, life, accepted>>
      BY <2>1 DEF PrimeS2cState, PrimeAgain
    <3>3. QED BY <3>1, <3>2 DEF TypeOK
  <2>2. CASE S2cEOF \/ Close
    BY <2>2 DEF S2cEOF, Close, CloseTransports, TypeOK
  <2>3. CASE \E end \in Slow : Flushed(end)
    BY <2>3 DEF Flushed, TypeOK
  <2>4. QED BY <1>4, <2>1, <2>2, <2>3
<1>5. CASE StartObserve
  <2>1. Head(obsq) \in Packets /\ Tail(obsq) \in Seq(Packets)
    BY <1>5, HeadTailProperties DEF TypeOK, StartObserve
  <2>2. <<Head(obsq)>> \in Seq(Packets) /\ Len(<<Head(obsq)>>) = 1
    BY <2>1
  <2>3. QED BY <1>5, <2>1, <2>2 DEF TypeOK, StartObserve
<1>6. CASE Observe
  <2>1. Head(thread) \in Packets
    BY <1>6, HeadTailProperties DEF TypeOK, Observe
  <2>2. lastSeq' \in Nat /\ baseline' \in Sids \union {NoSid}
    BY <1>6, <2>1 DEF TypeOK, Observe, NoteC2sSequence, Packets, Data
  <2>3. <<>> \in Seq(Packets) /\ Len(<<>>) = 0
    BY EmptySeq
  <2>4. QED BY <1>6, <2>2, <2>3 DEF TypeOK, Observe
<1>7. CASE Inject
  <2>1. InjectSeq \in Nat
    BY DEF TypeOK, InjectSeq
  <2> DEFINE x == InjectItem
  <2>2. x \in Items
    <3>1. cipher \in Keys \union {NoKey}
      BY DEF TypeOK
    <3>2. QED BY <2>1, <3>1 DEF Items, InjectItem
  <2>3. outq' \in Seq(Items) /\ offset' \in Nat /\ accepted' \in Nat
    <3>1. Append(outq, x) \in Seq(Items)
      BY <2>2, AppendProperties DEF TypeOK
    <3>2. \/ outq' = Append(outq, x) /\ offset' = offset + 1 /\ accepted' = accepted + 1
          \/ UNCHANGED <<outq, offset, accepted>>
      BY <1>7 DEF Inject
    <3> HIDE DEF x
    <3>3. outq' \in Seq(Items)
      BY <3>1, <3>2 DEF TypeOK
    <3>4. offset' \in Nat /\ accepted' \in Nat
      BY <3>2 DEF TypeOK
    <3>5. QED BY <3>3, <3>4
  <2>4. QED BY <1>7, <2>3 DEF TypeOK, Inject
<1>8. CASE UNCHANGED vars
  BY <1>8 DEF TypeOK, vars
<1>9. QED BY <1>1, <1>2, <1>3, <1>4, <1>5, <1>6, <1>7, <1>8 DEF Next

(* Type correctness of every reachable state of a session.                 *)
THEOREM TypeCorrect == Spec => []TypeOK
BY TypeInit, TypeNext, PTL DEF Spec

-----------------------------------------------------------------------------
(* How the actions change the stream of numbered items.                    *)

LEMMA StreamType ==
    ASSUME TypeOK PROVE Stream \in Seq(Items) /\ (sent \o hand \o outq) \in Seq(Items)
BY ConcatProperties DEF TypeOK, Stream

LEMMA StreamTypeNext ==
    ASSUME TypeOK' PROVE (Stream \in Seq(Items))'
BY ConcatProperties DEF TypeOK, Stream

(* Inserting x in front of a suffix h of a stream a \o h.                  *)
LEMMA InsertBefore ==
    ASSUME NEW a \in Seq(Items), NEW h \in Seq(Items), NEW x \in Items
    PROVE  Inserted(a \o h, Append(a, x) \o h, Len(a) + 1, x)
<1>1. /\ Append(a, x) \in Seq(Items) /\ Len(Append(a, x)) = Len(a) + 1
      /\ \A i \in 1 .. Len(a) : Append(a, x)[i] = a[i]
      /\ Append(a, x)[Len(a) + 1] = x
  BY AppendProperties
<1>2. Len(a) \in Nat /\ Len(h) \in Nat
  BY LenProperties
<1>3. /\ Append(a, x) \o h \in Seq(Items)
      /\ Len(Append(a, x) \o h) = Len(a) + 1 + Len(h)
      /\ \A i \in 1 .. Len(a) + 1 + Len(h) : (Append(a, x) \o h)[i] =
            IF i <= Len(a) + 1 THEN Append(a, x)[i] ELSE h[i - (Len(a) + 1)]
  BY <1>1, ConcatProperties
<1>4. /\ Len(a \o h) = Len(a) + Len(h)
      /\ \A i \in 1 .. Len(a) + Len(h) : (a \o h)[i] =
            IF i <= Len(a) THEN a[i] ELSE h[i - Len(a)]
  BY ConcatProperties
<1>5. QED BY <1>1, <1>2, <1>3, <1>4 DEF Inserted

(* Enqueuing x puts it before a waiting client packet.                     *)
LEMMA EnqueueInserts ==
    ASSUME TypeOK, NEW x \in Items, outq' = Append(outq, x), UNCHANGED <<sent, hand, held>>
    PROVE  Inserted(Stream, Stream', Len(Stream) - Len(held) + 1, x)
<1> DEFINE a == sent \o hand \o outq
<1>1. a \in Seq(Items) /\ sent \o hand \in Seq(Items) /\ held \in Seq(Items)
  BY ConcatProperties DEF TypeOK
<1>2. Stream' = (sent \o hand) \o Append(outq, x) \o held
  BY DEF Stream
<1>3. (sent \o hand) \o Append(outq, x) = Append(a, x)
  <2>1. outq \in Seq(Items) /\ <<x>> \in Seq(Items)
    BY DEF TypeOK
  <2>2. Append(outq, x) = outq \o <<x>> /\ Append(a, x) = a \o <<x>>
    BY <1>1, <2>1, AppendIsConcat
  <2>3. (sent \o hand) \o (outq \o <<x>>) = ((sent \o hand) \o outq) \o <<x>>
    BY <1>1, <2>1, ConcatAssociative
  <2>4. QED BY <2>2, <2>3
<1>4. Len(Stream) - Len(held) + 1 = Len(a) + 1
  BY <1>1, ConcatProperties, LenProperties DEF Stream
<1>5. QED BY <1>1, <1>2, <1>3, <1>4, InsertBefore DEF Stream

(* A packet that has to wait is the last of the stream.                    *)
LEMMA WaitInserts ==
    ASSUME TypeOK, NEW x \in Items, held = <<>>, held' = <<x>>,
           UNCHANGED <<sent, hand, outq>>
    PROVE  Inserted(Stream, Stream', Len(Stream) + 1, x)
<1> DEFINE a == sent \o hand \o outq
<1>1. a \in Seq(Items) /\ <<>> \in Seq(Items)
  BY ConcatProperties, EmptySeq DEF TypeOK
<1>2. Stream = a /\ a \o <<>> = a
  BY <1>1, ConcatEmptySeq DEF Stream
<1>3. Stream' = a \o <<x>> /\ a \o <<x>> = Append(a, x)
  BY <1>1, AppendIsConcat DEF Stream
<1>4. Append(a, x) \in Seq(Items)
  BY <1>1, AppendProperties
<1>5. Append(a, x) \o <<>> = Append(a, x)
  BY <1>4, ConcatEmptySeq
<1>6. Inserted(a \o <<>>, Append(a, x) \o <<>>, Len(a) + 1, x)
  BY <1>1, InsertBefore
<1>7. QED BY <1>2, <1>3, <1>5, <1>6

(* The put that waited goes on: the stream stays as it is.                 *)
LEMMA ResumeKeepsStream ==
    ASSUME TypeOK, outq' = outq \o held, held' = <<>>, UNCHANGED <<sent, hand>>
    PROVE  Stream' = Stream
<1>1. /\ sent \o hand \in Seq(Items) /\ outq \in Seq(Items) /\ held \in Seq(Items)
      /\ sent \o hand \o outq \o held \in Seq(Items)
  BY ConcatProperties DEF TypeOK
<1>2. Stream' = (sent \o hand) \o (outq \o held) \o <<>>
  BY DEF Stream
<1>3. (sent \o hand) \o (outq \o held) = sent \o hand \o outq \o held
  BY <1>1, ConcatAssociative
<1>4. QED BY <1>1, <1>2, <1>3, ConcatEmptySeq DEF Stream

LEMMA SplitQueue ==
    ASSUME NEW q \in Seq(Items), NEW n \in 0 .. Len(q)
    PROVE  SubSeq(q, 1, n) \o SubSeq(q, n + 1, Len(q)) = q
<1>1. Len(q) \in Nat /\ 1 \in 1 .. Len(q) + 1 /\ n \in 1 - 1 .. Len(q) /\ Len(q) \in n .. Len(q)
  BY LenProperties
<1>2. SubSeq(q, 1, n) \o SubSeq(q, n + 1, Len(q)) = SubSeq(q, 1, Len(q))
  BY <1>1, ConcatAdjacentSubSeq
<1>3. QED BY <1>2, SubSeqFull

(* Writing a batch that starts with the item in hand moves items on.       *)
LEMMA WriteKeepsStream ==
    ASSUME TypeOK, FillAndWrite(hand), UNCHANGED held
    PROVE  Stream' = Stream
<1>1. PICK n \in 0 .. Len(outq) : /\ sent' = sent \o hand \o SubSeq(outq, 1, n)
                                  /\ outq' = SubSeq(outq, n + 1, Len(outq))
  BY DEF FillAndWrite
<1> DEFINE a == sent \o hand
           b == SubSeq(outq, 1, n)
           c == SubSeq(outq, n + 1, Len(outq))
<1>2. a \in Seq(Items) /\ b \in Seq(Items) /\ c \in Seq(Items) /\ outq \in Seq(Items)
  BY ConcatProperties, TakePrefix DEF TypeOK
<1>3. Stream' = (a \o b) \o <<>> \o c \o held
  BY <1>1 DEF Stream, FillAndWrite
<1>4. a \o b \in Seq(Items)
  BY <1>2, ConcatProperties
<1>5. (a \o b) \o <<>> = a \o b
  BY <1>4, ConcatEmptySeq
<1>6. b \o c = outq
  BY <1>2, SplitQueue
<1> HIDE DEF a, b, c
<1>7. (a \o b) \o c = a \o (b \o c)
  BY <1>2, ConcatAssociative
<1>8. Stream' = a \o outq \o held
  BY <1>3, <1>5, <1>6, <1>7
<1>9. QED BY <1>8 DEF Stream, a

LEMMA LingerKeepsStream ==
    ASSUME TypeOK, Linger PROVE Stream' = Stream
<1>1. /\ hand = <<>> /\ outq # <<>> /\ hand' = <<Head(outq)>> /\ outq' = Tail(outq)
      /\ UNCHANGED <<sent, held>>
  BY DEF TypeOK, Linger, reader
<1>2. Head(outq) \in Items /\ Tail(outq) \in Seq(Items) /\ <<Head(outq)>> \in Seq(Items)
  BY <1>1, HeadTailProperties DEF TypeOK
<1>3. outq = <<Head(outq)>> \o Tail(outq)
  <2>1. Len(outq) \in Nat \ {0}
    BY <1>1, EmptySeq DEF TypeOK
  <2>2. outq \in Seq(Items) /\ 1 \in 1 .. Len(outq) /\ Len(outq) \in 1 .. Len(outq)
    BY <2>1 DEF TypeOK
  <2>3. SubSeq(outq, 1, Len(outq)) = <<outq[1]>> \o SubSeq(outq, 1 + 1, Len(outq))
    BY <2>2, SubSeqRecursiveFirst
  <2>4. Tail(outq) = SubSeq(outq, 2, Len(outq)) /\ Head(outq) = outq[1]
    BY <1>1, <2>2, TailIsSubSeq
  <2>5. QED BY <2>2, <2>3, <2>4, SubSeqFull
<1>4. sent \o <<>> = sent /\ sent \in Seq(Items)
  BY ConcatEmptySeq DEF TypeOK
<1>5. sent \o <<Head(outq)>> \o Tail(outq) = sent \o outq
  BY <1>2, <1>3, <1>4, ConcatAssociative
<1>6. QED BY <1>1, <1>4, <1>5 DEF Stream

(* The steps that only move items along the stream, or touch none.         *)
LEMMA StreamStays ==
    ASSUME TypeOK, [Next]_vars, ~ForwardPacket, ~Inject
    PROVE  Stream' = Stream
<1> USE DEF state, queues, reader, writer, life
<1>1. CASE ResumePut
  BY <1>1, ResumeKeepsStream DEF ResumePut
<1>2. CASE WriteBatch
  <2>1. hand = <<>>
    BY <1>2 DEF WriteBatch, TypeOK
  <2>2. QED BY <1>2, <2>1, WriteKeepsStream DEF WriteBatch
<1>3. CASE EndLinger
  BY <1>3, WriteKeepsStream DEF EndLinger
<1>4. CASE Linger
  BY <1>4, LingerKeepsStream
<1>5. CASE ReadChunk \/ FinishChunk \/ RejectHeader \/ ClientEOF \/ Drained \/ DrainTimeout
  BY <1>5 DEF ReadChunk, FinishChunk, RejectHeader, ClientEOF, Drained, DrainTimeout, Stream,
              QueueObserve
<1>6. CASE \/ Teardown \/ PrimeS2cState \/ PrimeAgain \/ S2cEOF \/ StartObserve \/ Observe
              \/ Close \/ \E end \in Slow : Flushed(end)
  BY <1>6 DEF Teardown, CancelPump, CancelSender, CancelS2c, Finally, EndRun,
              PrimeS2cState, PrimeAgain, S2cEOF,
              StartObserve, Observe, Close, Flushed, CloseTransports, Stream
<1>7. CASE UNCHANGED vars
  BY <1>7 DEF vars, Stream
<1>8. QED BY <1>1, <1>2, <1>3, <1>4, <1>5, <1>6, <1>7 DEF Next, PumpC2s, PumpUpstreamSend

(* What the pump makes of the packet it reads is the last of the stream.   *)
ThisPacket == [seq |-> cnext % SeqMod, body |-> Head(buf)]

LEMMA ForwardInserts ==
    ASSUME TypeOK, BoundAssumption, ForwardPacket
    PROVE  /\ ThisPacket \in Packets /\ ThisPacket.seq = cnext % SeqMod
           /\ RewriteC2sSeq(ThisPacket) \in Items /\ RewriteC2sSeq(ThisPacket).tag = "C2S>"
           /\ Inserted(Stream, Stream', Len(Stream) + 1, RewriteC2sSeq(ThisPacket))
           /\ held' = <<>> \/ held' = <<RewriteC2sSeq(ThisPacket)>>
<1> DEFINE item == RewriteC2sSeq(ThisPacket)
<1>1. /\ buf \in Seq(Bodies \union {Garbage}) /\ buf # <<>> /\ Head(buf) # Garbage
      /\ held = <<>> /\ Len(held) = 0
      /\ cnext \in Nat /\ SeqMod \in Nat \ {0}
  BY EmptySeq DEF TypeOK, ForwardPacket, BoundAssumption
<1>2. Head(buf) \in Bodies /\ cnext % SeqMod \in Nat
  BY <1>1, HeadTailProperties
<1>3. ThisPacket \in Packets /\ ThisPacket.seq = cnext % SeqMod
  BY <1>2 DEF Packets, ThisPacket
<1>4. item \in Items /\ item.tag = "C2S>"
  BY <1>3, RewriteType
<1>5. CASE Full
  <2>1. held' = <<item>> /\ UNCHANGED <<sent, hand, outq>>
    BY <1>5 DEF ForwardPacket, ThisPacket, writer
  <2> HIDE DEF item
  <2>2. Inserted(Stream, Stream', Len(Stream) + 1, item)
    BY <1>1, <1>4, <2>1, WaitInserts
  <2>3. QED BY <1>3, <1>4, <2>1, <2>2 DEF item
<1>6. CASE ~Full
  <2>1. outq' = Append(outq, item) /\ UNCHANGED <<sent, hand, held>>
    BY <1>6 DEF ForwardPacket, ThisPacket, writer
  <2> HIDE DEF item
  <2>2. Inserted(Stream, Stream', Len(Stream) - Len(held) + 1, item)
    BY <1>4, <2>1, EnqueueInserts
  <2>3. Len(Stream) - Len(held) + 1 = Len(Stream) + 1
    BY <1>1, StreamType, LenProperties
  <2>4. QED BY <1>1, <1>3, <1>4, <2>1, <2>2, <2>3 DEF item
<1>7. QED BY <1>5, <1>6

(* An injection goes before the packet that waits, or leaves nothing.      *)
LEMMA InjectInserts ==
    ASSUME TypeOK, Inject
    PROVE  \/ UNCHANGED <<outq, offset, accepted>> /\ Stream' = Stream
           \/ /\ cipher # NoKey /\ baseline # NoSid /\ InjectSeq < SeqMod
              /\ offset' = offset + 1 /\ accepted' = accepted + 1
              /\ InjectItem \in Items
              /\ Inserted(Stream, Stream', Len(Stream) - Len(held) + 1, InjectItem)
<1>1. UNCHANGED <<sent, hand, held>>
  BY DEF Inject, reader, writer
<1>2. CASE UNCHANGED <<outq, offset, accepted>>
  BY <1>1, <1>2 DEF Stream
<1>3. CASE /\ cipher # NoKey /\ baseline # NoSid /\ InjectSeq < SeqMod
           /\ outq' = Append(outq, InjectItem)
           /\ offset' = offset + 1 /\ accepted' = accepted + 1
  <2>1. InjectItem \in Items
    BY <1>3 DEF TypeOK, InjectSeq, Items, InjectItem
  <2>2. Inserted(Stream, Stream', Len(Stream) - Len(held) + 1, InjectItem)
    BY <1>1, <1>3, <2>1, EnqueueInserts
  <2>3. QED BY <1>3, <2>1, <2>2
<1>4. QED BY <1>2, <1>3 DEF Inject, InjectItem

-----------------------------------------------------------------------------
(* What holds of bodies and of the baseline, however long the connection   *)
(* lives and however often its numbers wrap around.                        *)

Agreeing ==
    /\ TypeOK /\ BaselineIsReal /\ BodiesAgree(Stream, acked)
    /\ offset > 0 => cipher # NoKey

LEMMA InsertAgrees ==
    ASSUME NEW s \in Seq(Items), NEW t, NEW p, NEW x \in Items,
           NEW keys, BodiesAgree(s, keys), Inserted(s, t, p, x), BodyAgrees(x, keys)
    PROVE  BodiesAgree(t, keys)
<1> SUFFICES ASSUME NEW i \in 1 .. Len(t) PROVE BodyAgrees(t[i], keys)
  BY DEF BodiesAgree
<1>1. Len(s) \in Nat /\ p \in 1 .. Len(s) + 1 /\ Len(t) = Len(s) + 1
  BY LenProperties DEF Inserted
<1>2. CASE i < p
  <2>1. i \in 1 .. Len(s) /\ t[i] = s[i]
    BY <1>1, <1>2 DEF Inserted
  <2>2. QED BY <2>1 DEF BodiesAgree
<1>3. CASE i = p
  BY <1>1, <1>3 DEF Inserted
<1>4. CASE i > p
  <2>1. i - 1 \in 1 .. Len(s) /\ t[i] = s[i - 1]
    BY <1>1, <1>4 DEF Inserted
  <2>2. QED BY <2>1 DEF BodiesAgree
<1>5. QED BY <1>1, <1>2, <1>3, <1>4

LEMMA AgreeingInit == Init => Agreeing
<1> SUFFICES ASSUME Init PROVE Agreeing
  OBVIOUS
<1>1. Stream = <<>> /\ Len(<<>>) = 0
  BY EmptySeq, ConcatEmptySeq DEF Init, Stream
<1>2. QED BY <1>1, TypeInit DEF Init, Agreeing, BaselineIsReal, BodiesAgree

LEMMA AgreeingNext == Agreeing /\ [Next]_vars => Agreeing'
<1> SUFFICES ASSUME Agreeing, [Next]_vars PROVE Agreeing'
  OBVIOUS
<1>1. TypeOK /\ TypeOK' /\ Stream \in Seq(Items)
  BY TypeNext, StreamType DEF Agreeing
<1>2. CASE ForwardPacket
  <2> DEFINE item == RewriteC2sSeq(ThisPacket)
  <2>1. /\ ThisPacket \in Packets /\ item \in Items
        /\ Inserted(Stream, Stream', Len(Stream) + 1, item)
    BY <1>1, <1>2, ForwardInserts, BoundAssumption
  <2>2. BodyAgrees(item, acked)
    <3>1. offset \in Nat /\ cipher \in acked \union {NoKey}
      BY <1>1 DEF TypeOK
    <3>2. CASE ThisPacket.body \notin Data
      BY <3>2 DEF RewriteC2sSeq, BodyAgrees
    <3>3. CASE ThisPacket.body \in Data /\ offset = 0
      BY <3>3 DEF RewriteC2sSeq, BodyAgrees
    <3>4. CASE ThisPacket.body \in Data /\ offset # 0
      <4>1. cipher # NoKey /\ cipher \in acked
        BY <3>1, <3>4 DEF Agreeing
      <4>2. item.key = ThisPacket.body.key /\ item.seq = (ThisPacket.seq + offset) % SeqMod
        BY <3>4 DEF RewriteC2sSeq, KeyOf
      <4>3. item.c1 = IF cipher = ThisPacket.body.key
                      THEN (ThisPacket.seq + offset) % SeqMod ELSE Spoiled
        BY <3>4, <4>1 DEF RewriteC2sSeq
      <4>4. QED BY <4>1, <4>2, <4>3 DEF BodyAgrees
    <3>5. QED BY <3>2, <3>3, <3>4
  <2> HIDE DEF item
  <2>3. BodiesAgree(Stream', acked)
    BY <1>1, <2>1, <2>2, InsertAgrees DEF Agreeing
  <2>4. UNCHANGED <<cipher, acked, offset, baseline>>
    BY <1>2 DEF ForwardPacket
  <2>5. QED BY <1>1, <2>3, <2>4 DEF Agreeing, BaselineIsReal, BodiesAgree
<1>3. CASE Inject
  <2>1. UNCHANGED <<cipher, acked, baseline>>
    BY <1>3 DEF Inject
  <2>2. CASE UNCHANGED <<outq, offset, accepted>> /\ Stream' = Stream
    BY <1>1, <2>1, <2>2 DEF Agreeing, BaselineIsReal, BodiesAgree
  <2>3. CASE /\ cipher # NoKey /\ offset' = offset + 1 /\ InjectItem \in Items
             /\ Inserted(Stream, Stream', Len(Stream) - Len(held) + 1, InjectItem)
    <3>1. BodyAgrees(InjectItem, acked)
      BY DEF InjectItem, BodyAgrees
    <3>2. BodiesAgree(Stream', acked)
      BY <1>1, <2>3, <3>1, InsertAgrees DEF Agreeing
    <3>3. QED BY <1>1, <2>1, <2>3, <3>2 DEF Agreeing, BaselineIsReal, BodiesAgree
  <2>4. QED BY <1>1, <1>3, <2>2, <2>3, InjectInserts
<1>4. CASE ~ForwardPacket /\ ~Inject
  <2>1. Stream' = Stream
    BY <1>1, <1>4, StreamStays
  <2>2. offset' = offset /\ (cipher # NoKey => cipher' # NoKey) /\ acked \subseteq acked'
    BY <1>1, <1>4, BodyAssumption DEF TypeOK, BodyAssumption, Next, PumpC2s,
       PumpUpstreamSend, Teardown, ReadChunk, ResumePut, FinishChunk,
       RejectHeader, ClientEOF, WriteBatch, Linger, EndLinger, Drained, DrainTimeout, CancelPump,
       CancelSender, CancelS2c, Finally, EndRun,
              PrimeS2cState, PrimeAgain, S2cEOF,
       StartObserve, Observe, Close, Flushed,
       CloseTransports,
       state, vars
  <2>3. BaselineIsReal'
    <3>1. CASE Observe
      BY <3>1, SidAssumption DEF SidAssumption, Agreeing, BaselineIsReal, Observe, IsInjectBaselineCandidate
    <3>2. CASE ~Observe
      <4>1. baseline' = baseline
        BY <1>4, <3>2 DEF Next, PumpC2s, PumpUpstreamSend, Teardown, ReadChunk, ResumePut,
           FinishChunk, RejectHeader, ClientEOF, WriteBatch, Linger, EndLinger, Drained,
           DrainTimeout, CancelPump, CancelSender, CancelS2c, Finally, EndRun,
              PrimeS2cState, PrimeAgain, S2cEOF,
           StartObserve, Close, Flushed, CloseTransports, Flushed, CloseTransports, state, vars
      <4>2. QED BY <4>1 DEF Agreeing, BaselineIsReal
    <3>3. QED BY <3>1, <3>2
  <2>4. BodiesAgree(Stream, acked')
    BY <2>2 DEF Agreeing, BodiesAgree, BodyAgrees
  <2>5. QED BY <1>1, <2>1, <2>2, <2>3, <2>4 DEF Agreeing, BodiesAgree
<1>5. QED BY <1>2, <1>3, <1>4

(* No body shows another number than its header, wherever the numbers wrap *)
(* and whichever keys come when; a body that shows none was encrypted with *)
(* another key than an ACK of the connection announced.                    *)
THEOREM BodiesRepeatHeaders == Spec => []BodyRepeatsHeader
<1>1. Agreeing => BodyRepeatsHeader
  BY DEF Agreeing, BodiesAgree, BodyAgrees, BodyRepeatsHeader
<1>2. QED BY <1>1, AgreeingInit, AgreeingNext, PTL DEF Spec

(* Injections are based on a real packet's session id, whenever they come  *)
(* and however long the connection lives.                                  *)
THEOREM BaselinesAreReal == Spec => []BaselineIsReal
<1>1. Agreeing => BaselineIsReal
  BY DEF Agreeing
<1>2. QED BY <1>1, AgreeingInit, AgreeingNext, PTL DEF Spec

-----------------------------------------------------------------------------
(* The inductive invariant.                                                *)

(* The highest number on a client packet so far; it stays when they wrap.  *)
Highest == (IF cnext < SeqMod THEN cnext ELSE SeqMod) - 1

(* What the counters of the session add up to.                             *)
Counting ==
    /\ cnext >= First /\ cnext <= First + ClientMax
    /\ \A i \in 1 .. Len(buf) : buf[i] # Garbage => cnext + i <= First + ClientMax
    /\ Len(Stream) = (cnext - First) + offset
    /\ offset <= accepted /\ accepted <= InjectMax
    /\ lastSeq = IF cnext > First THEN Highest ELSE 0

(* The observe thread only works on packets the pump has forwarded.        *)
Forwarded(q) == \A i \in 1 .. Len(q) : cnext > First /\ q[i].seq <= lastSeq

Observing ==
    /\ Forwarded(observed) /\ Forwarded(obsq) /\ Forwarded(thread)
    /\ baseline # NoSid => cnext > First

ClientWaits == held # <<>> => Head(held).tag = "C2S>"

IInv == TypeOK /\ Counting /\ Observing /\ ClientWaits /\ Good(Stream)

LEMMA InvInit == Init => IInv
<1> SUFFICES ASSUME Init PROVE IInv
  OBVIOUS
<1>1. TypeOK
  BY TypeInit
<1>2. Stream = <<>> /\ Len(<<>>) = 0
  BY EmptySeq, ConcatEmptySeq DEF Init, Stream
<1>3. Counting
  BY <1>2, BoundAssumption DEF Init, Counting, BoundAssumption
<1>4. Observing /\ ClientWaits
  BY <1>2 DEF Init, Observing, Forwarded, ClientWaits
<1>5. Good(Stream)
  BY <1>2 DEF Good, InRange, Onto, OneToOne, InjectionsPassOne, Reduced
<1>6. QED BY <1>1, <1>3, <1>4, <1>5 DEF IInv

LEMMA GoodStays == ASSUME Good(Stream), Stream' = Stream PROVE Good(Stream)'
<1>1. Good(Stream)' = Good(Stream')
  BY DEF Good, InRange, Onto, OneToOne, InjectionsPassOne, Passes, Reduced, Number, Unwrapped
<1>2. QED BY <1>1

(* A step that moves no number keeps the invariant if it keeps the rest.   *)
LEMMA InvQuietStep ==
    ASSUME IInv, TypeOK', Stream' = Stream, UNCHANGED <<state, reader, obsq, thread, accepted>>
    PROVE  IInv'
<1>1. UNCHANGED <<baseline, lastSeq, offset, cnext, buf, observed, held, obsq, thread, accepted>>
  BY DEF state, reader
<1>2. Counting'
  BY <1>1 DEF IInv, Counting, Highest
<1>3. Observing' /\ ClientWaits'
  BY <1>1 DEF IInv, Observing, Forwarded, ClientWaits
<1>4. Good(Stream)'
  BY GoodStays DEF IInv
<1>5. QED BY <1>2, <1>3, <1>4 DEF IInv

(* A step that numbers one more item keeps what is said of the stream.     *)
LEMMA InvNumberStep ==
    ASSUME IInv, BoundAssumption, NEW x \in Items, NEW p,
           Inserted(Stream, Stream', p, x),
           Unwrapped(x.seq) = First + Len(Stream), x.seq < SeqMod,
           \/ p = Len(Stream) + 1
           \/ p = Len(Stream) /\ x.tag = "INJECT>" /\ Stream[p].tag = "C2S>"
    PROVE  Good(Stream)' /\ Len(Stream)' = Len(Stream) + 1
<1>1. Stream \in Seq(Items)
  BY StreamType DEF IInv
<1>2. Good(Stream')
  BY <1>1, InsertKeepsGood DEF IInv, BoundAssumption
<1>3. QED BY <1>2 DEF Inserted, Good, InRange, Onto, OneToOne, InjectionsPassOne, Passes,
                      Reduced, Number, Unwrapped

(* What the pump makes of the next client packet.                          *)
LEMMA RewriteNumbers ==
    ASSUME IInv, BoundAssumption, NoReuse, NEW pkt \in Packets,
           cnext < First + ClientMax, pkt.seq = cnext % SeqMod
    PROVE  /\ Unwrapped(RewriteC2sSeq(pkt).seq) = First + Len(Stream)
           /\ RewriteC2sSeq(pkt).seq < SeqMod
<1> DEFINE n == cnext + offset
<1>1. /\ cnext \in Nat /\ offset \in Nat /\ First \in Nat /\ SeqMod \in Nat \ {0}
      /\ First < SeqMod /\ n \in Nat /\ cnext <= n /\ First <= n
  BY DEF IInv, Counting, TypeOK, BoundAssumption
<1>2. n < First + SeqMod /\ n = First + Len(Stream)
  BY StreamType, LenProperties DEF IInv, Counting, TypeOK, BoundAssumption, NoReuse
<1> HIDE DEF n
<1>3. Unwrapped(n % SeqMod) = n /\ n % SeqMod < SeqMod
  BY <1>1, <1>2, ReduceUnwrap
<1>4. RewriteC2sSeq(pkt).seq = n % SeqMod
  <2>1. CASE offset = 0
    BY <1>1, <2>1 DEF RewriteC2sSeq, n
  <2>2. CASE offset # 0
    <3>1. RewriteC2sSeq(pkt).seq = ((cnext % SeqMod) + offset) % SeqMod
      BY <2>2 DEF RewriteC2sSeq
    <3>2. CASE cnext < SeqMod
      <4>1. cnext % SeqMod = cnext
        BY <1>1, <3>2, SmallMod
      <4>2. QED BY <3>1, <4>1 DEF n
    <3>3. CASE cnext >= SeqMod
      <4> SeqMod <= n /\ n < SeqMod + SeqMod /\ cnext < SeqMod + SeqMod
        BY <1>1, <1>2, <3>3
      <4>1. cnext % SeqMod = cnext - SeqMod /\ n % SeqMod = n - SeqMod
        BY <1>1, <3>3, OneWrap
      <4>2. n - SeqMod \in Nat /\ n - SeqMod < SeqMod
        BY <1>1, <1>2, <3>3
      <4>3. (n - SeqMod) % SeqMod = n - SeqMod
        BY <1>1, <4>2, SmallMod
      <4>4. cnext - SeqMod + offset = n - SeqMod
        BY <1>1 DEF n
      <4>5. QED BY <3>1, <4>1, <4>3, <4>4
    <3>4. QED BY <1>1, <3>2, <3>3
  <2>3. QED BY <2>1, <2>2
<1>5. QED BY <1>2, <1>3, <1>4

(* Noting a client packet keeps last_gcp_seq the highest number of all.    *)
LEMMA HighestNext ==
    ASSUME IInv, BoundAssumption, NoReuse, cnext < First + ClientMax, cnext' = cnext + 1,
           NEW pkt, pkt.seq = cnext % SeqMod, NoteC2sSequence(pkt)
    PROVE  /\ lastSeq' \in Nat /\ lastSeq <= lastSeq' /\ pkt.seq <= lastSeq'
           /\ lastSeq' = Highest'
<1>1. /\ cnext \in Nat /\ First \in Nat /\ SeqMod \in Nat \ {0} /\ First < SeqMod
      /\ cnext >= First /\ cnext < First + SeqMod /\ lastSeq \in Nat
      /\ lastSeq = IF cnext > First THEN Highest ELSE 0
  BY DEF IInv, Counting, TypeOK, BoundAssumption, NoReuse
<1>2. lastSeq' = IF pkt.seq > lastSeq THEN pkt.seq ELSE lastSeq
  BY DEF NoteC2sSequence
<1>3. CASE cnext < SeqMod
  <2>1. pkt.seq = cnext
    BY <1>1, <1>3, SmallMod
  <2>2. QED BY <1>1, <1>2, <1>3, <2>1 DEF Highest
<1>4. CASE cnext >= SeqMod
  <2>1. pkt.seq = cnext - SeqMod
    BY <1>1, <1>4, OneWrap
  <2>2. QED BY <1>1, <1>2, <1>4, <2>1 DEF Highest
<1>5. QED BY <1>1, <1>3, <1>4

LEMMA InvForward ==
    ASSUME IInv, TypeOK', BoundAssumption, NoReuse, ForwardPacket PROVE IInv'
<1> DEFINE item == RewriteC2sSeq(ThisPacket)
<1> USE BoundAssumption DEF BoundAssumption
<1>1. /\ cnext \in Nat /\ offset \in Nat /\ lastSeq \in Nat /\ Len(Stream) \in Nat
      /\ buf \in Seq(Bodies \union {Garbage}) /\ buf # <<>> /\ Head(buf) # Garbage
  BY StreamType, LenProperties DEF IInv, TypeOK, ForwardPacket
<1>2. Head(buf) = buf[1] /\ 1 \in 1 .. Len(buf)
  BY <1>1, HeadTailProperties, EmptySeq
<1>3. cnext < First + ClientMax
  BY <1>1, <1>2 DEF IInv, Counting
<1>4. /\ ThisPacket \in Packets /\ ThisPacket.seq = cnext % SeqMod
      /\ item \in Items /\ item.tag = "C2S>"
      /\ Inserted(Stream, Stream', Len(Stream) + 1, item)
      /\ held' = <<>> \/ held' = <<item>>
  BY ForwardInserts DEF IInv
<1>5. Unwrapped(item.seq) = First + Len(Stream) /\ item.seq < SeqMod
  BY <1>3, <1>4, RewriteNumbers
<1>6. Good(Stream)' /\ Len(Stream)' = Len(Stream) + 1
  <2> HIDE DEF item
  <2>1. QED BY <1>4, <1>5, InvNumberStep
<1>7. /\ cnext' = cnext + 1 /\ buf' = Tail(buf) /\ NoteC2sSequence(ThisPacket)
      /\ observed' = Append(observed, ThisPacket)
      /\ UNCHANGED <<baseline, offset, accepted, obsq, thread>>
  BY DEF ForwardPacket, ThisPacket
<1>8. /\ lastSeq' \in Nat /\ lastSeq <= lastSeq' /\ ThisPacket.seq <= lastSeq'
      /\ lastSeq' = Highest' /\ cnext' > First
  BY <1>1, <1>3, <1>4, <1>7, HighestNext DEF IInv, Counting
<1>9. Counting'
  <2>1. Len(Tail(buf)) = Len(buf) - 1 /\ \A i \in 1 .. Len(Tail(buf)) : Tail(buf)[i] = buf[i + 1]
    BY <1>1, HeadTailProperties
  <2>2. Len(buf) \in Nat
    BY <1>1, LenProperties
  <2>3. \A i \in 1 .. Len(buf') : buf'[i] # Garbage => cnext' + i <= First + ClientMax
    <3> SUFFICES ASSUME NEW i \in 1 .. Len(buf'), buf'[i] # Garbage
                 PROVE  cnext' + i <= First + ClientMax
      OBVIOUS
    <3>1. i + 1 \in 1 .. Len(buf) /\ buf[i + 1] # Garbage
      BY <1>7, <2>1, <2>2
    <3>2. cnext + (i + 1) <= First + ClientMax
      BY <3>1 DEF IInv, Counting
    <3>3. QED BY <3>2, <1>1, <1>7
  <2>4. QED BY <1>1, <1>3, <1>6, <1>7, <1>8, <2>3 DEF IInv, Counting
<1>10. Observing'
  <2>1. ASSUME NEW q \in Seq(Packets), Forwarded(q)
        PROVE  \A i \in 1 .. Len(q) : cnext' > First /\ q[i].seq <= lastSeq'
    <3> SUFFICES ASSUME NEW i \in 1 .. Len(q) PROVE q[i].seq <= lastSeq'
      BY <1>8
    <3>1. q[i].seq <= lastSeq /\ q[i] \in Packets
      BY <2>1, ElementOfSeq DEF Forwarded
    <3>2. q[i].seq \in Nat
      BY <3>1 DEF Packets
    <3>3. QED BY <1>1, <1>8, <3>1, <3>2
  <2>2. observed \in Seq(Packets) /\ obsq \in Seq(Packets) /\ thread \in Seq(Packets)
    BY DEF IInv, TypeOK
  <2>3. Forwarded(obsq)' /\ Forwarded(thread)'
    BY <1>7, <2>1, <2>2 DEF IInv, Observing, Forwarded
  <2>4. Forwarded(observed)'
    <3>1. /\ Len(observed') = Len(observed) + 1 /\ Len(observed) \in Nat
          /\ \A i \in 1 .. Len(observed) : observed'[i] = observed[i]
          /\ observed'[Len(observed) + 1] = ThisPacket
      BY <1>4, <1>7, <2>2, AppendProperties, LenProperties
    <3>2. SUFFICES ASSUME NEW i \in 1 .. Len(observed') PROVE observed'[i].seq <= lastSeq'
      BY <1>8 DEF Forwarded
    <3>3. CASE i = Len(observed) + 1
      BY <1>8, <3>1, <3>3
    <3>4. CASE i # Len(observed) + 1
      <4>1. i \in 1 .. Len(observed)
        BY <3>1, <3>4
      <4>2. observed[i].seq <= lastSeq'
        BY <2>1, <2>2, <4>1 DEF IInv, Observing
      <4>3. QED BY <3>1, <4>1, <4>2
    <3>5. QED BY <3>3, <3>4
  <2>5. QED BY <1>8, <2>3, <2>4 DEF Observing
<1>11. ClientWaits'
  <2> HIDE DEF item
  <2>1. QED BY <1>4 DEF ClientWaits
<1>12. QED BY <1>6, <1>9, <1>10, <1>11 DEF IInv

LEMMA WaitingIsLast ==
    ASSUME TypeOK, held # <<>> PROVE Len(held) = 1 /\ Stream[Len(Stream)] = Head(held)
<1> DEFINE a == sent \o hand \o outq
<1>1. a \in Seq(Items) /\ Len(a) \in Nat
  BY StreamType, LenProperties
<1>2. held \in Seq(Items) /\ Len(held) <= 1
  BY DEF TypeOK
<1>3. Len(held) \in Nat \ {0}
  BY <1>2, EmptySeq
<1>4. Len(held) = 1
  <2>1. \A n \in Nat \ {0} : n <= 1 => n = 1
    OBVIOUS
  <2>2. Len(held) <= 1
    BY <1>2
  <2>3. QED BY <1>3, <2>1, <2>2, Zenon
<1>5. Head(held) = held[1]
  BY <1>2, <1>3, HeadTailProperties
<1> HIDE DEF a
<1>6. /\ Len(a \o held) = Len(a) + 1
      /\ \A i \in 1 .. Len(a) + 1 :
            (a \o held)[i] = IF i <= Len(a) THEN a[i] ELSE held[i - Len(a)]
  BY <1>1, <1>2, <1>4, ConcatProperties
<1>7. Stream = a \o held
  BY DEF Stream, a
<1>8. Len(a) + 1 \in 1 .. Len(a) + 1 /\ ~(Len(a) + 1 <= Len(a)) /\ Len(a) + 1 - Len(a) = 1
  BY <1>1
<1>9. QED BY <1>4, <1>5, <1>6, <1>7, <1>8

LEMMA InvInject ==
    ASSUME IInv, TypeOK', BoundAssumption, NoReuse, Inject PROVE IInv'
<1>1. /\ UNCHANGED <<baseline, lastSeq, obsq, thread>>
      /\ UNCHANGED <<cnext, buf, observed, pump, held, sent, hand>>
      /\ accepted' = accepted + 1 => accepted' <= InjectMax
  BY DEF Inject, reader, writer, IInv, TypeOK, BoundAssumption
<1>2. /\ cnext \in Nat /\ offset \in Nat /\ accepted \in Nat /\ lastSeq \in Nat
      /\ Len(Stream) \in Nat /\ First \in Nat /\ SeqMod \in Nat
  BY StreamType, LenProperties, BoundAssumption DEF IInv, TypeOK, BoundAssumption
<1>3. ClientWaits' /\ Observing'
  BY <1>1 DEF IInv, ClientWaits, Observing, Forwarded
<1>4. CASE UNCHANGED <<outq, offset, accepted>> /\ Stream' = Stream
  <2>1. Counting'
    BY <1>1, <1>2, <1>4 DEF IInv, Counting, Highest
  <2>2. Good(Stream)'
    BY <1>4, GoodStays DEF IInv
  <2>3. QED BY <1>3, <2>1, <2>2 DEF IInv
<1>5. CASE /\ baseline # NoSid /\ InjectSeq < SeqMod /\ offset' = offset + 1
           /\ accepted' = accepted + 1 /\ InjectItem \in Items
           /\ Inserted(Stream, Stream', Len(Stream) - Len(held) + 1, InjectItem)
  <2>1. cnext > First
    BY <1>5 DEF IInv, Observing
  <2>2. InjectSeq = First + Len(Stream) /\ InjectSeq \in Nat
    BY <1>2, <1>5, <2>1 DEF InjectSeq, IInv, Counting, Highest
  <2>3. /\ InjectItem.tag = "INJECT>" /\ InjectItem.seq < SeqMod
        /\ Unwrapped(InjectItem.seq) = First + Len(Stream)
    BY <1>2, <1>5, <2>2 DEF InjectItem, Unwrapped
  <2> DEFINE p == Len(Stream) - Len(held) + 1
  <2>4. \/ p = Len(Stream) + 1
        \/ p = Len(Stream) /\ InjectItem.tag = "INJECT>" /\ Stream[p].tag = "C2S>"
    <3>1. CASE held = <<>>
      BY <1>2, <3>1, EmptySeq
    <3>2. CASE held # <<>>
      <4>1. Len(held) = 1 /\ Stream[Len(Stream)] = Head(held)
        BY <3>2, WaitingIsLast DEF IInv
      <4>2. p = Len(Stream)
        BY <1>2, <4>1
      <4>3. QED BY <2>3, <3>2, <4>1, <4>2 DEF IInv, ClientWaits
    <3>3. QED BY <3>1, <3>2
  <2> HIDE DEF p
  <2>5. Inserted(Stream, Stream', p, InjectItem)
    BY <1>5 DEF p
  <2>6. Good(Stream)' /\ Len(Stream)' = Len(Stream) + 1
    BY <1>5, <2>3, <2>4, <2>5, InvNumberStep
  <2>7. Counting'
    BY <1>1, <1>2, <1>5, <2>6 DEF IInv, Counting, Highest
  <2>8. QED BY <1>3, <2>6, <2>7 DEF IInv
<1>6. QED BY <1>4, <1>5, InjectInserts DEF IInv

LEMMA InvChunk ==
    ASSUME IInv, TypeOK', BoundAssumption, ReadChunk PROVE IInv'
<1> USE BoundAssumption DEF BoundAssumption
<1>1. PICK n \in 0 .. ChunkMax, junk \in BOOLEAN :
        /\ (cnext - First) + n <= ClientMax
        /\ \E bodies \in [1 .. n -> Bodies] :
              buf' = IF junk THEN Append(bodies, Garbage) ELSE bodies
  BY DEF ReadChunk
<1>2. PICK bodies \in [1 .. n -> Bodies] :
        buf' = IF junk THEN Append(bodies, Garbage) ELSE bodies
  BY <1>1
<1>3. bodies \in Seq(Bodies) /\ Len(bodies) = n
  BY <1>2, SeqDef
<1>4. Garbage \notin Bodies
  BY BodyAssumption DEF BodyAssumption
<1>5. \A i \in 1 .. Len(buf') : buf'[i] # Garbage => i <= n
  <2>1. CASE junk
    <3>1. bodies \in Seq(Bodies \union {Garbage}) /\ Garbage \in Bodies \union {Garbage}
      BY <1>3, SeqMonotonic
    <3>2. Len(Append(bodies, Garbage)) = n + 1 /\ Append(bodies, Garbage)[n + 1] = Garbage
      BY <1>3, <3>1, AppendProperties
    <3>3. n \in Nat
      BY <1>3, LenProperties
    <3>4. QED BY <1>2, <2>1, <3>2, <3>3
  <2>2. CASE ~junk
    <3>1. buf' = bodies
      BY <1>2, <2>2
    <3>2. QED BY <1>3, <3>1
  <2>3. QED BY <2>1, <2>2
<1>6. /\ UNCHANGED <<cipher, baseline, lastSeq, offset, cnext, observed, held, sent, hand>>
      /\ UNCHANGED <<outq, obsq, thread, accepted>>
  BY DEF ReadChunk, state, queues, writer
<1>7. Stream' = Stream
  BY <1>6 DEF Stream
<1>8. Len(buf') \in Nat
  BY LenProperties DEF TypeOK
<1>9. Counting'
  <2>1. \A i \in 1 .. Len(buf') : buf'[i] # Garbage => cnext' + i <= First + ClientMax
    BY <1>1, <1>5, <1>6, <1>8 DEF IInv, TypeOK
  <2>2. QED BY <1>6, <1>7, <2>1 DEF IInv, Counting, Highest
<1>10. Observing' /\ ClientWaits'
  BY <1>6 DEF IInv, Observing, Forwarded, ClientWaits
<1>11. Good(Stream)'
  BY <1>7, GoodStays DEF IInv
<1>12. QED BY <1>9, <1>10, <1>11 DEF IInv

(* Taking packets from one queue of the observe path to the next.          *)
LEMMA InvObservePath ==
    ASSUME IInv, TypeOK', BoundAssumption, FinishChunk \/ StartObserve \/ Observe
    PROVE  IInv'
<1>1. UNCHANGED <<cipher, offset, cnext, buf, held, sent, hand, outq, accepted>>
  BY DEF FinishChunk, StartObserve, Observe, state, queues, reader, writer
<1>2. Stream' = Stream
  BY <1>1 DEF Stream
<1>3. Good(Stream)' /\ ClientWaits'
  BY <1>1, <1>2, GoodStays DEF IInv, ClientWaits
<1>4. /\ observed \in Seq(Packets) /\ obsq \in Seq(Packets) /\ thread \in Seq(Packets)
      /\ First \in Nat /\ cnext \in Nat
  BY BoundAssumption DEF IInv, TypeOK, BoundAssumption
<1>5. CASE FinishChunk
  <2> DEFINE room == IF ObserveMax > Len(obsq) THEN ObserveMax - Len(obsq) ELSE 0
             n == IF room < Len(observed) THEN room ELSE Len(observed)
             front == SubSeq(observed, 1, n)
  <2>1. n \in 0 .. Len(observed)
    BY <1>4, LenProperties, BoundAssumption DEF BoundAssumption
  <2>2. obsq' = obsq \o front /\ observed' = <<>>
    BY <1>5 DEF FinishChunk, QueueObserve
  <2>3. UNCHANGED <<baseline, lastSeq, thread>>
    BY <1>5 DEF FinishChunk, state
  <2> HIDE DEF n
  <2>4. front \in Seq(Packets) /\ Len(front) = n /\ \A i \in 1 .. n : front[i] = observed[i]
    <3>1. \A i \in 1 .. n : observed[i] \in Packets
      BY <1>4, <2>1, ElementOfSeq
    <3>2. QED BY <2>1, <3>1, SubSeqProperties
  <2> HIDE DEF front
  <2>5. /\ Len(obsq \o front) = Len(obsq) + Len(front)
        /\ \A i \in 1 .. Len(obsq) + Len(front) :
              (obsq \o front)[i] = IF i <= Len(obsq) THEN obsq[i] ELSE front[i - Len(obsq)]
    BY <1>4, <2>4, ConcatProperties
  <2>6. Len(obsq) \in Nat /\ Len(observed) \in Nat
    BY <1>4, LenProperties
  <2>7. Forwarded(front)
    BY <2>1, <2>4, <2>6 DEF IInv, Observing, Forwarded
  <2>8. Forwarded(obsq \o front)
    <3> SUFFICES ASSUME NEW i \in 1 .. Len(obsq) + Len(front)
                 PROVE  cnext > First /\ (obsq \o front)[i].seq <= lastSeq
      BY <2>5 DEF Forwarded
    <3>1. CASE i <= Len(obsq)
      BY <2>5, <2>6, <3>1 DEF IInv, Observing, Forwarded
    <3>2. CASE i > Len(obsq)
      <4>1. i - Len(obsq) \in 1 .. Len(front)
        BY <2>1, <2>4, <2>6, <3>2
      <4>2. QED BY <2>5, <2>6, <2>7, <3>2, <4>1 DEF Forwarded
    <3>3. QED BY <2>6, <3>1, <3>2
  <2>9. Observing'
    BY <1>1, <2>2, <2>3, <2>8, EmptySeq DEF IInv, Observing, Forwarded
  <2>10. Counting'
    BY <1>1, <1>2, <2>3 DEF IInv, Counting, Highest
  <2>11. QED BY <1>3, <2>9, <2>10 DEF IInv
<1>6. CASE StartObserve
  <2>1. /\ obsq # <<>> /\ thread' = <<Head(obsq)>> /\ obsq' = Tail(obsq)
        /\ UNCHANGED <<baseline, lastSeq, observed>>
    BY <1>6 DEF StartObserve, state, reader
  <2>2. /\ Head(obsq) = obsq[1] /\ Len(obsq) \in Nat \ {0}
        /\ Len(Tail(obsq)) = Len(obsq) - 1
        /\ \A i \in 1 .. Len(Tail(obsq)) : Tail(obsq)[i] = obsq[i + 1]
    BY <1>4, <2>1, HeadTailProperties, EmptySeq
  <2>3. Observing'
    BY <1>1, <2>1, <2>2 DEF IInv, Observing, Forwarded
  <2>4. Counting'
    BY <1>1, <1>2, <2>1 DEF IInv, Counting, Highest
  <2>5. QED BY <1>3, <2>3, <2>4 DEF IInv
<1>7. CASE Observe
  <2>1. /\ thread # <<>> /\ thread' = <<>> /\ UNCHANGED <<obsq, observed>>
        /\ NoteC2sSequence(Head(thread))
        /\ baseline' = IF /\ Head(thread).body \in Data /\ cipher = Head(thread).body.key
                          /\ IsInjectBaselineCandidate(Head(thread).body.sid)
                       THEN Head(thread).body.sid ELSE baseline
    BY <1>7 DEF Observe, queues, reader
  <2>2. Head(thread) = thread[1] /\ 1 \in 1 .. Len(thread) /\ Head(thread) \in Packets
    BY <1>4, <2>1, HeadTailProperties, EmptySeq
  <2>3. cnext > First /\ Head(thread).seq <= lastSeq
    BY <2>2 DEF IInv, Observing, Forwarded
  <2>4. Head(thread).seq \in Nat /\ lastSeq \in Nat
    BY <2>2 DEF IInv, TypeOK, Packets
  <2>5. lastSeq' = lastSeq
    BY <2>1, <2>3, <2>4 DEF NoteC2sSequence
  <2>6. Counting'
    BY <1>1, <1>2, <2>5 DEF IInv, Counting, Highest
  <2>7. Observing'
    BY <1>1, <2>1, <2>3, <2>5, EmptySeq DEF IInv, Observing, Forwarded
  <2>8. QED BY <1>3, <2>6, <2>7 DEF IInv
<1>8. QED BY <1>5, <1>6, <1>7

LEMMA InvNext ==
    ASSUME NoReuse PROVE IInv /\ [Next]_vars => IInv'
<1> SUFFICES ASSUME IInv, [Next]_vars PROVE IInv'
  OBVIOUS
<1> USE BoundAssumption
<1>1. TypeOK'
  BY TypeNext DEF IInv
<1>2. CASE ForwardPacket
  BY <1>1, <1>2, InvForward
<1>3. CASE Inject
  BY <1>1, <1>3, InvInject
<1>4. CASE ReadChunk
  BY <1>1, <1>4, InvChunk
<1>5. CASE FinishChunk \/ StartObserve \/ Observe
  BY <1>1, <1>5, InvObservePath
<1>6. CASE ~ForwardPacket /\ ~Inject
  <2> USE DEF state, queues, reader, writer, life
  <2>1. Stream' = Stream
    BY <1>6, StreamStays DEF IInv
  <2>2. Good(Stream)'
    BY <2>1, GoodStays DEF IInv
  <2>3. CASE ResumePut \/ RejectHeader \/ ClientEOF \/ CancelPump
    <3>1. /\ UNCHANGED <<cipher, baseline, lastSeq, offset, cnext, obsq, thread, accepted>>
          /\ UNCHANGED <<buf, observed>> \/ (buf' = <<>> /\ observed' = <<>>)
          /\ UNCHANGED held \/ held' = <<>>
      BY <2>3 DEF ResumePut, RejectHeader, ClientEOF, CancelPump
    <3>2. \A i \in 1 .. Len(buf') : buf'[i] # Garbage => cnext + i <= First + ClientMax
      BY <3>1, EmptySeq DEF IInv, Counting
    <3>3. Forwarded(observed)'
      BY <3>1, EmptySeq DEF IInv, Observing, Forwarded
    <3>4. Counting' /\ Observing' /\ ClientWaits'
      BY <2>1, <3>1, <3>2, <3>3
         DEF IInv, Counting, Highest, Observing, Forwarded, ClientWaits
    <3>5. QED BY <1>1, <2>2, <3>4 DEF IInv
  <2>4. CASE PumpUpstreamSend
    <3>1. UNCHANGED <<state, reader, obsq, thread, accepted>>
      BY <2>4 DEF PumpUpstreamSend, WriteBatch, Linger, EndLinger, Drained, DrainTimeout
    <3>2. QED BY <1>1, <2>1, <3>1, InvQuietStep
  <2>5. CASE \/ CancelSender \/ CancelS2c \/ Finally \/ EndRun \/ S2cEOF \/ Close
             \/ UNCHANGED vars \/ \E end \in Slow : Flushed(end)
    <3>1. UNCHANGED <<state, reader, obsq, thread, accepted>>
      BY <2>5 DEF CancelSender, CancelS2c, Finally, EndRun, S2cEOF, Close, Flushed, vars
    <3>2. QED BY <1>1, <2>1, <3>1, InvQuietStep
  <2>6. CASE PrimeS2cState \/ PrimeAgain
    <3>1. UNCHANGED <<baseline, lastSeq, offset, reader, obsq, thread, accepted>>
      BY <2>6 DEF PrimeS2cState, PrimeAgain
    <3>2. Counting' /\ Observing' /\ ClientWaits'
      BY <2>1, <3>1 DEF IInv, Counting, Highest, Observing, Forwarded, ClientWaits
    <3>3. QED BY <1>1, <2>2, <3>2 DEF IInv
  <2>7. QED BY <1>4, <1>5, <1>6, <2>3, <2>4, <2>5, <2>6 DEF Next, PumpC2s, Teardown
<1>7. QED BY <1>2, <1>3, <1>6

THEOREM Invariance == ASSUME NoReuse PROVE Spec => []IInv
BY InvInit, InvNext, PTL DEF Spec

-----------------------------------------------------------------------------
(* What the invariant says of the wire.                                    *)

LEMMA GoodNumbers == ASSUME NoReuse PROVE IInv => Numbered
<1> SUFFICES ASSUME IInv PROVE Numbered
  OBVIOUS
<1> USE BoundAssumption
<1>1. /\ Stream \in Seq(Items) /\ Len(Stream) \in Nat /\ First \in Nat /\ SeqMod \in Nat
      /\ Len(Stream) <= SeqMod
  BY StreamType, LenProperties DEF IInv, Counting, TypeOK, NoReuse, BoundAssumption
<1>2. ASSUME NEW i \in 1 .. Len(Stream)
      PROVE  Unwrapped(Stream[i].seq) % SeqMod = Stream[i].seq
  <2>1. Stream[i].seq \in Nat
    <3>1. Stream[i] \in Items
      BY <1>1, ElementOfSeq
    <3>2. QED BY <3>1 DEF Items
  <2>2. Stream[i].seq < SeqMod
    BY DEF IInv, Good, Reduced
  <2>3. QED BY <2>1, <2>2, UnwrapReduce
<1>3. ASSUME NEW n \in 0 .. Len(Stream) - 1
      PROVE  \E i \in 1 .. Len(Stream) : Stream[i].seq = (First + n) % SeqMod
  <2>1. PICK i \in 1 .. Len(Stream) : Unwrapped(Stream[i].seq) = First + n
    BY DEF IInv, Good, Onto, Number
  <2>2. QED BY <1>2, <2>1
<1>4. \A i, j \in 1 .. Len(Stream) : Stream[i].seq = Stream[j].seq => i = j
  BY DEF IInv, Good, OneToOne, Number
<1>5. QED BY <1>3, <1>4 DEF Numbered

(* The numbers of one connection are consecutive and used once, whatever   *)
(* the sizes of the queues and the order of pumps, injections and observe  *)
(* thread, and wherever in the sequence space the connection begins.       *)
THEOREM NumbersConsecutive == ASSUME NoReuse PROVE Spec => []Numbered
BY Invariance, GoodNumbers, PTL

(* Only an injection passes a client packet, and it passes at most one:    *)
(* the packet that waits for room in the outbound queue.                   *)
THEOREM OrderOnTheWire == ASSUME NoReuse PROVE Spec => []InOrderButForTheWaiting
<1>1. IInv => InOrderButForTheWaiting
  BY DEF IInv, Good, InjectionsPassOne, Passes, Number, InOrderButForTheWaiting, Overtakes
<1>2. QED BY <1>1, Invariance, PTL

-----------------------------------------------------------------------------
(* Answered injections.  Nothing here is about the numbers, so this holds  *)
(* also for a session whose numbers wrap around.                           *)

Injected(s) == {i \in 1 .. Len(s) : s[i].tag = "INJECT>"}

LEMMA InjectedFinite ==
    ASSUME NEW s \in Seq(Items)
    PROVE  IsFiniteSet(Injected(s)) /\ Cardinality(Injected(s)) \in Nat
<1>1. Len(s) \in Int
  BY LenProperties
<1>2. IsFiniteSet(1 .. Len(s))
  BY <1>1, FS_Interval
<1>3. Injected(s) \in SUBSET (1 .. Len(s))
  BY DEF Injected
<1>4. QED BY <1>2, <1>3, FS_Subset, FS_CardinalityType

(* Wherever an item is inserted, the others keep their tags.               *)
LEMMA InsertCounts ==
    ASSUME NEW s \in Seq(Items), NEW t, NEW p, NEW x \in Items, Inserted(s, t, p, x)
    PROVE  Cardinality(Injected(t)) =
             IF x.tag = "INJECT>" THEN Cardinality(Injected(s)) + 1
             ELSE Cardinality(Injected(s))
<1> DEFINE S == Injected(s)
           T == Injected(t) \ {p}
           f == [i \in S |-> IF i < p THEN i ELSE i + 1]
<1>1. /\ Len(s) \in Nat /\ p \in 1 .. Len(s) + 1 /\ Len(t) = Len(s) + 1 /\ t \in Seq(Items)
      /\ \A i \in 1 .. Len(t) : t[i] = IF i < p THEN s[i] ELSE IF i = p THEN x ELSE s[i - 1]
  BY LenProperties DEF Inserted
<1>2. f \in Bijection(S, T)
  <2>1. ASSUME NEW i \in S PROVE f[i] \in T
    <3>1. i \in 1 .. Len(s) /\ s[i].tag = "INJECT>"
      BY DEF Injected
    <3>2. CASE i < p
      <4>1. i \in 1 .. Len(t) /\ i # p /\ t[i] = s[i] /\ f[i] = i
        BY <1>1, <3>1, <3>2
      <4>2. QED BY <3>1, <4>1 DEF Injected
    <3>3. CASE i >= p
      <4>1. i + 1 \in 1 .. Len(t) /\ i + 1 # p /\ t[i + 1] = s[i] /\ f[i] = i + 1
        BY <1>1, <3>1, <3>3
      <4>2. QED BY <3>1, <4>1 DEF Injected
    <3>4. QED BY <1>1, <3>1, <3>2, <3>3
  <2>2. \A i, j \in S : f[i] = f[j] => i = j
    BY <1>1 DEF Injected
  <2>3. ASSUME NEW j \in T PROVE \E i \in S : f[i] = j
    <3>1. CASE j < p
      BY <1>1, <3>1 DEF Injected
    <3>2. CASE j > p
      <4>1. j - 1 \in S /\ f[j - 1] = j
        BY <1>1, <3>2 DEF Injected
      <4>2. QED BY <4>1
    <3>3. j \in 1 .. Len(t) /\ j # p
      BY DEF Injected
    <3>4. QED BY <1>1, <3>1, <3>2, <3>3
  <2> HIDE DEF f, S, T
  <2>4. f \in [S -> T]
    BY <2>1 DEF f
  <2>5. QED BY <2>2, <2>3, <2>4 DEF Bijection, Injection, Surjection, IsInjective
<1>3. IsFiniteSet(S) /\ Cardinality(S) \in Nat /\ IsFiniteSet(Injected(t))
      /\ Cardinality(Injected(t)) \in Nat
  BY <1>1, InjectedFinite
<1> HIDE DEF f
<1>4. Cardinality(T) = Cardinality(S)
  <2>1. ExistsBijection(S, T)
    BY <1>2 DEF ExistsBijection
  <2>2. QED BY <1>3, <2>1, FS_Bijection
<1>5. Cardinality(T) = IF p \in Injected(t) THEN Cardinality(Injected(t)) - 1
                       ELSE Cardinality(Injected(t))
  BY <1>3, FS_RemoveElement
<1>6. p \in Injected(t) <=> x.tag = "INJECT>"
  BY <1>1 DEF Injected
<1>7. QED BY <1>3, <1>4, <1>5, <1>6

Answered == TypeOK /\ Cardinality(Injected(Stream)) = accepted

LEMMA AnsweredNext == Answered /\ [Next]_vars => Answered'
<1> SUFFICES ASSUME Answered, [Next]_vars PROVE Answered'
  OBVIOUS
<1>1. TypeOK /\ TypeOK' /\ Stream \in Seq(Items)
  BY TypeNext, StreamType DEF Answered
<1>2. CASE ForwardPacket
  <2> DEFINE item == RewriteC2sSeq(ThisPacket)
  <2>1. /\ item \in Items /\ item.tag = "C2S>"
        /\ Inserted(Stream, Stream', Len(Stream) + 1, item)
    BY <1>1, <1>2, ForwardInserts, BoundAssumption
  <2>2. accepted' = accepted
    BY <1>2 DEF ForwardPacket
  <2> HIDE DEF item
  <2>3. Cardinality(Injected(Stream')) = Cardinality(Injected(Stream))
    BY <1>1, <2>1, InsertCounts
  <2>4. QED BY <1>1, <2>2, <2>3 DEF Answered, Injected
<1>3. CASE Inject
  <2>1. CASE /\ accepted' = accepted + 1 /\ InjectItem \in Items
             /\ Inserted(Stream, Stream', Len(Stream) - Len(held) + 1, InjectItem)
    <3>1. InjectItem.tag = "INJECT>"
      BY DEF InjectItem
    <3>2. Cardinality(Injected(Stream')) = Cardinality(Injected(Stream)) + 1
      BY <1>1, <2>1, <3>1, InsertCounts
    <3>3. QED BY <1>1, <2>1, <3>2 DEF Answered, Injected
  <2>2. CASE UNCHANGED accepted /\ Stream' = Stream
    BY <1>1, <2>2 DEF Answered, Injected
  <2>3. QED BY <1>1, <1>3, <2>1, <2>2, InjectInserts
<1>4. CASE ~ForwardPacket /\ ~Inject
  <2>1. Stream' = Stream
    BY <1>1, <1>4, StreamStays
  <2>2. accepted' = accepted
    BY <1>4 DEF Next, PumpC2s, PumpUpstreamSend, Teardown, ReadChunk, ResumePut, FinishChunk,
       RejectHeader, ClientEOF, WriteBatch, Linger, EndLinger, Drained, DrainTimeout, CancelPump,
       CancelSender, CancelS2c, Finally, EndRun,
              PrimeS2cState, PrimeAgain, S2cEOF,
       StartObserve, Observe, Close, Flushed,
       CloseTransports,
       vars
  <2>3. QED BY <1>1, <2>1, <2>2 DEF Answered, Injected
<1>5. QED BY <1>2, <1>3, <1>4

(* A caller of inject was told of success exactly as often as an injected  *)
(* packet was queued, held or sent: none is lost, doubled or left behind   *)
(* by an injection that raised, whatever the queue holds and wherever the  *)
(* numbers of the session wrap.                                            *)
THEOREM InjectionsAnswered == Spec => []AnsweredInjections
<1>1. Init => Answered
  <2> SUFFICES ASSUME Init PROVE Answered
    OBVIOUS
  <2>1. Stream = <<>> /\ Len(<<>>) = 0
    BY EmptySeq, ConcatEmptySeq DEF Init, Stream
  <2>2. Injected(Stream) = {}
    BY <2>1 DEF Injected
  <2>3. QED BY <2>2, TypeInit, FS_EmptySet DEF Answered, Init
<1>2. Answered => AnsweredInjections
  BY DEF Answered, AnsweredInjections, Injected
<1>3. QED BY <1>1, <1>2, AnsweredNext, PTL DEF Spec

-----------------------------------------------------------------------------
(* The session implements SeqNumbers.                                      *)

Issued == First + Len(Stream)

Written == {Unwrapped(sent[i].seq) : i \in 1 .. Len(sent)}

LEMMA Associative ==
    \A s, t, u \in Seq(Items) : (s \o t) \o u = s \o (t \o u)
BY ConcatAssociative

LEMMA SentStartsStream ==
    ASSUME TypeOK
    PROVE  /\ Len(sent) \in Nat /\ Len(Stream) \in Nat /\ Len(sent) <= Len(Stream)
           /\ \A i \in 1 .. Len(sent) : Stream[i] = sent[i]
<1>1. sent \in Seq(Items) /\ hand \in Seq(Items) /\ outq \in Seq(Items) /\ held \in Seq(Items)
  BY DEF TypeOK
<1>2. hand \o outq \o held \in Seq(Items) /\ hand \o outq \in Seq(Items)
  BY <1>1, ConcatProperties
<1>3. Stream = sent \o (hand \o outq \o held)
  <2>1. (sent \o hand) \o outq = sent \o (hand \o outq)
    BY <1>1, Associative, Zenon
  <2>2. (sent \o (hand \o outq)) \o held = sent \o ((hand \o outq) \o held)
    BY <1>1, <1>2, Associative, Zenon
  <2>3. QED BY <2>1, <2>2 DEF Stream
<1> DEFINE rest == hand \o outq \o held
<1>4. rest \in Seq(Items) /\ Stream = sent \o rest
  BY <1>2, <1>3
<1> HIDE DEF rest
<1>5. /\ Len(sent \o rest) = Len(sent) + Len(rest)
      /\ \A i \in 1 .. Len(sent) + Len(rest) :
            (sent \o rest)[i] = IF i <= Len(sent) THEN sent[i] ELSE rest[i - Len(sent)]
  BY <1>1, <1>4, ConcatProperties
<1>6. Len(sent) \in Nat /\ Len(rest) \in Nat
  BY <1>1, <1>4, LenProperties
<1>7. QED BY <1>4, <1>5, <1>6

LEMMA WrittenIsIssued == IInv => Written \subseteq First .. Issued - 1
<1> SUFFICES ASSUME IInv, NEW i \in 1 .. Len(sent)
             PROVE  Unwrapped(sent[i].seq) \in First .. Issued - 1
  BY DEF Written
<1>1. i \in 1 .. Len(Stream) /\ Stream[i] = sent[i]
  BY SentStartsStream DEF IInv
<1>2. Number(Stream, i) \in First .. First + Len(Stream) - 1
  BY <1>1 DEF IInv, Good, InRange
<1>3. Number(Stream, i) = Unwrapped(sent[i].seq)
  BY <1>1 DEF Number
<1>4. First + Len(Stream) - 1 = Issued - 1
  <2>1. Len(Stream) \in Nat /\ First \in Nat
    BY SentStartsStream, BoundAssumption DEF IInv, BoundAssumption
  <2>2. QED BY <2>1 DEF Issued
<1>5. Unwrapped(sent[i].seq) \in First .. First + Len(Stream) - 1
  BY <1>2, <1>3, Zenon
<1>6. QED BY <1>4, <1>5, Zenon

(* Writing a batch keeps what was written.                                 *)
LEMMA BatchGrows ==
    ASSUME TypeOK, FillAndWrite(hand)
    PROVE  /\ Len(sent) <= Len(sent')
           /\ \A i \in 1 .. Len(sent) : i \in 1 .. Len(sent') /\ sent'[i] = sent[i]
<1>1. PICK n \in 0 .. Len(outq) : sent' = sent \o hand \o SubSeq(outq, 1, n)
  BY DEF FillAndWrite
<1>2. sent \in Seq(Items) /\ hand \in Seq(Items) /\ SubSeq(outq, 1, n) \in Seq(Items)
  BY TakePrefix DEF TypeOK
<1> DEFINE rest == hand \o SubSeq(outq, 1, n)
<1>3. rest \in Seq(Items) /\ sent' = sent \o rest
  <2>1. rest \in Seq(Items)
    BY <1>2, ConcatProperties
  <2>2. sent' = sent \o rest
    BY <1>1, <1>2, Associative, Zenon
  <2>3. QED BY <2>1, <2>2
<1> HIDE DEF rest
<1>4. /\ Len(sent') = Len(sent) + Len(rest)
      /\ \A i \in 1 .. Len(sent) + Len(rest) :
            sent'[i] = IF i <= Len(sent) THEN sent[i] ELSE rest[i - Len(sent)]
  BY <1>2, <1>3, ConcatProperties
<1>5. Len(sent) \in Nat /\ Len(rest) \in Nat
  BY <1>2, <1>3, LenProperties
<1>6. QED BY <1>4, <1>5

LEMMA BatchExtends ==
    ASSUME TypeOK, FillAndWrite(hand) PROVE Written \subseteq Written'
BY BatchGrows DEF Written

LEMMA InsertPutsIn ==
    ASSUME NEW s \in Seq(Items), NEW t, NEW p, NEW x, Inserted(s, t, p, x)
    PROVE  PutIn(s, t)
<1>1. /\ Len(s) \in Nat /\ p \in 1 .. Len(s) + 1 /\ Len(t) = Len(s) + 1
      /\ \A i \in 1 .. Len(t) : t[i] = IF i < p THEN s[i] ELSE IF i = p THEN x ELSE s[i - 1]
  BY LenProperties DEF Inserted
<1>2. ASSUME NEW i \in 1 .. Len(s) PROVE t[IF i < p THEN i ELSE i + 1] = s[i]
  <2>1. CASE i < p
    BY <1>1, <2>1
  <2>2. CASE ~(i < p)
    <3>1. i + 1 \in 1 .. Len(t) /\ ~(i + 1 < p) /\ i + 1 # p /\ i + 1 - 1 = i
      BY <1>1, <2>2
    <3>2. QED BY <1>1, <2>2, <3>1
  <2>3. QED BY <2>1, <2>2
<1>3. QED BY <1>1, <1>2 DEF PutIn

LEMMA SentGrows ==
    ASSUME TypeOK, [Next]_vars
    PROVE  Len(sent) <= Len(sent') /\ \A i \in 1 .. Len(sent) : sent'[i] = sent[i]
<1>1. Len(sent) <= Len(sent)
  <2>1. Len(sent) \in Nat
    BY LenProperties DEF TypeOK
  <2>2. QED BY <2>1
<1>2. CASE WriteBatch
  <2>1. hand = <<>>
    BY <1>2 DEF WriteBatch, TypeOK
  <2>2. FillAndWrite(hand)
    BY <1>2, <2>1 DEF WriteBatch
  <2>3. QED BY <2>2, BatchGrows
<1>3. CASE EndLinger
  BY <1>3, BatchGrows DEF EndLinger
<1>4. CASE ~WriteBatch /\ ~EndLinger
  <2>1. sent' = sent
    BY <1>4 DEF Next, PumpC2s, PumpUpstreamSend, Teardown, ReadChunk, ResumePut, FinishChunk,
       RejectHeader, ClientEOF, ForwardPacket, Inject, Linger, Drained, DrainTimeout, CancelPump,
       CancelSender, CancelS2c, Finally, EndRun,
              PrimeS2cState, PrimeAgain, S2cEOF,
       StartObserve, Observe, Close, Flushed,
       CloseTransports,
       writer, vars
  <2>2. QED BY <1>1, <2>1
<1>5. QED BY <1>2, <1>3, <1>4

(* Whatever the client sent and inject accepted stays on its way up until  *)
(* the transport has it (_pump_c2s, inject, _pump_upstream_send), whatever *)
(* the lengths of the queue, the batches and the connection.               *)
THEOREM NothingNumberedIsLost == Spec => NothingIsLost
<1>1. ASSUME TypeOK, [Next]_vars
      PROVE  Stream' = Stream \/ PutIn(Stream, Stream')
  <2>1. Stream \in Seq(Items)
    BY <1>1, StreamType
  <2>2. CASE ForwardPacket
    BY <1>1, <2>1, <2>2, ForwardInserts, InsertPutsIn, BoundAssumption
  <2>3. CASE Inject
    BY <1>1, <2>1, <2>3, InjectInserts, InsertPutsIn
  <2>4. CASE ~ForwardPacket /\ ~Inject
    BY <1>1, <2>4, StreamStays
  <2>5. QED BY <2>2, <2>3, <2>4
<1>2. TypeOK /\ [Next]_vars =>
        [/\ Stream' = Stream \/ PutIn(Stream, Stream')
         /\ Len(sent) <= Len(sent') /\ \A i \in 1 .. Len(sent) : sent'[i] = sent[i]]_vars
  BY <1>1, SentGrows
<1>3. QED BY <1>2, TypeCorrect, PTL DEF Spec, NothingIsLost

LEMMA PromiseStep ==
    ASSUME NoReuse PROVE IInv /\ [Next]_vars => [Promise!Next]_<<Issued, Written>>
<1> SUFFICES ASSUME IInv, [Next]_vars PROVE [Promise!Next]_<<Issued, Written>>
  OBVIOUS
<1>1. IInv'
  BY InvNext
<1>2. CASE ForwardPacket \/ Inject
  <2>1. Written' = Written
    BY <1>2 DEF ForwardPacket, Inject, writer, Written
  <2>2. Len(Stream)' = Len(Stream) + 1 \/ Len(Stream)' = Len(Stream)
    <3>1. Len(Stream) = (cnext - First) + offset /\ Len(Stream)' = (cnext' - First) + offset'
      BY <1>1 DEF IInv, Counting
    <3>2. cnext \in Nat /\ offset \in Nat /\ First \in Nat
      BY BoundAssumption DEF IInv, TypeOK, BoundAssumption
    <3>3. (cnext' = cnext + 1 /\ offset' = offset) \/ (cnext' = cnext /\ offset' \in {offset, offset + 1})
      BY <1>2 DEF ForwardPacket, Inject, reader
    <3>4. QED BY <3>1, <3>2, <3>3
  <2>3. Issued' = Issued + 1 \/ Issued' = Issued
    BY <2>2, SentStartsStream, BoundAssumption DEF Issued, IInv, BoundAssumption
  <2>4. QED BY <2>1, <2>3 DEF Promise!Next, Promise!Issue, Issued, Written
<1>3. CASE ~ForwardPacket /\ ~Inject
  <2>1. Issued' = Issued
    BY <1>3, StreamStays DEF Issued, IInv
  <2>2. Written \subseteq Written'
    <3>1. CASE WriteBatch \/ EndLinger
      <4>1. FillAndWrite(hand)
        BY <3>1 DEF WriteBatch, EndLinger, IInv, TypeOK
      <4>2. QED BY <4>1, BatchExtends DEF IInv
    <3>2. CASE ~WriteBatch /\ ~EndLinger
      <4>1. sent' = sent
        BY <1>3, <3>2 DEF Next, PumpC2s, PumpUpstreamSend, Teardown, ReadChunk, ResumePut,
           FinishChunk, RejectHeader, ClientEOF, Linger, Drained, DrainTimeout, CancelPump,
           CancelSender, CancelS2c, Finally, EndRun,
              PrimeS2cState, PrimeAgain, S2cEOF,
       StartObserve, Observe, Close, Flushed,
       CloseTransports,
           writer, vars
      <4>2. QED BY <4>1 DEF Written
    <3>3. QED BY <3>1, <3>2
  <2>3. Written' \subseteq First .. Issued - 1
    <3>1. (Written \subseteq First .. Issued - 1)'
      BY <1>1, WrittenIsIssued, PTL
    <3>2. QED BY <2>1, <3>1
  <2> DEFINE batch == Written' \ Written
  <2>4. batch \in SUBSET ((First .. Issued - 1) \ Written) /\ Written' = Written \union batch
    BY <2>2, <2>3
  <2>5. CASE batch = {}
    BY <2>1, <2>4, <2>5
  <2>6. CASE batch # {}
    <3>1. Promise!Write
      BY <2>1, <2>4, <2>6 DEF Promise!Write, Issued, Written
    <3>2. QED BY <3>1 DEF Promise!Next
  <2>7. QED BY <2>5, <2>6
<1>4. QED BY <1>2, <1>3

(* Each number of a connection is issued in turn and written at most once, *)
(* whatever is queued, lingers, waits or injects (specification SeqNumbers)*)
THEOREM Implements == ASSUME NoReuse PROVE Spec => NumbersPromise
<1>1. Init => Promise!Init
  <2> SUFFICES ASSUME Init PROVE Promise!Init
    OBVIOUS
  <2>1. Stream = <<>> /\ sent = <<>> /\ Len(<<>>) = 0
    BY EmptySeq, ConcatEmptySeq DEF Init, Stream
  <2>2. QED BY <2>1, BoundAssumption DEF Promise!Init, BoundAssumption
<1>2. QED
  BY <1>1, Invariance, PromiseStep, PTL
     DEF Spec, NumbersPromise, Promise!Spec, Issued, Written
=============================================================================
