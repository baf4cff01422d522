--------------------------- MODULE S2CPath_proofs ---------------------------
(***************************************************************************)
(* Proofs about S2CPath for every number of packets, every size of reads   *)
(* and of the observe queue, and any number of keys and changes of the     *)
(* options.  The second half, from HasAck on, shows that the session key   *)
(* is held: CipherHeals and KeyKnown.                                      *)
(***************************************************************************)
EXTENDS S2CPath, SequenceTheorems, TLAPS

Half == 1 .. 2 * PacketMax
Pkts == 1 .. PacketMax

-----------------------------------------------------------------------------
(* Facts about sequences of halves.                                        *)

(* Halves is the sequence of the numbers first .. last.                    *)
LEMMA HalvesFact ==
    ASSUME NEW first \in Nat \ {0}, NEW last \in Nat, first - 1 <= last
    PROVE  /\ Halves(first, last) \in Seq(first .. last)
           /\ Len(Halves(first, last)) = last - first + 1
           /\ \A i \in 1 .. last - first + 1 : Halves(first, last)[i] = first - 1 + i
<1> DEFINE n == last - first + 1
<1>1. n \in Nat
  OBVIOUS
<1>2. \A i \in 1 .. n : first - 1 + i \in first .. last
  OBVIOUS
<1>3. Halves(first, last) \in [1 .. n -> first .. last]
  BY <1>1, <1>2 DEF Halves
<1>4. Halves(first, last) \in Seq(first .. last)
  BY <1>1, <1>3, SeqDef
<1>5. Len(Halves(first, last)) = n
  <2>1. DOMAIN Halves(first, last) = 1 .. n
    BY DEF Halves
  <2>2. QED BY <1>1, <1>4, <2>1, LenProperties
<1>6. \A i \in 1 .. n : Halves(first, last)[i] = first - 1 + i
  BY DEF Halves
<1>7. QED BY <1>4, <1>5, <1>6

(* Sums of lengths.                                                        *)
LEMMA SumsAssociate ==
    /\ \A x, y, z, g \in Nat : x + y = g => x + (y + z) = g + z
    /\ \A x \in Nat : x + 0 = x /\ 0 + x = x
    /\ \A x, y, g \in Nat : x + y = g => x + 2 + (y - 2) = g
OBVIOUS

(* The first two elements of a sequence of halves, and the others.         *)
LEMMA HeadPart ==
    ASSUME NEW b, Len(b) \in Nat, Len(b) >= 2, \A i \in 1 .. Len(b) : b[i] \in Nat
    PROVE  /\ SubSeq(b, 1, 2) \in Seq(Nat) /\ Len(SubSeq(b, 1, 2)) = 2
           /\ \A i \in 1 .. 2 : SubSeq(b, 1, 2)[i] = b[i]
           /\ SubSeq(b, 3, Len(b)) \in Seq(Nat) /\ Len(SubSeq(b, 3, Len(b))) = Len(b) - 2
           /\ \A i \in 1 .. Len(b) - 2 : SubSeq(b, 3, Len(b))[i] = b[i + 2]
<1> DEFINE p == SubSeq(b, 1, 2)  r == SubSeq(b, 3, Len(b))
<1>1. p \in Seq(Nat) /\ Len(p) = 2 /\ \A i \in 1 .. 2 : p[i] = b[i]
  <2>1. \A i \in 1 .. 2 : b[i] \in Nat
    OBVIOUS
  <2>2. /\ p \in Seq(Nat) /\ Len(p) = IF 1 <= 2 THEN 2 - 1 + 1 ELSE 0
        /\ \A i \in 1 .. 2 - 1 + 1 : p[i] = b[1 + i - 1]
    BY <2>1, SubSeqProperties
  <2> HIDE DEF p
  <2>3. QED BY <2>2
<1>2. r \in Seq(Nat) /\ Len(r) = Len(b) - 2 /\ \A i \in 1 .. Len(b) - 2 : r[i] = b[i + 2]
  <2>1. \A i \in 3 .. Len(b) : b[i] \in Nat
    OBVIOUS
  <2>2. /\ r \in Seq(Nat) /\ Len(r) = IF 3 <= Len(b) THEN Len(b) - 3 + 1 ELSE 0
        /\ \A i \in 1 .. Len(b) - 3 + 1 : r[i] = b[3 + i - 1]
    BY <2>1, SubSeqProperties
  <2> HIDE DEF r
  <2>3. Len(r) = Len(b) - 2
    <3>1. Len(r) = IF 3 <= Len(b) THEN Len(b) - 3 + 1 ELSE 0
      BY <2>2
    <3>2. CASE 3 <= Len(b)
      BY <3>1, <3>2
    <3>3. CASE Len(b) = 2
      BY <3>1, <3>3
    <3>4. 3 <= Len(b) \/ Len(b) = 2
      <4>1. \A x \in Nat : x >= 2 => 3 <= x \/ x = 2
        OBVIOUS
      <4>2. QED BY <4>1, Zenon
    <3>5. QED BY <3>2, <3>3, <3>4
  <2>4. ASSUME NEW i \in 1 .. Len(b) - 2 PROVE r[i] = b[i + 2]
    <3>1. i \in 1 .. Len(b) - 3 + 1 /\ 3 + i - 1 = i + 2
      OBVIOUS
    <3>2. QED BY <2>2, <3>1
  <2>5. QED BY <2>2, <2>3, <2>4
<1>3. QED BY <1>1, <1>2

(* r is s followed by t, as two ranges.                                    *)
Joins(s, t, r) ==
    /\ Len(r) = Len(s) + Len(t)
    /\ \A i \in 1 .. Len(s) : r[i] = s[i]
    /\ \A i \in Len(s) + 1 .. Len(s) + Len(t) : r[i] = t[i - Len(s)]

LEMMA Joined ==
    ASSUME NEW S, NEW s \in Seq(S), NEW t \in Seq(S)
    PROVE  s \o t \in Seq(S) /\ Joins(s, t, s \o t)
<1> DEFINE r == s \o t
<1>1. Len(s) \in Nat /\ Len(t) \in Nat
  BY LenProperties
<1>2. /\ r \in Seq(S) /\ Len(r) = Len(s) + Len(t)
      /\ \A i \in 1 .. Len(s) + Len(t) : r[i] = IF i <= Len(s) THEN s[i] ELSE t[i - Len(s)]
  BY ConcatProperties
<1> HIDE DEF r
<1>3. ASSUME NEW i \in 1 .. Len(s) PROVE r[i] = s[i]
  BY <1>1, <1>2
<1>4. ASSUME NEW i \in Len(s) + 1 .. Len(s) + Len(t) PROVE r[i] = t[i - Len(s)]
  BY <1>1, <1>2
<1>5. QED BY <1>2, <1>3, <1>4 DEF Joins, r

(* Runs of consecutive numbers, k + 1, k + 2, ..., follow each other.      *)
Run(s, k) == \A i \in 1 .. Len(s) : s[i] = k + i

LEMMA RunsJoin ==
    ASSUME NEW s, NEW t, NEW r, NEW k \in Nat, Len(s) \in Nat, Len(t) \in Nat,
           Joins(s, t, r), Run(s, k), Run(t, k + Len(s))
    PROVE  Run(r, k)
<1> SUFFICES ASSUME NEW i \in 1 .. Len(s) + Len(t) PROVE r[i] = k + i
  BY DEF Run, Joins
<1>1. CASE i \in 1 .. Len(s)
  BY <1>1 DEF Run, Joins
<1>2. CASE i \in Len(s) + 1 .. Len(s) + Len(t)
  <2>1. i - Len(s) \in 1 .. Len(t)
    BY <1>2
  <2>2. r[i] = k + Len(s) + (i - Len(s))
    BY <1>2, <2>1 DEF Run, Joins
  <2>3. QED BY <2>2
<1>3. QED BY <1>1, <1>2

(* A run split after its second element.                                   *)
LEMMA RunSplits ==
    ASSUME NEW b, NEW p, NEW r, NEW k \in Nat, Len(b) \in Nat, Len(b) >= 2, Run(b, k),
           Len(p) = 2, \A i \in 1 .. 2 : p[i] = b[i],
           Len(r) = Len(b) - 2, \A i \in 1 .. Len(b) - 2 : r[i] = b[i + 2]
    PROVE  Run(p, k) /\ Run(r, k + 2)
<1>1. Run(p, k)
  BY DEF Run
<1>2. ASSUME NEW i \in 1 .. Len(b) - 2 PROVE r[i] = k + 2 + i
  <2>1. i + 2 \in 1 .. Len(b)
    OBVIOUS
  <2>2. r[i] = k + (i + 2)
    BY <2>1 DEF Run
  <2>3. QED BY <2>2
<1>3. QED BY <1>1, <1>2 DEF Run

(* Two runs of the same numbers are the same sequence.                     *)
LEMMA RunsEqual ==
    ASSUME NEW S, NEW s \in Seq(S), NEW t \in Seq(S), NEW k, Run(s, k), Run(t, k), Len(s) = Len(t)
    PROVE  s = t
<1>1. \A i \in 1 .. Len(s) : s[i] = t[i]
  BY DEF Run
<1>2. QED BY <1>1, SeqEqual

LEMMA HalvesRun ==
    ASSUME NEW g \in Nat, NEW n \in Nat
    PROVE  /\ Halves(g + 1, g + n) \in Seq(g + 1 .. g + n)
           /\ Len(Halves(g + 1, g + n)) = n /\ Run(Halves(g + 1, g + n), g)
<1>1. g + 1 \in Nat \ {0} /\ g + n \in Nat /\ g + 1 - 1 <= g + n
  OBVIOUS
<1> DEFINE h == Halves(g + 1, g + n)
<1>2. /\ h \in Seq(g + 1 .. g + n) /\ Len(h) = g + n - (g + 1) + 1
      /\ \A i \in 1 .. g + n - (g + 1) + 1 : h[i] = g + 1 - 1 + i
  <2>1. \A f \in Nat \ {0}, l \in Nat : f - 1 <= l =>
            /\ Halves(f, l) \in Seq(f .. l) /\ Len(Halves(f, l)) = l - f + 1
            /\ \A i \in 1 .. l - f + 1 : Halves(f, l)[i] = f - 1 + i
    BY HalvesFact
  <2>2. QED BY <1>1, <2>1
<1> HIDE DEF h
<1>3. g + n - (g + 1) + 1 = n /\ \A i \in 1 .. n : g + 1 - 1 + i = g + i
  OBVIOUS
<1>4. h \in Seq(g + 1 .. g + n) /\ Len(h) = n /\ \A i \in 1 .. n : h[i] = g + i
  BY <1>2, <1>3
<1>5. QED BY <1>4 DEF Run, h

LEMMA StreamRun ==
    ASSUME NEW g \in Nat
    PROVE  Halves(1, g) \in Seq(1 .. g) /\ Len(Halves(1, g)) = g /\ Run(Halves(1, g), 0)
<1>1. 0 \in Nat /\ 0 + 1 = 1 /\ 0 + g = g
  OBVIOUS
<1>2. \A f, n \in Nat : /\ Halves(f + 1, f + n) \in Seq(f + 1 .. f + n)
                        /\ Len(Halves(f + 1, f + n)) = n /\ Run(Halves(f + 1, f + n), f)
  BY HalvesRun
<1>3. QED BY <1>1, <1>2

-----------------------------------------------------------------------------
(* o has been written, b is buffered, and together they are the first g    *)
(* halves of the stream, in order.                                         *)
Placed(o, b, g) == Len(o) + Len(b) = g /\ Run(o, 0) /\ Run(b, Len(o))

LEMMA PlacedIsStream ==
    ASSUME NEW S, NEW o \in Seq(S), NEW b \in Seq(S), NEW g \in Nat, Placed(o, b, g)
    PROVE  o \o b = Halves(1, g)
<1> DEFINE T == S \union 1 .. g  r == o \o b
<1>1. Len(o) \in Nat /\ Len(b) \in Nat
  BY LenProperties
<1>2. r \in Seq(S) /\ Joins(o, b, r)
  BY Joined
<1>3. Halves(1, g) \in Seq(1 .. g) /\ Len(Halves(1, g)) = g /\ Run(Halves(1, g), 0)
  BY StreamRun
<1>4. r \in Seq(T) /\ Halves(1, g) \in Seq(T)
  <2>1. S \subseteq T /\ (1 .. g) \subseteq T
    OBVIOUS
  <2> HIDE DEF T, r
  <2>2. \A U, V : U \subseteq V => \A q \in Seq(U) : q \in Seq(V)
    BY SeqMonotonic
  <2>3. QED BY <1>2, <1>3, <2>1, <2>2
<1> HIDE DEF r, T
<1>5. Run(r, 0) /\ Len(r) = g
  <2>1. 0 \in Nat /\ 0 + Len(o) = Len(o)
    BY <1>1
  <2>2. Run(r, 0)
    BY <1>1, <1>2, <2>1, RunsJoin DEF Placed
  <2>3. QED BY <1>2, <2>2 DEF Placed, Joins
<1>6. r = Halves(1, g)
  BY <1>3, <1>4, <1>5, RunsEqual
<1>7. QED BY <1>6 DEF r

(* Reading on into the buffer, and straight to the client.                 *)
LEMMA PlacedRead ==
    ASSUME NEW o \in Seq(Nat), NEW b \in Seq(Nat), NEW g \in Nat, NEW n \in Nat,
           Placed(o, b, g)
    PROVE  /\ Placed(o, b \o Halves(g + 1, g + n), g + n)
           /\ b = <<>> => Placed(o \o Halves(g + 1, g + n), b, g + n)
<1> DEFINE h == Halves(g + 1, g + n)
<1>1. Len(o) \in Nat /\ Len(b) \in Nat
  BY LenProperties
<1>2. h \in Seq(Nat) /\ Len(h) = n /\ Run(h, g)
  <2>1. h \in Seq(g + 1 .. g + n) /\ Len(h) = n /\ Run(h, g)
    BY HalvesRun
  <2>2. (g + 1 .. g + n) \subseteq Nat
    OBVIOUS
  <2> HIDE DEF h
  <2>3. QED BY <2>1, <2>2, SeqMonotonic
<1> HIDE DEF h
<1>3. Joins(b, h, b \o h) /\ Joins(o, h, o \o h)
  BY <1>2, Joined
<1>4. Placed(o, b \o h, g + n)
  <2>1. Run(b \o h, Len(o))
    BY <1>1, <1>2, <1>3, RunsJoin DEF Placed
  <2>2. Len(o) + Len(b \o h) = g + n
    BY <1>1, <1>2, <1>3, SumsAssociate DEF Placed, Joins
  <2>3. QED BY <2>1, <2>2 DEF Placed
<1>5. ASSUME b = <<>> PROVE Placed(o \o h, b, g + n)
  <2>1. Len(b) = 0
    BY <1>5
  <2>2. Len(o) = g
    BY <1>1, <2>1, SumsAssociate DEF Placed
  <2>3. Run(o \o h, 0)
    <3>1. 0 \in Nat /\ 0 + Len(o) = Len(o)
      BY <1>1, SumsAssociate
    <3>2. QED BY <1>1, <1>2, <1>3, <2>2, <3>1, RunsJoin DEF Placed
  <2>4. Run(b, Len(o \o h))
    <3>1. \A i \in 1 .. 0 : b[i] = Len(o \o h) + i
      OBVIOUS
    <3>2. QED BY <2>1, <3>1 DEF Run
  <2>5. Len(o \o h) + Len(b) = g + n
    BY <1>2, <1>3, <2>1, <2>2, SumsAssociate DEF Joins
  <2>6. QED BY <2>3, <2>4, <2>5 DEF Placed
<1>6. QED BY <1>4, <1>5 DEF h

(* Writing all of the buffer.                                              *)
LEMMA PlacedFlushed ==
    ASSUME NEW o \in Seq(Nat), NEW b \in Seq(Nat), NEW g \in Nat, Placed(o, b, g)
    PROVE  Placed(o \o b, <<>>, g) /\ Len(o \o b) = g
<1>1. o \o b = Halves(1, g)
  BY PlacedIsStream
<1>2. Len(Halves(1, g)) = g /\ Run(Halves(1, g), 0)
  BY StreamRun
<1>3. Len(<<>>) = 0 /\ g + 0 = g /\ Run(<<>>, g)
  <2>1. Len(<<>>) = 0 /\ \A i \in 1 .. 0 : <<>>[i] = g + i
    OBVIOUS
  <2>2. QED BY <2>1, SumsAssociate DEF Run
<1>4. QED BY <1>1, <1>2, <1>3 DEF Placed

(* Writing the packet at the head of the buffer.                           *)
LEMMA PlacedForward ==
    ASSUME NEW o \in Seq(Nat), NEW b \in Seq(Nat), NEW g \in Nat, Placed(o, b, g), Len(b) >= 2
    PROVE  /\ Placed(o \o SubSeq(b, 1, 2), SubSeq(b, 3, Len(b)), g)
           /\ Len(o \o SubSeq(b, 1, 2)) = Len(o) + 2
<1> DEFINE p == SubSeq(b, 1, 2)  r == SubSeq(b, 3, Len(b))  w == o \o p
<1>1. Len(o) \in Nat /\ Len(b) \in Nat /\ \A i \in 1 .. Len(b) : b[i] \in Nat
  BY LenProperties, ElementOfSeq
<1>2. p \in Seq(Nat) /\ Len(p) = 2 /\ \A i \in 1 .. 2 : p[i] = b[i]
  BY <1>1, HeadPart
<1>3. Len(r) = Len(b) - 2 /\ \A i \in 1 .. Len(b) - 2 : r[i] = b[i + 2]
  BY <1>1, HeadPart
<1>4. Joins(o, p, w)
  BY <1>2, Joined
<1> HIDE DEF p, r, w
<1>5. Run(p, Len(o)) /\ Run(r, Len(o) + 2)
  BY <1>1, <1>2, <1>3, RunSplits DEF Placed
<1>6. Run(w, 0) /\ Len(w) = Len(o) + 2
  <2>1. 0 \in Nat /\ 0 + Len(o) = Len(o) /\ 2 \in Nat
    BY <1>1, SumsAssociate
  <2>2. Run(w, 0)
    <3>1. Len(p) \in Nat /\ Run(o, 0) /\ Run(p, 0 + Len(o))
      BY <1>2, <1>5, <2>1 DEF Placed
    <3>2. QED BY <1>1, <1>4, <2>1, <3>1, RunsJoin
  <2>3. QED BY <1>2, <1>4, <2>2 DEF Joins
<1>7. Len(w) + Len(r) = g
  <2>1. Len(o) + Len(b) = g /\ Len(w) = Len(o) + 2 /\ Len(r) = Len(b) - 2
    BY <1>3, <1>6 DEF Placed
  <2>2. \A x, y, z \in Nat : x + y = z => x + 2 + (y - 2) = z
    BY SumsAssociate
  <2>3. Len(o) + 2 + (Len(b) - 2) = g
    BY <1>1, <2>1, <2>2, Zenon
  <2>4. QED BY <2>1, <2>3, Zenon
<1>8. QED BY <1>5, <1>6, <1>7 DEF Placed, p, r, w

(* Parts of a sequence of packets, and of the queue they are put into.     *)
LEMMA PartOfPackets ==
    ASSUME NEW S, NEW s \in Seq(S), NEW a \in Nat \ {0}, NEW b \in 0 .. Len(s)
    PROVE  /\ SubSeq(s, a, b) \in Seq(S)
           /\ \A i \in 1 .. Len(SubSeq(s, a, b)) : \E j \in 1 .. Len(s) : SubSeq(s, a, b)[i] = s[j]
<1>1. Len(s) \in Nat /\ \A i \in 1 .. Len(s) : s[i] \in S
  BY LenProperties, ElementOfSeq
<1>2. \A i \in a .. b : s[i] \in S
  BY <1>1
<1>3. /\ SubSeq(s, a, b) \in Seq(S)
      /\ Len(SubSeq(s, a, b)) = IF a <= b THEN b - a + 1 ELSE 0
      /\ \A i \in 1 .. b - a + 1 : SubSeq(s, a, b)[i] = s[a + i - 1]
  BY <1>1, <1>2, SubSeqProperties
<1>4. ASSUME NEW i \in 1 .. Len(SubSeq(s, a, b))
      PROVE  \E j \in 1 .. Len(s) : SubSeq(s, a, b)[i] = s[j]
  <2>1. a <= b /\ i \in 1 .. b - a + 1
    BY <1>1, <1>3
  <2>2. a + i - 1 \in 1 .. Len(s) /\ SubSeq(s, a, b)[i] = s[a + i - 1]
    BY <1>1, <1>3, <2>1
  <2>3. QED BY <2>2
<1>5. QED BY <1>3, <1>4

-----------------------------------------------------------------------------
(* The inductive invariant.                                                *)

NoAcks(s) == \A i \in 1 .. Len(s) : server[s[i]] \notin Keys

(* Passthrough is in force: what is read now goes straight to the client.  *)
Through == cipher # NoKey /\ passthrough

(* What is written and what is buffered continue each other, ...           *)
InPlace == ~torn => Placed(out, buf, got)

(* ... packets are written whole until passthrough is in force, ...        *)
WholePackets == ~torn /\ ~Through => Len(out) % 2 = 0

(* ... then nothing is buffered, ...                                       *)
NothingBehind == ~torn /\ Through => pump # "parse" /\ buf = <<>>

(* ... and outside of the inner loop never more than the half of a packet. *)
HalfBehind == ~torn /\ pump # "parse" => Len(buf) <= 1

(* Packets in observation bring a key only after the pump has seen one.    *)
KeyBeforeObserver == cipher = NoKey => NoAcks(thread) /\ NoAcks(obsq) /\ NoAcks(observed)

IInv == /\ TypeOK /\ InPlace /\ WholePackets /\ NothingBehind /\ HalfBehind
        /\ KeyBeforeObserver /\ NotRejected

-----------------------------------------------------------------------------
(* Small facts for the steps.                                              *)

LEMMA PacketType ==
    ASSUME NEW h \in Half
    PROVE  Packet(h) \in Pkts
BY LimitAssumption DEF Half, Pkts, Packet

LEMMA HalfIsNat ==
    /\ Half \subseteq Nat
    /\ \A q \in Seq(Half) : q \in Seq(Nat) /\ Len(q) \in Nat /\ \A i \in 1 .. Len(q) : q[i] \in Half
<1>1. Half \subseteq Nat
  BY LimitAssumption DEF Half
<1> HIDE DEF Half
<1>2. QED BY <1>1, SeqMonotonic, LenProperties, ElementOfSeq

LEMMA HalvesType ==
    ASSUME NEW g \in Nat, NEW n \in Nat, g + n <= 2 * PacketMax
    PROVE  Halves(g + 1, g + n) \in Seq(Half)
<1>1. Halves(g + 1, g + n) \in Seq(g + 1 .. g + n)
  BY HalvesRun
<1>2. (g + 1 .. g + n) \subseteq Half
  BY LimitAssumption DEF Half
<1>3. \A U, V : U \subseteq V => \A q \in Seq(U) : q \in Seq(V)
  BY SeqMonotonic
<1>4. QED BY <1>1, <1>2, <1>3

(* What has been written is half-typed and whatever is left to write too.  *)
LEMMA ForwardType ==
    ASSUME NEW o \in Seq(Half), NEW b \in Seq(Half), Len(b) >= 2
    PROVE  /\ o \o b \in Seq(Half) /\ o \o SubSeq(b, 1, 2) \in Seq(Half)
           /\ SubSeq(b, 3, Len(b)) \in Seq(Half)
<1>1. Len(b) \in Nat
  BY LenProperties
<1>2. 1 \in Nat \ {0} /\ 3 \in Nat \ {0} /\ 2 \in 0 .. Len(b) /\ Len(b) \in 0 .. Len(b)
  <2>1. \A x \in Nat : x >= 2 => 2 \in 0 .. x /\ x \in 0 .. x
    OBVIOUS
  <2>2. QED BY <1>1, <2>1
<1>3. SubSeq(b, 1, 2) \in Seq(Half) /\ SubSeq(b, 3, Len(b)) \in Seq(Half)
  BY <1>2, PartOfPackets
<1>4. QED BY <1>3, ConcatProperties

(* The parity of a packet that is written whole.                           *)
LEMMA Parity ==
    /\ \A x \in Nat : x % 2 = 0 => (x + 2) % 2 = 0
    /\ \A x, y \in Nat : x % 2 = 0 /\ (x + y) % 2 # 1 /\ y <= 1 => y = 0
    /\ \A x \in Nat : x % 2 = 0 => (x + 1) % 2 = 1
    /\ \A x \in Nat : x % 2 # 1 => x % 2 = 0
OBVIOUS

LEMMA QueueObserveFact ==
    ASSUME TypeOK, NEW pkts \in Seq(Pkts), QueueObserve(pkts)
    PROVE  /\ obsq' \in Seq(Pkts) /\ blind' \in BOOLEAN
           /\ NoAcks(obsq) /\ NoAcks(pkts) =>
                \A i \in 1 .. Len(obsq') : server[obsq'[i]] \notin Keys
<1> DEFINE room == IF ObserveMax > Len(obsq) THEN ObserveMax - Len(obsq) ELSE 0
           n == IF room < Len(pkts) THEN room ELSE Len(pkts)
           q == SubSeq(pkts, 1, n)
<1>1. obsq' = obsq \o q /\ blind' = (blind \/ SomeAck(SubSeq(pkts, n + 1, Len(pkts))))
  BY DEF QueueObserve
<1>2. Len(obsq) \in Nat /\ Len(pkts) \in Nat /\ obsq \in Seq(Pkts) /\ blind \in BOOLEAN
  BY LenProperties DEF TypeOK, Pkts
<1>3. 1 \in Nat \ {0} /\ n \in 0 .. Len(pkts)
  <2>1. \A x, y, z \in Nat :
          LET m == IF x > y THEN x - y ELSE 0 IN (IF m < z THEN m ELSE z) \in 0 .. z
    OBVIOUS
  <2>2. QED BY <1>2, <2>1, LimitAssumption
<1> HIDE DEF n
<1>4. q \in Seq(Pkts) /\ \A i \in 1 .. Len(q) : \E j \in 1 .. Len(pkts) : q[i] = pkts[j]
  BY <1>3, PartOfPackets
<1> HIDE DEF q
<1>5. obsq \o q \in Seq(Pkts) /\ Joins(obsq, q, obsq \o q) /\ Len(q) \in Nat
  BY <1>2, <1>4, Joined, LenProperties
<1>6. ASSUME NoAcks(obsq), NoAcks(pkts), NEW i \in 1 .. Len(obsq \o q)
      PROVE  server[(obsq \o q)[i]] \notin Keys
  <2>1. i \in 1 .. Len(obsq) \/ (i \in Len(obsq) + 1 .. Len(obsq) + Len(q) /\ i - Len(obsq) \in 1 .. Len(q))
    <3>1. \A x, y \in Nat : \A k \in 1 .. x + y :
             k \in 1 .. x \/ (k \in x + 1 .. x + y /\ k - x \in 1 .. y)
      OBVIOUS
    <3>2. QED BY <1>2, <1>5, <3>1 DEF Joins
  <2>2. CASE i \in 1 .. Len(obsq)
    BY <2>2, <1>5, <1>6 DEF Joins, NoAcks
  <2>3. CASE i \in Len(obsq) + 1 .. Len(obsq) + Len(q) /\ i - Len(obsq) \in 1 .. Len(q)
    <3>1. (obsq \o q)[i] = q[i - Len(obsq)]
      BY <2>3, <1>5 DEF Joins
    <3>2. QED BY <2>3, <3>1, <1>4, <1>6 DEF NoAcks
  <2>4. QED BY <2>1, <2>2, <2>3
<1>7. QED BY <1>1, <1>2, <1>5, <1>6

-----------------------------------------------------------------------------
(* Type correctness.                                                       *)

LEMMA TypeInit == Init => TypeOK
<1> SUFFICES ASSUME Init PROVE TypeOK
  OBVIOUS
<1>1. \A S : <<>> \in Seq(S)
  BY EmptySeq
<1>2. Len(<<>>) <= 1
  OBVIOUS
<1>3. got \in 0 .. 2 * PacketMax /\ switched \in Nat
  BY LimitAssumption DEF Init
<1>4. /\ server \in [1 .. PacketMax -> Keys \union {Data}]
      /\ buf = <<>> /\ out = <<>> /\ observed = <<>> /\ obsq = <<>> /\ thread = <<>>
      /\ pump = "read" /\ passthrough \in BOOLEAN /\ observing \in BOOLEAN
      /\ cipher = NoKey /\ emitted = NoKey /\ webKey = NoKey /\ newest = NoKey
      /\ primed \in BOOLEAN /\ torn \in BOOLEAN /\ blind \in BOOLEAN
  BY DEF Init
<1>5. QED BY <1>1, <1>2, <1>3, <1>4, Zenon DEF TypeOK, Places

LEMMA TypeStep == TypeOK /\ [Next]_vars => TypeOK'
<1> SUFFICES ASSUME TypeOK, [Next]_vars PROVE TypeOK'
  OBVIOUS
<1> USE LimitAssumption
<1>0. Half = 1 .. 2 * PacketMax /\ Pkts = 1 .. PacketMax
  BY DEF Half, Pkts
<1>1. CASE Read
  <2>1. PICK n \in 1 .. ReadMax :
          /\ got + n <= 2 * PacketMax /\ got' = got + n
          /\ LET data == Halves(got + 1, got + n)
             IN  IF cipher # NoKey /\ passthrough
                 THEN out' = out \o data /\ pump' = "drain" /\ UNCHANGED buf
                 ELSE buf' = buf \o data /\ pump' = "parse" /\ UNCHANGED out
    BY <1>1 DEF Read
  <2>2. got \in Nat /\ n \in Nat /\ got' \in 0 .. 2 * PacketMax
    BY <2>1 DEF TypeOK
  <2>3. Halves(got + 1, got + n) \in Seq(Half)
    BY <2>1, <2>2, HalvesType
  <2>4. out \in Seq(Half) /\ buf \in Seq(Half)
    BY <1>0 DEF TypeOK
  <2>5. out' \in Seq(Half) /\ buf' \in Seq(Half) /\ pump' \in {"parse", "drain"}
    BY <2>1, <2>3, <2>4, ConcatProperties
  <2>6. QED
    BY <1>0, <1>1, <2>2, <2>5
    DEF Read, TypeOK, options, key, worker, history, Places
<1>2. CASE ParsePacket
  <2> DEFINE pkt == Packet(buf[1])
  <2>1. buf \in Seq(Half) /\ out \in Seq(Half) /\ Len(buf) >= 2
    BY <1>0, <1>2 DEF ParsePacket, Complete, TypeOK
  <2>2. pkt \in Pkts
    <3>1. 1 \in 1 .. Len(buf)
      BY <2>1, LenProperties
    <3>2. QED BY <2>1, <3>1, ElementOfSeq, PacketType
  <2>3. out' \in Seq(Half) /\ buf' \in Seq(Half) /\ pump' \in {"parse", "drain"}
    <3>1. <<>> \in Seq(Half)
      BY EmptySeq
    <3>2. Forward(cipher' # NoKey /\ passthrough) /\ pump = "parse"
      BY <1>2 DEF ParsePacket
    <3>3. QED BY <2>1, <3>1, <3>2, ForwardType DEF Forward
  <2>4. observed' \in Seq(Pkts)
    <3>1. observed \in Seq(Pkts)
      BY <1>0 DEF TypeOK
    <3>2. Append(observed, pkt) \in Seq(Pkts)
      BY <2>2, <3>1, AppendProperties
    <3>3. observed' = IF observing THEN Append(observed, pkt) ELSE observed
      BY <1>2 DEF ParsePacket
    <3>4. QED BY <3>1, <3>2, <3>3
  <2>5. /\ cipher' \in Keys \union {NoKey} /\ newest' \in Keys \union {NoKey}
        /\ emitted' \in Keys \union {NoKey} /\ webKey' \in Keys \union {NoKey}
    <3>1. IF Ack(pkt)
          THEN /\ cipher' = server[pkt] /\ newest' = server[pkt]
               /\ IF observing THEN UNCHANGED <<emitted, webKey>> ELSE Announce(server[pkt])
          ELSE UNCHANGED <<key, newest>>
      BY <1>2 DEF ParsePacket
    <3>2. QED BY <3>1 DEF TypeOK, Ack, Announce, key
  <2>6. QED
    BY <1>0, <1>2, <2>3, <2>4, <2>5 DEF ParsePacket, TypeOK, options, Places
<1>3. CASE ParseEnd
  BY <1>3 DEF ParseEnd, TypeOK, stream, options, key, worker, history, Places
<1>4. CASE RejectHeader
  <2>1. <<>> \in Seq(1 .. PacketMax)
    BY EmptySeq
  <2>2. QED
    BY <1>4, <2>1 DEF RejectHeader, TypeOK, stream, options, key, history, Places
<1>5. CASE Drained
  <2>1. observed \in Seq(Pkts) /\ QueueObserve(observed)
    BY <1>0, <1>5 DEF TypeOK, Drained
  <2>2. obsq' \in Seq(Pkts) /\ blind' \in BOOLEAN
    BY <2>1, QueueObserveFact
  <2>3. <<>> \in Seq(1 .. PacketMax)
    BY EmptySeq
  <2>4. QED
    BY <1>0, <1>5, <2>2, <2>3 DEF Drained, TypeOK, stream, options, key, Places
<1>6. CASE End
  <2>1. <<>> \in Seq(1 .. PacketMax)
    BY EmptySeq
  <2>2. QED
    BY <1>6, <2>1 DEF End, TypeOK, stream, options, key, history, Places
<1>7. CASE StartObserve
  <2>1. obsq \in Seq(Pkts) /\ obsq # <<>>
    BY <1>0, <1>7 DEF TypeOK, StartObserve
  <2>2. Head(obsq) \in Pkts /\ Tail(obsq) \in Seq(Pkts)
    BY <2>1, HeadTailProperties
  <2>3. <<Head(obsq)>> \in Seq(Pkts) /\ Len(<<Head(obsq)>>) = 1
    BY <2>2
  <2>4. QED
    BY <1>0, <1>7, <2>2, <2>3 DEF StartObserve, TypeOK, stream, options, key, history
<1>8. CASE ThreadPrimes
  BY <1>8 DEF ThreadPrimes, Ack, TypeOK, stream, options, history
<1>9. CASE ThreadEnds
  <2>1. <<>> \in Seq(1 .. PacketMax) /\ Len(<<>>) <= 1
    BY EmptySeq
  <2>2. emitted' \in Keys \union {NoKey} /\ webKey' \in Keys \union {NoKey}
    BY <1>9 DEF ThreadEnds, Announce, Ack, TypeOK
  <2>3. QED
    BY <1>9, <2>1, <2>2 DEF ThreadEnds, TypeOK, stream, options, history
<1>10. CASE SwitchOptions
  <2>1. switched' \in Nat /\ torn' \in BOOLEAN /\ blind' \in BOOLEAN
    <3>1. switched' \in Nat
      BY <1>10 DEF SwitchOptions, TypeOK
    <3>2. torn' \in BOOLEAN /\ blind' \in BOOLEAN
      BY <1>10, Zenon DEF SwitchOptions, TypeOK
    <3>3. QED BY <3>1, <3>2
  <2>2. passthrough' \in BOOLEAN /\ observing' \in BOOLEAN
    BY <1>10 DEF SwitchOptions
  <2>3. QED
    BY <1>10, <2>1, <2>2 DEF SwitchOptions, TypeOK, stream, key, worker
<1>11. CASE UNCHANGED vars
  BY <1>11 DEF vars, TypeOK, stream, options, key, worker, history
<1>12. QED
  BY <1>1, <1>2, <1>3, <1>4, <1>5, <1>6, <1>7, <1>8, <1>9, <1>10, <1>11
  DEF Next, PumpS2c, ObserveWorker

(* Every variable has its type, and packets of a read are kept back only   *)
(* until the read is done (observed in _pump_s2c).                         *)
THEOREM TypeCorrect == Spec => []TypeOK
<1>1. Init => TypeOK
  BY TypeInit
<1>2. TypeOK /\ [Next]_vars => TypeOK'
  BY TypeStep
<1>3. QED BY <1>1, <1>2, PTL DEF Spec

-----------------------------------------------------------------------------
(* The steps preserve the invariant.                                       *)

(* What the pump forwards, for either way of forwarding.                   *)
LEMMA ForwardKeepsPlace ==
    ASSUME TypeOK, InPlace, ~torn, Len(buf) >= 2, NEW switch \in BOOLEAN, Forward(switch)
    PROVE  /\ Placed(out', buf', got)
           /\ ~switch => Len(out') = Len(out) + 2
           /\ switch => buf' = <<>> /\ pump' = "drain"
<1>1. out \in Seq(Nat) /\ buf \in Seq(Nat) /\ got \in Nat
  BY HalfIsNat, LimitAssumption DEF TypeOK, Half
<1>2. Placed(out, buf, got)
  BY DEF InPlace
<1>3. CASE switch
  BY <1>1, <1>2, <1>3, PlacedFlushed DEF Forward
<1>4. CASE ~switch
  BY <1>1, <1>2, <1>4, PlacedForward DEF Forward
<1>5. QED BY <1>3, <1>4

(* In the inner loop the buffer begins with a header.                      *)
LEMMA HeaderFirst ==
    ASSUME IInv, pump = "parse", ~torn, buf # <<>>
    PROVE  IsHeader(buf[1])
<1>1. Len(out) \in Nat /\ Len(buf) \in Nat /\ 1 \in 1 .. Len(buf)
  <2>1. out \in Seq(Half) /\ buf \in Seq(Half)
    BY DEF IInv, TypeOK, Half
  <2>2. Len(out) \in Nat /\ Len(buf) \in Nat \ {0}
    BY <2>1, LenProperties, EmptySeq
  <2>3. \A x \in Nat \ {0} : 1 \in 1 .. x
    OBVIOUS
  <2>4. QED BY <2>2, <2>3
<1>2. Len(out) % 2 = 0
  BY DEF IInv, WholePackets, NothingBehind
<1>3. buf[1] = Len(out) + 1
  BY <1>1 DEF IInv, InPlace, Placed, Run
<1>4. QED BY <1>1, <1>2, <1>3, Parity DEF IsHeader

LEMMA InvInit == Init => IInv
<1> SUFFICES ASSUME Init PROVE IInv
  OBVIOUS
<1>1. TypeOK
  BY TypeInit
<1>2. Len(<<>>) = 0 /\ 0 % 2 = 0 /\ 0 + 0 = 0 /\ \A f : 1 .. 0 = {}
  OBVIOUS
<1>3. out = <<>> /\ buf = <<>> /\ got = 0 /\ pump = "read" /\ cipher = NoKey
      /\ observed = <<>> /\ obsq = <<>> /\ thread = <<>>
  BY DEF Init
<1>4. Placed(<<>>, <<>>, 0) /\ NoAcks(<<>>)
  BY <1>2 DEF Placed, Run, NoAcks
<1>5. QED
  BY <1>1, <1>2, <1>3, <1>4
  DEF IInv, InPlace, WholePackets, NothingBehind, HalfBehind, KeyBeforeObserver, NotRejected, Through

(* A read puts the bytes where they belong.                                *)
LEMMA InvRead == IInv /\ Read => IInv'
<1> SUFFICES ASSUME IInv, Read PROVE IInv'
  OBVIOUS
<1>1. TypeOK'
  BY TypeStep DEF IInv, Next, PumpS2c
<1>2. PICK n \in 1 .. ReadMax :
        /\ got' = got + n
        /\ LET data == Halves(got + 1, got + n)
           IN  IF cipher # NoKey /\ passthrough
               THEN out' = out \o data /\ pump' = "drain" /\ UNCHANGED buf
               ELSE buf' = buf \o data /\ pump' = "parse" /\ UNCHANGED out
  BY DEF Read
<1>3. out \in Seq(Nat) /\ buf \in Seq(Nat) /\ got \in Nat /\ n \in Nat
  BY HalfIsNat, LimitAssumption DEF IInv, TypeOK, Half
<1>4. UNCHANGED <<server, torn, cipher, passthrough, thread, obsq, observed>>
  BY DEF Read, options, key, worker, history
<1>5. Through' <=> Through
  BY <1>4 DEF Through
<1>6. InPlace'
  <2> SUFFICES ASSUME ~torn PROVE Placed(out', buf', got')
    BY <1>4 DEF InPlace
  <2>1. Placed(out, buf, got)
    BY DEF IInv, InPlace
  <2>2. /\ Placed(out, buf \o Halves(got + 1, got + n), got + n)
        /\ buf = <<>> => Placed(out \o Halves(got + 1, got + n), buf, got + n)
    BY <1>3, <2>1, PlacedRead
  <2>3. CASE Through
    BY <1>2, <2>2, <2>3 DEF Through, IInv, NothingBehind
  <2>4. CASE ~Through
    BY <1>2, <2>2, <2>4 DEF Through
  <2>5. QED BY <2>3, <2>4
<1>7. WholePackets'
  BY <1>2, <1>4, <1>5 DEF IInv, WholePackets, Through
<1>8. NothingBehind'
  BY <1>2, <1>4, <1>5 DEF IInv, NothingBehind, Through
<1>9. HalfBehind'
  <2> SUFFICES ASSUME ~torn, pump' # "parse" PROVE Len(buf') <= 1
    BY <1>4 DEF HalfBehind
  <2>1. Through /\ buf' = buf
    BY <1>2 DEF Through
  <2>2. Len(<<>>) <= 1
    OBVIOUS
  <2>3. QED BY <2>1, <2>2 DEF IInv, NothingBehind
<1>10. KeyBeforeObserver'
  BY <1>4 DEF IInv, KeyBeforeObserver, NoAcks
<1>11. NotRejected'
  BY <1>2 DEF NotRejected
<1>12. QED BY <1>1, <1>6, <1>7, <1>8, <1>9, <1>10, <1>11 DEF IInv

(* A turn of the inner loop.                                               *)
LEMMA InvParsePacket == IInv /\ ParsePacket => IInv'
<1> SUFFICES ASSUME IInv, ParsePacket PROVE IInv'
  OBVIOUS
<1> DEFINE pkt == Packet(buf[1])  switch == cipher' # NoKey /\ passthrough
<1>1. TypeOK'
  BY TypeStep DEF IInv, Next, PumpS2c
<1>2. /\ pump = "parse" /\ Len(buf) >= 2 /\ Forward(switch)
      /\ UNCHANGED <<server, got, passthrough, obsq, thread, torn>>
  BY DEF ParsePacket, Complete, options
<1>3. IF Ack(pkt) THEN cipher' = server[pkt] ELSE cipher' = cipher
  BY DEF ParsePacket, key
<1>4. switch \in BOOLEAN /\ (Through' <=> switch)
  BY <1>2 DEF Through
<1>5. ASSUME ~torn
      PROVE  /\ Placed(out', buf', got)
             /\ ~switch => Len(out') = Len(out) + 2
             /\ switch => buf' = <<>> /\ pump' = "drain"
  BY <1>2, <1>4, <1>5, ForwardKeepsPlace DEF IInv
<1>6. ~switch => pump' = "parse"
  BY <1>2 DEF Forward
<1> HIDE DEF switch
<1>7. InPlace'
  BY <1>2, <1>5 DEF InPlace
<1>8. WholePackets'
  <2> SUFFICES ASSUME ~torn, ~switch PROVE Len(out') % 2 = 0
    BY <1>2, <1>4 DEF WholePackets
  <2>1. Len(out) % 2 = 0
    BY <1>2 DEF IInv, WholePackets, NothingBehind
  <2>2. Len(out) \in Nat
    BY HalfIsNat DEF IInv, TypeOK, Half
  <2>3. Len(out') = Len(out) + 2
    BY <1>5
  <2>4. QED BY <2>1, <2>2, <2>3, Parity
<1>9. NothingBehind'
  BY <1>2, <1>4, <1>5 DEF NothingBehind
<1>10. HalfBehind'
  <2> SUFFICES ASSUME ~torn, pump' # "parse" PROVE Len(buf') <= 1
    BY <1>2 DEF HalfBehind
  <2>1. buf' = <<>>
    BY <1>5, <1>6
  <2>2. Len(<<>>) <= 1
    OBVIOUS
  <2>3. QED BY <2>1, <2>2
<1>11. KeyBeforeObserver'
  <2> SUFFICES ASSUME cipher' = NoKey
               PROVE  NoAcks(thread)' /\ NoAcks(obsq)' /\ NoAcks(observed)'
    BY DEF KeyBeforeObserver
  <2>1. ~Ack(pkt) /\ cipher = NoKey
    BY <1>3, KeyAssumption DEF Ack
  <2>2. NoAcks(thread) /\ NoAcks(obsq) /\ NoAcks(observed)
    BY <2>1 DEF IInv, KeyBeforeObserver
  <2>3. NoAcks(observed)'
    <3>1. observed' = Append(observed, pkt) \/ observed' = observed
      BY DEF ParsePacket
    <3>2. CASE observed' = observed
      BY <1>2, <2>2, <3>2 DEF NoAcks
    <3>3. CASE observed' = Append(observed, pkt)
      <4>1. observed \in Seq(Pkts) /\ pkt \in Pkts
        <5>1. observed \in Seq(Pkts) /\ buf \in Seq(Half)
          BY DEF IInv, TypeOK, Half, Pkts
        <5>2. 1 \in 1 .. Len(buf)
          <6>1. \A x \in Nat : x >= 2 => 1 \in 1 .. x
            OBVIOUS
          <6>2. QED BY <1>2, <5>1, <6>1, LenProperties
        <5>3. QED BY <5>1, <5>2, ElementOfSeq, PacketType
      <4>2. /\ Len(observed') = Len(observed) + 1 /\ observed'[Len(observed) + 1] = pkt
            /\ \A i \in 1 .. Len(observed) : observed'[i] = observed[i]
        BY <3>3, <4>1, AppendProperties
      <4>3. Len(observed) \in Nat
        BY <4>1, LenProperties
      <4>4. \A x \in Nat : \A i \in 1 .. x + 1 : i \in 1 .. x \/ i = x + 1
        OBVIOUS
      <4>5. QED BY <1>2, <2>1, <2>2, <4>2, <4>3, <4>4 DEF NoAcks, Ack
    <3>4. QED BY <3>1, <3>2, <3>3
  <2>4. QED BY <1>2, <2>2, <2>3 DEF NoAcks
<1>12. NotRejected'
  <2>1. pump' \in {"parse", "drain"}
    BY <1>2 DEF Forward
  <2>2. QED BY <2>1 DEF NotRejected
<1>13. QED BY <1>1, <1>7, <1>8, <1>9, <1>10, <1>11, <1>12 DEF IInv

(* The rest of the pump writes nothing.                                    *)
LEMMA InvPumpRest == IInv /\ (ParseEnd \/ RejectHeader \/ Drained \/ End) => IInv'
<1> SUFFICES ASSUME IInv, ParseEnd \/ RejectHeader \/ Drained \/ End PROVE IInv'
  OBVIOUS
<1>1. TypeOK'
  BY TypeStep DEF IInv, Next, PumpS2c
<1>2. UNCHANGED <<server, out, buf, got, passthrough, cipher, thread, torn>>
  BY DEF ParseEnd, RejectHeader, Drained, End, stream, options, key, worker, history
<1>3. /\ pump' # "parse"
      /\ pump = "parse" => Len(buf) < 2 \/ (buf # <<>> /\ ~IsHeader(buf[1]))
      /\ pump' = "failed" => pump = "parse" /\ buf # <<>> /\ ~IsHeader(buf[1])
  BY DEF ParseEnd, RejectHeader, Drained, End, LoopFree
<1>4. InPlace' /\ WholePackets' /\ NothingBehind'
  BY <1>2, <1>3 DEF IInv, InPlace, WholePackets, NothingBehind, Through
<1>5. HalfBehind'
  <2> SUFFICES ASSUME ~torn PROVE Len(buf) <= 1
    BY <1>2 DEF HalfBehind
  <2>1. CASE pump = "parse"
    <3>1. Len(buf) < 2
      BY <1>3, <2>1, HeaderFirst
    <3>2. Len(buf) \in Nat
      BY HalfIsNat DEF IInv, TypeOK, Half
    <3>3. \A x \in Nat : x < 2 => x <= 1
      OBVIOUS
    <3>4. QED BY <3>1, <3>2, <3>3
  <2>2. CASE pump # "parse"
    BY <2>2 DEF IInv, HalfBehind
  <2>3. QED BY <2>1, <2>2
<1>6. KeyBeforeObserver'
  <2> SUFFICES ASSUME cipher = NoKey
               PROVE  NoAcks(thread)' /\ NoAcks(obsq)' /\ NoAcks(observed)'
    BY <1>2 DEF KeyBeforeObserver
  <2>1. NoAcks(thread) /\ NoAcks(obsq) /\ NoAcks(observed)
    BY DEF IInv, KeyBeforeObserver
  <2>2. NoAcks(<<>>)
    <3>1. Len(<<>>) = 0 /\ 1 .. 0 = {}
      OBVIOUS
    <3>2. QED BY <3>1 DEF NoAcks
  <2>3. NoAcks(obsq)'
    <3>1. CASE Drained
      <4>1. observed \in Seq(Pkts) /\ QueueObserve(observed)
        BY <3>1 DEF IInv, TypeOK, Pkts, Drained
      <4>2. \A i \in 1 .. Len(obsq') : server[obsq'[i]] \notin Keys
        BY <2>1, <4>1, QueueObserveFact DEF IInv
      <4>3. QED BY <1>2, <4>2 DEF NoAcks
    <3>2. CASE ParseEnd \/ RejectHeader \/ End
      BY <1>2, <2>1, <3>2 DEF ParseEnd, RejectHeader, End, worker, NoAcks
    <3>3. QED BY <3>1, <3>2
  <2>4. observed' = observed \/ observed' = <<>>
    BY DEF ParseEnd, RejectHeader, Drained, End, worker
  <2>5. QED BY <1>2, <2>1, <2>2, <2>3, <2>4 DEF NoAcks
<1>7. NotRejected'
  BY <1>2, <1>3, HeaderFirst DEF NotRejected
<1>8. QED BY <1>1, <1>4, <1>5, <1>6, <1>7 DEF IInv

(* The observe worker does not touch the stream, and a key that it primes  *)
(* is never the first.                                                     *)
LEMMA InvObserve == IInv /\ ObserveWorker => IInv'
<1> SUFFICES ASSUME IInv, ObserveWorker PROVE IInv'
  OBVIOUS
<1>1. TypeOK'
  BY TypeStep DEF IInv, Next
<1>2. UNCHANGED <<server, out, buf, got, pump, passthrough, torn, observed>>
  BY DEF ObserveWorker, StartObserve, ThreadPrimes, ThreadEnds, stream, options, history
<1>3. cipher' = NoKey <=> cipher = NoKey
  <2>1. CASE StartObserve \/ ThreadEnds
    BY <2>1 DEF StartObserve, ThreadEnds, key
  <2>2. CASE ThreadPrimes
    <3>1. thread # <<>> /\ server[thread[1]] \in Keys /\ cipher' = server[thread[1]]
      BY <2>2 DEF ThreadPrimes, Ack
    <3>2. 1 \in 1 .. Len(thread)
      <4>1. thread \in Seq(Pkts)
        BY DEF IInv, TypeOK, Pkts
      <4>2. Len(thread) \in Nat \ {0}
        BY <3>1, <4>1, EmptySeq
      <4>3. QED BY <4>2
    <3>3. cipher # NoKey
      BY <3>1, <3>2 DEF IInv, KeyBeforeObserver, NoAcks
    <3>4. QED BY <3>1, <3>3, KeyAssumption
  <2>3. QED BY <2>1, <2>2 DEF ObserveWorker
<1>4. Through' <=> Through
  BY <1>2, <1>3 DEF Through
<1>5. InPlace' /\ WholePackets' /\ NothingBehind' /\ HalfBehind' /\ NotRejected'
  BY <1>2, <1>4 DEF IInv, InPlace, WholePackets, NothingBehind, HalfBehind, NotRejected
<1>6. KeyBeforeObserver'
  <2> SUFFICES ASSUME cipher = NoKey
               PROVE  NoAcks(thread)' /\ NoAcks(obsq)' /\ NoAcks(observed)'
    BY <1>3 DEF KeyBeforeObserver
  <2>1. NoAcks(thread) /\ NoAcks(obsq) /\ NoAcks(observed)
    BY DEF IInv, KeyBeforeObserver
  <2>2. NoAcks(<<>>)
    <3>1. Len(<<>>) = 0 /\ 1 .. 0 = {}
      OBVIOUS
    <3>2. QED BY <3>1 DEF NoAcks
  <2>3. CASE StartObserve
    <3>1. /\ obsq \in Seq(Pkts) /\ obsq # <<>>
          /\ thread' = <<Head(obsq)>> /\ obsq' = Tail(obsq)
      BY <2>3 DEF IInv, TypeOK, Pkts, StartObserve
    <3>2. /\ Len(obsq) \in Nat \ {0} /\ Len(obsq') = Len(obsq) - 1
          /\ \A i \in 1 .. Len(obsq') : obsq'[i] = obsq[i + 1]
      BY <3>1, HeadTailProperties, EmptySeq
    <3>3. \A x \in Nat \ {0} : 1 \in 1 .. x /\ \A i \in 1 .. x - 1 : i + 1 \in 1 .. x
      OBVIOUS
    <3>4. NoAcks(obsq)'
      BY <1>2, <2>1, <3>2, <3>3 DEF NoAcks
    <3>5. Len(thread') = 1 /\ thread'[1] = obsq[1]
      BY <3>1
    <3>6. server[obsq[1]] \notin Keys
      BY <2>1, <3>2, <3>3 DEF NoAcks
    <3>7. NoAcks(thread)'
      <4>1. \A i \in 1 .. 1 : i = 1
        OBVIOUS
      <4>2. QED BY <1>2, <3>5, <3>6, <4>1 DEF NoAcks
    <3>8. QED BY <1>2, <2>1, <3>4, <3>7 DEF NoAcks
  <2>4. CASE ThreadPrimes \/ ThreadEnds
    <3>1. UNCHANGED obsq /\ (thread' = thread \/ thread' = <<>>)
      BY <2>4 DEF ThreadPrimes, ThreadEnds
    <3>2. QED BY <1>2, <2>1, <2>2, <3>1 DEF NoAcks
  <2>5. QED BY <2>3, <2>4 DEF ObserveWorker
<1>7. QED BY <1>1, <1>5, <1>6 DEF IInv

(* New options: if passthrough changes between packets, or before there is *)
(* a key, the stream is at a boundary; otherwise it is torn.               *)
LEMMA InvSwitch == IInv /\ SwitchOptions => IInv'
<1> SUFFICES ASSUME IInv, SwitchOptions PROVE IInv'
  OBVIOUS
<1>1. TypeOK'
  BY TypeStep DEF IInv, Next
<1>2. UNCHANGED <<server, out, buf, got, pump, cipher, thread, obsq, observed>>
      /\ pump # "parse"
  BY DEF SwitchOptions, stream, key, worker, LoopFree
<1>3. ~torn' => ~torn /\ ((passthrough' <=> passthrough) \/ cipher = NoKey \/ got % 2 # 1)
  BY DEF SwitchOptions, IInv, TypeOK
<1>4. /\ Len(out) \in Nat /\ Len(buf) \in Nat /\ buf \in Seq(Half)
  BY HalfIsNat DEF IInv, TypeOK, Half
<1>5. InPlace' /\ HalfBehind'
  BY <1>2, <1>3 DEF IInv, InPlace, HalfBehind
<1>6. ASSUME ~torn', ~(passthrough' <=> passthrough), cipher # NoKey
      PROVE  Len(out) % 2 = 0 /\ buf = <<>>
  <2>1. Len(out) + Len(buf) = got /\ got % 2 # 1
    BY <1>3, <1>6 DEF IInv, InPlace, Placed
  <2>2. CASE passthrough
    <3>1. buf = <<>>
      BY <1>3, <1>6, <2>2 DEF IInv, NothingBehind, Through
    <3>2. Len(buf) = 0 /\ Len(out) + 0 = Len(out)
      BY <1>4, <3>1, SumsAssociate
    <3>3. QED BY <1>4, <2>1, <3>1, <3>2, Parity
  <2>3. CASE ~passthrough
    <3>1. Len(out) % 2 = 0 /\ Len(buf) <= 1
      BY <1>2, <1>3, <1>6, <2>3 DEF IInv, WholePackets, HalfBehind, Through
    <3>2. Len(buf) = 0
      BY <1>4, <2>1, <3>1, Parity
    <3>3. QED BY <1>4, <3>1, <3>2, EmptySeq
  <2>4. QED BY <2>2, <2>3
<1>7. WholePackets'
  <2> SUFFICES ASSUME ~torn', ~Through' PROVE Len(out) % 2 = 0
    BY <1>2 DEF WholePackets
  <2>1. CASE ~(passthrough' <=> passthrough) /\ cipher # NoKey
    BY <1>6, <2>1
  <2>2. CASE (passthrough' <=> passthrough) \/ cipher = NoKey
    BY <1>2, <1>3, <2>2 DEF IInv, WholePackets, Through
  <2>3. QED BY <2>1, <2>2
<1>8. NothingBehind'
  <2> SUFFICES ASSUME ~torn', Through' PROVE buf = <<>>
    BY <1>2 DEF NothingBehind
  <2>1. CASE passthrough' <=> passthrough
    BY <1>2, <1>3, <2>1 DEF IInv, NothingBehind, Through
  <2>2. CASE ~(passthrough' <=> passthrough)
    BY <1>2, <1>6, <2>2 DEF Through
  <2>3. QED BY <2>1, <2>2
<1>9. KeyBeforeObserver'
  BY <1>2 DEF IInv, KeyBeforeObserver, NoAcks
<1>10. NotRejected'
  BY <1>2 DEF IInv, NotRejected, SwitchOptions
<1>11. QED BY <1>1, <1>5, <1>7, <1>8, <1>9, <1>10 DEF IInv

LEMMA InvUnchanged == IInv /\ UNCHANGED vars => IInv'
<1> SUFFICES ASSUME IInv, UNCHANGED vars PROVE IInv'
  OBVIOUS
<1>1. TypeOK'
  BY TypeStep DEF IInv
<1>2. UNCHANGED <<server, out, buf, got, pump, passthrough, cipher, thread, obsq, observed, torn>>
  BY DEF vars, stream, options, key, worker, history
<1>3. QED
  BY <1>1, <1>2 DEF IInv, InPlace, WholePackets, NothingBehind, HalfBehind,
                    KeyBeforeObserver, NoAcks, NotRejected, Through

-----------------------------------------------------------------------------
(* The theorems.                                                           *)

(* The invariant holds in every reachable state of the path.               *)
THEOREM Invariance == Spec => []IInv
<1>1. Init => IInv
  BY InvInit
<1>2. IInv /\ [Next]_vars => IInv'
  BY InvRead, InvParsePacket, InvPumpRest, InvObserve, InvSwitch, InvUnchanged
  DEF Next, PumpS2c
<1>3. QED BY <1>1, <1>2, PTL DEF Spec

(* What is written to the client and what is buffered is exactly what has  *)
(* been read, in order: _pump_s2c loses and repeats nothing, whatever the  *)
(* reads cut, unless passthrough was switched inside a packet.             *)
THEOREM StreamArrives == Spec => []ClientStream
<1>1. IInv => ClientStream
  <2> SUFFICES ASSUME IInv, ~torn PROVE out \o buf = Halves(1, got)
    BY DEF ClientStream
  <2>1. out \in Seq(Half) /\ buf \in Seq(Half) /\ got \in Nat /\ Placed(out, buf, got)
    BY LimitAssumption DEF IInv, TypeOK, Half, InPlace
  <2>2. QED BY <2>1, PlacedIsStream
<1>2. QED BY <1>1, Invariance, PTL

(* The pump never ends a session because of a header that was none, unless *)
(* passthrough was switched inside a packet.                               *)
THEOREM NeverRejected == Spec => []NotRejected
<1>1. IInv => NotRejected
  BY DEF IInv
<1>2. QED BY <1>1, Invariance, PTL

-----------------------------------------------------------------------------
(* ACKs in a sequence of packets, where f says what the packets carry.     *)

HasAck(f, s) == \E i \in 1 .. Len(s) : f[s[i]] \in Keys

(* The last ACK of s carries k.                                            *)
LastAck(f, s, k) ==
    \E i \in 1 .. Len(s) : /\ f[s[i]] \in Keys /\ f[s[i]] = k
                           /\ \A j \in 1 .. Len(s) : j > i => f[s[j]] \notin Keys

LEMMA SomeAckFact == \A s : SomeAck(s) <=> HasAck(server, s)
BY DEF SomeAck, HasAck, Ack

LEMMA EmptyHasNone == \A f : ~HasAck(f, <<>>)
<1>1. Len(<<>>) = 0 /\ 1 .. 0 = {}
  OBVIOUS
<1>2. QED BY <1>1 DEF HasAck

LEMMA LastIsSome ==
    ASSUME NEW f, NEW s, NEW k, LastAck(f, s, k)
    PROVE  HasAck(f, s)
BY DEF LastAck, HasAck

(* A sequence of one packet.                                               *)
LEMMA OnePacket ==
    ASSUME NEW f, NEW p
    PROVE  /\ HasAck(f, <<p>>) <=> f[p] \in Keys
           /\ f[p] \in Keys => LastAck(f, <<p>>, f[p])
           /\ \A k : LastAck(f, <<p>>, k) => f[p] = k
<1>1. Len(<<p>>) = 1 /\ <<p>>[1] = p
  OBVIOUS
<1>2. \A i \in 1 .. 1 : i = 1
  OBVIOUS
<1>3. 1 \in 1 .. 1 /\ \A j \in 1 .. 1 : ~(j > 1)
  OBVIOUS
<1>4. HasAck(f, <<p>>) <=> f[p] \in Keys
  BY <1>1, <1>2, <1>3 DEF HasAck
<1>5. f[p] \in Keys => LastAck(f, <<p>>, f[p])
  BY <1>1, <1>2, <1>3 DEF LastAck
<1>6. ASSUME NEW k, LastAck(f, <<p>>, k) PROVE f[p] = k
  BY <1>1, <1>2, <1>6 DEF LastAck
<1>7. QED BY <1>4, <1>5, <1>6

(* The indices of two joined sequences.                                    *)
LEMMA JoinedIndex ==
    ASSUME NEW x \in Nat, NEW y \in Nat
    PROVE  /\ \A i \in 1 .. x + y : i \in 1 .. x \/ (i \in x + 1 .. x + y /\ i - x \in 1 .. y)
           /\ \A i \in 1 .. x : i \in 1 .. x + y
           /\ \A i \in 1 .. y : i + x \in x + 1 .. x + y /\ i + x \in 1 .. x + y /\ i + x - x = i
           /\ \A i, j \in 1 .. y : j + x > i + x <=> j > i
           /\ \A i \in 1 .. x, j \in 1 .. y : j + x > i
           /\ \A i, j \in x + 1 .. x + y : j - x > i - x <=> j > i
OBVIOUS

(* What joining two sequences makes of their ACKs.                         *)
LEMMA JoinHas ==
    ASSUME NEW f, NEW s, NEW t, NEW r, Len(s) \in Nat, Len(t) \in Nat, Joins(s, t, r)
    PROVE  HasAck(f, r) <=> HasAck(f, s) \/ HasAck(f, t)
<1>1. ASSUME HasAck(f, r) PROVE HasAck(f, s) \/ HasAck(f, t)
  <2>1. PICK i \in 1 .. Len(s) + Len(t) : f[r[i]] \in Keys
    BY <1>1 DEF HasAck, Joins
  <2>2. CASE i \in 1 .. Len(s)
    BY <2>1, <2>2 DEF HasAck, Joins
  <2>3. CASE i \in Len(s) + 1 .. Len(s) + Len(t) /\ i - Len(s) \in 1 .. Len(t)
    BY <2>1, <2>3 DEF HasAck, Joins
  <2>4. QED BY <2>2, <2>3, JoinedIndex
<1>2. ASSUME HasAck(f, s) PROVE HasAck(f, r)
  <2>1. PICK i \in 1 .. Len(s) : f[s[i]] \in Keys
    BY <1>2 DEF HasAck
  <2>2. i \in 1 .. Len(r) /\ r[i] = s[i]
    BY JoinedIndex DEF Joins
  <2>3. QED BY <2>1, <2>2 DEF HasAck
<1>3. ASSUME HasAck(f, t) PROVE HasAck(f, r)
  <2>1. PICK i \in 1 .. Len(t) : f[t[i]] \in Keys
    BY <1>3 DEF HasAck
  <2>2. i + Len(s) \in 1 .. Len(r) /\ r[i + Len(s)] = t[i]
    <3>1. /\ i + Len(s) \in Len(s) + 1 .. Len(s) + Len(t) /\ i + Len(s) - Len(s) = i
          /\ i + Len(s) \in 1 .. Len(s) + Len(t)
      BY JoinedIndex
    <3>2. QED BY <3>1 DEF Joins
  <2>3. QED BY <2>1, <2>2 DEF HasAck
<1>4. QED BY <1>1, <1>2, <1>3

(* The last ACK of the second part is the last of the whole, ...           *)
LEMMA JoinLast ==
    ASSUME NEW f, NEW s, NEW t, NEW r, NEW k, Len(s) \in Nat, Len(t) \in Nat,
           Joins(s, t, r), HasAck(f, t)
    PROVE  LastAck(f, t, k) <=> LastAck(f, r, k)
<1> DEFINE n == Len(s)
<1>1. \A i \in 1 .. Len(t) : i + n \in 1 .. Len(r) /\ r[i + n] = t[i]
  <2> SUFFICES ASSUME NEW i \in 1 .. Len(t) PROVE i + n \in 1 .. Len(r) /\ r[i + n] = t[i]
    OBVIOUS
  <2>1. /\ i + n \in n + 1 .. n + Len(t) /\ i + n - n = i
        /\ i + n \in 1 .. n + Len(t)
    BY JoinedIndex
  <2>2. QED BY <2>1 DEF Joins
<1>2. \A j \in 1 .. Len(r) : j \in 1 .. n \/ (j - n \in 1 .. Len(t) /\ r[j] = t[j - n])
  <2>1. Len(r) = n + Len(t) /\ \A j \in n + 1 .. n + Len(t) : r[j] = t[j - n]
    BY DEF Joins
  <2>2. QED BY <2>1, JoinedIndex
<1>3. ASSUME LastAck(f, t, k) PROVE LastAck(f, r, k)
  <2>1. PICK i \in 1 .. Len(t) :
          /\ f[t[i]] \in Keys /\ f[t[i]] = k
          /\ \A j \in 1 .. Len(t) : j > i => f[t[j]] \notin Keys
    BY <1>3 DEF LastAck
  <2>2. ASSUME NEW j \in 1 .. Len(r), j > i + n PROVE f[r[j]] \notin Keys
    <3>1. j \notin 1 .. n /\ j - n > i
      BY <2>2
    <3>2. QED BY <1>2, <2>1, <3>1
  <2>3. QED BY <1>1, <2>1, <2>2 DEF LastAck
<1>4. ASSUME LastAck(f, r, k) PROVE LastAck(f, t, k)
  <2>1. PICK i \in 1 .. Len(r) :
          /\ f[r[i]] \in Keys /\ f[r[i]] = k
          /\ \A j \in 1 .. Len(r) : j > i => f[r[j]] \notin Keys
    BY <1>4 DEF LastAck
  <2>2. PICK a \in 1 .. Len(t) : f[t[a]] \in Keys
    BY DEF HasAck
  <2>3. ~(a + n > i)
    BY <1>1, <2>1, <2>2
  <2>4. i \notin 1 .. n
    BY <2>3
  <2>5. i - n \in 1 .. Len(t) /\ r[i] = t[i - n]
    BY <1>2, <2>4
  <2>6. ASSUME NEW j \in 1 .. Len(t), j > i - n PROVE f[t[j]] \notin Keys
    <3>1. j + n > i
      BY <2>6
    <3>2. QED BY <1>1, <2>1, <3>1
  <2>7. QED BY <2>1, <2>5, <2>6 DEF LastAck
<1>5. QED BY <1>3, <1>4

(* ... and without one, the last ACK of the first part is.                 *)
LEMMA JoinFirst ==
    ASSUME NEW f, NEW s, NEW t, NEW r, NEW k, Len(s) \in Nat, Len(t) \in Nat,
           Joins(s, t, r), ~HasAck(f, t)
    PROVE  LastAck(f, s, k) <=> LastAck(f, r, k)
<1> DEFINE n == Len(s)
<1>1. \A i \in 1 .. n : i \in 1 .. Len(r) /\ r[i] = s[i]
  BY JoinedIndex DEF Joins
<1>2. \A j \in 1 .. Len(r) : j \in 1 .. n \/ (j - n \in 1 .. Len(t) /\ r[j] = t[j - n])
  <2>1. Len(r) = n + Len(t) /\ \A j \in n + 1 .. n + Len(t) : r[j] = t[j - n]
    BY DEF Joins
  <2>2. QED BY <2>1, JoinedIndex
<1>3. \A j \in 1 .. Len(r) : f[r[j]] \in Keys => j \in 1 .. n
  BY <1>2 DEF HasAck
<1>4. QED BY <1>1, <1>3 DEF LastAck

-----------------------------------------------------------------------------
(* The inductive invariant.  A packet goes from observed (kept back by the *)
(* pump) to obsq to the thread, so the youngest of these that holds an ACK *)
(* holds the newest key; when none does, everybody has it.                 *)

ReadHas == HasAck(server, observed)
QueueHas == HasAck(server, obsq)
ThreadHas == HasAck(server, thread)

(* With observe_s2c off nothing is on its way: the pump announces.         *)
NoneHidden == ~observing => ~ReadHas /\ ~QueueHas /\ ~ThreadHas

ReadLast == ReadHas => LastAck(server, observed, newest)

QueueLast == ~ReadHas /\ QueueHas => LastAck(server, obsq, newest)

ThreadLast ==
    ~ReadHas /\ ~QueueHas /\ ThreadHas =>
        LastAck(server, thread, newest) /\ (primed => cipher = newest)

Settled == ~ReadHas /\ ~QueueHas /\ ~ThreadHas => cipher = newest /\ webKey = newest

KeysInTurn == NoneHidden /\ ReadLast /\ QueueLast /\ ThreadLast /\ Settled

KeyInv == /\ TypeOK
          /\ emitted = webKey
          /\ thread = <<>> => ~primed
          /\ ~blind /\ ~Ended => KeysInTurn

-----------------------------------------------------------------------------
LEMMA KeyTypes ==
    ASSUME TypeOK
    PROVE  /\ observed \in Seq(Pkts) /\ obsq \in Seq(Pkts) /\ thread \in Seq(Pkts)
           /\ Len(observed) \in Nat /\ Len(obsq) \in Nat /\ Len(thread) \in Nat
<1>1. observed \in Seq(Pkts) /\ obsq \in Seq(Pkts) /\ thread \in Seq(Pkts)
  BY DEF TypeOK, Pkts
<1>2. QED BY <1>1, LenProperties

(* The thread's packet.                                                    *)
LEMMA ThreadFact ==
    ASSUME TypeOK, thread # <<>>
    PROVE  /\ ThreadHas <=> Ack(thread[1])
           /\ \A k : LastAck(server, thread, k) => server[thread[1]] = k
<1>1. Len(thread) = 1
  <2>1. thread \in Seq(Pkts) /\ Len(thread) <= 1
    BY KeyTypes DEF TypeOK
  <2>2. Len(thread) \in Nat \ {0}
    BY <2>1, EmptySeq
  <2>3. \A x \in Nat \ {0} : x <= 1 => x = 1
    OBVIOUS
  <2>4. QED BY <2>1, <2>2, <2>3
<1>2. \A i \in 1 .. 1 : i = 1
  OBVIOUS
<1>3. 1 \in 1 .. 1
  OBVIOUS
<1>4. ThreadHas <=> Ack(thread[1])
  BY <1>1, <1>2, <1>3 DEF ThreadHas, HasAck, Ack
<1>5. ASSUME NEW k, LastAck(server, thread, k) PROVE server[thread[1]] = k
  BY <1>1, <1>2, <1>5 DEF LastAck
<1>6. QED BY <1>4, <1>5

(* What Announce leaves behind.                                            *)
LEMMA Announced ==
    ASSUME emitted = webKey, NEW k, Announce(k)
    PROVE  emitted' = k /\ webKey' = k
BY DEF Announce

LEMMA KeyInit == Init => KeyInv
<1> SUFFICES ASSUME Init PROVE KeyInv
  OBVIOUS
<1>1. TypeOK
  BY TypeInit
<1>2. /\ observed = <<>> /\ obsq = <<>> /\ thread = <<>> /\ primed = FALSE
      /\ emitted = NoKey /\ webKey = NoKey /\ cipher = NoKey /\ newest = NoKey
  BY DEF Init
<1>3. ~ReadHas /\ ~QueueHas /\ ~ThreadHas
  BY <1>2, EmptyHasNone DEF ReadHas, QueueHas, ThreadHas
<1>4. KeysInTurn
  BY <1>2, <1>3 DEF KeysInTurn, NoneHidden, ReadLast, QueueLast, ThreadLast, Settled
<1>5. QED BY <1>1, <1>2, <1>4 DEF KeyInv

(* The pump parses a packet: an ACK in it is the newest.                   *)
LEMMA KeyParsePacket == KeyInv /\ ParsePacket => KeyInv'
<1> SUFFICES ASSUME KeyInv, ParsePacket PROVE KeyInv'
  OBVIOUS
<1> DEFINE pkt == Packet(buf[1])
<1>1. TypeOK /\ TypeOK'
  BY TypeStep DEF KeyInv, Next, PumpS2c
<1>2. /\ pump = "parse" /\ UNCHANGED <<server, observing, obsq, thread, primed, blind>>
      /\ observed' = IF observing THEN Append(observed, pkt) ELSE observed
      /\ IF Ack(pkt)
         THEN /\ cipher' = server[pkt] /\ newest' = server[pkt]
              /\ IF observing THEN UNCHANGED <<emitted, webKey>> ELSE Announce(server[pkt])
         ELSE UNCHANGED <<cipher, newest, emitted, webKey>>
  BY DEF ParsePacket, options, key
<1>3. emitted' = webKey'
  BY <1>2, Announced DEF KeyInv
<1>4. ASSUME ~blind PROVE KeysInTurn'
  <2>1. KeysInTurn
    BY <1>2, <1>4 DEF KeyInv, Ended
  <2>2. pkt \in Pkts
    <3>1. buf \in Seq(Half) /\ Len(buf) >= 2
      BY <1>1 DEF ParsePacket, Complete, TypeOK, Half
    <3>2. 1 \in 1 .. Len(buf)
      BY <3>1, LenProperties
    <3>3. QED BY <3>1, <3>2, ElementOfSeq, PacketType
  <2>3. /\ QueueHas' <=> QueueHas
        /\ ThreadHas' <=> ThreadHas
    BY <1>2 DEF QueueHas, ThreadHas
  <2>4. CASE observing
    <3>1. /\ Len(<<pkt>>) = 1 /\ Len(observed) \in Nat
          /\ Joins(observed, <<pkt>>, observed')
      <4>1. observed \in Seq(Pkts) /\ <<pkt>> \in Seq(Pkts) /\ Len(observed) \in Nat
        BY <1>1, <2>2, KeyTypes
      <4>2. observed' = observed \o <<pkt>>
        BY <1>2, <2>2, <2>4, <4>1, AppendIsConcat
      <4>3. QED BY <4>1, <4>2, Joined
    <3>2. ReadHas' <=> ReadHas \/ Ack(pkt)
      <4>1. HasAck(server, observed') <=> HasAck(server, observed) \/ HasAck(server, <<pkt>>)
        BY <3>1, JoinHas
      <4>2. HasAck(server, <<pkt>>) <=> Ack(pkt)
        BY OnePacket DEF Ack
      <4>3. QED BY <1>2, <4>1, <4>2 DEF ReadHas
    <3>3. ReadLast'
      <4>1. CASE Ack(pkt)
        <5>1. LastAck(server, <<pkt>>, newest') /\ HasAck(server, <<pkt>>)
          BY <1>2, <4>1, OnePacket DEF Ack
        <5>2. LastAck(server, observed', newest')
          BY <3>1, <5>1, JoinLast
        <5>3. QED BY <1>2, <5>2 DEF ReadLast
      <4>2. CASE ~Ack(pkt)
        <5>1. ~HasAck(server, <<pkt>>)
          BY <4>2, OnePacket DEF Ack
        <5>2. LastAck(server, observed, newest) => LastAck(server, observed', newest)
          BY <3>1, <5>1, JoinFirst
        <5>3. QED BY <1>2, <2>1, <3>2, <4>2, <5>2 DEF ReadLast, KeysInTurn
      <4>3. QED BY <4>1, <4>2
    <3>4. NoneHidden'
      BY <1>2, <2>4 DEF NoneHidden
    <3>5. QueueLast' /\ ThreadLast' /\ Settled'
      <4>1. CASE Ack(pkt)
        BY <3>2, <4>1 DEF QueueLast, ThreadLast, Settled
      <4>2. CASE ~Ack(pkt)
        BY <1>2, <2>1, <2>3, <3>2, <4>2 DEF KeysInTurn, QueueLast, ThreadLast, Settled
      <4>3. QED BY <4>1, <4>2
    <3>6. QED BY <3>3, <3>4, <3>5 DEF KeysInTurn
  <2>5. CASE ~observing
    <3>1. ~ReadHas /\ ~QueueHas /\ ~ThreadHas
      BY <2>1, <2>5 DEF KeysInTurn, NoneHidden
    <3>2. ~ReadHas' /\ ~QueueHas' /\ ~ThreadHas'
      BY <1>2, <2>3, <2>5, <3>1 DEF ReadHas
    <3>3. cipher' = newest' /\ webKey' = newest'
      <4>1. CASE Ack(pkt)
        BY <1>2, <2>5, <4>1, Announced DEF KeyInv
      <4>2. CASE ~Ack(pkt)
        BY <1>2, <2>1, <3>1, <4>2 DEF KeysInTurn, Settled
      <4>3. QED BY <4>1, <4>2
    <3>4. QED
      BY <3>2, <3>3 DEF KeysInTurn, NoneHidden, ReadLast, QueueLast, ThreadLast, Settled
  <2>6. QED BY <2>4, <2>5
<1>5. QED BY <1>1, <1>2, <1>3, <1>4 DEF KeyInv

(* What is read is queued; an ACK that finds the queue full makes blind.   *)
LEMMA KeyDrained == KeyInv /\ Drained => KeyInv'
<1> SUFFICES ASSUME KeyInv, Drained PROVE KeyInv'
  OBVIOUS
<1> DEFINE room == IF ObserveMax > Len(obsq) THEN ObserveMax - Len(obsq) ELSE 0
           n == IF room < Len(observed) THEN room ELSE Len(observed)
           q == SubSeq(observed, 1, n)
           d == SubSeq(observed, n + 1, Len(observed))
<1>1. TypeOK /\ TypeOK'
  BY TypeStep DEF KeyInv, Next, PumpS2c
<1>2. /\ pump = "drain" /\ pump' = "read" /\ observed' = <<>>
      /\ UNCHANGED <<server, observing, cipher, emitted, webKey, thread, primed, newest>>
      /\ obsq' = obsq \o q /\ blind' = (blind \/ SomeAck(d))
  BY DEF Drained, QueueObserve, stream, options, key
<1>3. ASSUME ~blind' PROVE KeysInTurn'
  <2>1. KeysInTurn /\ ~HasAck(server, d)
    BY <1>2, <1>3, SomeAckFact DEF KeyInv, Ended
  <2>2. /\ observed \in Seq(Pkts) /\ obsq \in Seq(Pkts)
        /\ Len(observed) \in Nat /\ Len(obsq) \in Nat
    BY <1>1, KeyTypes
  <2>3. n \in 0 .. Len(observed)
    <3>1. \A x, y, z \in Nat :
            LET m == IF x > y THEN x - y ELSE 0 IN (IF m < z THEN m ELSE z) \in 0 .. z
      OBVIOUS
    <3>2. QED BY <2>2, <3>1, LimitAssumption
  <2> HIDE DEF n
  <2>4. q \in Seq(Pkts) /\ d \in Seq(Pkts)
    <3>1. /\ 1 \in Nat \ {0} /\ n + 1 \in Nat \ {0}
          /\ Len(observed) \in 0 .. Len(observed)
      BY <2>2, <2>3
    <3>2. QED BY <2>2, <2>3, <3>1, PartOfPackets
  <2>5. observed = q \o d
    <3>1. CASE Len(observed) = 0
      <4>1. observed = <<>> /\ n = 0
        BY <2>2, <2>3, <3>1, EmptySeq
      <4>2. q = <<>> /\ d = <<>>
        <5>1. n < 1 /\ Len(observed) < n + 1 /\ 1 \in Int /\ n \in Int
              /\ n + 1 \in Int /\ Len(observed) \in Int
          BY <3>1, <4>1
        <5>2. QED BY <5>1, SubSeqEmpty
      <4>3. <<>> \o <<>> = <<>>
        BY <2>2, <4>1, ConcatEmptySeq
      <4>4. QED BY <4>1, <4>2, <4>3
    <3>2. CASE Len(observed) # 0
      <4>1. /\ 1 \in 1 .. Len(observed) + 1 /\ n \in 1 - 1 .. Len(observed)
            /\ Len(observed) \in n .. Len(observed)
        BY <2>2, <2>3
      <4>2. q \o d = SubSeq(observed, 1, Len(observed))
        BY <2>2, <4>1, ConcatAdjacentSubSeq
      <4>3. QED BY <2>2, <4>2, SubSeqFull
    <3>3. QED BY <3>1, <3>2
  <2> HIDE DEF q, d
  <2>6. /\ Joins(q, d, observed) /\ Joins(obsq, q, obsq')
        /\ Len(q) \in Nat /\ Len(d) \in Nat
    BY <1>2, <2>2, <2>4, <2>5, Joined, LenProperties
  <2>7. ReadHas <=> HasAck(server, q)
    BY <2>1, <2>6, JoinHas DEF ReadHas
  <2>8. QueueHas' <=> QueueHas \/ ReadHas
    <3>1. HasAck(server, obsq') <=> HasAck(server, obsq) \/ HasAck(server, q)
      BY <2>2, <2>6, JoinHas
    <3>2. QED BY <1>2, <2>7, <3>1 DEF QueueHas
  <2>9. ~ReadHas' /\ (ThreadHas' <=> ThreadHas)
    BY <1>2, EmptyHasNone DEF ReadHas, ThreadHas
  <2>10. QueueLast'
    <3>1. CASE ReadHas
      <4>1. LastAck(server, observed, newest) /\ HasAck(server, q)
        BY <2>1, <2>7, <3>1 DEF KeysInTurn, ReadLast
      <4>2. LastAck(server, q, newest)
        BY <2>1, <2>6, <4>1, JoinFirst
      <4>3. LastAck(server, obsq', newest)
        BY <2>2, <2>6, <4>1, <4>2, JoinLast
      <4>4. QED BY <1>2, <4>3 DEF QueueLast
    <3>2. CASE ~ReadHas
      <4>1. ~HasAck(server, q)
        BY <2>7, <3>2
      <4>2. LastAck(server, obsq, newest) => LastAck(server, obsq', newest)
        BY <2>2, <2>6, <4>1, JoinFirst
      <4>3. QED BY <1>2, <2>1, <2>8, <3>2, <4>2 DEF KeysInTurn, QueueLast
    <3>3. QED BY <3>1, <3>2
  <2>11. NoneHidden' /\ ReadLast' /\ ThreadLast' /\ Settled'
    BY <1>2, <2>1, <2>8, <2>9 DEF KeysInTurn, NoneHidden, ReadLast, ThreadLast, Settled
  <2>12. QED BY <2>10, <2>11 DEF KeysInTurn
<1>4. QED BY <1>1, <1>2, <1>3 DEF KeyInv

(* The rest of the pump leaves keys and queues alone, or ends it.          *)
LEMMA KeyPumpRest == KeyInv /\ (Read \/ ParseEnd \/ RejectHeader \/ End) => KeyInv'
<1> SUFFICES ASSUME KeyInv, Read \/ ParseEnd \/ RejectHeader \/ End PROVE KeyInv'
  OBVIOUS
<1>1. TypeOK'
  BY TypeStep DEF KeyInv, Next, PumpS2c
<1>2. UNCHANGED <<server, observing, cipher, emitted, webKey, newest, obsq, thread, primed, blind>>
  BY DEF Read, ParseEnd, RejectHeader, End, stream, options, key, worker, history
<1>3. Ended' \/ (~Ended /\ observed' = observed)
  BY DEF Read, ParseEnd, RejectHeader, End, Ended, worker
<1>4. ASSUME ~blind', ~Ended' PROVE KeysInTurn'
  BY <1>2, <1>3, <1>4
  DEF KeyInv, KeysInTurn, NoneHidden, ReadLast, QueueLast, ThreadLast, Settled,
      ReadHas, QueueHas, ThreadHas
<1>5. QED BY <1>1, <1>2, <1>4 DEF KeyInv

(* The head of the queue goes to the thread.                               *)
LEMMA KeyStartObserve == KeyInv /\ StartObserve => KeyInv'
<1> SUFFICES ASSUME KeyInv, StartObserve PROVE KeyInv'
  OBVIOUS
<1>1. TypeOK /\ TypeOK'
  BY TypeStep DEF KeyInv, Next, ObserveWorker
<1>2. /\ obsq # <<>> /\ thread = <<>> /\ thread' = <<Head(obsq)>> /\ obsq' = Tail(obsq)
      /\ UNCHANGED <<server, pump, observing, cipher, emitted, webKey, newest, observed, primed, blind>>
      /\ ~Ended
  BY DEF StartObserve, stream, options, key, history
<1>3. obsq \in Seq(Pkts) /\ obsq' \in Seq(Pkts) /\ thread' \in Seq(Pkts)
  BY <1>1, <1>2, KeyTypes, HeadTailProperties
<1>4. Joins(thread', obsq', obsq) /\ Len(thread') \in Nat /\ Len(obsq') \in Nat
  <2>1. /\ Len(obsq) \in Nat \ {0} /\ Len(obsq') = Len(obsq) - 1
        /\ \A i \in 1 .. Len(obsq') : obsq'[i] = obsq[i + 1]
    BY <1>2, <1>3, HeadTailProperties, EmptySeq
  <2>2. Len(thread') = 1 /\ thread'[1] = obsq[1]
    BY <1>2, <1>3
  <2>3. \A x \in Nat \ {0} :
          /\ 1 + (x - 1) = x /\ x - 1 \in Nat
          /\ \A i \in 1 + 1 .. 1 + (x - 1) : i - 1 \in 1 .. x - 1 /\ (i - 1) + 1 = i
    OBVIOUS
  <2>4. \A i \in 1 .. 1 : i = 1
    OBVIOUS
  <2>5. \A i \in 1 .. Len(thread') : obsq[i] = thread'[i]
    BY <2>2, <2>4
  <2>6. ASSUME NEW i \in Len(thread') + 1 .. Len(thread') + Len(obsq')
        PROVE  obsq[i] = obsq'[i - Len(thread')]
    <3>1. i - 1 \in 1 .. Len(obsq') /\ (i - 1) + 1 = i
      BY <2>1, <2>2, <2>3
    <3>2. obsq'[i - 1] = obsq[(i - 1) + 1]
      BY <2>1, <3>1
    <3>3. QED BY <2>2, <3>1, <3>2
  <2>7. Len(obsq) = Len(thread') + Len(obsq')
    BY <2>1, <2>2, <2>3
  <2>8. QED BY <2>1, <2>2, <2>3, <2>5, <2>6, <2>7 DEF Joins
<1>5. ASSUME ~blind PROVE KeysInTurn'
  <2>1. KeysInTurn /\ ~primed /\ ~ThreadHas
    BY <1>2, <1>5, EmptyHasNone DEF KeyInv, ThreadHas
  <2>2. (ReadHas' <=> ReadHas) /\ (QueueHas <=> ThreadHas' \/ QueueHas')
    <3>1. HasAck(server, obsq) <=> HasAck(server, thread') \/ HasAck(server, obsq')
      BY <1>4, JoinHas
    <3>2. QED BY <1>2, <3>1 DEF ReadHas, QueueHas, ThreadHas
  <2>3. QueueLast'
    <3>1. HasAck(server, obsq') =>
            (LastAck(server, obsq', newest) <=> LastAck(server, obsq, newest))
      BY <1>4, JoinLast
    <3>2. QED BY <1>2, <2>1, <2>2, <3>1 DEF KeysInTurn, QueueLast, QueueHas
  <2>4. ThreadLast'
    <3>1. ~HasAck(server, obsq') =>
            (LastAck(server, thread', newest) <=> LastAck(server, obsq, newest))
      BY <1>4, JoinFirst
    <3>2. QED BY <1>2, <2>1, <2>2, <3>1 DEF KeysInTurn, QueueLast, ThreadLast, QueueHas
  <2>5. NoneHidden' /\ ReadLast' /\ Settled'
    BY <1>2, <2>1, <2>2 DEF KeysInTurn, NoneHidden, ReadLast, Settled
  <2>6. QED BY <2>3, <2>4, <2>5 DEF KeysInTurn
<1>6. thread' # <<>>
  BY <1>2
<1>7. QED BY <1>1, <1>2, <1>5, <1>6 DEF KeyInv

(* The thread primes its key; with no ACK behind it, that is the newest.   *)
LEMMA KeyThreadPrimes == KeyInv /\ ThreadPrimes => KeyInv'
<1> SUFFICES ASSUME KeyInv, ThreadPrimes PROVE KeyInv'
  OBVIOUS
<1>1. TypeOK /\ TypeOK'
  BY TypeStep DEF KeyInv, Next, ObserveWorker
<1>2. /\ thread # <<>> /\ Ack(thread[1]) /\ cipher' = server[thread[1]]
      /\ UNCHANGED <<server, pump, observing, emitted, webKey, newest, observed, obsq, thread, blind>>
  BY DEF ThreadPrimes, stream, options, history
<1>3. ThreadHas /\ \A k : LastAck(server, thread, k) => server[thread[1]] = k
  BY <1>1, <1>2, ThreadFact
<1>4. /\ ReadHas' <=> ReadHas
      /\ QueueHas' <=> QueueHas
      /\ ThreadHas' <=> ThreadHas
  BY <1>2 DEF ReadHas, QueueHas, ThreadHas
<1>5. ASSUME ~blind, ~Ended PROVE KeysInTurn'
  <2>1. KeysInTurn
    BY <1>5 DEF KeyInv
  <2>2. ThreadLast'
    BY <1>2, <1>3, <1>4, <2>1 DEF KeysInTurn, ThreadLast
  <2>3. NoneHidden' /\ ReadLast' /\ QueueLast' /\ Settled'
    BY <1>2, <1>3, <1>4, <2>1 DEF KeysInTurn, NoneHidden, ReadLast, QueueLast, Settled
  <2>4. QED BY <2>2, <2>3 DEF KeysInTurn
<1>6. QED BY <1>1, <1>2, <1>5 DEF KeyInv, Ended

(* The thread is done with its packet, and has announced an ACK.           *)
LEMMA KeyThreadEnds == KeyInv /\ ThreadEnds => KeyInv'
<1> SUFFICES ASSUME KeyInv, ThreadEnds PROVE KeyInv'
  OBVIOUS
<1>1. TypeOK /\ TypeOK'
  BY TypeStep DEF KeyInv, Next, ObserveWorker
<1>2. /\ thread # <<>> /\ thread' = <<>> /\ primed' = FALSE
      /\ IF Ack(thread[1]) THEN primed /\ Announce(server[thread[1]])
                           ELSE UNCHANGED <<emitted, webKey>>
      /\ UNCHANGED <<server, pump, observing, cipher, newest, observed, obsq, blind>>
  BY DEF ThreadEnds, stream, options, history
<1>3. emitted' = webKey'
  BY <1>2, Announced DEF KeyInv
<1>4. /\ ThreadHas <=> Ack(thread[1])
      /\ \A k : LastAck(server, thread, k) => server[thread[1]] = k
  BY <1>1, <1>2, ThreadFact
<1>5. (ReadHas' <=> ReadHas) /\ (QueueHas' <=> QueueHas) /\ ~ThreadHas'
  BY <1>2, EmptyHasNone DEF ReadHas, QueueHas, ThreadHas
<1>6. ASSUME ~blind, ~Ended PROVE KeysInTurn'
  <2>1. KeysInTurn
    BY <1>6 DEF KeyInv
  <2>2. Settled'
    <3> SUFFICES ASSUME ~ReadHas, ~QueueHas PROVE cipher = newest /\ webKey' = newest
      BY <1>2, <1>5 DEF Settled
    <3>1. CASE ThreadHas
      <4>1. server[thread[1]] = newest /\ cipher = newest
        BY <1>2, <1>4, <2>1, <3>1 DEF KeysInTurn, ThreadLast
      <4>2. webKey' = server[thread[1]]
        BY <1>2, <1>4, <3>1, Announced DEF KeyInv
      <4>3. QED BY <4>1, <4>2
    <3>2. CASE ~ThreadHas
      BY <1>2, <1>4, <2>1, <3>2 DEF KeysInTurn, Settled
    <3>3. QED BY <3>1, <3>2
  <2>3. NoneHidden' /\ ReadLast' /\ QueueLast' /\ ThreadLast'
    BY <1>2, <1>5, <2>1 DEF KeysInTurn, NoneHidden, ReadLast, QueueLast, ThreadLast
  <2>4. QED BY <2>2, <2>3 DEF KeysInTurn
<1>7. QED BY <1>1, <1>2, <1>3, <1>6 DEF KeyInv, Ended

(* New options: a switch of observe_s2c overtakes no ACK, or makes blind.  *)
LEMMA KeySwitch == KeyInv /\ SwitchOptions => KeyInv'
<1> SUFFICES ASSUME KeyInv, SwitchOptions PROVE KeyInv'
  OBVIOUS
<1>1. TypeOK /\ TypeOK'
  BY TypeStep DEF KeyInv, Next
<1>2. /\ UNCHANGED <<server, pump, cipher, emitted, webKey, newest, observed, obsq, thread, primed>>
      /\ blind' = (blind \/ (observing' # observing /\ SomeAck(thread \o obsq \o observed)))
      /\ observing' \in BOOLEAN /\ observing \in BOOLEAN
  BY <1>1 DEF SwitchOptions, stream, key, worker, TypeOK
<1>3. /\ ReadHas' <=> ReadHas
      /\ QueueHas' <=> QueueHas
      /\ ThreadHas' <=> ThreadHas
  BY <1>2 DEF ReadHas, QueueHas, ThreadHas
<1>4. SomeAck(thread \o obsq \o observed) <=> ReadHas \/ QueueHas \/ ThreadHas
  <2>1. /\ observed \in Seq(Pkts) /\ obsq \in Seq(Pkts) /\ thread \in Seq(Pkts)
        /\ Len(observed) \in Nat /\ Len(obsq) \in Nat /\ Len(thread) \in Nat
    BY <1>1, KeyTypes
  <2> DEFINE r == thread \o obsq  w == r \o observed
  <2>2. r \in Seq(Pkts) /\ Joins(thread, obsq, r)
    BY <2>1, Joined
  <2>3. Len(r) \in Nat
    BY <2>2, LenProperties
  <2> HIDE DEF r
  <2>4. Joins(r, observed, w)
    BY <2>1, <2>2, Joined
  <2> HIDE DEF w
  <2>5. HasAck(server, w) <=> HasAck(server, r) \/ HasAck(server, observed)
    BY <2>1, <2>3, <2>4, JoinHas
  <2>6. HasAck(server, r) <=> HasAck(server, thread) \/ HasAck(server, obsq)
    BY <2>1, <2>2, JoinHas
  <2>7. QED BY <2>5, <2>6, SomeAckFact DEF r, w, ReadHas, QueueHas, ThreadHas
<1>5. ASSUME ~blind', ~Ended PROVE KeysInTurn'
  <2>1. KeysInTurn
    BY <1>2, <1>5 DEF KeyInv
  <2>2. NoneHidden'
    BY <1>2, <1>3, <1>4, <1>5, <2>1 DEF KeysInTurn, NoneHidden
  <2>3. ReadLast' /\ QueueLast' /\ ThreadLast' /\ Settled'
    BY <1>2, <1>3, <2>1 DEF KeysInTurn, ReadLast, QueueLast, ThreadLast, Settled
  <2>4. QED BY <2>2, <2>3 DEF KeysInTurn
<1>6. QED BY <1>1, <1>2, <1>5 DEF KeyInv, Ended

LEMMA KeyUnchanged == KeyInv /\ UNCHANGED vars => KeyInv'
<1> SUFFICES ASSUME KeyInv, UNCHANGED vars PROVE KeyInv'
  OBVIOUS
<1>1. TypeOK'
  BY TypeStep DEF KeyInv
<1>2. UNCHANGED <<server, pump, observing, cipher, emitted, webKey, newest, observed, obsq,
                  thread, primed, blind>>
  BY DEF vars, stream, options, key, worker, history
<1>3. QED
  BY <1>1, <1>2
  DEF KeyInv, KeysInTurn, NoneHidden, ReadLast, QueueLast, ThreadLast, Settled,
      ReadHas, QueueHas, ThreadHas, Ended

-----------------------------------------------------------------------------
(* The theorem.                                                            *)

(* The newest key is with the cipher, or its ACK is on its way.            *)
LEMMA InTurnHeals == KeyInv => CipherHeals
<1> SUFFICES ASSUME KeyInv, ~blind, ~Ended, cipher # newest
             PROVE  \E i \in 1 .. Len(OnTheWay) : server[OnTheWay[i]] = newest
  BY DEF CipherHeals
<1> DEFINE r == thread \o obsq  w == r \o observed
<1>1. /\ observed \in Seq(Pkts) /\ obsq \in Seq(Pkts) /\ thread \in Seq(Pkts)
      /\ Len(observed) \in Nat /\ Len(obsq) \in Nat /\ Len(thread) \in Nat
  BY KeyTypes DEF KeyInv
<1>2. r \in Seq(Pkts) /\ Joins(thread, obsq, r)
  BY <1>1, Joined
<1>3. Len(r) \in Nat
  BY <1>2, LenProperties
<1> HIDE DEF r
<1>4. Joins(r, observed, w)
  BY <1>1, <1>2, Joined
<1> HIDE DEF w
<1>5. KeysInTurn
  BY DEF KeyInv
<1>6. LastAck(server, w, newest)
  <2>1. CASE ReadHas
    BY <1>1, <1>3, <1>4, <1>5, <2>1, JoinLast DEF KeysInTurn, ReadLast, ReadHas
  <2>2. CASE ~ReadHas
    <3>1. LastAck(server, r, newest) => LastAck(server, w, newest)
      BY <1>1, <1>3, <1>4, <2>2, JoinFirst DEF ReadHas
    <3>2. CASE QueueHas
      BY <1>1, <1>2, <1>5, <2>2, <3>1, <3>2, JoinLast DEF KeysInTurn, QueueLast, QueueHas
    <3>3. CASE ~QueueHas
      <4>1. LastAck(server, thread, newest)
        BY <1>5, <2>2, <3>3 DEF KeysInTurn, ThreadLast, Settled
      <4>2. QED BY <1>1, <1>2, <3>1, <3>3, <4>1, JoinFirst DEF QueueHas
    <3>4. QED BY <3>2, <3>3
  <2>3. QED BY <2>1, <2>2
<1>7. QED BY <1>6 DEF LastAck, OnTheWay, r, w

(* With nothing on its way, the web application has the newest key.        *)
LEMMA InTurnKnown == KeyInv => KeyKnown
<1> SUFFICES ASSUME KeyInv, Quiet, ~blind PROVE webKey = newest
  BY DEF KeyKnown
<1>1. observed = <<>> /\ obsq = <<>> /\ thread = <<>> /\ ~Ended
  BY DEF Quiet, KeyInv, TypeOK, Ended
<1>2. ~ReadHas /\ ~QueueHas /\ ~ThreadHas
  BY <1>1, EmptyHasNone DEF ReadHas, QueueHas, ThreadHas
<1>3. QED BY <1>1, <1>2 DEF KeyInv, KeysInTurn, Settled

(* The key that _pump_s2c parsed last is never lost to an older one: the   *)
(* observe thread may set the cipher back, but then the newest ACK is      *)
(* still on its way, and when nothing is, cipher and web application have  *)
(* it.  Only a dropped ACK, or a switch of observe_s2c with an ACK under   *)
(* way, breaks this.                                                       *)
THEOREM KeysAreHeld == Spec => []KeyHeld
<1>1. Init => KeyInv
  BY KeyInit
<1>2. KeyInv /\ [Next]_vars => KeyInv'
  BY KeyParsePacket, KeyDrained, KeyPumpRest, KeyStartObserve, KeyThreadPrimes,
     KeyThreadEnds, KeySwitch, KeyUnchanged
  DEF Next, PumpS2c, ObserveWorker
<1>3. KeyInv => KeyHeld
  <2>1. KeyInv => TypeOK
    BY DEF KeyInv
  <2>2. QED BY <2>1, InTurnHeals, InTurnKnown DEF KeyHeld
<1>4. QED BY <1>1, <1>2, <1>3, PTL DEF Spec
=============================================================================
