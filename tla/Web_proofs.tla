----------------------------- MODULE Web_proofs -----------------------------
(***************************************************************************)
(* Proofs about the web application.  First the way of a packet to the     *)
(* browsers (PacketFeed, EventBus), for any number of viewers, packets and *)
(* resets and all capacities: what a viewer is sent is in order and        *)
(* accounted for, resets separate, and an update is of the packet whose    *)
(* number it names.  Then SessionRegistry, for every number of sessions,   *)
(* keys, packets and requests: which session is the active one, what the   *)
(* page shows, and which key the RFN state belongs to.                     *)
(***************************************************************************)
EXTENDS PacketFeed, SessionRegistry, SequenceTheorems, FiniteSetTheorems,
        WellFoundedInduction, TLAPS

-----------------------------------------------------------------------------
(* The bus.  Its lists rise: every event lies between low and high, and    *)
(* above all events before it.                                             *)

Ofs == Nat \cup (Nat \X Nat)
Events == [seq : Nat, kind : {"packet", "reset", "session", "update", "passing"}, of : Ofs]

Rising(s, low, high) ==
    \A i \in 1 .. Len(s) : /\ low < s[i].seq /\ s[i].seq <= high
                           /\ \A j \in 1 .. Len(s) : j < i => s[j].seq < s[i].seq

LEMMA ItemsAreEvents ==
    ASSUME NEW E \in SUBSET Events, NEW s \in Seq(E)
    PROVE  \A i \in 1 .. Len(s) : s[i] \in Events /\ s[i].seq \in Nat
<1> SUFFICES ASSUME NEW i \in 1 .. Len(s) PROVE s[i] \in Events /\ s[i].seq \in Nat
  OBVIOUS
<1>1. s[i] \in Events
  BY ElementOfSeq
<1>2. QED BY <1>1 DEF Events

LEMMA RisingAppend ==
    ASSUME NEW E \in SUBSET Events, NEW s \in Seq(E), NEW low \in Nat, NEW high \in Nat, low <= high,
           NEW e \in E, e.seq = high + 1, Rising(s, low, high)
    PROVE  /\ Append(s, e) \in Seq(E) /\ Len(Append(s, e)) = Len(s) + 1
           /\ Rising(Append(s, e), low, high + 1)
<1> DEFINE r == Append(s, e)
<1>1. /\ r \in Seq(E) /\ Len(r) = Len(s) + 1 /\ r[Len(s) + 1] = e
      /\ \A i \in 1 .. Len(s) : r[i] = s[i]
  BY AppendProperties
<1> HIDE DEF r
<1>2. Len(s) \in Nat /\ \A i \in 1 .. Len(s) : s[i].seq \in Nat
  BY ItemsAreEvents, LenProperties
<1>3. \A i \in 1 .. Len(r) : i \in 1 .. Len(s) \/ i = Len(s) + 1
  BY <1>1, <1>2
<1>4. \A i \in 1 .. Len(r) : low < r[i].seq /\ r[i].seq <= high + 1
  BY <1>1, <1>2, <1>3 DEF Rising
<1>5. ASSUME NEW i \in 1 .. Len(r), NEW j \in 1 .. Len(r), j < i PROVE r[j].seq < r[i].seq
  <2>1. j \in 1 .. Len(s)
    BY <1>1, <1>2, <1>5
  <2>2. CASE i \in 1 .. Len(s)
    BY <1>1, <1>5, <2>1, <2>2 DEF Rising
  <2>3. CASE i = Len(s) + 1
    BY <1>1, <1>2, <2>1, <2>3 DEF Rising
  <2>4. QED BY <1>3, <2>2, <2>3
<1>6. QED BY <1>1, <1>4, <1>5 DEF Rising, r

(* A part of a rising list.                                                *)
LEMMA RisingPart ==
    ASSUME NEW E, NEW s \in Seq(E), NEW low, NEW high, NEW a \in Nat \ {0}, NEW b \in Nat,
           b <= Len(s), Rising(s, low, high)
    PROVE  /\ SubSeq(s, a, b) \in Seq(E) /\ Rising(SubSeq(s, a, b), low, high)
           /\ Len(SubSeq(s, a, b)) = IF a <= b THEN b - a + 1 ELSE 0
<1> DEFINE r == SubSeq(s, a, b)
<1>1. Len(s) \in Nat /\ \A i \in 1 .. Len(s) : s[i] \in E
  BY LenProperties, ElementOfSeq
<1>2. /\ r \in Seq(E) /\ Len(r) = IF a <= b THEN b - a + 1 ELSE 0
      /\ \A i \in 1 .. b - a + 1 : r[i] = s[a + i - 1]
  <2>1. \A i \in a .. b : s[i] \in E
    BY <1>1
  <2>2. QED BY <2>1, SubSeqProperties
<1> HIDE DEF r
<1>3. ASSUME NEW i \in 1 .. Len(r) PROVE a + i - 1 \in 1 .. Len(s) /\ r[i] = s[a + i - 1]
  <2>1. a <= b /\ i \in 1 .. b - a + 1
    BY <1>1, <1>2
  <2>2. QED BY <1>1, <1>2, <2>1
<1>4. \A i, j \in 1 .. Len(r) : j < i => a + j - 1 < a + i - 1
  BY <1>2
<1>5. Rising(r, low, high)
  BY <1>3, <1>4 DEF Rising
<1>6. QED BY <1>2, <1>5 DEF r

LEMMA RisingNewest ==
    ASSUME NEW E, NEW s \in Seq(E), NEW low, NEW high, NEW n \in Nat, Rising(s, low, high)
    PROVE  /\ Newest(s, n) \in Seq(E) /\ Rising(Newest(s, n), low, high)
           /\ Len(Newest(s, n)) <= n
<1>1. Len(s) \in Nat
  BY LenProperties
<1>2. CASE Len(s) <= n
  BY <1>1, <1>2 DEF Newest
<1>3. CASE ~(Len(s) <= n)
  <2>1. /\ Len(s) - n + 1 \in Nat \ {0} /\ Len(s) <= Len(s)
        /\ (IF Len(s) - n + 1 <= Len(s) THEN Len(s) - (Len(s) - n + 1) + 1 ELSE 0) <= n
    BY <1>1, <1>3
  <2>2. Newest(s, n) = SubSeq(s, Len(s) - n + 1, Len(s))
    BY <1>3 DEF Newest
  <2>3. QED BY <1>1, <2>1, <2>2, RisingPart
<1>4. QED BY <1>2, <1>3

LEMMA RisingTail ==
    ASSUME NEW E \in SUBSET Events, NEW s \in Seq(E), s # <<>>, NEW low, NEW high, Rising(s, low, high)
    PROVE  /\ Head(s) \in E /\ Tail(s) \in Seq(E) /\ Len(Tail(s)) = Len(s) - 1
           /\ Head(s).seq <= high /\ Rising(Tail(s), Head(s).seq, high)
<1>1. /\ Head(s) \in E /\ Tail(s) \in Seq(E) /\ Len(Tail(s)) = Len(s) - 1
      /\ \A i \in 1 .. Len(Tail(s)) : Tail(s)[i] = s[i + 1]
  BY HeadTailProperties
<1>2. Len(s) \in Nat \ {0} /\ Head(s) = s[1]
  BY EmptySeq
<1>3. /\ 1 \in 1 .. Len(s)
      /\ \A i \in 1 .. Len(s) - 1 : i + 1 \in 1 .. Len(s) /\ 1 < i + 1
      /\ \A i, j \in 1 .. Len(s) - 1 : j < i => j + 1 < i + 1
  BY <1>2
<1>4. QED BY <1>1, <1>2, <1>3 DEF Rising

(* The account of a viewer, from number since to number n, stays even: an  *)
(* event more that waits, that is dropped, that is sent, or that is wiped. *)
Even(n, since, replayed, got, waiting, cleared, dropped) ==
    (n - since) + replayed = got + waiting + cleared + dropped

LEMMA Balance ==
    ASSUME NEW n \in Nat, NEW s \in Nat, NEW p \in Nat, NEW g \in Nat, NEW l \in Nat,
           NEW c \in Nat, NEW d \in Nat, Even(n, s, p, g, l, c, d)
    PROVE  /\ Even(n + 1, s, p, g, l + 1, c, d)
           /\ Even(n + 1, s, p, g, l, c, d + 1)
           /\ Even(n, s, p, g, 0, c + l, d)
           /\ Even(n, s, p, g + 1, l - 1, c, d)
BY DEF Even

-----------------------------------------------------------------------------
(* A viewer of a bus that has come to number n: E holds the events that    *)
(* may wait for him, and no reset above r has been sent to him.            *)

Seated(E) ==
    [here : {TRUE}, queue : Seq(E), dropped : Nat, hand : Nat, sending : BOOLEAN, got : Nat,
     last : Nat, reset : Nat, since : Nat, replayed : Nat, cleared : Nat]

Accounts(v, n) ==
    Even(n, v.since, v.replayed, v.got + v.hand, Len(v.queue), v.cleared, v.dropped)

ViewerOK(v, E, n, r) ==
    v # Away =>
        /\ v \in Seated(E) /\ Len(v.queue) <= Capacity /\ Rising(v.queue, v.last, n)
        /\ v.last <= n /\ v.since <= n /\ v.reset <= r /\ v.hand <= BatchMax /\ Accounts(v, n)

BusOK(b, E, r) ==
    /\ DOMAIN b = {"seq", "history", "viewer"}
    /\ b.seq \in Nat /\ b.history \in Seq(E)
    /\ Len(b.history) <= HistoryMax /\ Rising(b.history, 0, b.seq)
    /\ DOMAIN b.viewer = Viewers
    /\ \A v \in Viewers : ViewerOK(b.viewer[v], E, b.seq, r)

LEMMA SeatedFact ==
    ASSUME NEW E, NEW v, v # Away, NEW n, NEW r, ViewerOK(v, E, n, r)
    PROVE  /\ v.here /\ v.queue \in Seq(E) /\ Len(v.queue) \in Nat
           /\ v.dropped \in Nat /\ v.got \in Nat /\ v.hand \in Nat /\ v.got + v.hand \in Nat
           /\ v.last \in Nat /\ v.reset \in Nat
           /\ v.since \in Nat /\ v.replayed \in Nat /\ v.cleared \in Nat
<1>1. v \in Seated(E)
  BY DEF ViewerOK
<1>2. v.queue \in Seq(E)
  BY <1>1 DEF Seated
<1>3. v.got \in Nat /\ v.hand \in Nat
  BY <1>1 DEF Seated
<1>4. v.got + v.hand \in Nat
  BY <1>3
<1>5. QED BY <1>1, <1>2, <1>3, <1>4, LenProperties DEF Seated

(* Changes of a viewer.                                                    *)
LEMMA SeatedChanges ==
    ASSUME NEW E, NEW F, NEW v \in Seated(E), NEW q \in Seq(F), NEW d \in Nat
    PROVE  /\ [v EXCEPT !.queue = q] \in Seated(F)
           /\ [v EXCEPT !.queue = q, !.dropped = d] \in Seated(F)
           /\ [v EXCEPT !.queue = q, !.cleared = d] \in Seated(F)
           /\ \A l, m \in Nat :
                [v EXCEPT !.queue = q, !.hand = d, !.last = l, !.reset = m] \in Seated(F)
           /\ [v EXCEPT !.got = d, !.hand = 0] \in Seated(E)
           /\ [v EXCEPT !.sending = FALSE] \in Seated(E)
BY DEF Seated

LEMMA AwayIsNotHere == ~Away.here
BY DEF Away

(* Other events and later resets may come.                                 *)
LEMMA BusGrows ==
    ASSUME NEW b, NEW E, NEW F, NEW r \in Nat, NEW q \in Nat, E \subseteq F, r <= q, BusOK(b, E, r)
    PROVE  BusOK(b, F, q)
<1>1. \A s \in Seq(E) : s \in Seq(F)
  BY SeqMonotonic
<1>2. b.history \in Seq(F)
  BY <1>1 DEF BusOK
<1>3. ASSUME NEW v \in Viewers PROVE ViewerOK(b.viewer[v], F, b.seq, q)
  <2> DEFINE w == b.viewer[v]
  <2>1. ViewerOK(w, E, b.seq, r)
    BY DEF BusOK
  <2> HIDE DEF w
  <2>2. ASSUME w # Away PROVE w \in Seated(F) /\ w.reset <= q
    <3>1. w \in Seated(E) /\ w.reset <= r /\ w.reset \in Nat
      BY <2>1, <2>2, SeatedFact DEF ViewerOK
    <3>2. w \in Seated(F)
      BY <1>1, <3>1 DEF Seated
    <3>3. QED BY <3>1, <3>2
  <2>3. QED BY <2>1, <2>2 DEF ViewerOK, w
<1>4. QED BY <1>2, <1>3 DEF BusOK

(* An event is put into the queue of a viewer; a full queue loses its      *)
(* first, which is counted.                                                *)
LEMMA PutOK ==
    ASSUME NEW E \in SUBSET Events, NEW v, NEW n \in Nat, NEW r \in Nat, ViewerOK(v, E, n, r),
           NEW e \in E, e.seq = n + 1
    PROVE  ViewerOK(Put(v, e), E, n + 1, r)
<1>1. CASE v = Away
  BY <1>1, AwayIsNotHere DEF Put, ViewerOK
<1>2. CASE v # Away
  <2>1. /\ v \in Seated(E) /\ Len(v.queue) <= Capacity /\ Rising(v.queue, v.last, n)
        /\ v.last <= n /\ v.since <= n /\ v.reset <= r /\ v.hand <= BatchMax /\ Accounts(v, n)
    BY <1>2 DEF ViewerOK
  <2>2. /\ v.here /\ v.queue \in Seq(E) /\ Len(v.queue) \in Nat
        /\ v.dropped \in Nat /\ v.got \in Nat /\ v.hand \in Nat /\ v.got + v.hand \in Nat
        /\ v.last \in Nat /\ v.reset \in Nat
        /\ v.since \in Nat /\ v.replayed \in Nat /\ v.cleared \in Nat
    BY <1>2, SeatedFact
  <2>3. CASE Len(v.queue) = Capacity
    <3> DEFINE t == Tail(v.queue)  q == Append(t, e)
               w == [v EXCEPT !.queue = q, !.dropped = @ + 1]
    <3>1. v.queue # <<>>
      BY <2>3, EventBusAssumption
    <3>2. /\ t \in Seq(E) /\ Len(t) = Len(v.queue) - 1 /\ Rising(t, v.last, n)
      <4>1. /\ t \in Seq(E) /\ Len(t) = Len(v.queue) - 1 /\ Rising(t, Head(v.queue).seq, n)
            /\ Head(v.queue).seq \in Nat
        BY <2>1, <2>2, <3>1, RisingTail DEF Events
      <4>2. v.last < Head(v.queue).seq
        <5>1. Head(v.queue) = v.queue[1] /\ 1 \in 1 .. Len(v.queue)
          BY <2>2, <3>1, EmptySeq
        <5>2. QED BY <2>1, <5>1 DEF Rising
      <4>3. \A i \in 1 .. Len(t) : t[i].seq \in Nat
        BY <4>1, ItemsAreEvents
      <4> HIDE DEF t
      <4>4. \A i \in 1 .. Len(t) : v.last < t[i].seq
        <5> SUFFICES ASSUME NEW i \in 1 .. Len(t) PROVE v.last < t[i].seq
          OBVIOUS
        <5>1. Head(v.queue).seq < t[i].seq /\ t[i].seq \in Nat
          BY <4>1, <4>3 DEF Rising
        <5>2. \A x, y, z \in Nat : x < y /\ y < z => x < z
          OBVIOUS
        <5>3. QED BY <2>2, <4>1, <4>2, <5>1, <5>2
      <4>5. QED BY <4>1, <4>4 DEF Rising
    <3> HIDE DEF t
    <3>3. /\ q \in Seq(E) /\ Len(q) = Len(v.queue) /\ Rising(q, v.last, n + 1)
      <4>1. q \in Seq(E) /\ Len(q) = Len(t) + 1 /\ Rising(q, v.last, n + 1)
        BY <2>1, <2>2, <3>2, RisingAppend
      <4>2. QED BY <2>2, <3>2, <4>1
    <3> HIDE DEF q
    <3>4. Put(v, e) = w
      BY <2>2, <2>3 DEF Put, q, t
    <3>5. /\ w.queue = q /\ w.dropped = v.dropped + 1 /\ w.got = v.got /\ w.hand = v.hand
          /\ w.last = v.last
          /\ w.reset = v.reset /\ w.since = v.since /\ w.replayed = v.replayed
          /\ w.cleared = v.cleared
      BY <2>1 DEF Seated
    <3>6. w \in Seated(E)
      <4>1. v.dropped + 1 \in Nat
        BY <2>2
      <4>2. QED BY <2>1, <3>3, <4>1, SeatedChanges
    <3> HIDE DEF w
    <3>7. Accounts(w, n + 1)
      <4>1. Even(n + 1, v.since, v.replayed, v.got + v.hand, Len(v.queue), v.cleared, v.dropped + 1)
        BY <2>1, <2>2, Balance DEF Accounts
      <4>2. QED BY <3>3, <3>5, <4>1 DEF Accounts
    <3>8. w.last <= n + 1 /\ w.since <= n + 1
      BY <2>1, <2>2, <3>5
    <3>9. QED BY <2>1, <2>3, <3>3, <3>4, <3>5, <3>6, <3>7, <3>8 DEF ViewerOK
  <2>4. CASE Len(v.queue) # Capacity
    <3> DEFINE q == Append(v.queue, e)
               w == [v EXCEPT !.queue = q]
    <3>1. q \in Seq(E) /\ Len(q) = Len(v.queue) + 1 /\ Rising(q, v.last, n + 1)
      BY <2>1, <2>2, RisingAppend
    <3> HIDE DEF q
    <3>2. Put(v, e) = w
      BY <2>2, <2>4 DEF Put, q
    <3>3. /\ w.queue = q /\ w.dropped = v.dropped /\ w.got = v.got /\ w.hand = v.hand
          /\ w.last = v.last
          /\ w.reset = v.reset /\ w.since = v.since /\ w.replayed = v.replayed
          /\ w.cleared = v.cleared
      BY <2>1 DEF Seated
    <3>4. w \in Seated(E)
      <4>1. 0 \in Nat
        OBVIOUS
      <4>2. QED BY <2>1, <3>1, <4>1, SeatedChanges
    <3> HIDE DEF w
    <3>5. Accounts(w, n + 1)
      <4>1. Even(n + 1, v.since, v.replayed, v.got + v.hand, Len(v.queue) + 1, v.cleared, v.dropped)
        BY <2>1, <2>2, Balance DEF Accounts
      <4>2. QED BY <3>1, <3>3, <4>1 DEF Accounts
    <3>6. w.last <= n + 1 /\ w.since <= n + 1 /\ Len(q) <= Capacity
      <4>1. w.last <= n + 1 /\ w.since <= n + 1
        BY <2>1, <2>2, <3>3
      <4>2. Capacity \in Int /\ Len(v.queue) \in Int /\ Len(v.queue) <= Capacity
        BY <2>1, <2>2, EventBusAssumption
      <4>3. Len(q) <= Capacity
        BY <2>4, <3>1, <4>2
      <4>4. QED BY <4>1, <4>3
    <3>7. QED BY <2>1, <3>1, <3>2, <3>3, <3>4, <3>5, <3>6 DEF ViewerOK
  <2>5. QED BY <2>3, <2>4
<1>3. QED BY <1>1, <1>2

Number(b, event) == [seq |-> b.seq + 1, kind |-> event.kind, of |-> event.of]

LEMMA PublishOK ==
    ASSUME NEW E \in SUBSET Events, NEW b, NEW r \in Nat, BusOK(b, E, r),
           NEW event, NEW keep \in BOOLEAN, Number(b, event) \in E
    PROVE  /\ BusOK(Publish(b, event, keep), E, r)
           /\ Publish(b, event, keep).seq = b.seq + 1
<1> DEFINE e == Number(b, event)  c == Publish(b, event, keep)
<1>1. e.seq = b.seq + 1 /\ e \in E /\ b.seq \in Nat
  BY DEF Number, BusOK
<1>2. /\ DOMAIN c = {"seq", "history", "viewer"} /\ c.seq = b.seq + 1
      /\ c.history = IF keep THEN Newest(Append(b.history, e), HistoryMax) ELSE b.history
      /\ c.viewer = [v \in Viewers |-> Put(b.viewer[v], e)]
  BY DEF Publish, Number, BusOK
<1> HIDE DEF c, e
<1>3. /\ b.history \in Seq(E) /\ Len(b.history) <= HistoryMax /\ Rising(b.history, 0, b.seq)
      /\ HistoryMax \in Nat
  BY EventBusAssumption DEF BusOK
<1>4. c.history \in Seq(E) /\ Len(c.history) <= HistoryMax /\ Rising(c.history, 0, c.seq)
  <2>1. CASE keep
    <3>1. /\ Append(b.history, e) \in Seq(E)
          /\ Rising(Append(b.history, e), 0, b.seq + 1)
      BY <1>1, <1>3, RisingAppend
    <3>2. c.history = Newest(Append(b.history, e), HistoryMax)
      BY <1>2, <2>1
    <3>3. /\ c.history \in Seq(E) /\ Len(c.history) <= HistoryMax
          /\ Rising(c.history, 0, b.seq + 1)
      BY <1>3, <3>1, <3>2, RisingNewest
    <3>4. QED BY <1>2, <3>3
  <2>2. CASE ~keep
    <3>1. \A i \in 1 .. Len(b.history) : b.history[i].seq \in Nat
      BY <1>3, ItemsAreEvents
    <3>2. Rising(b.history, 0, b.seq + 1)
      BY <1>1, <1>3, <3>1 DEF Rising
    <3>3. QED BY <1>2, <1>3, <2>2, <3>2
  <2>3. QED BY <2>1, <2>2
<1>5. ASSUME NEW v \in Viewers PROVE ViewerOK(c.viewer[v], E, c.seq, r)
  <2>1. ViewerOK(b.viewer[v], E, b.seq, r)
    BY DEF BusOK
  <2>2. c.viewer[v] = Put(b.viewer[v], e)
    BY <1>2
  <2>3. QED BY <1>1, <1>2, <2>1, <2>2, PutOK
<1>6. DOMAIN c.viewer = Viewers /\ c.seq \in Nat
  BY <1>1, <1>2
<1>7. QED BY <1>2, <1>4, <1>5, <1>6 DEF BusOK, c

LEMMA NothingRises == \A E, low, high : <<>> \in Seq(E) /\ Len(<<>>) = 0 /\ Rising(<<>>, low, high)
<1>1. Len(<<>>) = 0 /\ 1 .. 0 = {}
  OBVIOUS
<1>2. QED BY <1>1, EmptySeq DEF Rising

(* A cleared bus holds nothing; what viewers lose is counted.              *)
LEMMA ClearOK ==
    ASSUME NEW E, NEW b, NEW r \in Nat, BusOK(b, E, r)
    PROVE  BusOK(Clear(b), {}, r) /\ Clear(b).seq = b.seq
<1> DEFINE c == Clear(b)
<1>1. /\ DOMAIN c = {"seq", "history", "viewer"} /\ c.seq = b.seq /\ c.history = <<>>
      /\ c.viewer = [v \in Viewers |-> Wiped(b.viewer[v])]
  BY DEF Clear, BusOK
<1> HIDE DEF c
<1>2. ASSUME NEW v \in Viewers PROVE ViewerOK(Wiped(b.viewer[v]), {}, b.seq, r)
  <2> DEFINE w == b.viewer[v]  x == [w EXCEPT !.queue = <<>>, !.cleared = @ + Len(w.queue)]
  <2>1. ViewerOK(w, E, b.seq, r)
    BY DEF BusOK
  <2>2. CASE w = Away
    BY <2>2, AwayIsNotHere DEF ViewerOK, Wiped
  <2>3. CASE w # Away
    <3>1. /\ w \in Seated(E) /\ w.last <= b.seq /\ w.since <= b.seq /\ w.reset <= r
          /\ w.hand <= BatchMax /\ Accounts(w, b.seq)
      BY <2>1, <2>3 DEF ViewerOK
    <3>2. /\ w.here /\ w.queue \in Seq(E) /\ Len(w.queue) \in Nat
          /\ w.dropped \in Nat /\ w.got \in Nat /\ w.hand \in Nat /\ w.got + w.hand \in Nat
          /\ w.last \in Nat /\ w.reset \in Nat
          /\ w.since \in Nat /\ w.replayed \in Nat /\ w.cleared \in Nat
      BY <2>1, <2>3, SeatedFact
    <3>3. Wiped(w) = x
      BY <3>2 DEF Wiped
    <3> HIDE DEF w
    <3>4. /\ x.queue = <<>> /\ x.dropped = w.dropped /\ x.got = w.got /\ x.hand = w.hand
          /\ x.last = w.last
          /\ x.reset = w.reset /\ x.since = w.since /\ x.replayed = w.replayed
          /\ x.cleared = w.cleared + Len(w.queue)
      BY <3>1 DEF Seated
    <3>5. x \in Seated({})
      <4>1. w.cleared + Len(w.queue) \in Nat /\ <<>> \in Seq({})
        BY <3>2, NothingRises
      <4>2. QED BY <3>1, <4>1, SeatedChanges
    <3> HIDE DEF x
    <3>6. Len(x.queue) = 0 /\ Rising(x.queue, x.last, b.seq)
      BY <3>4, NothingRises
    <3>7. b.seq \in Nat
      BY DEF BusOK
    <3>8. Accounts(x, b.seq)
      <4>1. Even(b.seq, w.since, w.replayed, w.got + w.hand, 0, w.cleared + Len(w.queue), w.dropped)
        BY <3>1, <3>2, <3>7, Balance DEF Accounts
      <4>2. QED BY <3>4, <3>6, <4>1 DEF Accounts
    <3>9. Len(x.queue) <= Capacity
      BY <3>6, EventBusAssumption
    <3>10. ViewerOK(x, {}, b.seq, r)
      BY <3>1, <3>4, <3>5, <3>6, <3>8, <3>9 DEF ViewerOK
    <3>11. QED BY <3>3, <3>10 DEF w
  <2>4. QED BY <2>2, <2>3
<1>3. ASSUME NEW v \in Viewers PROVE ViewerOK(c.viewer[v], {}, c.seq, r)
  BY <1>1, <1>2
<1>4. /\ c.history \in Seq({}) /\ Len(c.history) <= HistoryMax /\ Rising(c.history, 0, c.seq)
  <2>1. c.history \in Seq({}) /\ Len(c.history) = 0 /\ Rising(c.history, 0, c.seq)
    BY <1>1, NothingRises, Zenon
  <2>2. QED BY <2>1, EventBusAssumption
<1>5. c.seq \in Nat /\ DOMAIN c.viewer = Viewers
  BY <1>1 DEF BusOK
<1>6. QED BY <1>1, <1>3, <1>4, <1>5 DEF BusOK, c

(* One viewer changes, the bus does not.                                   *)
LEMMA ViewerChanges ==
    ASSUME NEW E, NEW b, NEW r \in Nat, BusOK(b, E, r),
           NEW v \in Viewers, NEW w, ViewerOK(w, E, b.seq, r)
    PROVE  BusOK([b EXCEPT !.viewer[v] = w], E, r) /\ [b EXCEPT !.viewer[v] = w].seq = b.seq
<1> DEFINE c == [b EXCEPT !.viewer[v] = w]
<1>1. /\ DOMAIN c = {"seq", "history", "viewer"} /\ c.seq = b.seq /\ c.history = b.history
      /\ DOMAIN c.viewer = Viewers
      /\ \A u \in Viewers : c.viewer[u] = IF u = v THEN w ELSE b.viewer[u]
  BY DEF BusOK
<1> HIDE DEF c
<1>2. QED BY <1>1 DEF BusOK, c

LEMMA ReplayedOK ==
    ASSUME NEW E, NEW b, NEW r, BusOK(b, E, r)
    PROVE  /\ Replayed(b) \in Seq(E) /\ Rising(Replayed(b), 0, b.seq)
           /\ Len(Replayed(b)) \in Nat /\ Len(Replayed(b)) <= Capacity
<1> DEFINE all == Newest(b.history, Replay)
<1>1. all \in Seq(E) /\ Rising(all, 0, b.seq)
  BY RisingNewest, EventBusAssumption DEF BusOK
<1> HIDE DEF all
<1>2. Len(all) \in Nat /\ Capacity \in Nat \ {0}
  BY <1>1, LenProperties, EventBusAssumption
<1>3. CASE Len(all) <= Capacity
  BY <1>1, <1>2, <1>3 DEF Replayed, all
<1>4. CASE ~(Len(all) <= Capacity)
  <2>1. Replayed(b) = SubSeq(all, 1, Capacity)
    BY <1>4 DEF Replayed, all
  <2>2. /\ 1 \in Nat \ {0} /\ Capacity \in Nat /\ Capacity <= Len(all)
        /\ (IF 1 <= Capacity THEN Capacity - 1 + 1 ELSE 0) = Capacity
    BY <1>2, <1>4
  <2>3. QED BY <1>1, <2>1, <2>2, RisingPart
<1>5. QED BY <1>3, <1>4

LEMMA SubscribeOK ==
    ASSUME NEW E, NEW b, NEW r \in Nat, BusOK(b, E, r), NEW v \in Viewers
    PROVE  BusOK(Subscribe(b, v), E, r) /\ Subscribe(b, v).seq = b.seq
<1> DEFINE p == Replayed(b)
           w == [here |-> TRUE, queue |-> p, dropped |-> 0, hand |-> 0, sending |-> TRUE,
                 got |-> 0, last |-> 0, reset |-> 0, since |-> b.seq, replayed |-> Len(p), cleared |-> 0]
<1>1. p \in Seq(E) /\ Rising(p, 0, b.seq) /\ Len(p) \in Nat /\ Len(p) <= Capacity
  BY ReplayedOK
<1>2. b.seq \in Nat
  BY DEF BusOK
<1>3. Subscribe(b, v) = [b EXCEPT !.viewer[v] = w]
  BY DEF Subscribe
<1> HIDE DEF p
<1>4. /\ w \in Seated(E) /\ w.queue = p /\ w.dropped = 0 /\ w.got = 0 /\ w.hand = 0 /\ w.last = 0
      /\ w.reset = 0 /\ w.since = b.seq /\ w.replayed = Len(p) /\ w.cleared = 0
  BY <1>1, <1>2 DEF Seated
<1> HIDE DEF w
<1>5. Even(b.seq, b.seq, Len(p), 0 + 0, Len(p), 0, 0) /\ 0 <= BatchMax
  BY <1>1, <1>2, PacketFeedAssumption DEF Even
<1>6. ViewerOK(w, E, b.seq, r)
  BY <1>1, <1>2, <1>4, <1>5 DEF ViewerOK, Accounts
<1>7. QED BY <1>3, <1>6, ViewerChanges

LEMMA UnsubscribeOK ==
    ASSUME NEW E, NEW b, NEW r \in Nat, BusOK(b, E, r), NEW v \in Viewers
    PROVE  BusOK(Unsubscribe(b, v), E, r) /\ Unsubscribe(b, v).seq = b.seq
<1>1. ViewerOK(Away, E, b.seq, r)
  BY DEF ViewerOK
<1>2. QED BY <1>1, ViewerChanges DEF Unsubscribe

(* The first event of a queue is taken.                                    *)
LEMMA TakeOK ==
    ASSUME NEW E \in SUBSET Events, NEW b, NEW r \in Nat, BusOK(b, E, r),
           \A e \in E : e.kind = "reset" => e.of \in Nat /\ e.of <= r,
           NEW v \in Viewers, b.viewer[v].here, b.viewer[v].queue # <<>>,
           b.viewer[v].hand < BatchMax
    PROVE  BusOK(Take(b, v), E, r) /\ Take(b, v).seq = b.seq
<1> DEFINE x == b.viewer[v]  e == Head(x.queue)
           m == IF e.kind = "reset" THEN e.of ELSE x.reset
           w == [x EXCEPT !.queue = Tail(x.queue), !.hand = x.hand + 1, !.last = e.seq, !.reset = m]
<1>1. ViewerOK(x, E, b.seq, r) /\ b.seq \in Nat
  BY DEF BusOK
<1>2. x # Away
  BY AwayIsNotHere
<1>3. /\ x \in Seated(E) /\ Len(x.queue) <= Capacity /\ Rising(x.queue, x.last, b.seq)
      /\ x.last <= b.seq /\ x.since <= b.seq /\ x.reset <= r /\ x.hand < BatchMax
      /\ Accounts(x, b.seq)
  BY <1>1, <1>2 DEF ViewerOK
<1>4. /\ x.queue \in Seq(E) /\ Len(x.queue) \in Nat
      /\ x.dropped \in Nat /\ x.got \in Nat /\ x.hand \in Nat /\ x.got + x.hand \in Nat
      /\ x.last \in Nat /\ x.reset \in Nat
      /\ x.since \in Nat /\ x.replayed \in Nat /\ x.cleared \in Nat
  BY <1>1, <1>2, SeatedFact
<1>5. Take(b, v) = [b EXCEPT !.viewer[v] = w]
  BY DEF Take, Taken
<1>6. /\ e \in E /\ Tail(x.queue) \in Seq(E) /\ Len(Tail(x.queue)) = Len(x.queue) - 1
      /\ e.seq <= b.seq /\ Rising(Tail(x.queue), e.seq, b.seq)
  <2>1. x.queue # <<>>
    OBVIOUS
  <2>2. QED BY <1>3, <1>4, <2>1, RisingTail
<1>7. m \in Nat /\ m <= r /\ e.seq \in Nat
  BY <1>3, <1>4, <1>6 DEF Events
<1> HIDE DEF x, e, m
<1>8. /\ w.queue = Tail(x.queue) /\ w.dropped = x.dropped /\ w.got = x.got
      /\ w.hand = x.hand + 1 /\ w.last = e.seq
      /\ w.reset = m /\ w.since = x.since /\ w.replayed = x.replayed /\ w.cleared = x.cleared
  BY <1>3 DEF Seated
<1>9. w \in Seated(E)
  <2>1. x.hand + 1 \in Nat
    BY <1>4
  <2>2. QED BY <1>3, <1>6, <1>7, <2>1, SeatedChanges
<1> HIDE DEF w
<1>10. Accounts(w, b.seq)
  <2>1. Even(b.seq, x.since, x.replayed, (x.got + x.hand) + 1, Len(x.queue) - 1, x.cleared, x.dropped)
    BY <1>1, <1>3, <1>4, Balance DEF Accounts
  <2>2. w.got + w.hand = (x.got + x.hand) + 1
    BY <1>4, <1>8
  <2>3. QED BY <1>6, <1>8, <2>1, <2>2 DEF Accounts
<1>11. Len(w.queue) <= Capacity
  BY <1>3, <1>4, <1>6, <1>8, EventBusAssumption
<1>12. ViewerOK(w, E, b.seq, r)
  <2>1. w.hand <= BatchMax
    BY <1>3, <1>4, <1>8, PacketFeedAssumption
  <2>2. QED BY <1>3, <1>6, <1>7, <1>8, <1>9, <1>10, <1>11, <2>1 DEF ViewerOK
<1>13. QED BY <1>5, <1>12, ViewerChanges

(* What a sender holds is sent, or it fails with it.                       *)
LEMMA SendOK ==
    ASSUME NEW E, NEW b, NEW r \in Nat, BusOK(b, E, r), NEW v \in Viewers, b.viewer[v].here
    PROVE  /\ BusOK(Deliver(b, v), E, r) /\ Deliver(b, v).seq = b.seq
           /\ BusOK(Fail(b, v), E, r) /\ Fail(b, v).seq = b.seq
<1> DEFINE x == b.viewer[v]
           w == [x EXCEPT !.got = x.got + x.hand, !.hand = 0]
           y == [x EXCEPT !.sending = FALSE]
<1>1. ViewerOK(x, E, b.seq, r) /\ x # Away
  BY AwayIsNotHere DEF BusOK
<1>2. /\ x \in Seated(E) /\ Len(x.queue) <= Capacity /\ Rising(x.queue, x.last, b.seq)
      /\ x.last <= b.seq /\ x.since <= b.seq /\ x.reset <= r /\ x.hand <= BatchMax
      /\ Accounts(x, b.seq)
  BY <1>1 DEF ViewerOK
<1>3. x.queue \in Seq(E) /\ x.got \in Nat /\ x.hand \in Nat /\ x.got + x.hand \in Nat
  BY <1>1, SeatedFact
<1>4. Deliver(b, v) = [b EXCEPT !.viewer[v] = w] /\ Fail(b, v) = [b EXCEPT !.viewer[v] = y]
  BY DEF Deliver, Sent, Fail
<1> HIDE DEF x
<1>5. /\ w \in Seated(E) /\ w.got = x.got + x.hand /\ w.hand = 0
      /\ \A f \in {"queue", "dropped", "last", "reset", "since", "replayed", "cleared"} : w[f] = x[f]
  BY <1>2, <1>3, SeatedChanges DEF Seated
<1>6. /\ y \in Seated(E) /\ y.got = x.got /\ y.hand = x.hand
      /\ \A f \in {"queue", "dropped", "last", "reset", "since", "replayed", "cleared"} : y[f] = x[f]
  BY <1>2, <1>3, SeatedChanges DEF Seated
<1> HIDE DEF w, y
<1>7. w.got + w.hand = x.got + x.hand /\ w.hand <= BatchMax
  BY <1>3, <1>5, PacketFeedAssumption
<1>8. ViewerOK(w, E, b.seq, r)
  BY <1>2, <1>5, <1>7 DEF ViewerOK, Accounts
<1>9. ViewerOK(y, E, b.seq, r)
  BY <1>2, <1>6 DEF ViewerOK, Accounts
<1>10. QED BY <1>4, <1>8, <1>9, ViewerChanges

-----------------------------------------------------------------------------
(* What waits for the loop: with n resets and h packets reported so far, r *)
(* resets run and the packets of D published.                              *)

Calls == [do : {"packet", "reset", "event"}, p : Nat, class : Classes]
IsPacket(c) == c.do = "packet"
IsReset(c) == c.do = "reset"

(* Each packet waits once, and no reset that ran was reported after it.    *)
PacketsWait(s, D, er, r, h) ==
    \A i \in 1 .. Len(s) : IsPacket(s[i]) =>
        /\ s[i].p \in 1 .. h /\ s[i].p \notin D /\ er[s[i].p] \in Nat /\ r <= er[s[i].p]
        /\ \A j \in 1 .. Len(s) : IsPacket(s[j]) /\ j # i => s[j].p # s[i].p

(* The resets wait in the order of their reports, ...                      *)
ResetsWait(s, er, r, n) ==
    \A i \in 1 .. Len(s) : IsReset(s[i]) =>
        /\ s[i].p \in r + 1 .. n
        /\ \A j \in 1 .. Len(s) : i < j =>
              /\ IsReset(s[j]) => s[i].p < s[j].p
              /\ IsPacket(s[j]) => s[i].p <= er[s[j].p]

(* ... and every reset that did not run waits.                             *)
AllResetsWait(s, r, n) ==
    \A k \in r + 1 .. n : \E i \in 1 .. Len(s) : IsReset(s[i]) /\ s[i].p = k

Waits(s, D, er, r, n, h) ==
    PacketsWait(s, D, er, r, h) /\ ResetsWait(s, er, r, n) /\ AllResetsWait(s, r, n)

LEMMA AppendItems ==
    ASSUME NEW S, NEW s \in Seq(S), NEW c \in S, NEW t, t = Append(s, c)
    PROVE  /\ t \in Seq(S) /\ Len(t) = Len(s) + 1 /\ Len(s) \in Nat
           /\ Len(s) + 1 \in 1 .. Len(t) /\ t[Len(s) + 1] = c
           /\ \A i \in 1 .. Len(s) : i \in 1 .. Len(t) /\ t[i] = s[i] /\ i # Len(s) + 1
                                     /\ ~(Len(s) + 1 < i)
           /\ \A i \in 1 .. Len(t) : (i \in 1 .. Len(s) /\ t[i] = s[i]) \/ (i = Len(s) + 1 /\ t[i] = c)
<1>1. /\ t \in Seq(S) /\ Len(t) = Len(s) + 1 /\ t[Len(s) + 1] = c
      /\ \A i \in 1 .. Len(s) : t[i] = s[i]
  BY AppendProperties
<1>2. Len(s) \in Nat
  BY LenProperties
<1>3. \A x \in Nat : /\ x + 1 \in 1 .. x + 1
                     /\ \A i \in 1 .. x : i \in 1 .. x + 1 /\ i # x + 1 /\ ~(x + 1 < i)
                     /\ \A i \in 1 .. x + 1 : i \in 1 .. x \/ i = x + 1
  OBVIOUS
<1>4. QED BY <1>1, <1>2, <1>3

LEMMA TailItems ==
    ASSUME NEW S, NEW s \in Seq(S), s # <<>>, NEW t, t = Tail(s)
    PROVE  /\ t \in Seq(S) /\ Head(s) \in S /\ Head(s) = s[1] /\ 1 \in 1 .. Len(s)
           /\ \A i \in 1 .. Len(t) : i + 1 \in 1 .. Len(s) /\ t[i] = s[i + 1] /\ i + 1 # 1 /\ 1 < i + 1
           /\ \A i, j \in 1 .. Len(t) : (i < j <=> i + 1 < j + 1) /\ (i # j <=> i + 1 # j + 1)
           /\ \A k \in 1 .. Len(s) : k = 1 \/ (k - 1 \in 1 .. Len(t) /\ t[k - 1] = s[k])
<1>1. /\ Head(s) \in S /\ t \in Seq(S) /\ Len(t) = Len(s) - 1
      /\ \A i \in 1 .. Len(t) : t[i] = s[i + 1]
  BY HeadTailProperties
<1>2. Len(s) \in Nat \ {0} /\ Head(s) = s[1]
  BY EmptySeq
<1>3. \A x \in Nat \ {0} :
        /\ 1 \in 1 .. x
        /\ \A i \in 1 .. x - 1 : i + 1 \in 1 .. x /\ i + 1 # 1 /\ 1 < i + 1
        /\ \A i, j \in 1 .. x - 1 : (i < j <=> i + 1 < j + 1) /\ (i # j <=> i + 1 # j + 1)
        /\ \A k \in 1 .. x : k = 1 \/ (k - 1 \in 1 .. x - 1 /\ (k - 1) + 1 = k)
  OBVIOUS
<1>4. QED BY <1>1, <1>2, <1>3

LEMMA MoreStillWait ==
    ASSUME NEW s, NEW t, NEW r, NEW n, AllResetsWait(s, r, n),
           \A i \in 1 .. Len(s) : i \in 1 .. Len(t) /\ t[i] = s[i]
    PROVE  AllResetsWait(t, r, n)
<1> SUFFICES ASSUME NEW k \in r + 1 .. n
             PROVE  \E i \in 1 .. Len(t) : IsReset(t[i]) /\ t[i].p = k
  BY DEF AllResetsWait
<1>1. PICK i \in 1 .. Len(s) : IsReset(s[i]) /\ s[i].p = k
  BY DEF AllResetsWait
<1>2. QED BY <1>1

(* A hook reports something more.                                          *)
LEMMA ReportPacket ==
    ASSUME NEW s \in Seq(Calls), NEW D, NEW er \in Seq(Nat), NEW r \in Nat, NEW n \in Nat,
           NEW h \in Nat, Len(er) = h, r <= n, D \subseteq 1 .. h, Waits(s, D, er, r, n, h),
           NEW c \in Calls, IsPacket(c), c.p = h + 1
    PROVE  Waits(Append(s, c), D, Append(er, n), r, n, h + 1)
<1> DEFINE t == Append(s, c)  er2 == Append(er, n)
<1>1. /\ Len(s) \in Nat /\ Len(s) + 1 \in 1 .. Len(t) /\ t[Len(s) + 1] = c
      /\ \A i \in 1 .. Len(s) : i \in 1 .. Len(t) /\ t[i] = s[i] /\ i # Len(s) + 1
                                /\ ~(Len(s) + 1 < i)
      /\ \A i \in 1 .. Len(t) : (i \in 1 .. Len(s) /\ t[i] = s[i]) \/ (i = Len(s) + 1 /\ t[i] = c)
  BY AppendItems
<1>2. er2[h + 1] = n /\ \A i \in 1 .. h : er2[i] = er[i]
  BY AppendProperties
<1> HIDE DEF t, er2
<1>3. h + 1 \in 1 .. h + 1 /\ h + 1 \notin 1 .. h /\ \A i \in 1 .. h : i \in 1 .. h + 1
  OBVIOUS
<1>4. ~IsReset(c)
  BY DEF IsReset, IsPacket
<1>5. PacketsWait(t, D, er2, r, h + 1)
  <2> SUFFICES ASSUME NEW i \in 1 .. Len(t), IsPacket(t[i])
               PROVE  /\ t[i].p \in 1 .. h + 1 /\ t[i].p \notin D
                      /\ er2[t[i].p] \in Nat /\ r <= er2[t[i].p]
                      /\ \A j \in 1 .. Len(t) : IsPacket(t[j]) /\ j # i => t[j].p # t[i].p
    BY DEF PacketsWait
  <2>1. CASE i \in 1 .. Len(s) /\ t[i] = s[i]
    <3>1. /\ s[i].p \in 1 .. h /\ s[i].p \notin D /\ er[s[i].p] \in Nat /\ r <= er[s[i].p]
          /\ \A j \in 1 .. Len(s) : IsPacket(s[j]) /\ j # i => s[j].p # s[i].p
      BY <2>1 DEF Waits, PacketsWait
    <3>2. ASSUME NEW j \in 1 .. Len(t), IsPacket(t[j]), j # i PROVE t[j].p # t[i].p
      BY <1>1, <1>3, <2>1, <3>1, <3>2
    <3>3. QED BY <1>2, <1>3, <2>1, <3>1, <3>2
  <2>2. CASE i = Len(s) + 1 /\ t[i] = c
    <3>1. t[i].p = h + 1 /\ h + 1 \notin D
      BY <1>3, <2>2
    <3>2. ASSUME NEW j \in 1 .. Len(t), IsPacket(t[j]), j # i PROVE t[j].p # t[i].p
      <4>1. j \in 1 .. Len(s) /\ t[j] = s[j]
        BY <1>1, <2>2, <3>2
      <4>2. s[j].p \in 1 .. h
        BY <3>2, <4>1 DEF Waits, PacketsWait
      <4>3. QED BY <1>3, <3>1, <4>1, <4>2
    <3>3. QED BY <1>2, <1>3, <3>1, <3>2
  <2>3. QED BY <1>1, <2>1, <2>2
<1>6. ResetsWait(t, er2, r, n)
  <2> SUFFICES ASSUME NEW i \in 1 .. Len(t), IsReset(t[i])
               PROVE  /\ t[i].p \in r + 1 .. n
                      /\ \A j \in 1 .. Len(t) : i < j =>
                            /\ IsReset(t[j]) => t[i].p < t[j].p
                            /\ IsPacket(t[j]) => t[i].p <= er2[t[j].p]
    BY DEF ResetsWait
  <2>1. i \in 1 .. Len(s) /\ t[i] = s[i]
    BY <1>1, <1>4
  <2>2. s[i].p \in r + 1 .. n
    BY <2>1 DEF Waits, ResetsWait
  <2>3. ASSUME NEW j \in 1 .. Len(t), i < j
        PROVE  /\ IsReset(t[j]) => t[i].p < t[j].p
               /\ IsPacket(t[j]) => t[i].p <= er2[t[j].p]
    <3>1. CASE j \in 1 .. Len(s) /\ t[j] = s[j]
      BY <1>2, <2>1, <2>3, <3>1 DEF Waits, ResetsWait, PacketsWait
    <3>2. CASE j = Len(s) + 1 /\ t[j] = c
      BY <1>2, <1>4, <2>1, <2>2, <3>2
    <3>3. QED BY <1>1, <3>1, <3>2
  <2>4. QED BY <2>1, <2>2, <2>3
<1>7. AllResetsWait(t, r, n)
  BY <1>1, MoreStillWait DEF Waits
<1>8. QED BY <1>5, <1>6, <1>7 DEF Waits, t, er2

LEMMA ReportReset ==
    ASSUME NEW s \in Seq(Calls), NEW D, NEW er, NEW r \in Nat, NEW n \in Nat,
           NEW h \in Nat, r <= n, Waits(s, D, er, r, n, h),
           NEW c \in Calls, IsReset(c), c.p = n + 1
    PROVE  Waits(Append(s, c), D, er, r, n + 1, h)
<1> DEFINE t == Append(s, c)
<1>1. /\ Len(s) \in Nat /\ Len(s) + 1 \in 1 .. Len(t) /\ t[Len(s) + 1] = c
      /\ \A i \in 1 .. Len(s) : i \in 1 .. Len(t) /\ t[i] = s[i] /\ i # Len(s) + 1
                                /\ ~(Len(s) + 1 < i)
      /\ \A i \in 1 .. Len(t) : (i \in 1 .. Len(s) /\ t[i] = s[i]) \/ (i = Len(s) + 1 /\ t[i] = c)
  BY AppendItems
<1> HIDE DEF t
<1>2. ~IsPacket(c)
  BY DEF IsReset, IsPacket
<1>3. PacketsWait(t, D, er, r, h)
  BY <1>1, <1>2 DEF Waits, PacketsWait
<1>4. ResetsWait(t, er, r, n + 1)
  <2> SUFFICES ASSUME NEW i \in 1 .. Len(t), IsReset(t[i])
               PROVE  /\ t[i].p \in r + 1 .. n + 1
                      /\ \A j \in 1 .. Len(t) : i < j =>
                            /\ IsReset(t[j]) => t[i].p < t[j].p
                            /\ IsPacket(t[j]) => t[i].p <= er[t[j].p]
    BY DEF ResetsWait
  <2>1. CASE i \in 1 .. Len(s) /\ t[i] = s[i]
    <3>1. s[i].p \in r + 1 .. n
      BY <2>1 DEF Waits, ResetsWait
    <3>2. ASSUME NEW j \in 1 .. Len(t), i < j
          PROVE  /\ IsReset(t[j]) => t[i].p < t[j].p
                 /\ IsPacket(t[j]) => t[i].p <= er[t[j].p]
      <4>1. CASE j \in 1 .. Len(s) /\ t[j] = s[j]
        BY <2>1, <3>2, <4>1 DEF Waits, ResetsWait
      <4>2. CASE j = Len(s) + 1 /\ t[j] = c
        BY <1>2, <2>1, <3>1, <4>2
      <4>3. QED BY <1>1, <4>1, <4>2
    <3>3. QED BY <2>1, <3>1, <3>2
  <2>2. CASE i = Len(s) + 1 /\ t[i] = c
    <3>1. \A j \in 1 .. Len(t) : ~(i < j)
      BY <1>1, <2>2
    <3>2. QED BY <2>2, <3>1
  <2>3. QED BY <1>1, <2>1, <2>2
<1>5. AllResetsWait(t, r, n + 1)
  <2> SUFFICES ASSUME NEW k \in r + 1 .. n + 1
               PROVE  \E i \in 1 .. Len(t) : IsReset(t[i]) /\ t[i].p = k
    BY DEF AllResetsWait
  <2>1. CASE k = n + 1
    BY <1>1, <2>1
  <2>2. CASE k \in r + 1 .. n
    <3>1. AllResetsWait(t, r, n)
      BY <1>1, MoreStillWait DEF Waits
    <3>2. QED BY <2>2, <3>1 DEF AllResetsWait
  <2>3. QED BY <2>1, <2>2
<1>6. QED BY <1>3, <1>4, <1>5 DEF Waits, t

LEMMA ReportEvent ==
    ASSUME NEW s \in Seq(Calls), NEW D, NEW er, NEW r, NEW n, NEW h, Waits(s, D, er, r, n, h),
           NEW c \in Calls, ~IsReset(c), ~IsPacket(c)
    PROVE  Waits(Append(s, c), D, er, r, n, h)
<1> DEFINE t == Append(s, c)
<1>1. /\ \A i \in 1 .. Len(s) : i \in 1 .. Len(t) /\ t[i] = s[i]
      /\ \A i \in 1 .. Len(t) : (i \in 1 .. Len(s) /\ t[i] = s[i]) \/ (i = Len(s) + 1 /\ t[i] = c)
  BY AppendItems
<1> HIDE DEF t
<1>2. QED
  BY <1>1 DEF Waits, PacketsWait, ResetsWait, AllResetsWait, t

(* The others go on waiting as they did.                                   *)
LEMMA TailPacketsWait ==
    ASSUME NEW s, NEW t, NEW D, NEW er, NEW r, NEW h, PacketsWait(s, D, er, r, h),
           \A i \in 1 .. Len(t) : i + 1 \in 1 .. Len(s) /\ t[i] = s[i + 1],
           \A i, j \in 1 .. Len(t) : i # j <=> i + 1 # j + 1
    PROVE  PacketsWait(t, D, er, r, h)
<1> SUFFICES ASSUME NEW i \in 1 .. Len(t), IsPacket(t[i])
             PROVE  /\ t[i].p \in 1 .. h /\ t[i].p \notin D
                    /\ er[t[i].p] \in Nat /\ r <= er[t[i].p]
                    /\ \A j \in 1 .. Len(t) : IsPacket(t[j]) /\ j # i => t[j].p # t[i].p
  BY DEF PacketsWait
<1>1. i + 1 \in 1 .. Len(s) /\ t[i] = s[i + 1]
  OBVIOUS
<1>2. /\ s[i + 1].p \in 1 .. h /\ s[i + 1].p \notin D
      /\ er[s[i + 1].p] \in Nat /\ r <= er[s[i + 1].p]
      /\ \A j \in 1 .. Len(s) : IsPacket(s[j]) /\ j # i + 1 => s[j].p # s[i + 1].p
  BY <1>1 DEF PacketsWait
<1>3. ASSUME NEW j \in 1 .. Len(t), IsPacket(t[j]), j # i PROVE t[j].p # t[i].p
  <2>1. j + 1 \in 1 .. Len(s) /\ t[j] = s[j + 1] /\ j + 1 # i + 1
    BY <1>3
  <2>2. QED BY <1>1, <1>2, <1>3, <2>1
<1>4. QED BY <1>1, <1>2, <1>3

LEMMA TailResetsWait ==
    ASSUME NEW s, NEW t, NEW er, NEW r, NEW n, ResetsWait(s, er, r, n),
           \A i \in 1 .. Len(t) : i + 1 \in 1 .. Len(s) /\ t[i] = s[i + 1],
           \A i, j \in 1 .. Len(t) : i < j <=> i + 1 < j + 1
    PROVE  ResetsWait(t, er, r, n)
<1> SUFFICES ASSUME NEW i \in 1 .. Len(t), IsReset(t[i])
             PROVE  /\ t[i].p \in r + 1 .. n
                    /\ \A j \in 1 .. Len(t) : i < j =>
                          /\ IsReset(t[j]) => t[i].p < t[j].p
                          /\ IsPacket(t[j]) => t[i].p <= er[t[j].p]
  BY DEF ResetsWait
<1>1. i + 1 \in 1 .. Len(s) /\ t[i] = s[i + 1]
  OBVIOUS
<1>2. /\ s[i + 1].p \in r + 1 .. n
      /\ \A j \in 1 .. Len(s) : i + 1 < j =>
            /\ IsReset(s[j]) => s[i + 1].p < s[j].p
            /\ IsPacket(s[j]) => s[i + 1].p <= er[s[j].p]
  BY <1>1 DEF ResetsWait
<1>3. ASSUME NEW j \in 1 .. Len(t), i < j
      PROVE  /\ IsReset(t[j]) => t[i].p < t[j].p
             /\ IsPacket(t[j]) => t[i].p <= er[t[j].p]
  <2>1. j + 1 \in 1 .. Len(s) /\ t[j] = s[j + 1] /\ i + 1 < j + 1
    BY <1>3
  <2>2. QED BY <1>1, <1>2, <2>1
<1>4. QED BY <1>1, <1>2, <1>3

(* The loop runs what has waited longest.                                  *)
LEMMA RunsPacket ==
    ASSUME NEW s \in Seq(Calls), s # <<>>, NEW D, NEW er, NEW r \in Nat, NEW n \in Nat,
           NEW h \in Nat, Waits(s, D, er, r, n, h), IsPacket(Head(s))
    PROVE  /\ Head(s).p \in 1 .. h /\ Head(s).p \notin D
           /\ er[Head(s).p] \in Nat /\ r <= er[Head(s).p]
           /\ Waits(Tail(s), D \cup {Head(s).p}, er, r, n, h)
<1> DEFINE t == Tail(s)
<1>1. /\ Head(s) = s[1] /\ 1 \in 1 .. Len(s)
      /\ \A i \in 1 .. Len(t) : i + 1 \in 1 .. Len(s) /\ t[i] = s[i + 1] /\ i + 1 # 1 /\ 1 < i + 1
      /\ \A i, j \in 1 .. Len(t) : (i < j <=> i + 1 < j + 1) /\ (i # j <=> i + 1 # j + 1)
      /\ \A k \in 1 .. Len(s) : k = 1 \/ (k - 1 \in 1 .. Len(t) /\ t[k - 1] = s[k])
  BY TailItems
<1> HIDE DEF t
<1>2. /\ s[1].p \in 1 .. h /\ s[1].p \notin D /\ er[s[1].p] \in Nat /\ r <= er[s[1].p]
      /\ \A j \in 1 .. Len(s) : IsPacket(s[j]) /\ j # 1 => s[j].p # s[1].p
  BY <1>1 DEF Waits, PacketsWait
<1>3. PacketsWait(t, D \cup {s[1].p}, er, r, h)
  <2> SUFFICES ASSUME NEW i \in 1 .. Len(t), IsPacket(t[i])
               PROVE  /\ t[i].p \in 1 .. h /\ t[i].p \notin D \cup {s[1].p}
                      /\ er[t[i].p] \in Nat /\ r <= er[t[i].p]
                      /\ \A j \in 1 .. Len(t) : IsPacket(t[j]) /\ j # i => t[j].p # t[i].p
    BY DEF PacketsWait
  <2>1. i + 1 \in 1 .. Len(s) /\ t[i] = s[i + 1] /\ i + 1 # 1
    BY <1>1
  <2>2. /\ s[i + 1].p \in 1 .. h /\ s[i + 1].p \notin D
        /\ er[s[i + 1].p] \in Nat /\ r <= er[s[i + 1].p]
        /\ \A j \in 1 .. Len(s) : IsPacket(s[j]) /\ j # i + 1 => s[j].p # s[i + 1].p
    BY <2>1 DEF Waits, PacketsWait
  <2>3. ASSUME NEW j \in 1 .. Len(t), IsPacket(t[j]), j # i PROVE t[j].p # t[i].p
    <3>1. j + 1 \in 1 .. Len(s) /\ t[j] = s[j + 1] /\ j + 1 # i + 1
      BY <1>1, <2>3
    <3>2. QED BY <2>1, <2>2, <2>3, <3>1
  <2>4. QED BY <1>2, <2>1, <2>2, <2>3
<1>4. ~IsReset(s[1])
  BY <1>1 DEF IsReset, IsPacket
<1>5. ResetsWait(t, er, r, n)
  BY <1>1, TailResetsWait DEF Waits
<1>6. AllResetsWait(t, r, n)
  <2> SUFFICES ASSUME NEW k \in r + 1 .. n
               PROVE  \E i \in 1 .. Len(t) : IsReset(t[i]) /\ t[i].p = k
    BY DEF AllResetsWait
  <2>1. PICK i \in 1 .. Len(s) : IsReset(s[i]) /\ s[i].p = k
    BY DEF Waits, AllResetsWait
  <2>2. i - 1 \in 1 .. Len(t) /\ t[i - 1] = s[i]
    BY <1>1, <1>4, <2>1
  <2>3. QED BY <2>1, <2>2
<1>7. QED BY <1>1, <1>2, <1>3, <1>5, <1>6 DEF Waits, t

LEMMA RunsEvent ==
    ASSUME NEW s \in Seq(Calls), s # <<>>, NEW D, NEW er, NEW r \in Nat, NEW n \in Nat,
           NEW h \in Nat, Waits(s, D, er, r, n, h), ~IsPacket(Head(s)), ~IsReset(Head(s))
    PROVE  Waits(Tail(s), D, er, r, n, h)
<1> DEFINE t == Tail(s)
<1>1. /\ Head(s) = s[1] /\ 1 \in 1 .. Len(s)
      /\ \A i \in 1 .. Len(t) : i + 1 \in 1 .. Len(s) /\ t[i] = s[i + 1] /\ i + 1 # 1 /\ 1 < i + 1
      /\ \A i, j \in 1 .. Len(t) : (i < j <=> i + 1 < j + 1) /\ (i # j <=> i + 1 # j + 1)
      /\ \A k \in 1 .. Len(s) : k = 1 \/ (k - 1 \in 1 .. Len(t) /\ t[k - 1] = s[k])
  BY TailItems
<1> HIDE DEF t
<1>2. PacketsWait(t, D, er, r, h)
  BY <1>1, TailPacketsWait DEF Waits
<1>3. ResetsWait(t, er, r, n)
  BY <1>1, TailResetsWait DEF Waits
<1>4. AllResetsWait(t, r, n)
  <2> SUFFICES ASSUME NEW k \in r + 1 .. n
               PROVE  \E i \in 1 .. Len(t) : IsReset(t[i]) /\ t[i].p = k
    BY DEF AllResetsWait
  <2>1. PICK i \in 1 .. Len(s) : IsReset(s[i]) /\ s[i].p = k
    BY DEF Waits, AllResetsWait
  <2>2. i - 1 \in 1 .. Len(t) /\ t[i - 1] = s[i]
    BY <1>1, <2>1
  <2>3. QED BY <2>1, <2>2
<1>5. QED BY <1>2, <1>3, <1>4 DEF Waits, t

(* It is the turn of reset r + 1, and all packets that wait are later.     *)
LEMMA RunsReset ==
    ASSUME NEW s \in Seq(Calls), s # <<>>, NEW D, NEW er, NEW r \in Nat, NEW n \in Nat,
           NEW h \in Nat, Waits(s, D, er, r, n, h), IsReset(Head(s))
    PROVE  Head(s).p = r + 1 /\ r + 1 <= n /\ Waits(Tail(s), D, er, r + 1, n, h)
<1> DEFINE t == Tail(s)
<1>1. /\ Head(s) = s[1] /\ 1 \in 1 .. Len(s)
      /\ \A i \in 1 .. Len(t) : i + 1 \in 1 .. Len(s) /\ t[i] = s[i + 1] /\ i + 1 # 1 /\ 1 < i + 1
      /\ \A i, j \in 1 .. Len(t) : (i < j <=> i + 1 < j + 1) /\ (i # j <=> i + 1 # j + 1)
      /\ \A k \in 1 .. Len(s) : k = 1 \/ (k - 1 \in 1 .. Len(t) /\ t[k - 1] = s[k])
  BY TailItems
<1> HIDE DEF t
<1>2. /\ s[1].p \in r + 1 .. n
      /\ \A j \in 1 .. Len(s) : 1 < j => /\ IsReset(s[j]) => s[1].p < s[j].p
                                         /\ IsPacket(s[j]) => s[1].p <= er[s[j].p]
  BY <1>1 DEF Waits, ResetsWait
<1>3. s[1].p = r + 1
  <2>1. r + 1 \in r + 1 .. n
    BY <1>2
  <2>2. PICK i \in 1 .. Len(s) : IsReset(s[i]) /\ s[i].p = r + 1
    BY <2>1 DEF Waits, AllResetsWait
  <2>3. i = 1 \/ 1 < i
    OBVIOUS
  <2>4. QED BY <1>2, <2>2, <2>3
<1>4. PacketsWait(t, D, er, r + 1, h)
  <2>1. PacketsWait(t, D, er, r, h)
    BY <1>1, TailPacketsWait DEF Waits
  <2>2. ASSUME NEW i \in 1 .. Len(t), IsPacket(t[i]) PROVE r + 1 <= er[t[i].p]
    <3>1. i + 1 \in 1 .. Len(s) /\ t[i] = s[i + 1] /\ 1 < i + 1
      BY <1>1
    <3>2. QED BY <1>2, <1>3, <2>2, <3>1
  <2>3. QED BY <2>1, <2>2 DEF PacketsWait
<1>5. ResetsWait(t, er, r + 1, n)
  <2>1. ResetsWait(t, er, r, n)
    BY <1>1, TailResetsWait DEF Waits
  <2>2. ASSUME NEW i \in 1 .. Len(t), IsReset(t[i]) PROVE t[i].p \in r + 1 + 1 .. n
    <3>1. i + 1 \in 1 .. Len(s) /\ t[i] = s[i + 1] /\ 1 < i + 1
      BY <1>1
    <3>2. s[1].p < t[i].p /\ t[i].p \in r + 1 .. n
      BY <1>2, <2>1, <2>2, <3>1 DEF ResetsWait
    <3>3. QED BY <1>3, <3>2
  <2>3. QED BY <2>1, <2>2 DEF ResetsWait
<1>6. AllResetsWait(t, r + 1, n)
  <2> SUFFICES ASSUME NEW k \in r + 1 + 1 .. n
               PROVE  \E i \in 1 .. Len(t) : IsReset(t[i]) /\ t[i].p = k
    BY DEF AllResetsWait
  <2>1. k \in r + 1 .. n /\ k # r + 1
    OBVIOUS
  <2>2. PICK i \in 1 .. Len(s) : IsReset(s[i]) /\ s[i].p = k
    BY <2>1 DEF Waits, AllResetsWait
  <2>3. i - 1 \in 1 .. Len(t) /\ t[i - 1] = s[i]
    BY <1>1, <1>3, <2>1, <2>2
  <2>4. QED BY <2>2, <2>3
<1>7. QED BY <1>1, <1>2, <1>3, <1>4, <1>5, <1>6 DEF Waits, t

-----------------------------------------------------------------------------
(* How many resets wait.                                                   *)

ResetsIn(s) == {i \in DOMAIN s : s[i].do = "reset"}

LEMMA ResetsInFact ==
    ASSUME NEW S, NEW s \in Seq(S)
    PROVE  /\ IsFiniteSet(ResetsIn(s)) /\ Cardinality(ResetsIn(s)) \in Nat
           /\ DOMAIN s = 1 .. Len(s)
<1>1. DOMAIN s = 1 .. Len(s) /\ Len(s) \in Nat
  BY LenProperties
<1>2. IsFiniteSet(1 .. Len(s))
  BY <1>1, FS_Interval
<1>3. ResetsIn(s) \in SUBSET (1 .. Len(s))
  BY <1>1 DEF ResetsIn
<1>4. QED BY <1>1, <1>2, <1>3, FS_Subset, FS_CardinalityType

LEMMA OneMoreWaits ==
    ASSUME NEW s \in Seq(Calls), NEW c \in Calls
    PROVE  Cardinality(ResetsIn(Append(s, c))) =
             IF IsReset(c) THEN Cardinality(ResetsIn(s)) + 1 ELSE Cardinality(ResetsIn(s))
<1> DEFINE t == Append(s, c)  n == Len(s)
<1>1. /\ n \in Nat /\ Len(t) = n + 1 /\ t \in Seq(Calls) /\ t[n + 1] = c /\ n + 1 \in 1 .. Len(t)
      /\ \A i \in 1 .. n : i \in 1 .. Len(t) /\ t[i] = s[i] /\ i # n + 1
      /\ \A i \in 1 .. Len(t) : (i \in 1 .. n /\ t[i] = s[i]) \/ (i = n + 1 /\ t[i] = c)
  BY AppendItems
<1> HIDE DEF t
<1>2. DOMAIN t = 1 .. Len(t) /\ DOMAIN s = 1 .. n
  BY <1>1, ResetsInFact
<1>3. IsFiniteSet(ResetsIn(s))
  BY ResetsInFact
<1> HIDE DEF n
<1>4. CASE IsReset(c)
  <2>1. ResetsIn(t) = ResetsIn(s) \cup {n + 1}
    BY <1>1, <1>2, <1>4 DEF ResetsIn, IsReset
  <2>2. n + 1 \notin ResetsIn(s)
    BY <1>1, <1>2 DEF ResetsIn
  <2>3. QED BY <1>3, <1>4, <2>1, <2>2, FS_AddElement DEF t
<1>5. CASE ~IsReset(c)
  <2>1. ResetsIn(t) = ResetsIn(s)
    BY <1>1, <1>2, <1>5 DEF ResetsIn, IsReset
  <2>2. QED BY <1>5, <2>1 DEF t
<1>6. QED BY <1>4, <1>5

LEMMA OneLessWaits ==
    ASSUME NEW s \in Seq(Calls), s # <<>>
    PROVE  Cardinality(ResetsIn(s)) =
             IF IsReset(Head(s)) THEN Cardinality(ResetsIn(Tail(s))) + 1
                                 ELSE Cardinality(ResetsIn(Tail(s)))
<1> DEFINE t == Tail(s)  R == ResetsIn(t)  Q == ResetsIn(s) \ {1}
<1>1. /\ t \in Seq(Calls) /\ Head(s) = s[1] /\ 1 \in 1 .. Len(s)
      /\ \A i \in 1 .. Len(t) : i + 1 \in 1 .. Len(s) /\ t[i] = s[i + 1] /\ i + 1 # 1 /\ 1 < i + 1
      /\ \A i, j \in 1 .. Len(t) : (i < j <=> i + 1 < j + 1) /\ (i # j <=> i + 1 # j + 1)
      /\ \A k \in 1 .. Len(s) : k = 1 \/ (k - 1 \in 1 .. Len(t) /\ t[k - 1] = s[k])
  BY TailItems
<1> HIDE DEF t
<1>2. /\ DOMAIN t = 1 .. Len(t) /\ DOMAIN s = 1 .. Len(s)
      /\ IsFiniteSet(R) /\ IsFiniteSet(ResetsIn(s)) /\ Cardinality(R) \in Nat
  BY <1>1, ResetsInFact
<1>3. ExistsBijection(R, Q)
  <2> DEFINE f == [i \in R |-> i + 1]
  <2>1. \A i \in R : i + 1 \in Q
    BY <1>1, <1>2 DEF ResetsIn
  <2>2. \A i, j \in R : i + 1 = j + 1 => i = j
    BY <1>1, <1>2 DEF ResetsIn
  <2>3. \A k \in Q : k - 1 \in R /\ (k - 1) + 1 = k
    BY <1>1, <1>2 DEF ResetsIn
  <2> HIDE DEF R, Q
  <2>4. f \in [R -> Q]
    BY <2>1
  <2>5. \A a, b \in R : f[a] = f[b] => a = b
    BY <2>2
  <2>6. \A k \in Q : \E i \in R : f[i] = k
    BY <2>3
  <2>7. f \in Bijection(R, Q)
    <3> HIDE DEF f
    <3>1. DOMAIN f = R
      BY <2>4
    <3>2. QED BY <2>4, <2>5, <2>6, <3>1 DEF Bijection, Injection, Surjection, IsInjective
  <2>8. QED BY <2>7 DEF ExistsBijection
<1>4. IsFiniteSet(Q) /\ Cardinality(Q) = Cardinality(R)
  <2> HIDE DEF R, Q
  <2>1. QED BY <1>2, <1>3, FS_Bijection
<1>5. CASE IsReset(Head(s))
  <2>1. ResetsIn(s) = Q \cup {1} /\ 1 \notin Q
    BY <1>1, <1>2, <1>5 DEF ResetsIn, IsReset
  <2> HIDE DEF Q
  <2>2. Cardinality(ResetsIn(s)) = Cardinality(Q) + 1
    BY <1>4, <2>1, FS_AddElement
  <2>3. QED BY <1>4, <1>5, <2>2 DEF t
<1>6. CASE ~IsReset(Head(s))
  <2>1. ResetsIn(s) = Q
    BY <1>1, <1>2, <1>6 DEF ResetsIn, IsReset
  <2>2. QED BY <1>4, <1>6, <2>1 DEF t
<1>7. QED BY <1>5, <1>6

-----------------------------------------------------------------------------
(* The inductive invariant.                                                *)

(* The events that may be on the bus: no packet from before a reset that   *)
(* ran, no reset that did not run, and updates of what was published.      *)
Good(D, er, r) ==
    {e \in Events :
        /\ e.kind = "packet" => e.of \in 1 .. Len(er) /\ er[e.of] \in Nat /\ r <= er[e.of]
        /\ e.kind = "reset" => e.of \in Nat /\ e.of <= r
        /\ e.kind = "update" =>
              /\ e.of \in Nat \X Nat /\ e.of[2] \in DOMAIN D
              /\ D[e.of[2]] = e.of[1] /\ e.of[1] < e.seq}

(* A packet that waits for its decoding has been published.                *)
JobOK(j, D) == j.p \in DOMAIN D /\ j.target = D[j.p]

Counters ==
    /\ hooked \in Nat /\ resets \in Nat /\ ResetsRun \in Nat /\ ResetsRun <= resets
    /\ eraOf \in Seq(Nat) /\ Len(eraOf) = hooked

Published ==
    /\ DOMAIN place \subseteq 1 .. hooked
    /\ \A q \in DOMAIN place : place[q] \in Nat /\ place[q] <= bus.seq
    /\ owed \subseteq DOMAIN place

Jobs ==
    /\ IsFiniteSet(jobs) /\ Cardinality(jobs) <= QueueMax
    /\ \A j \in jobs : JobOK(j, place) /\ Works(j)
    /\ Works(worker) => JobOK(worker, place)

(* Those that wait for their second decoding have been published as well.  *)
Seconds(D) == {[p |-> q, target |-> D[q]] : q \in DOMAIN D}
Again ==
    /\ rfnQueue \in Seq(Seconds(place)) /\ Len(rfnQueue) <= RfnMax
    /\ Works(rfnWorker) => rfnWorker \in Seconds(place)

Reported == calls \in Seq(Calls) /\ Waits(calls, DOMAIN place, eraOf, ResetsRun, resets, hooked)

BusInv == BusOK(bus, Good(place, eraOf, ResetsRun), ResetsRun)

Inv == Counters /\ Published /\ Jobs /\ Again /\ StandsStill /\ Reported /\ BusInv

-----------------------------------------------------------------------------
LEMMA GoodAreEvents == \A D, er, r : Good(D, er, r) \in SUBSET Events
BY DEF Good

LEMMA IdleIsNotDown == Idle # Down
<1>1. "n" \in DOMAIN Idle /\ "n" \notin DOMAIN Down
  BY DEF Idle, Down
<1>2. QED BY <1>1

(* What leaves the workers alone.                                          *)
LEMMA SameWorkers ==
    ASSUME Inv, UNCHANGED <<rfnQueue, rfnWorker, place, worker, jobSeq, died>>
    PROVE  Again' /\ StandsStill'
BY DEF Inv, Again, StandsStill

LEMMA ResetsRunIs == ResetsRun = resets - Cardinality(ResetsIn(calls))
BY DEF ResetsRun, ResetsIn

(* With more packets published and reported, the good events stay good.    *)
LEMMA GoodGrows ==
    ASSUME NEW D, NEW F, NEW er, NEW fr, NEW r,
           DOMAIN D \subseteq DOMAIN F, \A q \in DOMAIN D : F[q] = D[q],
           \A i \in 1 .. Len(er) : i \in 1 .. Len(fr) /\ fr[i] = er[i]
    PROVE  Good(D, er, r) \subseteq Good(F, fr, r)
<1> SUFFICES ASSUME NEW e \in Good(D, er, r) PROVE e \in Good(F, fr, r)
  OBVIOUS
<1>1. /\ e \in Events
      /\ e.kind = "packet" => e.of \in 1 .. Len(er) /\ er[e.of] \in Nat /\ r <= er[e.of]
      /\ e.kind = "reset" => e.of \in Nat /\ e.of <= r
      /\ e.kind = "update" =>
            /\ e.of \in Nat \X Nat /\ e.of[2] \in DOMAIN D
            /\ D[e.of[2]] = e.of[1] /\ e.of[1] < e.seq
  BY DEF Good
<1>2. e.kind = "packet" => e.of \in 1 .. Len(fr) /\ fr[e.of] \in Nat /\ r <= fr[e.of]
  BY <1>1
<1>3. e.kind = "update" => e.of[2] \in DOMAIN F /\ F[e.of[2]] = e.of[1]
  BY <1>1
<1>4. QED BY <1>1, <1>2, <1>3 DEF Good

LEMMA FeedStart == FeedInit => Inv
<1> SUFFICES ASSUME FeedInit PROVE Inv
  OBVIOUS
<1>1. /\ calls = <<>> /\ bus = NoBus(Viewers) /\ jobs = {} /\ worker = Down
      /\ rfnQueue = <<>> /\ rfnWorker = Down /\ jobSeq = 0 /\ died = 0
      /\ hooked = 0 /\ resets = 0 /\ eraOf = <<>> /\ place = <<>> /\ owed = {}
  BY DEF FeedInit
<1>2. \A S : <<>> \in Seq(S) /\ Len(<<>>) = 0
  BY EmptySeq
<1>3. DOMAIN <<>> = {}
  <2>1. DOMAIN <<>> = 1 .. Len(<<>>) /\ Len(<<>>) = 0
    BY <1>2, LenProperties
  <2>2. QED BY <2>1
<1>4. ResetsRun = 0
  <2>1. ResetsIn(calls) = {}
    BY <1>1, <1>3 DEF ResetsIn
  <2>2. QED BY <1>1, <2>1, FS_EmptySet, ResetsRunIs
<1>5. Counters
  BY <1>1, <1>2, <1>4 DEF Counters
<1>6. Published
  BY <1>1, <1>3 DEF Published
<1>7. Jobs /\ Again /\ StandsStill
  BY <1>1, <1>2, FS_EmptySet, PacketFeedAssumption DEF Jobs, Again, StandsStill, Works
<1>8. Reported
  <2>1. 1 .. 0 = {} /\ 0 + 1 .. 0 = {}
    OBVIOUS
  <2>2. Waits(<<>>, DOMAIN place, eraOf, 0, 0, 0)
    BY <1>2, <2>1 DEF Waits, PacketsWait, ResetsWait, AllResetsWait
  <2>3. QED BY <1>1, <1>2, <1>4, <2>2 DEF Reported
<1>9. BusInv
  <2> DEFINE E == Good(place, eraOf, ResetsRun)
  <2>1. /\ DOMAIN bus = {"seq", "history", "viewer"} /\ bus.seq = 0 /\ bus.history = <<>>
        /\ bus.viewer = [v \in Viewers |-> Away]
    BY <1>1 DEF NoBus
  <2> HIDE DEF E
  <2>2. bus.history \in Seq(E) /\ Len(bus.history) = 0 /\ Rising(bus.history, 0, bus.seq)
    BY <2>1, NothingRises, Zenon
  <2>3. \A v \in Viewers : ViewerOK(bus.viewer[v], E, bus.seq, ResetsRun)
    BY <2>1 DEF ViewerOK
  <2>4. bus.seq \in Nat /\ Len(bus.history) <= HistoryMax /\ DOMAIN bus.viewer = Viewers
    BY <2>1, <2>2, EventBusAssumption
  <2>5. QED BY <2>1, <2>2, <2>3, <2>4 DEF BusInv, BusOK, E
<1>10. QED BY <1>5, <1>6, <1>7, <1>8, <1>9 DEF Inv

LEMMA Counts == \A b, event, keep : Publish(b, event, keep).seq = b.seq + 1
BY DEF Publish

(* An event of no consequence is published.                                *)
LEMMA PlainEvent ==
    ASSUME NEW D, NEW er, NEW r \in Nat, NEW b, BusOK(b, Good(D, er, r), r),
           NEW kind \in {"session", "passing"}, NEW keep \in BOOLEAN
    PROVE  BusOK(Publish(b, Event(kind, 0), keep), Good(D, er, r), r)
<1> DEFINE e == Number(b, Event(kind, 0))
<1>1. b.seq \in Nat
  BY DEF BusOK
<1>2. e \in Events /\ e.kind = kind
  BY <1>1 DEF Number, Event, Events, Ofs
<1>3. e \in Good(D, er, r)
  BY <1>2 DEF Good
<1>4. QED BY <1>1, <1>3, PublishOK, GoodAreEvents

(* The update of a published packet.                                       *)
LEMMA UpdateOK ==
    ASSUME NEW D, NEW er, NEW r \in Nat, NEW b, BusOK(b, Good(D, er, r), r),
           NEW q \in Nat, NEW n \in Nat, q \in DOMAIN D, D[q] = n, n <= b.seq
    PROVE  BusOK(Publish(b, Event("update", <<n, q>>), TRUE), Good(D, er, r), r)
<1> DEFINE u == Event("update", <<n, q>>)  e == Number(b, u)  E == Good(D, er, r)
<1>1. b.seq \in Nat
  BY DEF BusOK
<1>2. /\ e \in Events /\ e.kind = "update" /\ e.of = <<n, q>> /\ e.seq = b.seq + 1
  BY <1>1 DEF Number, Event, Events, Ofs
<1>3. e.of[1] = n /\ e.of[2] = q /\ e.of \in Nat \X Nat /\ e.of[1] < e.seq
  BY <1>1, <1>2
<1>4. e \in E
  <2> HIDE DEF e
  <2>1. QED BY <1>2, <1>3 DEF Good
<1>5. E \in SUBSET Events /\ BusOK(b, E, r)
  BY GoodAreEvents
<1> HIDE DEF E, u
<1>6. QED BY <1>1, <1>4, <1>5, PublishOK DEF E, u

(* A packet is offered to the scripts.                                     *)
LEMMA OfferOK ==
    ASSUME NEW D, NEW er, NEW r \in Nat, NEW b, BusOK(b, Good(D, er, r), r),
           rfnQueue \in Seq(Seconds(D)), Len(rfnQueue) <= RfnMax,
           NEW again \in Seq(Seconds(D)), Offer(b, again)
    PROVE  /\ BusOK(bus', Good(D, er, r), r) /\ b.seq <= bus'.seq
           /\ rfnQueue' \in Seq(Seconds(D)) /\ Len(rfnQueue') <= RfnMax
           /\ rfnWorker' = rfnWorker \/ rfnWorker' = Idle
<1>1. b.seq \in Nat /\ 0 \in Ofs /\ "passing" \in {"session", "passing"} /\ FALSE \in BOOLEAN
  BY DEF BusOK, Ofs
<1>2. /\ BusOK(Publish(b, Event("passing", 0), FALSE), Good(D, er, r), r)
      /\ Publish(b, Event("passing", 0), FALSE).seq = b.seq + 1
  BY <1>1, PlainEvent, Counts
<1>3. CASE bus' = b /\ UNCHANGED rfn
  BY <1>1, <1>3 DEF rfn
<1>4. CASE /\ rfnWorker' = IF rfnWorker = Down THEN Idle ELSE rfnWorker
           /\ bus' = b /\ rfnQueue' = rfnQueue \o again /\ Len(rfnQueue') <= RfnMax
  BY <1>1, <1>4, ConcatProperties
<1>5. CASE /\ rfnWorker' = IF rfnWorker = Down THEN Idle ELSE rfnWorker
           /\ bus' = Publish(b, Event("passing", 0), FALSE) /\ UNCHANGED rfnQueue
  <2> DEFINE c == Publish(b, Event("passing", 0), FALSE)
  <2>1. bus' = c /\ BusOK(c, Good(D, er, r), r) /\ c.seq = b.seq + 1
    BY <1>2, <1>5
  <2> HIDE DEF c
  <2>2. BusOK(bus', Good(D, er, r), r) /\ b.seq <= bus'.seq
    BY <1>1, <2>1
  <2>3. QED BY <1>5, <2>2
<1>6. QED BY <1>3, <1>4, <1>5 DEF Offer

(* What changes nothing but the bus keeps the invariant.                   *)
LEMMA BusOnly ==
    ASSUME Inv, UNCHANGED <<calls, jobs, worker, rfnQueue, rfnWorker, jobSeq, died>>,
           UNCHANGED <<hooked, resets, eraOf, place, owed>>,
           BusOK(bus', Good(place, eraOf, ResetsRun), ResetsRun), bus'.seq >= bus.seq
    PROVE  Inv'
<1>1. ResetsRun' = ResetsRun
  BY DEF ResetsRun
<1>2. Counters' /\ Jobs' /\ Reported' /\ BusInv'
  BY <1>1 DEF Inv, Counters, Jobs, JobOK, Reported, BusInv
<1>3. Again' /\ StandsStill'
  BY SameWorkers
<1>4. Published'
  <2>1. bus.seq \in Nat /\ bus'.seq \in Nat
    BY DEF Inv, BusInv, BusOK
  <2>2. \A q \in DOMAIN place : place[q] \in Nat /\ place[q] <= bus'.seq
    BY <2>1 DEF Inv, Published
  <2>3. QED BY <2>2 DEF Inv, Published
<1>5. QED BY <1>2, <1>4, <1>3 DEF Inv

-----------------------------------------------------------------------------
(* The steps: the hooks.                                                   *)

LEMMA KeepsHookPacket ==
    ASSUME Inv, NEW class \in Classes, HookPacket(class)
    PROVE  Inv'
<1> DEFINE c == [do |-> "packet", p |-> hooked + 1, class |-> class]
<1>1. /\ hooked' = hooked + 1 /\ calls' = Append(calls, c) /\ eraOf' = Append(eraOf, resets)
      /\ UNCHANGED <<bus, jobs, worker, resets, place, owed>>
      /\ UNCHANGED <<rfnQueue, rfnWorker, jobSeq, died>>
  BY DEF HookPacket, rfn
<1>2. Counters /\ Published /\ Jobs /\ Reported /\ BusInv
  BY DEF Inv
<1>3. c \in Calls /\ IsPacket(c) /\ ~IsReset(c) /\ c.p = hooked + 1
  BY <1>2 DEF Calls, IsPacket, IsReset, Counters
<1> HIDE DEF c
<1>4. ResetsRun' = ResetsRun
  <2>1. Cardinality(ResetsIn(calls')) = Cardinality(ResetsIn(calls))
    BY <1>1, <1>2, <1>3, OneMoreWaits DEF Reported
  <2>2. QED BY <1>1, <2>1 DEF ResetsRun, ResetsIn
<1>5. /\ eraOf' \in Seq(Nat) /\ Len(eraOf') = hooked'
      /\ \A i \in 1 .. Len(eraOf) : i \in 1 .. Len(eraOf') /\ eraOf'[i] = eraOf[i]
  <2>1. eraOf \in Seq(Nat) /\ resets \in Nat /\ Len(eraOf) = hooked
    BY <1>2 DEF Counters
  <2>2. QED BY <1>1, <2>1, AppendItems
<1>6. Counters'
  BY <1>1, <1>2, <1>4, <1>5 DEF Counters
<1>7. Published'
  <2>1. 1 .. hooked \subseteq 1 .. hooked + 1
    BY <1>2 DEF Counters
  <2>2. QED BY <1>1, <1>2, <2>1 DEF Published
<1>8. Jobs' /\ Again' /\ StandsStill'
  BY <1>1, <1>2, SameWorkers DEF Jobs, JobOK
<1>9. Reported'
  <2>1. calls' \in Seq(Calls)
    BY <1>1, <1>2, <1>3, AppendItems DEF Reported
  <2>2. Waits(calls', DOMAIN place, eraOf', ResetsRun, resets, hooked + 1)
    BY <1>1, <1>2, <1>3, ReportPacket DEF Reported, Counters, Published
  <2>3. QED BY <1>1, <1>4, <2>1, <2>2 DEF Reported
<1>10. BusInv'
  <2>1. Good(place, eraOf, ResetsRun) \subseteq Good(place, eraOf', ResetsRun)
    BY <1>5, GoodGrows
  <2>2. ResetsRun \in Nat /\ ResetsRun <= ResetsRun
    BY <1>2 DEF Counters
  <2>3. BusOK(bus, Good(place, eraOf', ResetsRun), ResetsRun)
    BY <1>2, <2>1, <2>2, BusGrows DEF BusInv
  <2>4. QED BY <1>1, <1>4, <2>3 DEF BusInv
<1>11. QED BY <1>6, <1>7, <1>8, <1>9, <1>10 DEF Inv

LEMMA KeepsHookReset ==
    ASSUME Inv, HookReset
    PROVE  Inv'
<1> DEFINE c == [do |-> "reset", p |-> resets + 1, class |-> "bare"]
<1>1. /\ resets' = resets + 1 /\ calls' = Append(calls, c)
      /\ UNCHANGED <<bus, jobs, worker, hooked, eraOf, place, owed>>
      /\ UNCHANGED <<rfnQueue, rfnWorker, jobSeq, died>>
  BY DEF HookReset, past, rfn
<1>2. Counters /\ Published /\ Jobs /\ Reported /\ BusInv
  BY DEF Inv
<1>3. c \in Calls /\ IsReset(c) /\ c.p = resets + 1
  BY <1>2 DEF Calls, Classes, IsReset, Counters
<1> HIDE DEF c
<1>4. ResetsRun' = ResetsRun
  <2>1. /\ Cardinality(ResetsIn(calls')) = Cardinality(ResetsIn(calls)) + 1
        /\ Cardinality(ResetsIn(calls)) \in Nat
    BY <1>1, <1>2, <1>3, OneMoreWaits, ResetsInFact DEF Reported
  <2>2. ResetsRun = resets - Cardinality(ResetsIn(calls))
    BY ResetsRunIs
  <2>3. ResetsRun' = (resets + 1) - Cardinality(ResetsIn(calls'))
    BY <1>1 DEF ResetsRun, ResetsIn
  <2>4. QED BY <1>2, <2>1, <2>2, <2>3 DEF Counters
<1>5. Counters'
  BY <1>1, <1>2, <1>4 DEF Counters
<1>6. Published' /\ Jobs' /\ Again' /\ StandsStill'
  BY <1>1, <1>2, SameWorkers DEF Published, Jobs, JobOK
<1>7. Reported'
  <2>1. calls' \in Seq(Calls)
    BY <1>1, <1>2, <1>3, AppendItems DEF Reported
  <2>2. Waits(calls', DOMAIN place, eraOf, ResetsRun, resets + 1, hooked)
    BY <1>1, <1>2, <1>3, ReportReset DEF Reported, Counters
  <2>3. QED BY <1>1, <1>4, <2>1, <2>2 DEF Reported
<1>8. BusInv'
  BY <1>1, <1>2, <1>4 DEF BusInv
<1>9. QED BY <1>5, <1>6, <1>7, <1>8 DEF Inv

LEMMA KeepsHookEvent ==
    ASSUME Inv, HookEvent
    PROVE  Inv'
<1> DEFINE c == [do |-> "event", p |-> 0, class |-> "bare"]
<1>1. /\ calls' = Append(calls, c)
      /\ UNCHANGED <<bus, jobs, worker, hooked, resets, eraOf, place, owed>>
      /\ UNCHANGED <<rfnQueue, rfnWorker, jobSeq, died>>
  BY DEF HookEvent, past, rfn
<1>2. Counters /\ Published /\ Jobs /\ Reported /\ BusInv
  BY DEF Inv
<1>3. c \in Calls /\ ~IsReset(c) /\ ~IsPacket(c)
  BY DEF Calls, Classes, IsReset, IsPacket
<1> HIDE DEF c
<1>4. ResetsRun' = ResetsRun
  <2>1. Cardinality(ResetsIn(calls')) = Cardinality(ResetsIn(calls))
    BY <1>1, <1>2, <1>3, OneMoreWaits DEF Reported
  <2>2. QED BY <1>1, <2>1 DEF ResetsRun, ResetsIn
<1>5. Reported'
  <2>1. calls' \in Seq(Calls)
    BY <1>1, <1>2, <1>3, AppendItems DEF Reported
  <2>2. Waits(calls', DOMAIN place, eraOf, ResetsRun, resets, hooked)
    BY <1>1, <1>2, <1>3, ReportEvent DEF Reported
  <2>3. QED BY <1>1, <1>4, <2>1, <2>2 DEF Reported
<1>6. Counters' /\ Published' /\ Jobs' /\ BusInv'
  BY <1>1, <1>2, <1>4 DEF Counters, Published, Jobs, JobOK, BusInv
<1>7. QED BY <1>1, <1>5, <1>6, SameWorkers DEF Inv

-----------------------------------------------------------------------------
(* The steps: the loop.                                                    *)

(* A packet gets its place, and its job or its update names it.            *)
LEMMA KeepsRunPacket ==
    ASSUME Inv, RunPacket
    PROVE  Inv'
<1> DEFINE c == Head(calls)  p == c.p
           published == Publish(bus, Event("packet", c.p), TRUE)
           E == Good(place, eraOf, ResetsRun)
           F == Good(place', eraOf, ResetsRun)
<1>1. /\ calls # <<>> /\ IsPacket(c) /\ calls' = Tail(calls)
      /\ place' = [q \in DOMAIN place \cup {c.p} |-> IF q = c.p THEN published.seq ELSE place[q]]
      /\ UNCHANGED <<hooked, resets, eraOf, died>>
  BY DEF RunPacket, IsPacket, hooks
<1>2. Counters /\ Published /\ Jobs /\ Reported /\ BusInv
  BY DEF Inv
<1>3. /\ \/ /\ (bus' = published /\ UNCHANGED rfn) \/ Offer(published, <<>>)
            /\ UNCHANGED <<jobs, owed>>
         \/ /\ Cardinality(jobs) = QueueMax /\ FullQueue(published, c.p) /\ UNCHANGED jobs
            /\ UNCHANGED rfn
         \/ /\ Cardinality(jobs) # QueueMax
            /\ \E prio \in Priorities(c.class) :
                 jobs' = jobs \cup {[prio |-> prio, n |-> jobSeq + 1, p |-> c.p,
                                     target |-> Target(published), rfn |-> c.class # "inject"]}
            /\ bus' = published /\ owed' = owed \cup {c.p} /\ UNCHANGED rfn
      /\ UNCHANGED <<worker, jobSeq>> \/ worker' = IF worker = Down THEN Idle ELSE worker
  BY DEF RunPacket
<1>4. worker' = worker \/ worker' = Idle
  BY <1>3
<1>5. /\ p \in 1 .. hooked /\ p \notin DOMAIN place /\ p \in Nat
      /\ eraOf[p] \in Nat /\ ResetsRun <= eraOf[p]
      /\ Waits(calls', DOMAIN place \cup {p}, eraOf, ResetsRun, resets, hooked)
      /\ calls' \in Seq(Calls) /\ c \in Calls
  <2>1. calls \in Seq(Calls) /\ Waits(calls, DOMAIN place, eraOf, ResetsRun, resets, hooked)
    BY <1>2 DEF Reported
  <2>2. ResetsRun \in Nat /\ resets \in Nat /\ hooked \in Nat
    BY <1>2 DEF Counters
  <2>3. /\ Head(calls).p \in 1 .. hooked /\ Head(calls).p \notin DOMAIN place
        /\ eraOf[Head(calls).p] \in Nat /\ ResetsRun <= eraOf[Head(calls).p]
        /\ Waits(Tail(calls), DOMAIN place \cup {Head(calls).p}, eraOf, ResetsRun, resets, hooked)
    BY <1>1, <2>1, <2>2, RunsPacket
  <2>4. Tail(calls) \in Seq(Calls) /\ Head(calls) \in Calls
    BY <1>1, <2>1, TailItems
  <2>5. c = Head(calls) /\ p = Head(calls).p /\ Head(calls).p \in Nat
    BY <2>3
  <2> HIDE DEF c, p
  <2>6. QED BY <1>1, <2>3, <2>4, <2>5
<1>6. /\ BusOK(published, E, ResetsRun) /\ published.seq = bus.seq + 1 /\ bus.seq \in Nat
      /\ ResetsRun \in Nat
  <2>1. bus.seq \in Nat /\ ResetsRun \in Nat /\ Len(eraOf) = hooked
    BY <1>2 DEF BusInv, BusOK, Counters
  <2>2. Number(bus, Event("packet", c.p)) \in E
    <3>1. /\ Number(bus, Event("packet", c.p)) \in Events
          /\ Number(bus, Event("packet", c.p)).kind = "packet"
          /\ Number(bus, Event("packet", c.p)).of = p
      BY <1>5, <2>1 DEF Number, Event, Events, Ofs
    <3>2. QED BY <1>5, <2>1, <3>1 DEF Good
  <2>3. E \in SUBSET Events /\ BusOK(bus, E, ResetsRun)
    BY <1>2, GoodAreEvents DEF BusInv
  <2> DEFINE u == Event("packet", c.p)
  <2>4. published = Publish(bus, u, TRUE) /\ Number(bus, u) \in E
    BY <2>2
  <2> HIDE DEF E, u, published
  <2>5. BusOK(Publish(bus, u, TRUE), E, ResetsRun) /\ Publish(bus, u, TRUE).seq = bus.seq + 1
    BY <2>1, <2>3, <2>4, PublishOK
  <2>6. QED BY <2>1, <2>4, <2>5
<1>7. ResetsRun' = ResetsRun
  <2>1. ~IsReset(c)
    BY <1>1 DEF IsReset, IsPacket
  <2>2. Cardinality(ResetsIn(calls)) = Cardinality(ResetsIn(calls'))
    BY <1>1, <1>2, <2>1, OneLessWaits DEF Reported
  <2>3. QED BY <1>1, <2>2 DEF ResetsRun, ResetsIn
<1> HIDE DEF published, c, p
<1>8. /\ DOMAIN place' = DOMAIN place \cup {p} /\ place'[p] = bus.seq + 1
      /\ \A q \in DOMAIN place : place'[q] = place[q]
  BY <1>1, <1>5, <1>6 DEF p
<1>9. E \subseteq F
  <2>1. \A i \in 1 .. Len(eraOf) : i \in 1 .. Len(eraOf) /\ eraOf[i] = eraOf[i]
    OBVIOUS
  <2>2. DOMAIN place \subseteq DOMAIN place'
    BY <1>8
  <2>3. QED BY <1>8, <2>1, <2>2, GoodGrows
<1>10. BusOK(published, F, ResetsRun)
  BY <1>6, <1>9, BusGrows
<1>11. /\ rfnQueue \in Seq(Seconds(place')) /\ Len(rfnQueue) <= RfnMax
       /\ Works(rfnWorker) => rfnWorker \in Seconds(place')
       /\ <<>> \in Seq(Seconds(place'))
  <2>1. Seconds(place) \subseteq Seconds(place')
    BY <1>8 DEF Seconds
  <2>2. QED BY <2>1, SeqMonotonic, EmptySeq DEF Inv, Again
<1>12. /\ BusOK(bus', F, ResetsRun) /\ bus'.seq \in Nat /\ bus.seq + 1 <= bus'.seq
       /\ rfnQueue' \in Seq(Seconds(place')) /\ Len(rfnQueue') <= RfnMax
       /\ rfnWorker' = rfnWorker \/ rfnWorker' = Idle
  <2>1. CASE bus' = published /\ UNCHANGED rfn
    BY <1>6, <1>10, <1>11, <2>1 DEF rfn
  <2>2. CASE Offer(published, <<>>)
    <3>1. /\ BusOK(bus', F, ResetsRun) /\ published.seq <= bus'.seq
          /\ rfnQueue' \in Seq(Seconds(place')) /\ Len(rfnQueue') <= RfnMax
          /\ rfnWorker' = rfnWorker \/ rfnWorker' = Idle
      BY <1>6, <1>10, <1>11, <2>2, OfferOK
    <3> HIDE DEF F
    <3>2. QED BY <1>6, <3>1 DEF BusOK
  <2>3. CASE FullQueue(published, c.p) /\ UNCHANGED rfn
    <3>1. /\ p \in DOMAIN place' /\ place'[p] \in Nat /\ place'[p] <= published.seq
          /\ place'[p] = published.seq
      BY <1>6, <1>8
    <3>2. bus' = Publish(published, Event("update", <<published.seq, p>>), TRUE)
      BY <2>3 DEF FullQueue, Target, p
    <3>3. BusOK(bus', F, ResetsRun) /\ bus'.seq = published.seq + 1
      BY <1>5, <1>6, <1>10, <3>1, <3>2, UpdateOK, Counts
    <3>4. QED BY <1>6, <1>11, <2>3, <3>3 DEF rfn
  <2>4. QED BY <1>3, <2>1, <2>3, <2>2
<1>13. Counters'
  BY <1>1, <1>2, <1>7 DEF Counters
<1>14. Published'
  <2>1. DOMAIN place' \subseteq 1 .. hooked
    BY <1>2, <1>5, <1>8 DEF Published
  <2>2. ASSUME NEW q \in DOMAIN place' PROVE place'[q] \in Nat /\ place'[q] <= bus'.seq
    <3>1. CASE q = p
      BY <1>6, <1>8, <1>12, <3>1
    <3>2. CASE q \in DOMAIN place
      <4>1. place'[q] = place[q] /\ place[q] \in Nat /\ place[q] <= bus.seq
        BY <1>2, <1>8, <3>2 DEF Published
      <4>2. QED BY <1>6, <1>12, <4>1
    <3>3. QED BY <1>8, <3>1, <3>2
  <2>3. owed' \subseteq owed \cup {p}
    BY <1>3 DEF FullQueue, p
  <2>4. owed' \subseteq DOMAIN place'
    BY <1>2, <1>8, <2>3 DEF Published
  <2>5. QED BY <1>1, <2>1, <2>2, <2>4 DEF Published
<1>15. Jobs'
  <2>1. \A j : JobOK(j, place) => JobOK(j, place')
    BY <1>8 DEF JobOK
  <2>2. Works(worker') => JobOK(worker', place')
    BY <1>4, <1>2, <2>1 DEF Jobs, Works
  <2>3. CASE UNCHANGED jobs
    BY <1>2, <2>1, <2>3, <2>2 DEF Jobs
  <2>4. ASSUME Cardinality(jobs) # QueueMax, NEW prio,
               jobs' = jobs \cup {[prio |-> prio, n |-> jobSeq + 1, p |-> c.p,
                                   target |-> Target(published), rfn |-> c.class # "inject"]}
        PROVE  Jobs'
    <3> DEFINE j == [prio |-> prio, n |-> jobSeq + 1, p |-> c.p, target |-> Target(published),
                     rfn |-> c.class # "inject"]
    <3>1. Works(j)
      <4>1. "p" \in DOMAIN j /\ "p" \notin DOMAIN Idle /\ "p" \notin DOMAIN Down
        BY DEF Idle, Down
      <4> HIDE DEF j
      <4>2. QED BY <4>1 DEF Works
    <3>2. JobOK(j, place')
      <4>1. j.p = p /\ j.target = bus.seq + 1
        BY <1>6 DEF Target, p
      <4> HIDE DEF j
      <4>2. j.p \in DOMAIN place' /\ j.target = place'[j.p]
        BY <1>8, <4>1
      <4>3. QED BY <4>2 DEF JobOK
    <3> HIDE DEF j
    <3>3. jobs' = jobs \cup {j}
      BY <2>4 DEF j
    <3>4. IsFiniteSet(jobs') /\ Cardinality(jobs') <= QueueMax
      <4>1. IsFiniteSet(jobs) /\ Cardinality(jobs) <= QueueMax
        BY <1>2 DEF Jobs
      <4>2. Cardinality(jobs) \in Nat /\ QueueMax \in Nat
        BY <4>1, FS_CardinalityType, PacketFeedAssumption
      <4>3. /\ IsFiniteSet(jobs')
            /\ Cardinality(jobs') = Cardinality(jobs) \/ Cardinality(jobs') = Cardinality(jobs) + 1
        BY <3>3, <4>1, FS_AddElement
      <4>4. QED BY <2>4, <4>1, <4>2, <4>3
    <3>5. QED BY <1>2, <2>1, <2>2, <3>2, <3>3, <3>4, <3>1 DEF Jobs
  <2>5. QED BY <1>3, <2>3, <2>4
<1>16. Reported'
  BY <1>1, <1>5, <1>7, <1>8 DEF Reported
<1>17. BusInv'
  BY <1>1, <1>7, <1>12 DEF BusInv
<1>18. Again'
  BY <1>12, <1>11 DEF Again, Works
<1>19. StandsStill'
  BY <1>1, <1>3, IdleIsNotDown DEF Inv, StandsStill
<1>20. QED BY <1>13, <1>14, <1>15, <1>16, <1>17, <1>18, <1>19 DEF Inv

(* A reset empties the bus before the reset and the session event go on    *)
(* it; the packets that still wait were reported after it.                 *)
LEMMA KeepsRunReset ==
    ASSUME Inv, RunReset
    PROVE  Inv'
<1> DEFINE c == Head(calls)  r == ResetsRun + 1  E == Good(place, eraOf, r)
           b == Clear(bus)  u == Event("reset", c.p)  w == Event("session", c.p)
           b2 == Publish(b, u, TRUE)
<1>1. /\ calls # <<>> /\ IsReset(c) /\ calls' = Tail(calls)
      /\ bus' = Publish(b2, w, TRUE)
      /\ UNCHANGED <<jobs, worker, hooked, resets, eraOf, place, owed>>
      /\ UNCHANGED <<rfnQueue, rfnWorker, jobSeq, died>>
  BY DEF RunReset, IsReset, hooks, past, rfn
<1>2. Counters /\ Published /\ Jobs /\ Reported /\ BusInv
  BY DEF Inv
<1>3. /\ ResetsRun \in Nat /\ resets \in Nat /\ hooked \in Nat /\ bus.seq \in Nat
      /\ r \in Nat /\ ResetsRun <= r
  BY <1>2 DEF Counters, BusInv, BusOK
<1>4. /\ c.p = r /\ r <= resets /\ Waits(calls', DOMAIN place, eraOf, r, resets, hooked)
      /\ calls' \in Seq(Calls)
  <2>1. calls \in Seq(Calls) /\ Waits(calls, DOMAIN place, eraOf, ResetsRun, resets, hooked)
    BY <1>2 DEF Reported
  <2>2. calls' \in Seq(Calls)
    BY <1>1, <2>1, TailItems
  <2>3. QED BY <1>1, <1>3, <2>1, <2>2, RunsReset
<1>5. ResetsRun' = r
  <2>1. Cardinality(ResetsIn(calls)) = Cardinality(ResetsIn(calls')) + 1
    BY <1>1, <1>2, OneLessWaits DEF Reported
  <2>2. Cardinality(ResetsIn(calls')) \in Nat
    BY <1>4, ResetsInFact
  <2>3. ResetsRun = resets - Cardinality(ResetsIn(calls))
    BY ResetsRunIs
  <2>4. ResetsRun' = resets - Cardinality(ResetsIn(calls'))
    BY <1>1 DEF ResetsRun, ResetsIn
  <2>5. QED BY <1>3, <2>1, <2>2, <2>3, <2>4
<1>6. BusOK(b, E, r) /\ b.seq = bus.seq
  <2>1. BusOK(b, {}, ResetsRun) /\ b.seq = bus.seq
    BY <1>2, <1>3, ClearOK DEF BusInv
  <2> HIDE DEF b, E, r
  <2>2. {} \subseteq E
    OBVIOUS
  <2>3. QED BY <1>3, <2>1, <2>2, BusGrows
<1>7. E \in SUBSET Events
  BY GoodAreEvents
<1>8. Number(b, u) \in E
  <2>1. /\ Number(b, u) \in Events /\ Number(b, u).kind = "reset" /\ Number(b, u).of = r
    BY <1>3, <1>4, <1>6 DEF Number, Event, Events, Ofs
  <2>2. QED BY <1>3, <2>1 DEF Good
<1>9. BusOK(b2, E, r) /\ b2.seq = bus.seq + 1
  <2> HIDE DEF E, b, u, r
  <2>1. BusOK(Publish(b, u, TRUE), E, r) /\ Publish(b, u, TRUE).seq = b.seq + 1
    BY <1>3, <1>6, <1>7, <1>8, PublishOK
  <2>2. QED BY <1>6, <2>1
<1> HIDE DEF b2
<1>10. Number(b2, w) \in E
  <2>1. /\ Number(b2, w) \in Events /\ Number(b2, w).kind = "session"
    BY <1>3, <1>4, <1>9 DEF Number, Event, Events, Ofs
  <2>2. QED BY <2>1 DEF Good
<1>11. BusOK(bus', E, r) /\ bus'.seq = bus.seq + 1 + 1
  <2> HIDE DEF E, w, r
  <2>1. BusOK(Publish(b2, w, TRUE), E, r) /\ Publish(b2, w, TRUE).seq = b2.seq + 1
    BY <1>3, <1>7, <1>9, <1>10, PublishOK
  <2>2. QED BY <1>1, <1>9, <2>1
<1>12. Counters'
  BY <1>1, <1>2, <1>3, <1>4, <1>5 DEF Counters
<1>13. Published'
  <2>1. \A q \in DOMAIN place : place[q] \in Nat /\ place[q] <= bus'.seq
    BY <1>2, <1>3, <1>11 DEF Published
  <2>2. QED BY <1>1, <1>2, <2>1 DEF Published
<1>14. Jobs' /\ Again' /\ StandsStill'
  BY <1>1, <1>2, SameWorkers DEF Jobs
<1>15. Reported'
  BY <1>1, <1>4, <1>5 DEF Reported
<1>16. BusInv'
  BY <1>1, <1>5, <1>11 DEF BusInv
<1>17. QED BY <1>12, <1>13, <1>14, <1>15, <1>16 DEF Inv

LEMMA KeepsRunEvent ==
    ASSUME Inv, RunEvent
    PROVE  Inv'
<1>1. /\ calls # <<>> /\ ~IsPacket(Head(calls)) /\ ~IsReset(Head(calls)) /\ calls' = Tail(calls)
      /\ bus' = Publish(bus, Event("session", 0), TRUE)
      /\ UNCHANGED <<jobs, worker, hooked, resets, eraOf, place, owed>>
      /\ UNCHANGED <<rfnQueue, rfnWorker, jobSeq, died>>
  BY DEF RunEvent, IsPacket, IsReset, hooks, past, rfn
<1>2. Counters /\ Published /\ Jobs /\ Reported /\ BusInv
  BY DEF Inv
<1>3. ResetsRun \in Nat /\ resets \in Nat /\ hooked \in Nat /\ bus.seq \in Nat
  BY <1>2 DEF Counters, BusInv, BusOK
<1>4. ResetsRun' = ResetsRun
  <2>1. Cardinality(ResetsIn(calls)) = Cardinality(ResetsIn(calls'))
    BY <1>1, <1>2, OneLessWaits DEF Reported
  <2>2. QED BY <1>1, <2>1 DEF ResetsRun, ResetsIn
<1>5. Reported'
  <2>1. calls' \in Seq(Calls)
    BY <1>1, <1>2, TailItems DEF Reported
  <2>2. Waits(calls', DOMAIN place, eraOf, ResetsRun, resets, hooked)
    BY <1>1, <1>2, <1>3, RunsEvent DEF Reported
  <2>3. QED BY <1>1, <1>4, <2>1, <2>2 DEF Reported
<1>6. BusOK(bus', Good(place, eraOf, ResetsRun), ResetsRun) /\ bus'.seq = bus.seq + 1
  <2>1. 0 \in Ofs /\ "session" \in {"session", "passing"} /\ TRUE \in BOOLEAN
    BY DEF Ofs
  <2>2. QED BY <1>1, <1>2, <1>3, <2>1, PlainEvent, Counts DEF BusInv
<1>7. Published'
  <2>1. \A q \in DOMAIN place : place[q] \in Nat /\ place[q] <= bus'.seq
    BY <1>2, <1>3, <1>6 DEF Published
  <2>2. QED BY <1>1, <1>2, <2>1 DEF Published
<1>8. Counters' /\ Jobs' /\ BusInv' /\ Again' /\ StandsStill'
  BY <1>1, <1>2, <1>4, <1>6, SameWorkers DEF Counters, Jobs, BusInv
<1>9. QED BY <1>5, <1>7, <1>8 DEF Inv

-----------------------------------------------------------------------------
(* The steps: the worker.                                                  *)

LEMMA KeepsWorkerTakes ==
    ASSUME Inv, WorkerTakes
    PROVE  Inv'
<1>1. PICK j \in jobs : worker' = j /\ jobs' = jobs \ {j}
  BY DEF WorkerTakes
<1>2. UNCHANGED <<calls, bus, rfnQueue, rfnWorker, jobSeq, hooked, resets, eraOf, place, owed, died>>
  BY DEF WorkerTakes, hooks, past, rfn
<1>3. Jobs'
  <2>1. IsFiniteSet(jobs) /\ Cardinality(jobs) <= QueueMax /\ Cardinality(jobs) \in Nat
    BY FS_CardinalityType DEF Inv, Jobs
  <2>2. IsFiniteSet(jobs') /\ Cardinality(jobs') = Cardinality(jobs) - 1
    BY <1>1, <2>1, FS_RemoveElement
  <2>3. Cardinality(jobs') <= QueueMax
    BY <2>1, <2>2, PacketFeedAssumption
  <2>4. QED BY <1>1, <1>2, <2>2, <2>3 DEF Inv, Jobs
<1>4. ResetsRun' = ResetsRun
  BY <1>2 DEF ResetsRun
<1>5. Counters' /\ Published' /\ Reported' /\ BusInv'
  BY <1>2, <1>4 DEF Inv, Counters, Published, Reported, BusInv
<1>6. Again' /\ StandsStill'
  <2>1. worker' # Down
    BY <1>1 DEF Inv, Jobs, Works
  <2>2. QED BY <1>2, <2>1 DEF Inv, Again, StandsStill
<1>7. QED BY <1>3, <1>5, <1>6 DEF Inv

(* What a job needs: the number that it carries is the place of its packet.*)
LEMMA JobFacts ==
    ASSUME Inv, NEW q \in DOMAIN place
    PROVE  q \in Nat /\ place[q] \in Nat /\ place[q] <= bus.seq
<1>1. q \in 1 .. hooked /\ hooked \in Nat
  BY DEF Inv, Published, Counters
<1>2. QED BY <1>1 DEF Inv, Published

LEMMA KeepsWorkerPublishes ==
    ASSUME Inv, WorkerPublishes
    PROVE  Inv'
<1> DEFINE b == Publish(bus, Event("update", <<worker.target, worker.p>>), TRUE)
           one == [p |-> worker.p, target |-> worker.target]
           E == Good(place, eraOf, ResetsRun)
<1>1. /\ Works(worker) /\ worker' = Idle /\ owed' = owed \ {worker.p}
      /\ \/ bus' = b /\ UNCHANGED rfn
         \/ \E again \in {<<>>, <<one>>} : Offer(b, again)
      /\ UNCHANGED <<calls, jobs, hooked, resets, eraOf, place>>
  BY DEF WorkerPublishes, hooks
<1>2. Counters /\ Published /\ Jobs /\ Again /\ Reported /\ BusInv
  BY DEF Inv
<1>3. ResetsRun \in Nat /\ bus.seq \in Nat /\ BusOK(bus, E, ResetsRun)
  BY <1>2 DEF Counters, BusInv, BusOK
<1>4. worker.p \in DOMAIN place /\ worker.target = place[worker.p]
  BY <1>1, <1>2 DEF Jobs, JobOK
<1>5. BusOK(b, E, ResetsRun) /\ b.seq = bus.seq + 1
  BY <1>3, <1>4, JobFacts, UpdateOK, Counts
<1>6. ASSUME NEW again \in {<<>>, <<one>>} PROVE again \in Seq(Seconds(place))
  <2>1. one \in Seconds(place)
    BY <1>4 DEF Seconds
  <2> HIDE DEF one
  <2>2. <<one>> \in Seq(Seconds(place)) /\ <<>> \in Seq(Seconds(place))
    BY <2>1
  <2>3. QED BY <2>2
<1> HIDE DEF b, one
<1>7. /\ BusOK(bus', E, ResetsRun) /\ bus'.seq >= bus.seq /\ bus'.seq \in Nat
      /\ rfnQueue' \in Seq(Seconds(place)) /\ Len(rfnQueue') <= RfnMax
      /\ rfnWorker' = rfnWorker \/ rfnWorker' = Idle
  <2>1. CASE bus' = b /\ UNCHANGED rfn
    BY <1>2, <1>3, <1>5, <2>1 DEF Again, rfn, BusOK
  <2>2. ASSUME NEW again \in {<<>>, <<one>>}, Offer(b, again)
        PROVE  /\ BusOK(bus', E, ResetsRun) /\ bus'.seq >= bus.seq /\ bus'.seq \in Nat
               /\ rfnQueue' \in Seq(Seconds(place)) /\ Len(rfnQueue') <= RfnMax
               /\ rfnWorker' = rfnWorker \/ rfnWorker' = Idle
    <3>1. /\ BusOK(bus', E, ResetsRun) /\ b.seq <= bus'.seq
          /\ rfnQueue' \in Seq(Seconds(place)) /\ Len(rfnQueue') <= RfnMax
          /\ rfnWorker' = rfnWorker \/ rfnWorker' = Idle
      BY <1>2, <1>3, <1>5, <1>6, <2>2, OfferOK DEF Again
    <3> HIDE DEF E
    <3>2. bus'.seq \in Nat
      BY <3>1 DEF BusOK
    <3>3. QED BY <1>3, <1>5, <3>1, <3>2
  <2>3. QED BY <1>1, <2>1, <2>2
<1>8. ResetsRun' = ResetsRun
  BY <1>1 DEF ResetsRun
<1>9. Published'
  <2>1. \A q \in DOMAIN place : place[q] \in Nat /\ place[q] <= bus'.seq
    BY <1>2, <1>3, <1>7 DEF Published
  <2>2. QED BY <1>1, <1>2, <2>1 DEF Published
<1>10. Counters' /\ Jobs' /\ Reported' /\ BusInv'
  BY <1>1, <1>2, <1>7, <1>8 DEF Counters, Jobs, Works, Reported, BusInv
<1>11. Again' /\ StandsStill'
  BY <1>1, <1>2, <1>7, IdleIsNotDown DEF Again, Works, StandsStill
<1>12. QED BY <1>9, <1>10, <1>11 DEF Inv

LEMMA KeepsWorkerDies ==
    ASSUME Inv, WorkerDies
    PROVE  Inv'
<1>1. /\ worker' = Down /\ died' = jobSeq /\ jobSeq' = jobSeq
      /\ UNCHANGED <<calls, bus, jobs, rfnQueue, rfnWorker, hooked, resets, eraOf, place, owed>>
  BY DEF WorkerDies, hooks, rfn
<1>2. ResetsRun' = ResetsRun
  BY <1>1 DEF ResetsRun
<1>3. Counters' /\ Published' /\ Jobs' /\ Again' /\ Reported' /\ BusInv' /\ StandsStill'
  BY <1>1, <1>2 DEF Inv, Counters, Published, Jobs, Works, Again, Reported, BusInv, StandsStill
<1>4. QED BY <1>3 DEF Inv

(* The RFN worker.                                                         *)
LEMMA KeepsRfnTakes ==
    ASSUME Inv, RfnTakes \/ RfnDies
    PROVE  Inv'
<1>1. UNCHANGED <<calls, bus, jobs, worker, jobSeq, hooked, resets, eraOf, place, owed, died>>
  BY DEF RfnTakes, RfnDies, hooks, past
<1>2. ResetsRun' = ResetsRun
  BY <1>1 DEF ResetsRun
<1>3. Counters' /\ Published' /\ Jobs' /\ Reported' /\ BusInv' /\ StandsStill'
  BY <1>1, <1>2 DEF Inv, Counters, Published, Jobs, JobOK, Reported, BusInv, StandsStill
<1>4. Again'
  <2>1. CASE RfnTakes
    <3>1. rfnQueue # <<>> /\ rfnQueue \in Seq(Seconds(place)) /\ Len(rfnQueue) <= RfnMax
      BY <2>1 DEF RfnTakes, Inv, Again
    <3>2. /\ Head(rfnQueue) \in Seconds(place) /\ Tail(rfnQueue) \in Seq(Seconds(place))
          /\ Len(Tail(rfnQueue)) = Len(rfnQueue) - 1 /\ Len(rfnQueue) \in Nat
      BY <3>1, HeadTailProperties, LenProperties
    <3>3. Len(Tail(rfnQueue)) <= RfnMax
      BY <3>1, <3>2, PacketFeedAssumption
    <3>4. QED BY <1>1, <2>1, <3>2, <3>3 DEF RfnTakes, Again
  <2>2. CASE RfnDies
    BY <1>1, <2>2 DEF RfnDies, Inv, Again, Works
  <2>3. QED BY <2>1, <2>2
<1>5. QED BY <1>3, <1>4 DEF Inv

LEMMA KeepsRfnPublishes ==
    ASSUME Inv, RfnPublishes
    PROVE  Inv'
<1> DEFINE b == Publish(bus, Event("update", <<rfnWorker.target, rfnWorker.p>>), TRUE)
           E == Good(place, eraOf, ResetsRun)
<1>1. /\ Works(rfnWorker) /\ rfnWorker' = Idle /\ bus' = b
      /\ UNCHANGED <<calls, jobs, worker, rfnQueue, jobSeq, hooked, resets, eraOf, place, owed, died>>
  BY DEF RfnPublishes, hooks, past
<1>2. Counters /\ Published /\ Jobs /\ Again /\ StandsStill /\ Reported /\ BusInv
  BY DEF Inv
<1>3. ResetsRun \in Nat /\ bus.seq \in Nat /\ BusOK(bus, E, ResetsRun)
  BY <1>2 DEF Counters, BusInv, BusOK
<1>4. rfnWorker.p \in DOMAIN place /\ rfnWorker.target = place[rfnWorker.p]
  BY <1>1, <1>2 DEF Again, Seconds
<1>5. BusOK(bus', E, ResetsRun) /\ bus'.seq = bus.seq + 1
  BY <1>1, <1>3, <1>4, JobFacts, UpdateOK, Counts
<1>6. ResetsRun' = ResetsRun
  BY <1>1 DEF ResetsRun
<1>7. Published'
  <2>1. \A q \in DOMAIN place : place[q] \in Nat /\ place[q] <= bus'.seq
    BY <1>2, <1>3, <1>5 DEF Published
  <2>2. QED BY <1>1, <1>2, <2>1 DEF Published
<1>8. Counters' /\ Jobs' /\ Again' /\ StandsStill' /\ Reported' /\ BusInv'
  BY <1>1, <1>2, <1>5, <1>6
     DEF Counters, Jobs, JobOK, Again, Works, StandsStill, Reported, BusInv
<1>9. QED BY <1>7, <1>8 DEF Inv

-----------------------------------------------------------------------------
(* The steps: the rest.                                                    *)

LEMMA KeepsPassing ==
    ASSUME Inv, PublishPassing
    PROVE  Inv'
<1> DEFINE b == Publish(bus, Event("passing", 0), FALSE)
<1>1. /\ bus' = b
      /\ UNCHANGED <<calls, jobs, worker, rfnQueue, rfnWorker, jobSeq, died>>
      /\ UNCHANGED <<hooked, resets, eraOf, place, owed>>
  BY DEF PublishPassing, past, rfn
<1>2. 0 \in Ofs /\ "passing" \in {"session", "passing"} /\ FALSE \in BOOLEAN
  BY DEF Ofs
<1>3. /\ bus.seq \in Nat /\ ResetsRun \in Nat
      /\ BusOK(bus, Good(place, eraOf, ResetsRun), ResetsRun)
  BY DEF Inv, BusInv, BusOK, Counters
<1>4. BusOK(bus', Good(place, eraOf, ResetsRun), ResetsRun) /\ bus'.seq >= bus.seq
  <2>1. BusOK(b, Good(place, eraOf, ResetsRun), ResetsRun) /\ b.seq = bus.seq + 1
    BY <1>2, <1>3, PlainEvent, Counts
  <2> HIDE DEF b
  <2>2. bus'.seq = bus.seq + 1 /\ bus.seq + 1 >= bus.seq
    BY <1>1, <1>3, <2>1
  <2>3. QED BY <1>1, <2>1, <2>2
<1>5. QED BY <1>1, <1>4, BusOnly

LEMMA KeepsViewers ==
    ASSUME Inv, NEW v \in Viewers, Come(v) \/ Leave(v) \/ Gather(v) \/ Send(v)
    PROVE  Inv'
<1> DEFINE E == Good(place, eraOf, ResetsRun)
<1>1. /\ UNCHANGED <<calls, jobs, worker, rfnQueue, rfnWorker, jobSeq, died>>
      /\ UNCHANGED <<hooked, resets, eraOf, place, owed>>
  BY DEF Come, Leave, Gather, Send, Bus, hooks, past, rfn
<1>2. BusOK(bus, E, ResetsRun) /\ ResetsRun \in Nat /\ bus.seq \in Nat
  BY DEF Inv, BusInv, BusOK, Counters
<1>3. E \in SUBSET Events /\ \A e \in E : e.kind = "reset" => e.of \in Nat /\ e.of <= ResetsRun
  BY GoodAreEvents DEF Good
<1> HIDE DEF E
<1>4. BusOK(bus', E, ResetsRun) /\ bus'.seq = bus.seq
  <2>1. CASE Come(v)
    BY <1>2, <2>1, SubscribeOK DEF Come, Bus
  <2>2. CASE Leave(v)
    BY <1>2, <2>2, UnsubscribeOK DEF Leave, Bus
  <2>3. CASE Gather(v)
    <3>1. /\ bus' = Take(bus, v) /\ bus.viewer[v].here /\ bus.viewer[v].queue # <<>>
          /\ bus.viewer[v].hand < BatchMax
      BY <2>3 DEF Gather, Bus
    <3>2. QED BY <1>2, <1>3, <3>1, TakeOK
  <2>4. CASE Send(v)
    BY <1>2, <2>4, SendOK DEF Send, Bus
  <2>5. QED BY <2>1, <2>2, <2>3, <2>4
<1>5. QED BY <1>1, <1>2, <1>4, BusOnly DEF E

LEMMA KeepsStutter ==
    ASSUME Inv, Prune \/ UNCHANGED feed
    PROVE  Inv'
<1>1. /\ bus' = bus
      /\ UNCHANGED <<calls, jobs, worker, rfnQueue, rfnWorker, jobSeq, died>>
      /\ UNCHANGED <<hooked, resets, eraOf, place, owed>>
  BY DEF Prune, feed, hooks, past, rfn
<1>2. BusOK(bus, Good(place, eraOf, ResetsRun), ResetsRun) /\ bus.seq \in Nat
  BY DEF Inv, BusInv, BusOK
<1>3. QED BY <1>1, <1>2, BusOnly

LEMMA FeedKeeps ==
    ASSUME Inv, [FeedNext]_feed
    PROVE  Inv'
<1>1. ASSUME NEW class \in Classes, HookPacket(class) PROVE Inv'
  BY <1>1, KeepsHookPacket
<1>2. ASSUME NEW v \in Viewers, Come(v) \/ Leave(v) \/ Gather(v) \/ Send(v) PROVE Inv'
  BY <1>2, KeepsViewers
<1>3. QED
  BY <1>1, <1>2, KeepsHookReset, KeepsHookEvent, KeepsRunPacket, KeepsRunReset, KeepsRunEvent,
     KeepsWorkerTakes, KeepsWorkerPublishes, KeepsWorkerDies, KeepsRfnTakes, KeepsRfnPublishes,
     KeepsPassing, KeepsStutter DEF FeedNext

-----------------------------------------------------------------------------
(* What the invariant gives.                                               *)

LEMMA HereIsNotAway ==
    ASSUME Inv, NEW v \in Here(bus)
    PROVE  /\ v # Away /\ ViewerOK(v, Good(place, eraOf, ResetsRun), bus.seq, ResetsRun)
           /\ v.queue \in Seq(Good(place, eraOf, ResetsRun))
<1>1. PICK w \in Viewers : bus.viewer[w].here /\ v = bus.viewer[w]
  BY DEF Here, Inv, BusInv, BusOK
<1>2. v # Away
  BY <1>1, AwayIsNotHere
<1>3. ViewerOK(v, Good(place, eraOf, ResetsRun), bus.seq, ResetsRun)
  BY <1>1 DEF Inv, BusInv, BusOK
<1>4. QED BY <1>2, <1>3, SeatedFact

LEMMA ListsAreGood ==
    ASSUME Inv, NEW s \in Lists, NEW i \in DOMAIN s
    PROVE  s[i] \in Good(place, eraOf, ResetsRun)
<1>1. s \in Seq(Good(place, eraOf, ResetsRun))
  BY HereIsNotAway DEF Lists, Inv, BusInv, BusOK
<1>2. QED BY <1>1, LenProperties, ElementOfSeq

LEMMA InvGivesFeedInv == Inv => FeedInv
<1> SUFFICES ASSUME Inv PROVE FeedInv
  OBVIOUS
<1>1. FeedTypeOK
  <2>1. /\ Cardinality(jobs) <= QueueMax /\ Len(bus.history) <= HistoryMax
        /\ owed \subseteq DOMAIN place /\ Len(rfnQueue) <= RfnMax
    BY DEF Inv, Jobs, Again, BusInv, BusOK, Published
  <2>2. ASSUME NEW v \in Viewers, bus.viewer[v].here
        PROVE  Len(bus.viewer[v].queue) <= Capacity /\ bus.viewer[v].hand <= BatchMax
    <3>1. ViewerOK(bus.viewer[v], Good(place, eraOf, ResetsRun), bus.seq, ResetsRun)
      BY DEF Inv, BusInv, BusOK
    <3>2. QED BY <2>2, <3>1, AwayIsNotHere DEF ViewerOK
  <2>3. QED BY <2>1, <2>2 DEF FeedTypeOK
<1>2. ASSUME NEW v \in Here(bus), NEW i \in DOMAIN v.queue
      PROVE  v.queue[i].seq > IF i = 1 THEN v.last ELSE v.queue[i - 1].seq
  <2>1. /\ v.queue \in Seq(Good(place, eraOf, ResetsRun)) /\ v # Away
        /\ Rising(v.queue, v.last, bus.seq)
    BY HereIsNotAway DEF ViewerOK
  <2>2. DOMAIN v.queue = 1 .. Len(v.queue) /\ Len(v.queue) \in Nat
    BY <2>1, LenProperties
  <2>3. \A k \in 1 .. Len(v.queue) : v.queue[k].seq \in Nat
    BY <2>1, ItemsAreEvents, GoodAreEvents
  <2>4. v.last \in Nat
    BY <2>1, HereIsNotAway, SeatedFact
  <2>5. CASE i = 1
    BY <2>1, <2>2, <2>3, <2>4, <2>5 DEF Rising
  <2>6. CASE i # 1
    <3>1. i - 1 \in 1 .. Len(v.queue) /\ i - 1 < i
      BY <2>2, <2>6
    <3>2. v.queue[i - 1].seq < v.queue[i].seq
      BY <2>1, <2>2, <3>1 DEF Rising
    <3>3. QED BY <2>2, <2>3, <2>6, <3>1, <3>2
  <2>7. QED BY <2>5, <2>6
<1>3. ASSUME NEW v \in Here(bus)
      PROVE  (bus.seq - v.since) + v.replayed
               = v.got + v.hand + Len(v.queue) + v.cleared + v.dropped
  BY HereIsNotAway DEF ViewerOK, Accounts, Even
<1>4. StandsStill
  BY DEF Inv
<1>5. QED
  BY <1>1, <1>2, <1>3, <1>4 DEF FeedInv, ViewersInOrder, InOrder, GapsAreCounted, Accounted

LEMMA InvGivesResetSeparates == Inv => ResetSeparates
<1> SUFFICES ASSUME Inv PROVE ResetSeparates
  OBVIOUS
<1>1. ResetsRun \in Nat
  BY DEF Inv, Counters
<1>2. ASSUME NEW s \in Lists, NEW i \in DOMAIN s, s[i].kind = "packet"
      PROVE  eraOf[s[i].of] >= ResetsRun
  BY <1>1, <1>2, ListsAreGood DEF Good
<1>3. ASSUME NEW v \in Here(bus) PROVE v.reset <= ResetsRun
  BY HereIsNotAway DEF ViewerOK
<1>4. QED BY <1>2, <1>3 DEF ResetSeparates

LEMMA InvGivesUpdates == Inv => UpdateIsOfItsPacket
<1> SUFFICES ASSUME Inv, NEW s \in Lists, NEW i \in DOMAIN s, s[i].kind = "update"
             PROVE  place[s[i].of[2]] = s[i].of[1] /\ s[i].of[1] < s[i].seq
  BY DEF UpdateIsOfItsPacket
<1>1. s[i] \in Good(place, eraOf, ResetsRun)
  BY ListsAreGood
<1>2. QED BY <1>1 DEF Good

-----------------------------------------------------------------------------
(* The invariant that relates the bus, the jobs and what waits for the     *)
(* loop holds whatever threads report and whenever viewers come and go     *)
(* (web/app.py, web/event_bus.py).                                         *)
THEOREM Invariance == FeedSpec => []Inv
<1>1. Inv /\ [FeedNext]_feed => Inv'
  BY FeedKeeps
<1>2. QED BY <1>1, FeedStart, PTL DEF FeedSpec

(* The queues, the history, the batch of a sender and the two job queues   *)
(* keep within their capacities, no viewer is sent an event twice or out   *)
(* of order, the replay included, and each event that he misses is in the  *)
(* hand of his sender, was wiped by a clear, or is told by his drop        *)
(* counter; and the decode worker is there whenever a packet was queued    *)
(* after its last death (EventBus.publish, clear, subscribe; _ws_sender;   *)
(* _enqueue_packet_event).                                                 *)
THEOREM ViewersAreServed == FeedSpec => []FeedInv
BY Invariance, InvGivesFeedInv, PTL

(* Once a reset has run, no packet that a thread reported before it is in  *)
(* the history or in the queue of a viewer, and no viewer has been sent a  *)
(* reset that did not run (_clear_and_publish).                            *)
THEOREM ResetsSeparate == FeedSpec => []ResetSeparates
BY Invariance, InvGivesResetSeparates, PTL

(* An update on the bus, the first of a packet or the one of the RFN       *)
(* worker, names a number under which its own packet was published before, *)
(* whatever else was published while it was decoded (_enqueue_packet_event,*)
(* _packet_enrich_worker, _rfn_packet_worker).                             *)
THEOREM UpdatesNameTheirPackets == FeedSpec => []UpdateIsOfItsPacket
BY Invariance, InvGivesUpdates, PTL

-----------------------------------------------------------------------------
(* What is owed.  The worker's job has left the queue.                     *)
Owing == OwedIsQueued /\ worker \notin jobs

(* The packet that the loop runs has not been published before.            *)
LEMMA RunsNewPacket ==
    ASSUME Inv, RunPacket
    PROVE  Head(calls).p \notin DOMAIN place
<1>1. calls # <<>> /\ IsPacket(Head(calls))
  BY DEF RunPacket, IsPacket
<1>2. calls \in Seq(Calls) /\ Waits(calls, DOMAIN place, eraOf, ResetsRun, resets, hooked)
  BY DEF Inv, Reported
<1>3. ResetsRun \in Nat /\ resets \in Nat /\ hooked \in Nat
  BY DEF Inv, Counters
<1>4. QED BY <1>1, <1>2, <1>3, RunsPacket

LEMMA OwingRunPacket ==
    ASSUME Inv, Owing, RunPacket
    PROVE  Owing'
<1> DEFINE c == Head(calls)
           job(prio, target) == [prio |-> prio, n |-> jobSeq + 1, p |-> c.p, target |-> target,
                                 rfn |-> c.class # "inject"]
<1>1. worker' = worker \/ (worker = Down /\ worker' = Idle)
  BY DEF RunPacket
<1>2. lost' = lost
  BY DEF RunPacket
<1>3. \/ UNCHANGED <<jobs, owed>>
      \/ \E prio, target : jobs' = jobs \cup {job(prio, target)} /\ owed' = owed \cup {c.p}
  BY DEF RunPacket, FullQueue
<1>4. Idle \notin jobs /\ Down \notin jobs
  BY DEF Inv, Jobs, Works
<1>5. {worker'} \ {Idle, Down} = {worker} \ {Idle, Down}
  BY <1>1
<1>6. CASE UNCHANGED <<jobs, owed>>
  BY <1>1, <1>2, <1>4, <1>5, <1>6 DEF Owing, OwedIsQueued, Decoding
<1>7. ASSUME NEW prio, NEW target, jobs' = jobs \cup {job(prio, target)}, owed' = owed \cup {c.p}
      PROVE  Owing'
  <2> DEFINE new == job(prio, target)
  <2>1. c.p \notin DOMAIN place
    BY RunsNewPacket
  <2>2. /\ \A j \in Decoding : j.p \in DOMAIN place
        /\ lost \subseteq DOMAIN place
    BY DEF Inv, Jobs, JobOK, Works, Decoding, Published, Owing, OwedIsQueued
  <2>3. new.p = c.p /\ new # Idle /\ new # Down
    <3>1. "p" \in DOMAIN new /\ "p" \notin DOMAIN Idle /\ "p" \notin DOMAIN Down
      BY DEF Idle, Down
    <3>2. QED BY <3>1
  <2>4. jobs' = jobs \cup {new}
    BY <1>7
  <2> HIDE DEF new, c
  <2>5. new \notin Decoding
    BY <2>1, <2>2, <2>3
  <2>6. Decoding' = Decoding \cup {new}
    BY <1>5, <2>4 DEF Decoding
  <2>7. worker' \notin jobs'
    BY <1>1, <1>4, <2>3, <2>4, <2>5 DEF Owing, Decoding
  <2>8. owed' = {j.p : j \in Decoding'} \cup lost' /\ \A j \in Decoding' : j.p \notin lost'
    BY <1>2, <1>7, <2>1, <2>2, <2>3, <2>6 DEF Owing, OwedIsQueued, c
  <2>9. \A j, k \in Decoding' : j.p = k.p => j = k
    BY <2>1, <2>2, <2>3, <2>6 DEF Owing, OwedIsQueued
  <2>10. QED BY <2>7, <2>8, <2>9 DEF Owing, OwedIsQueued
<1> HIDE DEF c, job
<1>8. QED BY <1>3, <1>6, <1>7

LEMMA OwingNext ==
    ASSUME Inv, Owing, [FeedNext]_feed
    PROVE  Owing'
<1>1. CASE RunPacket
  BY <1>1, OwingRunPacket
<1>2. CASE WorkerTakes
  <2>1. PICK j \in jobs : worker' = j /\ jobs' = jobs \ {j}
    BY <1>2 DEF WorkerTakes
  <2>2. worker = Idle /\ owed' = owed /\ lost' = lost
    BY <1>2 DEF WorkerTakes, past
  <2>3. j \notin {Idle, Down}
    BY DEF Inv, Jobs, Works
  <2>4. Decoding' = Decoding
    BY <2>1, <2>2, <2>3 DEF Decoding
  <2>5. QED BY <2>1, <2>2, <2>4 DEF Owing, OwedIsQueued
<1>3. CASE WorkerPublishes \/ WorkerDies
  <2>1. /\ Works(worker) /\ worker' \in {Idle, Down} /\ jobs' = jobs
        /\ \/ owed' = owed \ {worker.p} /\ lost' = lost
           \/ owed' = owed /\ lost' = lost \cup {worker.p}
    BY <1>3 DEF WorkerPublishes, WorkerDies
  <2>2. Decoding' = jobs /\ Decoding = jobs \cup {worker}
    BY <2>1 DEF Decoding, Works
  <2>3. worker.p \notin lost /\ \A j \in jobs : j.p # worker.p
    BY <2>2 DEF Owing, OwedIsQueued
  <2>4. owed' = {j.p : j \in jobs} \cup lost' /\ \A j \in jobs : j.p \notin lost'
    BY <2>1, <2>2, <2>3 DEF Owing, OwedIsQueued
  <2>5. \A j, k \in Decoding' : j.p = k.p => j = k
    BY <2>2 DEF Owing, OwedIsQueued
  <2>6. worker' \notin jobs'
    BY <2>1 DEF Inv, Jobs, Works
  <2>7. QED BY <2>2, <2>4, <2>5, <2>6 DEF Owing, OwedIsQueued
<1>4. CASE UNCHANGED <<jobs, worker, owed, lost>>
  BY <1>4 DEF Owing, OwedIsQueued, Decoding
<1>5. [FeedNext]_feed => \/ RunPacket \/ WorkerTakes \/ WorkerPublishes \/ WorkerDies
                         \/ UNCHANGED <<jobs, worker, owed, lost>>
  BY DEF FeedNext, feed, past, HookPacket, HookReset, HookEvent, RunReset, RunEvent,
         RfnTakes, RfnPublishes, RfnDies, PublishPassing, Prune, Come, Leave, Gather, Send, Bus
<1>6. QED BY <1>1, <1>2, <1>3, <1>4, <1>5

(* A packet that was published as queued and has no update yet is in the   *)
(* queue or with the worker, once, or was with a worker that died of it    *)
(* (_enqueue_packet_event, _packet_enrich_worker), whatever the RFN worker *)
(* decodes again.                                                          *)
THEOREM OwedPacketsAreQueued == FeedSpec => []OwedIsQueued
<1>1. FeedInit => Owing
  BY DEF FeedInit, Owing, OwedIsQueued, Decoding
<1>2. Inv /\ Owing /\ [FeedNext]_feed => Owing'
  BY OwingNext
<1>3. Owing => OwedIsQueued
  BY DEF Owing
<1>4. QED BY <1>1, <1>2, <1>3, Invariance, PTL DEF FeedSpec

-----------------------------------------------------------------------------
(* Of several sessions one is the latest.                                  *)
LEMMA LatestIsOne ==
    ASSUME NEW ss \in SUBSET Sessions, ss # {}
    PROVE  Latest(ss) \in ss
<1> DEFINE R == OpToRel(<, Nat)
           T == {SessionMax - s : s \in ss}
<1>1. T \subseteq Nat /\ T # {} /\ \A s \in ss : s \in Nat
  <2>1. \A s \in ss : s \in Nat /\ SessionMax - s \in Nat
    BY SessionMaxAssumption DEF Sessions
  <2>2. QED BY <2>1
<1>2. IsWellFoundedOn(R, Nat)
  BY NatLessThanWellFounded, Zenon
<1> HIDE DEF R, T
<1>3. PICK x \in T : \A y \in T : ~(<<y, x>> \in R)
  BY <1>1, <1>2, WFMin
<1> USE DEF T
<1>4. PICK s \in ss : x = SessionMax - s
  BY <1>3
<1>5. \A y \in T : ~(y < x)
  <2> SUFFICES ASSUME NEW y \in T, y < x PROVE FALSE
    OBVIOUS
  <2>1. <<y, x>> \in R
    BY <1>1, <1>3 DEF R, OpToRel
  <2>2. QED BY <2>1, <1>3
<1>6. \A t \in ss : t <= s
  <2> SUFFICES ASSUME NEW t \in ss PROVE t <= s
    OBVIOUS
  <2>1. ~(SessionMax - t < SessionMax - s)
    BY <1>4, <1>5
  <2>2. QED BY <2>1, <1>1, SessionMaxAssumption DEF SessionMaxAssumption
<1>7. QED BY <1>6 DEF Latest

LEMMA LatestCases ==
    ASSUME NEW ss \in SUBSET Sessions
    PROVE  /\ Latest(ss) \in ss \cup {None}
           /\ Latest(ss) = None => ss = {}
<1>1. CASE ss = {}
  BY <1>1 DEF Latest
<1>2. CASE ss # {}
  BY <1>2, LatestIsOne DEF Sessions, None
<1>3. QED BY <1>1, <1>2

-----------------------------------------------------------------------------
(* What the loop and the threads may be in the middle of.                  *)
Asking == [at : {"get", "got"}, for : {"closed", "inject", "status", "disconnect"}]
Updates(places) == [at : places, new : Keys]
LoopCalls == {NoCall} \cup Asking \cup Updates({"key", "write"})
ThreadCalls == {NoCall} \cup {[at |-> "note"]} \cup Updates({"prime", "key", "write"})

LEMMA LoopCallFacts ==
    ASSUME NEW c \in LoopCalls
    PROVE  /\ c.at = "idle" <=> c = NoCall
           /\ c.at \in {"idle", "get", "got", "key", "write"}
           /\ c.at \in {"get", "got"} => c.for \in {"closed", "inject", "status", "disconnect"}
           /\ c.at \in {"key", "write"} =>
                /\ c.new \in Keys
                /\ [c EXCEPT !.at = "write"] = [at |-> "write", new |-> c.new]
<1>1. CASE c = NoCall
  BY <1>1 DEF NoCall
<1>2. CASE c \in Asking
  BY <1>2 DEF Asking, NoCall
<1>3. CASE c \in Updates({"key", "write"})
  BY <1>3 DEF Updates, NoCall
<1>4. QED BY <1>1, <1>2, <1>3 DEF LoopCalls

LEMMA LoopCallsMade ==
    /\ NoCall \in LoopCalls
    /\ \A a \in {"get", "got"}, f \in {"closed", "inject", "status", "disconnect"} :
          [at |-> a, for |-> f] \in LoopCalls
    /\ \A a \in {"key", "write"}, k \in Keys : [at |-> a, new |-> k] \in LoopCalls
BY DEF LoopCalls, Asking, Updates

LEMMA ThreadCallFacts ==
    ASSUME NEW c \in ThreadCalls
    PROVE  /\ c.at = "idle" <=> c = NoCall
           /\ c.at \in {"idle", "note", "prime", "key", "write"}
           /\ c.at \in {"prime", "key", "write"} =>
                /\ c.new \in Keys
                /\ [c EXCEPT !.at = "key"] = [at |-> "key", new |-> c.new]
                /\ [c EXCEPT !.at = "write"] = [at |-> "write", new |-> c.new]
<1>1. CASE c = NoCall
  BY <1>1 DEF NoCall
<1>2. CASE c = [at |-> "note"]
  BY <1>2 DEF NoCall
<1>3. CASE c \in Updates({"prime", "key", "write"})
  BY <1>3 DEF Updates, NoCall
<1>4. QED BY <1>1, <1>2, <1>3 DEF ThreadCalls

LEMMA ThreadCallsMade ==
    /\ NoCall \in ThreadCalls /\ [at |-> "note"] \in ThreadCalls
    /\ \A a \in {"prime", "key", "write"}, k \in Keys : [at |-> a, new |-> k] \in ThreadCalls
BY DEF ThreadCalls, Updates

TypeInv ==
    /\ phase \in [Sessions -> {"new", "connecting", "running", "gone"}]
    /\ closed \in [Sessions -> BOOLEAN]
    /\ key \in [Sessions -> Keys \cup {NoKey}] /\ emitted \in [Sessions -> Keys \cup {NoKey}]
    /\ active \in Sessions \cup {None}
    /\ thread \in [Sessions -> ThreadCalls] /\ loop \in LoopCalls
    /\ connected \in BOOLEAN /\ torn \in BOOLEAN /\ raced \in BOOLEAN /\ unrotated \in BOOLEAN
    /\ refused \in BOOLEAN
    /\ {lastKey, shownKey, rfnKey} \subseteq Keys \cup {NoKey}

(* Only a session that has been registered is active, works in its thread  *)
(* or is closed; once it is gone, it is closed.                            *)
Served(s) == phase[s] = "running" \/ (phase[s] = "gone" /\ closed[s])
ServedInv ==
    \A s \in Sessions : (s = active \/ thread[s] # NoCall \/ closed[s]) => Served(s)

(* Between the check and the second read of ACTIVE_SESSION no session is   *)
(* active only if none is open, and an ended one only if a thread came in  *)
(* between.                                                                *)
GotInv ==
    loop.at = "got" =>
        /\ active = None => Open = {}
        /\ ~torn /\ active # None => ~closed[active]

(* The page says connected without a session only until the session_closed *)
(* hook has run.                                                           *)
ShownInv ==
    /\ Open # {} => connected
    /\ ~torn /\ Registered = {} /\ connected => loop.at \in {"get", "got"} /\ loop.for = "closed"

(* At most one update is between rotating and writing, and the RFN state   *)
(* belongs to its key, or else to the last one, if it was rotated.         *)
OneWriter ==
    /\ \A s, t \in Sessions : thread[s].at = "write" /\ thread[t].at = "write" => s = t
    /\ \A s \in Sessions : thread[s].at = "write" => loop.at # "write"
KeyInv ==
    ~raced =>
        /\ OneWriter
        /\ ~unrotated =>
             /\ loop.at = "write" => rfnKey = loop.new
             /\ \A s \in Sessions : thread[s].at = "write" => rfnKey = thread[s].new
             /\ loop.at # "write" /\ (\A s \in Sessions : thread[s].at # "write")
                  => rfnKey = lastKey

RegistryInv == TypeInv /\ ServedInv /\ GotInv /\ ShownInv /\ KeyInv

LEMMA Start == SessInit => RegistryInv
<1> SUFFICES ASSUME SessInit PROVE RegistryInv
  OBVIOUS
<1>1. TypeInv
  BY DEF SessInit, TypeInv, LoopCalls, ThreadCalls
<1>2. ServedInv /\ GotInv
  BY DEF SessInit, ServedInv, GotInv, NoCall, None, Sessions
<1>3. ShownInv
  BY DEF SessInit, ShownInv, Open, Registered
<1>4. KeyInv
  BY DEF SessInit, KeyInv, OneWriter, NoCall
<1>5. QED BY <1>1, <1>2, <1>3, <1>4 DEF RegistryInv
-----------------------------------------------------------------------------
(* Types are kept.                                                         *)
LEMMA TypeStep ==
    ASSUME TypeInv, [SessNext]_sess PROVE TypeInv'
<1> USE DEF TypeInv, registry, web
<1>0. NoCall.at = "idle"
  BY DEF NoCall
<1>1. ASSUME NEW s \in Sessions, Accept(s) PROVE TypeInv'
  BY <1>1 DEF Accept
<1>2. ASSUME NEW s \in Sessions, ConnectFails(s) PROVE TypeInv'
  BY <1>2 DEF ConnectFails
<1>3. ASSUME NEW s \in Sessions, Register(s) PROVE TypeInv'
  BY <1>3 DEF Register
<1>4. ASSUME NEW s \in Sessions, EndOne(s) PROVE TypeInv'
  BY <1>4 DEF EndOne, Close
<1>5. ASSUME NEW s \in Sessions, Finish(s) PROVE TypeInv'
  <2>1. active' \in Sessions \cup {None}
    BY <1>5, LatestCases DEF Finish, Successor, TypeInv, Open, Registered
  <2>2. loop' \in LoopCalls
    BY <1>5, LoopCallsMade DEF Finish
  <2>3. QED BY <1>5, <2>1, <2>2 DEF Finish
<1>6. ASSUME NEW s \in Sessions, GivePacket(s) PROVE TypeInv'
  <2>1. thread' \in [Sessions -> ThreadCalls]
    BY <1>6, ThreadCallsMade DEF GivePacket, Give
  <2>2. QED BY <1>6, <2>1 DEF GivePacket, Give
<1>7. ASSUME NEW s \in Sessions, Note(s) PROVE TypeInv'
  <2>1. thread' \in [Sessions -> ThreadCalls]
    BY <1>7, ThreadCallsMade DEF Note
  <2>2. QED BY <1>7, <2>1 DEF Note
<1>8. ASSUME NEW s \in Sessions, Prime(s) PROVE TypeInv'
  <2>1. thread' \in [Sessions -> ThreadCalls] /\ thread[s].new \in Keys
    <3>1. /\ thread[s] \in ThreadCalls /\ thread[s].new \in Keys
          /\ [thread[s] EXCEPT !.at = "key"] = [at |-> "key", new |-> thread[s].new]
      BY <1>8, ThreadCallFacts DEF Prime
    <3>2. NoCall \in ThreadCalls /\ [thread[s] EXCEPT !.at = "key"] \in ThreadCalls
      BY <3>1, ThreadCallsMade
    <3>3. QED BY <1>8, <3>1, <3>2 DEF Prime
  <2>2. QED BY <1>8, <2>1 DEF Prime
<1>9. ASSUME NEW s \in Sessions, ThreadKey(s) PROVE TypeInv'
  <2>1. thread' \in [Sessions -> ThreadCalls] /\ thread[s].new \in Keys
    <3>1. /\ thread[s] \in ThreadCalls /\ thread[s].new \in Keys
          /\ [thread[s] EXCEPT !.at = "write"] = [at |-> "write", new |-> thread[s].new]
      BY <1>9, ThreadCallFacts DEF ThreadKey
    <3>2. [thread[s] EXCEPT !.at = "write"] \in ThreadCalls
      BY <3>1, ThreadCallsMade
    <3>3. QED BY <1>9, <3>1, <3>2 DEF ThreadKey
  <2>2. rfnKey' \in Keys \cup {NoKey} /\ raced' \in BOOLEAN /\ unrotated' \in BOOLEAN
    BY <1>9, <2>1 DEF ThreadKey, Rotate, Belongs
  <2>3. QED BY <1>9, <2>1, <2>2 DEF ThreadKey
<1>10. ASSUME NEW s \in Sessions, ThreadWrite(s) PROVE TypeInv'
  <2>1. thread' \in [Sessions -> ThreadCalls] /\ thread[s].new \in Keys
    BY <1>10, ThreadCallFacts, ThreadCallsMade DEF ThreadWrite
  <2>2. QED BY <1>10, <2>1 DEF ThreadWrite
<1>11. ASSUME NEW s \in Sessions, NEW k \in Keys, GiveAck(s, k) PROVE TypeInv'
  <2>1. thread' \in [Sessions -> ThreadCalls]
    BY <1>11, ThreadCallsMade DEF GiveAck, Give
  <2>2. QED BY <1>11, <2>1 DEF GiveAck, Give
<1>12. ASSUME NEW s \in Sessions, NEW k \in Keys, AckOnLoop(s, k) PROVE TypeInv'
  <2>1. loop' \in LoopCalls
    BY <1>12, LoopCallsMade DEF AckOnLoop
  <2>2. QED BY <1>12, <2>1 DEF AckOnLoop
<1>13. ASSUME NEW what \in {"inject", "status", "disconnect"}, Ask(what) PROVE TypeInv'
  <2>1. loop' \in LoopCalls
    BY <1>13, LoopCallsMade DEF Ask
  <2>2. QED BY <1>13, <2>1 DEF Ask
<1>14. CASE Shutdown
  BY <1>14 DEF Shutdown, Close
<1>15. CASE Look
  <2>1. active' \in Sessions \cup {None}
    BY <1>15, LatestCases DEF Look, Choose, Open, Registered
  <2>2. loop' \in LoopCalls
    BY <1>15, LoopCallFacts, LoopCallsMade DEF Look
  <2>3. torn' \in BOOLEAN
    BY <1>15 DEF Look
  <2>4. QED BY <1>15, <2>1, <2>2, <2>3 DEF Look
<1>16. CASE GotForInject
  BY <1>16, LoopCallsMade DEF GotForInject
<1>17. CASE GotForDisconnect
  BY <1>17, LoopCallsMade DEF GotForDisconnect
<1>18. CASE GotForWeb
  <2>1. active # None => key[active] \in Keys \cup {NoKey}
    OBVIOUS
  <2>2. loop' \in LoopCalls
    BY <1>18, <2>1, LoopCallsMade DEF GotForWeb
  <2>3. connected' \in BOOLEAN /\ shownKey' \in {shownKey, NoKey}
    BY <1>18 DEF GotForWeb
  <2>4. QED BY <1>18, <2>2, <2>3 DEF GotForWeb
<1>19. CASE LoopKey
  <2>0. /\ loop.new \in Keys
        /\ [loop EXCEPT !.at = "write"] = [at |-> "write", new |-> loop.new]
    BY <1>19, LoopCallFacts DEF LoopKey
  <2>1. loop' \in LoopCalls /\ loop.new \in Keys
    BY <1>19, <2>0, LoopCallsMade DEF LoopKey
  <2>2. rfnKey' \in Keys \cup {NoKey} /\ raced' \in BOOLEAN /\ unrotated' \in BOOLEAN
    BY <1>19, <2>1 DEF LoopKey, Rotate, Belongs
  <2>3. QED BY <1>19, <2>1, <2>2 DEF LoopKey
<1>20. CASE LoopWrite
  BY <1>20, LoopCallFacts, LoopCallsMade DEF LoopWrite
<1>21. CASE UNCHANGED sess
  BY <1>21 DEF sess
<1>22. QED
  BY <1>1, <1>2, <1>3, <1>4, <1>5, <1>6, <1>7, <1>8, <1>9, <1>10, <1>11,
     <1>12, <1>13, <1>14, <1>15, <1>16, <1>17, <1>18, <1>19, <1>20, <1>21 DEF SessNext

(* Only sessions that are or were registered become active.               *)
LEMMA ServedStep ==
    ASSUME TypeInv, ServedInv, [SessNext]_sess PROVE ServedInv'
<1> USE DEF TypeInv, ServedInv, Served, registry, web, None, Sessions
<1>0. NoCall.at = "idle"
  BY DEF NoCall
<1>1. ASSUME NEW s \in Sessions, Accept(s) PROVE ServedInv'
  BY <1>1 DEF Accept
<1>2. ASSUME NEW s \in Sessions, ConnectFails(s) PROVE ServedInv'
  BY <1>2 DEF ConnectFails
<1>3. ASSUME NEW s \in Sessions, Register(s) PROVE ServedInv'
  BY <1>3 DEF Register
<1>4. ASSUME NEW s \in Sessions, EndOne(s) PROVE ServedInv'
  BY <1>4 DEF EndOne, Close, Open, Registered
<1>5. ASSUME NEW s \in Sessions, Finish(s) PROVE ServedInv'
  <2>1. active' \in {active} \cup Open \cup {None}
    BY <1>5, LatestCases DEF Finish, Successor, Open, Registered
  <2>2. \A t \in Sessions : phase'[t] = IF t = s THEN "gone" ELSE phase[t]
    BY <1>5 DEF Finish
  <2>3. QED BY <1>5, <2>1, <2>2 DEF Finish, Open, Registered
<1>6. ASSUME NEW s \in Sessions, GivePacket(s) PROVE ServedInv'
  BY <1>6 DEF GivePacket, Give
<1>7. ASSUME NEW s \in Sessions, Note(s) PROVE ServedInv'
  BY <1>7, <1>0 DEF Note
<1>8. ASSUME NEW s \in Sessions, Prime(s) PROVE ServedInv'
  BY <1>8, <1>0 DEF Prime
<1>9. ASSUME NEW s \in Sessions, ThreadKey(s) PROVE ServedInv'
  BY <1>9, <1>0 DEF ThreadKey
<1>10. ASSUME NEW s \in Sessions, ThreadWrite(s) PROVE ServedInv'
  BY <1>10, <1>0 DEF ThreadWrite
<1>11. ASSUME NEW s \in Sessions, NEW k \in Keys, GiveAck(s, k) PROVE ServedInv'
  BY <1>11 DEF GiveAck, Give
<1>12. ASSUME NEW s \in Sessions, NEW k \in Keys, AckOnLoop(s, k) PROVE ServedInv'
  BY <1>12 DEF AckOnLoop
<1>13. ASSUME NEW what \in {"inject", "status", "disconnect"}, Ask(what) PROVE ServedInv'
  BY <1>13 DEF Ask
<1>14. CASE Shutdown
  BY <1>14 DEF Shutdown, Close, Registered
<1>15. CASE Look
  <2>1. active' \in {active} \cup Open \cup {None}
    BY <1>15, LatestCases DEF Look, Choose, Open, Registered
  <2>2. QED BY <1>15, <2>1 DEF Look, Open, Registered
<1>16. CASE GotForInject
  BY <1>16 DEF GotForInject
<1>17. CASE GotForDisconnect
  BY <1>17 DEF GotForDisconnect
<1>18. CASE GotForWeb
  BY <1>18 DEF GotForWeb
<1>19. CASE LoopKey
  BY <1>19 DEF LoopKey
<1>20. CASE LoopWrite
  BY <1>20 DEF LoopWrite
<1>21. CASE UNCHANGED sess
  BY <1>21 DEF sess
<1>22. QED
  BY <1>1, <1>2, <1>3, <1>4, <1>5, <1>6, <1>7, <1>8, <1>9, <1>10, <1>11,
     <1>12, <1>13, <1>14, <1>15, <1>16, <1>17, <1>18, <1>19, <1>20, <1>21
     DEF SessNext

(* What the loop finds is still so when it reads again.                    *)
LEMMA GotStep ==
    ASSUME TypeInv, ServedInv, GotInv, [SessNext]_sess PROVE GotInv'
<1> USE DEF TypeInv, GotInv, registry, web
<1>0. NoCall.at = "idle"
  BY DEF NoCall
<1>1. ASSUME NEW s \in Sessions, Accept(s) PROVE GotInv'
  BY <1>1, <1>0 DEF Accept, LoopIdle
<1>2. ASSUME NEW s \in Sessions, ConnectFails(s) PROVE GotInv'
  BY <1>2, <1>0 DEF ConnectFails, LoopIdle
<1>3. ASSUME NEW s \in Sessions, Register(s) PROVE GotInv'
  BY <1>3, <1>0 DEF Register, LoopIdle
<1>4. ASSUME NEW s \in Sessions, EndOne(s) PROVE GotInv'
  BY <1>4, <1>0 DEF EndOne, Close, LoopIdle
<1>5. ASSUME NEW s \in Sessions, Finish(s) PROVE GotInv'
  BY <1>5 DEF Finish
<1>6. ASSUME NEW s \in Sessions, GivePacket(s) PROVE GotInv'
  BY <1>6, <1>0 DEF GivePacket, Give, LoopIdle
<1>7. ASSUME NEW s \in Sessions, Note(s) PROVE GotInv'
  <2>1. active' = s /\ s # None /\ loop' = loop /\ closed' = closed
    BY <1>7 DEF Note, None, Sessions
  <2>2. loop.at = "got" /\ ~torn' => ~closed[s]
    BY <1>7 DEF Note
  <2>3. QED BY <2>1, <2>2
<1>8. ASSUME NEW s \in Sessions, Prime(s) PROVE GotInv'
  BY <1>8 DEF Prime, Open, Registered
<1>9. ASSUME NEW s \in Sessions, ThreadKey(s) PROVE GotInv'
  BY <1>9 DEF ThreadKey, Open, Registered
<1>10. ASSUME NEW s \in Sessions, ThreadWrite(s) PROVE GotInv'
  BY <1>10 DEF ThreadWrite, Open, Registered
<1>11. ASSUME NEW s \in Sessions, NEW k \in Keys, GiveAck(s, k) PROVE GotInv'
  BY <1>11, <1>0 DEF GiveAck, Give, LoopIdle
<1>12. ASSUME NEW s \in Sessions, NEW k \in Keys, AckOnLoop(s, k) PROVE GotInv'
  BY <1>12, <1>0 DEF AckOnLoop
<1>13. ASSUME NEW what \in {"inject", "status", "disconnect"}, Ask(what) PROVE GotInv'
  BY <1>13 DEF Ask
<1>14. CASE Shutdown
  BY <1>14, <1>0 DEF Shutdown, Close, LoopIdle
<1>15. CASE Look
  <2>1. Choose \in Open \cup {None} /\ (Choose = None => Open = {})
    BY LatestCases DEF Choose, Open, Registered
  <2>2. Open' = Open
    BY <1>15 DEF Look, Open, Registered
  <2>3. active' = None => Open' = {}
    BY <1>15, <2>1, <2>2 DEF Look, Stale
  <2>4. active' # None => ~closed'[active']
    BY <1>15, <2>1 DEF Look, Stale, Open
  <2>5. QED BY <2>3, <2>4
<1>16. CASE GotForInject
  BY <1>16, <1>0 DEF GotForInject
<1>17. CASE GotForDisconnect
  BY <1>17, <1>0 DEF GotForDisconnect
<1>18. CASE GotForWeb
  BY <1>18, <1>0 DEF GotForWeb
<1>19. CASE LoopKey
  BY <1>19 DEF LoopKey
<1>20. CASE LoopWrite
  BY <1>20, <1>0 DEF LoopWrite
<1>21. CASE UNCHANGED sess
  BY <1>21 DEF sess, Open, Registered
<1>22. QED
  BY <1>1, <1>2, <1>3, <1>4, <1>5, <1>6, <1>7, <1>8, <1>9, <1>10, <1>11,
     <1>12, <1>13, <1>14, <1>15, <1>16, <1>17, <1>18, <1>19, <1>20, <1>21
     DEF SessNext

(* The page keeps up with the sessions.                                    *)
LEMMA ShownStep ==
    ASSUME TypeInv, ServedInv, GotInv, ShownInv, [SessNext]_sess PROVE ShownInv'
<1> USE DEF TypeInv, ShownInv, registry, web, Open, Registered
<1>0. NoCall.at = "idle"
  BY DEF NoCall
<1>1. ASSUME NEW s \in Sessions, Accept(s) PROVE ShownInv'
  BY <1>1, <1>0 DEF Accept, LoopIdle
<1>2. ASSUME NEW s \in Sessions, ConnectFails(s) PROVE ShownInv'
  BY <1>2, <1>0 DEF ConnectFails, LoopIdle
<1>3. ASSUME NEW s \in Sessions, Register(s) PROVE ShownInv'
  <2>1. s \in Registered' /\ connected'
    BY <1>3 DEF Register
  <2>2. QED BY <2>1
<1>4. ASSUME NEW s \in Sessions, EndOne(s) PROVE ShownInv'
  BY <1>4, <1>0 DEF EndOne, Close, LoopIdle
<1>5. ASSUME NEW s \in Sessions, Finish(s) PROVE ShownInv'
  <2>1. Open' \subseteq Open /\ connected' = connected
    BY <1>5 DEF Finish
  <2>2. loop'.at = "get" /\ loop'.for = "closed"
    BY <1>5 DEF Finish
  <2>3. QED BY <2>1, <2>2
<1>6. ASSUME NEW s \in Sessions, GivePacket(s) PROVE ShownInv'
  BY <1>6, <1>0 DEF GivePacket, Give, LoopIdle
<1>7. ASSUME NEW s \in Sessions, Note(s) PROVE ShownInv'
  BY <1>7 DEF Note
<1>8. ASSUME NEW s \in Sessions, Prime(s) PROVE ShownInv'
  BY <1>8 DEF Prime
<1>9. ASSUME NEW s \in Sessions, ThreadKey(s) PROVE ShownInv'
  BY <1>9 DEF ThreadKey
<1>10. ASSUME NEW s \in Sessions, ThreadWrite(s) PROVE ShownInv'
  BY <1>10 DEF ThreadWrite
<1>11. ASSUME NEW s \in Sessions, NEW k \in Keys, GiveAck(s, k) PROVE ShownInv'
  BY <1>11, <1>0 DEF GiveAck, Give, LoopIdle
<1>12. ASSUME NEW s \in Sessions, NEW k \in Keys, AckOnLoop(s, k) PROVE ShownInv'
  BY <1>12, <1>0 DEF AckOnLoop, LoopIdle
<1>13. ASSUME NEW what \in {"inject", "status", "disconnect"}, Ask(what) PROVE ShownInv'
  BY <1>13, <1>0 DEF Ask, LoopIdle
<1>14. CASE Shutdown
  BY <1>14, <1>0 DEF Shutdown, Close, LoopIdle
<1>15. CASE Look
  BY <1>15 DEF Look
<1>16. CASE GotForInject
  BY <1>16, <1>0 DEF GotForInject
<1>17. CASE GotForDisconnect
  BY <1>17, <1>0 DEF GotForDisconnect
<1>18. CASE GotForWeb
  <2>0. Open' = Open /\ Registered' = Registered /\ torn' = torn
    BY <1>18 DEF GotForWeb
  <2>1. CASE active = None
    <3>1. Open = {}
      BY <1>18, <2>1 DEF GotForWeb, GotInv
    <3>2. connected' => connected /\ loop.for = "status"
      BY <1>18, <2>1 DEF GotForWeb
    <3>3. QED BY <2>0, <3>1, <3>2
  <2>2. CASE active # None
    <3>1. Registered = {} => torn
      BY <1>18, <2>2 DEF GotForWeb, GotInv, ServedInv, Served
    <3>2. connected => connected'
      BY <1>18, <2>2 DEF GotForWeb
    <3>3. QED BY <2>0, <3>1, <3>2
  <2>3. QED BY <2>1, <2>2
<1>19. CASE LoopKey
  BY <1>19, <1>0 DEF LoopKey
<1>20. CASE LoopWrite
  BY <1>20, <1>0 DEF LoopWrite
<1>21. CASE UNCHANGED sess
  BY <1>21 DEF sess
<1>22. QED
  BY <1>1, <1>2, <1>3, <1>4, <1>5, <1>6, <1>7, <1>8, <1>9, <1>10, <1>11,
     <1>12, <1>13, <1>14, <1>15, <1>16, <1>17, <1>18, <1>19, <1>20, <1>21
     DEF SessNext

(* A step in which no update begins or ends to write.                      *)
LEMMA QuietStep ==
    ASSUME KeyInv,
           raced' = raced, unrotated' = unrotated, rfnKey' = rfnKey, lastKey' = lastKey,
           loop' = loop \/ (loop.at # "write" /\ loop'.at # "write"),
           \A t \in Sessions :
              thread'[t] = thread[t] \/ (thread[t].at # "write" /\ thread'[t].at # "write")
    PROVE  KeyInv'
<1> SUFFICES ASSUME ~raced
             PROVE  /\ OneWriter'
                    /\ ~unrotated =>
                         /\ loop'.at = "write" => rfnKey = loop'.new
                         /\ \A s \in Sessions : thread'[s].at = "write" => rfnKey = thread'[s].new
                         /\ loop'.at # "write" /\ (\A s \in Sessions : thread'[s].at # "write")
                              => rfnKey = lastKey
  BY DEF KeyInv
<1>1. QED BY DEF KeyInv, OneWriter

(* Whoever rotates alone, and does not fail, leaves the RFN state with its *)
(* key, also if the rotation before has failed.                            *)
LEMMA RotatesAlone ==
    ASSUME TypeInv, KeyInv, ~raced, NEW k \in Keys, Rotate(k), ~unrotated',
           loop.at # "write", \A s \in Sessions : thread[s].at # "write"
    PROVE  rfnKey' = k
<1>1. rfnKey' = Belongs(k) /\ (unrotated => Rotates(k))
  BY DEF Rotate, TypeInv
<1>2. ~unrotated => rfnKey = lastKey
  BY DEF KeyInv
<1>3. QED BY <1>1, <1>2 DEF Belongs, Rotates, OldKey

(* Updates one at a time.                                                  *)
LEMMA KeyStep ==
    ASSUME TypeInv, KeyInv, [SessNext]_sess PROVE KeyInv'
<1> USE DEF TypeInv, registry, web
<1>0. NoCall.at = "idle"
  BY DEF NoCall
<1>1. ASSUME NEW s \in Sessions, Accept(s) PROVE KeyInv'
  BY <1>1, <1>0, QuietStep DEF Accept, LoopIdle
<1>2. ASSUME NEW s \in Sessions, ConnectFails(s) PROVE KeyInv'
  BY <1>2, <1>0, QuietStep DEF ConnectFails, LoopIdle
<1>3. ASSUME NEW s \in Sessions, Register(s) PROVE KeyInv'
  BY <1>3, <1>0, QuietStep DEF Register, LoopIdle
<1>4. ASSUME NEW s \in Sessions, EndOne(s) PROVE KeyInv'
  BY <1>4, <1>0, QuietStep DEF EndOne, Close, LoopIdle
<1>5. ASSUME NEW s \in Sessions, Finish(s) PROVE KeyInv'
  BY <1>5, <1>0, QuietStep DEF Finish, LoopIdle
<1>6. ASSUME NEW s \in Sessions, GivePacket(s) PROVE KeyInv'
  <2>1. \A t \in Sessions :
          thread'[t] = thread[t] \/ (thread[t].at # "write" /\ thread'[t].at # "write")
    BY <1>6, <1>0 DEF GivePacket, Give
  <2>2. QED BY <1>6, <2>1, QuietStep DEF GivePacket, Give
<1>7. ASSUME NEW s \in Sessions, Note(s) PROVE KeyInv'
  <2>1. \A t \in Sessions :
          thread'[t] = thread[t] \/ (thread[t].at # "write" /\ thread'[t].at # "write")
    BY <1>7, <1>0 DEF Note
  <2>2. QED BY <1>7, <2>1, QuietStep DEF Note
<1>8. ASSUME NEW s \in Sessions, Prime(s) PROVE KeyInv'
  <2>1. thread'[s].at # "write"
    BY <1>8, <1>0, ThreadCallFacts DEF Prime
  <2>2. \A t \in Sessions :
          thread'[t] = thread[t] \/ (thread[t].at # "write" /\ thread'[t].at # "write")
    BY <1>8, <2>1 DEF Prime
  <2>3. QED BY <1>8, <2>2, QuietStep DEF Prime
<1>9. ASSUME NEW s \in Sessions, ThreadKey(s) PROVE KeyInv'
  <2> SUFFICES ASSUME ~raced' PROVE KeyInv'
    BY DEF KeyInv
  <2>1. ~raced /\ thread[s].new \in Keys /\ thread[s].at = "key" /\ loop' = loop
    BY <1>9, ThreadCallFacts DEF ThreadKey
  <2>2. loop.at # "write" /\ \A t \in Sessions : thread[t].at # "write"
    BY <1>9, <2>1 DEF ThreadKey, Others, Updating
  <2>3. ~unrotated' => rfnKey' = thread[s].new
    BY <1>9, <2>1, <2>2, RotatesAlone DEF ThreadKey
  <2>4. /\ \A t \in Sessions \ {s} : thread'[t] = thread[t]
        /\ thread'[s].at = "write" /\ thread'[s].new = thread[s].new
    BY <1>9, ThreadCallFacts DEF ThreadKey
  <2>5. QED BY <2>1, <2>2, <2>3, <2>4 DEF KeyInv, OneWriter
<1>10. ASSUME NEW s \in Sessions, ThreadWrite(s) PROVE KeyInv'
  <2> SUFFICES ASSUME ~raced' PROVE KeyInv'
    BY DEF KeyInv
  <2>1. /\ ~raced /\ loop' = loop /\ rfnKey' = rfnKey /\ lastKey' = thread[s].new
        /\ unrotated' = unrotated
    BY <1>10 DEF ThreadWrite
  <2>2. /\ loop.at # "write" /\ (~unrotated => rfnKey = thread[s].new)
        /\ \A t \in Sessions \ {s} : thread[t].at # "write"
    BY <1>10, <2>1 DEF ThreadWrite, KeyInv, OneWriter
  <2>3. \A t \in Sessions : thread'[t].at # "write"
    BY <1>10, <1>0, <2>2 DEF ThreadWrite
  <2>4. QED BY <2>1, <2>2, <2>3 DEF KeyInv, OneWriter
<1>11. ASSUME NEW s \in Sessions, NEW k \in Keys, GiveAck(s, k) PROVE KeyInv'
  <2>1. \A t \in Sessions :
          thread'[t] = thread[t] \/ (thread[t].at # "write" /\ thread'[t].at # "write")
    BY <1>11, <1>0 DEF GiveAck, Give
  <2>2. QED BY <1>11, <2>1, QuietStep DEF GiveAck, Give
<1>12. ASSUME NEW s \in Sessions, NEW k \in Keys, AckOnLoop(s, k) PROVE KeyInv'
  BY <1>12, <1>0, QuietStep DEF AckOnLoop, LoopIdle
<1>13. ASSUME NEW what \in {"inject", "status", "disconnect"}, Ask(what) PROVE KeyInv'
  BY <1>13, <1>0, QuietStep DEF Ask, LoopIdle
<1>14. CASE Shutdown
  BY <1>14, <1>0, QuietStep DEF Shutdown, Close, LoopIdle
<1>15. CASE Look
  BY <1>15, <1>0, QuietStep DEF Look, LoopIdle
<1>16. CASE GotForInject
  BY <1>16, <1>0, QuietStep DEF GotForInject, LoopIdle
<1>17. CASE GotForDisconnect
  BY <1>17, <1>0, QuietStep DEF GotForDisconnect, LoopIdle
<1>18. CASE GotForWeb
  BY <1>18, <1>0, QuietStep DEF GotForWeb, LoopIdle
<1>19. CASE LoopKey
  <2> SUFFICES ASSUME ~raced' PROVE KeyInv'
    BY DEF KeyInv
  <2>1. ~raced /\ loop.new \in Keys /\ loop.at = "key" /\ thread' = thread
    BY <1>19, LoopCallFacts DEF LoopKey
  <2>2. \A t \in Sessions : thread[t].at # "write"
    BY <1>19, <2>1 DEF LoopKey, Updating
  <2>3. ~unrotated' => rfnKey' = loop.new
    BY <1>19, <2>1, <2>2, RotatesAlone DEF LoopKey
  <2>4. loop'.at = "write" /\ loop'.new = loop.new
    BY <1>19, LoopCallFacts DEF LoopKey
  <2>5. QED BY <2>1, <2>2, <2>3, <2>4 DEF KeyInv, OneWriter
<1>20. CASE LoopWrite
  <2> SUFFICES ASSUME ~raced' PROVE KeyInv'
    BY DEF KeyInv
  <2>1. /\ ~raced /\ thread' = thread /\ rfnKey' = rfnKey /\ lastKey' = loop.new
        /\ unrotated' = unrotated
    BY <1>20 DEF LoopWrite
  <2>2. (~unrotated => rfnKey = loop.new) /\ \A t \in Sessions : thread[t].at # "write"
    BY <1>20, <2>1 DEF LoopWrite, KeyInv, OneWriter
  <2>3. loop'.at # "write"
    BY <1>20, <1>0 DEF LoopWrite
  <2>4. QED BY <2>1, <2>2, <2>3 DEF KeyInv, OneWriter
<1>21. CASE UNCHANGED sess
  BY <1>21, <1>0, QuietStep DEF sess, LoopIdle
<1>22. QED
  BY <1>1, <1>2, <1>3, <1>4, <1>5, <1>6, <1>7, <1>8, <1>9, <1>10, <1>11,
     <1>12, <1>13, <1>14, <1>15, <1>16, <1>17, <1>18, <1>19, <1>20, <1>21
     DEF SessNext

LEMMA Step == ASSUME RegistryInv, [SessNext]_sess PROVE RegistryInv'
BY TypeStep, ServedStep, GotStep, ShownStep, KeyStep DEF RegistryInv

THEOREM RegistryInvariance == SessSpec => []RegistryInv
<1>1. RegistryInv /\ [SessNext]_sess => RegistryInv'
  BY Step
<1>2. QED BY Start, <1>1, PTL DEF SessSpec

-----------------------------------------------------------------------------
(* The page says connected exactly while a session is there, but for the   *)
(* window that get_active_session leaves (torn); and the RFN state belongs *)
(* to the last key, but for overlapping updates (raced) and after a        *)
(* rotation that raised, until the next that does not (unrotated):         *)
(* _handle_session_key_update writes the key in any case.                  *)
THEOREM StatusIsTrue == SessSpec => []StatusInv
<1>1. RegistryInv => SessTypeOK
  BY DEF RegistryInv, TypeInv, ServedInv, Served, SessTypeOK
<1>2. RegistryInv => ConnectedIsTrue
  BY DEF RegistryInv, ShownInv, ConnectedIsTrue, LoopIdle, NoCall
<1>3. RegistryInv => RfnFollowsKey
  <2> SUFFICES ASSUME RegistryInv, ~raced, ~unrotated, ~Updating(loop),
                      \A s \in Sessions : ~Updating(thread[s])
               PROVE  rfnKey = lastKey
    BY DEF RfnFollowsKey
  <2>1. loop.at # "write" /\ \A s \in Sessions : thread[s].at # "write"
    BY DEF Updating
  <2>2. QED BY <2>1 DEF RegistryInv, KeyInv
<1>4. RegistryInv => StatusInv
  BY <1>1, <1>2, <1>3 DEF StatusInv
<1>5. QED BY RegistryInvariance, <1>4, PTL

(* An injection is refused only if no session is open (get_active_session  *)
(* repairs what a late observe thread wrote), but for the race in between. *)
THEOREM InjectionFinds == SessSpec => InjectFindsOpen
<1>1. RegistryInv /\ [SessNext]_sess => [GotForInject /\ refused' /\ ~torn => Open = {}]_sess
  <2> SUFFICES ASSUME RegistryInv, GotForInject, refused', ~torn PROVE Open = {}
    OBVIOUS
  <2>1. active = None \/ closed[active]
    BY DEF GotForInject
  <2>2. active = None
    BY <2>1 DEF RegistryInv, GotInv, GotForInject
  <2>3. QED BY <2>2 DEF RegistryInv, GotInv, GotForInject
<1>2. QED BY RegistryInvariance, <1>1, PTL DEF SessSpec, InjectFindsOpen
=============================================================================
