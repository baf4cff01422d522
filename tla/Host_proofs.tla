---------------------------- MODULE Host_proofs -----------------------------
(***************************************************************************)
(* Proofs about the host for any scripts, rows, values, keys, buffers and  *)
(* numbers of operations.  Of the database (HostDb): what a rollback, a    *)
(* reload or a crash can take away, and that its readers agree.  Of the    *)
(* memory (HostMemory): what caches and buffers keep, whatever the rotate  *)
(* meets.                                                                  *)
(***************************************************************************)
EXTENDS Host, SequenceTheorems, FiniteSetTheorems, TLAPS

-----------------------------------------------------------------------------
(* The place of a member in a finite set that R orders is the number of    *)
(* those before it, and there is a member at every place.                  *)

Orders(R, S) ==
    /\ \A s \in S : <<s, s>> \notin R
    /\ \A r, s, t \in S : <<r, s>> \in R /\ <<s, t>> \in R => <<r, t>> \in R
    /\ \A r, s \in S : r = s \/ <<r, s>> \in R \/ <<s, r>> \in R
Place(R, S, r) == Cardinality({s \in S : <<s, r>> \in R})

LEMMA PlaceInside ==
    ASSUME NEW S, IsFiniteSet(S), NEW R, Orders(R, S), NEW r \in S
    PROVE  Place(R, S, r) \in 0 .. Cardinality(S) - 1
<1> DEFINE B == {s \in S : <<s, r>> \in R}
<1>1. B \in SUBSET S /\ B # S
  BY DEF Orders
<1> HIDE DEF B
<1>2. IsFiniteSet(B) /\ Cardinality(B) <= Cardinality(S) /\ Cardinality(B) # Cardinality(S)
  BY <1>1, FS_Subset
<1>3. Cardinality(B) \in Nat /\ Cardinality(S) \in Nat
  BY <1>2, FS_CardinalityType
<1>4. Cardinality(B) \in 0 .. Cardinality(S) - 1
  BY <1>2, <1>3
<1>5. QED BY <1>4 DEF B, Place

LEMMA PlaceRises ==
    ASSUME NEW S, IsFiniteSet(S), NEW R, Orders(R, S), NEW r \in S, NEW t \in S, <<r, t>> \in R
    PROVE  Place(R, S, r) < Place(R, S, t)
<1> DEFINE B == {s \in S : <<s, r>> \in R}
           C == {s \in S : <<s, t>> \in R}
<1>1. B \in SUBSET C /\ r \in C /\ r \notin B /\ C \in SUBSET S
  BY DEF Orders
<1> HIDE DEF B, C
<1>2. IsFiniteSet(C)
  BY <1>1, FS_Subset
<1>3. IsFiniteSet(B) /\ Cardinality(B) <= Cardinality(C) /\ Cardinality(B) # Cardinality(C)
  BY <1>1, <1>2, FS_Subset
<1>4. Cardinality(B) \in Nat /\ Cardinality(C) \in Nat
  BY <1>2, <1>3, FS_CardinalityType
<1>5. Cardinality(B) < Cardinality(C)
  BY <1>3, <1>4
<1>6. QED BY <1>5 DEF B, C, Place

(* The pigeonhole principle: as many places as members, no two alike.      *)
LEMMA PlacesTaken ==
    ASSUME NEW S, IsFiniteSet(S), NEW R, Orders(R, S)
    PROVE  \A n \in 1 .. Cardinality(S) : \E r \in S : Place(R, S, r) = n - 1
<1> DEFINE c == Cardinality(S)
           P == 1 .. c
           f == [r \in S |-> Place(R, S, r) + 1]
<1>1. c \in Nat
  BY FS_CardinalityType
<1>2. IsFiniteSet(P) /\ Cardinality(P) = c
  <2> HIDE DEF c
  <2>1. /\ IsFiniteSet(1 .. c)
        /\ Cardinality(1 .. c) = IF 1 > c THEN 0 ELSE c - 1 + 1
    BY <1>1, FS_Interval
  <2>2. QED BY <1>1, <2>1
<1>3. \A r \in S : Place(R, S, r) \in 0 .. c - 1
  BY PlaceInside
<1> HIDE DEF c
<1>4. f \in [S -> P]
  BY <1>1, <1>3
<1>5. \A r, t \in S : f[r] = f[t] => r = t
  <2> SUFFICES ASSUME NEW r \in S, NEW t \in S, f[r] = f[t], r # t PROVE FALSE
    OBVIOUS
  <2>1. <<r, t>> \in R \/ <<t, r>> \in R
    BY DEF Orders
  <2>2. Place(R, S, r) < Place(R, S, t) \/ Place(R, S, t) < Place(R, S, r)
    BY <2>1, PlaceRises
  <2>3. QED BY <1>1, <1>3, <2>2
<1> HIDE DEF P
<1>6. f \in Injection(S, P)
  <2> HIDE DEF f
  <2>1. QED BY <1>4, <1>5 DEF Injection, IsInjective
<1>7. f \in Surjection(S, P)
  <2> HIDE DEF f
  <2>1. QED BY <1>2, <1>6, FS_Injection DEF c
<1>8. \A n \in P : \E r \in S : f[r] = n
  <2> HIDE DEF f
  <2>1. QED BY <1>7 DEF Surjection
<1>9. \A n \in 1 .. c : \E r \in S : Place(R, S, r) = n - 1
  <2> SUFFICES ASSUME NEW n \in 1 .. c PROVE \E r \in S : Place(R, S, r) = n - 1
    OBVIOUS
  <2>1. PICK r \in S : f[r] = n
    BY <1>8 DEF P
  <2>2. Place(R, S, r) = n - 1
    BY <1>1, <1>3, <2>1
  <2>3. QED BY <2>2
<1>10. QED BY <1>9 DEF c

(* Who is listed by place is listed in order, each member once.            *)
LEMMA ListedInOrder ==
    ASSUME NEW S, IsFiniteSet(S), NEW R, Orders(R, S),
           NEW q, \A n \in 1 .. Cardinality(S) :
                      (\E r \in S : Place(R, S, r) = n - 1)
                        => q[n] \in S /\ Place(R, S, q[n]) = n - 1
    PROVE  /\ \A n \in 1 .. Cardinality(S) : q[n] \in S
           /\ \A m, n \in 1 .. Cardinality(S) : m < n => <<q[m], q[n]>> \in R
           /\ \A r \in S : \E n \in 1 .. Cardinality(S) : q[n] = r
<1> DEFINE c == Cardinality(S)
<1>1. c \in Nat
  BY FS_CardinalityType
<1>2. \A n \in 1 .. c : q[n] \in S /\ Place(R, S, q[n]) = n - 1
  <2> SUFFICES ASSUME NEW n \in 1 .. c PROVE q[n] \in S /\ Place(R, S, q[n]) = n - 1
    OBVIOUS
  <2>1. \E r \in S : Place(R, S, r) = n - 1
    BY PlacesTaken
  <2>2. QED BY <2>1
<1>3. \A r \in S : Place(R, S, r) \in 0 .. c - 1
  BY PlaceInside
<1> HIDE DEF c
<1>4. ASSUME NEW m \in 1 .. c, NEW n \in 1 .. c, m < n PROVE <<q[m], q[n]>> \in R
  <2> DEFINE a == Place(R, S, q[m])
             b == Place(R, S, q[n])
  <2>1. a = m - 1 /\ b = n - 1
    BY <1>2
  <2> HIDE DEF a, b
  <2>2. a \in Int /\ b \in Int /\ a < b
    BY <1>1, <1>4, <2>1
  <2>3. ~(q[m] = q[n])
    <3>1. q[m] = q[n] => a = b
      BY DEF a, b
    <3>2. QED BY <2>2, <3>1
  <2>4. ~(<<q[n], q[m]>> \in R)
    <3>1. SUFFICES ASSUME <<q[n], q[m]>> \in R PROVE FALSE
      OBVIOUS
    <3>2. b < a
      BY <1>2, <3>1, PlaceRises DEF a, b
    <3>3. QED BY <2>2, <3>2
  <2>5. q[m] \in S /\ q[n] \in S
    BY <1>2
  <2>6. QED BY <2>3, <2>4, <2>5 DEF Orders
<1>5. ASSUME NEW r \in S PROVE \E n \in 1 .. c : q[n] = r
  <2> DEFINE n == Place(R, S, r) + 1
  <2>1. n \in 1 .. c
    BY <1>1, <1>3
  <2>2. Place(R, S, q[n]) = Place(R, S, r) /\ q[n] \in S
    <3>1. Place(R, S, r) \in Int
      BY <1>1, <1>3
    <3>2. Place(R, S, q[n]) = n - 1 /\ q[n] \in S
      BY <1>2, <2>1
    <3>3. QED BY <3>1, <3>2
  <2>3. q[n] = r
    <3>1. ~(<<q[n], r>> \in R)
      <4>1. SUFFICES ASSUME <<q[n], r>> \in R PROVE FALSE
        OBVIOUS
      <4>2. Place(R, S, q[n]) < Place(R, S, r)
        BY <2>2, <4>1, PlaceRises
      <4>3. QED BY <1>1, <1>3, <2>2, <4>2
    <3>2. ~(<<r, q[n]>> \in R)
      <4>1. SUFFICES ASSUME <<r, q[n]>> \in R PROVE FALSE
        OBVIOUS
      <4>2. Place(R, S, r) < Place(R, S, q[n])
        BY <2>2, <4>1, PlaceRises
      <4>3. QED BY <1>1, <1>3, <2>2, <4>2
    <3>3. QED BY <2>2, <3>1, <3>2 DEF Orders
  <2> HIDE DEF n
  <2>4. QED BY <2>1, <2>3
<1>6. QED BY <1>2, <1>4, <1>5 DEF c

LEMMA ListIsSeq ==
    ASSUME NEW S, NEW n \in Nat, NEW q \in [1 .. n -> S]
    PROVE  q \in Seq(S) /\ Len(q) = n /\ DOMAIN q = 1 .. n
<1>1. q \in Seq(S)
  BY SeqDef
<1>2. QED BY <1>1, LenProperties

-----------------------------------------------------------------------------
(* The database's lists: the rows that are there, the newest first.        *)

Present(S) == {r \in S : conn.rows[r] # None}

LEMMA NewestOrders ==
    ASSUME TypeOK, NEW S \in SUBSET Rows
    PROVE  Orders({p \in S \X S : Newer(p[1], p[2])}, Present(S))
<1> DEFINE R == {p \in S \X S : Newer(p[1], p[2])}
           P == Present(S)
<1>1. \A r \in P : r \in Nat /\ r \in S /\ conn.rows[r].at \in Nat
  BY RowsAssumption DEF TypeOK, Table, Record, Rows, Present
<1>2. \A r, s \in P : <<r, s>> \in R <=> Newer(r, s)
  BY <1>1
<1> HIDE DEF R, P
<1>3. \A s \in P : <<s, s>> \notin R
  BY <1>1, <1>2 DEF Newer
<1>4. \A r, s, t \in P : <<r, s>> \in R /\ <<s, t>> \in R => <<r, t>> \in R
  BY <1>1, <1>2 DEF Newer
<1>5. ASSUME NEW r \in P, NEW s \in P PROVE r = s \/ <<r, s>> \in R \/ <<s, r>> \in R
  <2> DEFINE a == conn.rows[r].at
             b == conn.rows[s].at
  <2>1. a \in Nat /\ b \in Nat /\ r \in Nat /\ s \in Nat
    BY <1>1
  <2>2. /\ a > b \/ (a = b /\ r < s) => Newer(r, s)
        /\ b > a \/ (b = a /\ s < r) => Newer(s, r)
    BY DEF Newer
  <2> HIDE DEF a, b
  <2>3. r = s \/ Newer(r, s) \/ Newer(s, r)
    BY <2>1, <2>2
  <2>4. QED BY <1>2, <2>3
<1>6. QED BY <1>3, <1>4, <1>5 DEF Orders, R, P

LEMMA NewestFact ==
    ASSUME TypeOK, NEW S \in SUBSET Rows, IsFiniteSet(S)
    PROVE  /\ NewestFirst(S) \in Seq(Present(S))
           /\ Len(NewestFirst(S)) = Cardinality(Present(S))
           /\ DOMAIN NewestFirst(S) = 1 .. Cardinality(Present(S))
           /\ Cardinality(Present(S)) \in Nat /\ Cardinality(Present(S)) <= Cardinality(S)
           /\ \A n \in 1 .. Cardinality(Present(S)) : NewestFirst(S)[n] \in Present(S)
           /\ \A m, n \in 1 .. Cardinality(Present(S)) :
                m < n => Newer(NewestFirst(S)[m], NewestFirst(S)[n])
           /\ \A r \in Present(S) :
                \E n \in 1 .. Cardinality(Present(S)) : NewestFirst(S)[n] = r
<1> DEFINE R == {p \in S \X S : Newer(p[1], p[2])}
           P == Present(S)
           q == NewestFirst(S)
           c == Cardinality(P)
<1>1. P \in SUBSET S
  BY DEF Present
<1>2. Orders(R, P)
  BY NewestOrders
<1>3. \A r \in P : {s \in P : <<s, r>> \in R} = {s \in P : Newer(s, r)}
  BY <1>1
<1>4. q = [n \in 1 .. c |-> CHOOSE r \in P : Cardinality({s \in P : Newer(s, r)}) = n - 1]
  BY DEF NewestFirst, Present
<1>5. \A r \in P : Place(R, P, r) = Cardinality({s \in P : Newer(s, r)})
  BY <1>3 DEF Place
<1> HIDE DEF P
<1>6. IsFiniteSet(P) /\ c \in Nat /\ c <= Cardinality(S)
  BY <1>1, FS_Subset, FS_CardinalityType
<1>7. \A r, s : <<r, s>> \in R => Newer(r, s)
  OBVIOUS
<1> HIDE DEF R, q
<1>8. DOMAIN q = 1 .. c /\ \A n \in 1 .. c :
        (\E r \in P : Place(R, P, r) = n - 1) => q[n] \in P /\ Place(R, P, q[n]) = n - 1
  <2> HIDE DEF c
  <2>1. DOMAIN q = 1 .. c
    BY <1>4
  <2>2. ASSUME NEW n \in 1 .. c, \E r \in P : Place(R, P, r) = n - 1
        PROVE  q[n] \in P /\ Place(R, P, q[n]) = n - 1
    <3>1. q[n] = CHOOSE r \in P : Cardinality({s \in P : Newer(s, r)}) = n - 1
      BY <1>4
    <3>2. \E r \in P : Cardinality({s \in P : Newer(s, r)}) = n - 1
      BY <1>5, <2>2
    <3>3. q[n] \in P /\ Cardinality({s \in P : Newer(s, q[n])}) = n - 1
      BY <3>1, <3>2
    <3>4. QED BY <1>5, <3>3
  <2>3. QED BY <2>1, <2>2
<1>9. /\ \A n \in 1 .. c : q[n] \in P
      /\ \A m, n \in 1 .. c : m < n => <<q[m], q[n]>> \in R
      /\ \A r \in P : \E n \in 1 .. c : q[n] = r
  BY <1>2, <1>6, <1>8, ListedInOrder
<1>10. q \in [1 .. c -> P]
  <2>1. DOMAIN q = 1 .. c /\ q = [n \in 1 .. c |-> q[n]]
    <3> DEFINE e(n) == CHOOSE r \in P : Cardinality({s \in P : Newer(s, r)}) = n - 1
    <3>1. q = [n \in 1 .. c |-> e(n)]
      BY <1>4
    <3> HIDE DEF e, c
    <3>2. QED BY <3>1
  <2> HIDE DEF c
  <2>2. QED BY <1>9, <2>1
<1> HIDE DEF c
<1>11. q \in Seq(P) /\ Len(q) = c /\ DOMAIN q = 1 .. c
  BY <1>6, <1>10, ListIsSeq
<1>12. QED BY <1>6, <1>7, <1>9, <1>11 DEF P, c, q

(* A list of one row, which is there.                                      *)
LEMMA OneRow ==
    ASSUME TypeOK, NEW r \in Rows, conn.rows[r] # None
    PROVE  NewestFirst({r}) = <<r>>
<1>1. Present({r}) = {r}
  BY DEF Present
<1>2. IsFiniteSet({r}) /\ Cardinality({r}) = 1
  BY FS_Singleton
<1> DEFINE q == NewestFirst({r})
<1>3. /\ q \in Seq({r}) /\ Len(q) = 1
      /\ \A n \in 1 .. 1 : q[n] \in {r}
  <2> DEFINE S == {r}
             P == Present(S)
             c == Cardinality(P)
  <2>1. S \in SUBSET Rows /\ IsFiniteSet(S) /\ P = {r} /\ c = 1
    BY <1>1, <1>2
  <2> HIDE DEF S
  <2>2. /\ NewestFirst(S) \in Seq(P) /\ Len(NewestFirst(S)) = c
        /\ \A n \in 1 .. c : NewestFirst(S)[n] \in P
    BY <2>1, NewestFact
  <2> HIDE DEF P, c
  <2>3. QED BY <2>1, <2>2 DEF S
<1> HIDE DEF q
<1>4. Len(q) = 1 /\ q[1] = r /\ q \in Seq({r})
  BY <1>3
<1>5. q = <<r>>
  BY <1>4
<1>6. QED BY <1>5 DEF q

(* The newest of a set of rows is first in its list.                       *)
LEMMA FirstIsNewest ==
    ASSUME TypeOK, NEW S \in SUBSET Rows, IsFiniteSet(S)
    PROVE  /\ NewestFirst(S) = <<>> <=> Present(S) = {}
           /\ Present(S) # {} =>
                /\ NewestFirst(S)[1] \in Present(S)
                /\ \A s \in Present(S) \ {NewestFirst(S)[1]} : Newer(NewestFirst(S)[1], s)
<1> DEFINE q == NewestFirst(S)
           P == Present(S)
           c == Cardinality(P)
<1>1. /\ q \in Seq(P) /\ Len(q) = c /\ DOMAIN q = 1 .. c /\ c \in Nat
      /\ \A n \in 1 .. c : q[n] \in P
      /\ \A m, n \in 1 .. c : m < n => Newer(q[m], q[n])
      /\ \A r \in P : \E n \in 1 .. c : q[n] = r
  BY NewestFact
<1> HIDE DEF q, P, c
<1>2. q = <<>> <=> c = 0
  BY <1>1, EmptySeq
<1>3. c = 0 => P = {}
  BY <1>1
<1>4. P = {} => c = 0
  BY FS_EmptySet DEF c
<1>5. ASSUME c # 0 PROVE /\ q[1] \in P
                         /\ \A s \in P \ {q[1]} : Newer(q[1], s)
  <2>1. 1 \in 1 .. c
    BY <1>1, <1>5
  <2>2. ASSUME NEW s \in P, s # q[1] PROVE Newer(q[1], s)
    <3>1. PICK n \in 1 .. c : q[n] = s
      BY <1>1
    <3>2. 1 < n
      BY <1>1, <2>2, <3>1
    <3>3. QED BY <1>1, <2>1, <3>1, <3>2
  <2>3. QED BY <1>1, <2>1, <2>2
<1>6. QED BY <1>2, <1>3, <1>4, <1>5 DEF q, P

-----------------------------------------------------------------------------
(* The readers agree.                                                      *)

LEMMA GetFinds ==
    ASSUME TypeOK, NEW r \in Rows
    PROVE  Get(r) # None <=> Live(r)
<1>1. Live(r) => conn.rows[r] \in Record
  BY DEF Live, TypeOK, Table
<1>2. QED BY <1>1, NoneAssumption DEF Get, Record

(* A page of one row at the place of a row is that row.                    *)
LEMMA ListingFinds ==
    ASSUME TypeOK, NEW r \in Kv, Live(r)
    PROVE  \E n \in 0 .. Cardinality(Kv) : ListTable(Kv, 1, n) = <<r>>
<1> DEFINE q == NewestFirst(Kv)
           P == Present(Kv)
           c == Cardinality(P)
<1>1. Kv \in SUBSET Rows /\ IsFiniteSet(Kv) /\ r \in Rows /\ conn.rows[r] # None
  BY RowsAssumption DEF Rows, Live
<1>2. r \in P
  BY <1>1 DEF Present
<1>3. /\ DOMAIN q = 1 .. c /\ c \in Nat /\ c <= Cardinality(Kv)
      /\ \A r1 \in P : \E n \in 1 .. c : q[n] = r1
  BY <1>1, NewestFact
<1>4. Cardinality(Kv) \in Nat
  BY <1>1, FS_CardinalityType
<1> HIDE DEF q, P, c
<1>5. PICK i \in 1 .. c : q[i] = r
  BY <1>2, <1>3
<1> DEFINE n == i - 1
<1>6. n \in 0 .. Cardinality(Kv)
  BY <1>3, <1>4
<1>7. \A j \in DOMAIN q : n < j /\ j <= n + 1 <=> j = i
  BY <1>3
<1> HIDE DEF n
<1>8. Page(Kv, 1, n) = {s \in Kv : \E j \in DOMAIN q : n < j /\ j <= n + 1 /\ q[j] = s}
  BY DEF Page, q
<1>9. i \in DOMAIN q
  BY <1>3
<1>10. Page(Kv, 1, n) = {r}
  <2>1. \A s : s \in Page(Kv, 1, n) => s = r
    BY <1>5, <1>7, <1>8
  <2>2. r \in Page(Kv, 1, n)
    BY <1>5, <1>7, <1>8, <1>9
  <2>3. QED BY <2>1, <2>2
<1>11. {s \in Page(Kv, 1, n) : Live(s)} = {r}
  BY <1>10
<1>12. ListTable(Kv, 1, n) = <<r>>
  BY <1>1, <1>11, OneRow DEF ListTable
<1>13. QED BY <1>6, <1>12

LEMMA ListingIsLive ==
    ASSUME TypeOK, NEW r \in Kv, NEW n, ListTable(Kv, 1, n) = <<r>>
    PROVE  Live(r)
<1> DEFINE S == {s \in Page(Kv, 1, n) : Live(s)}
<1>1. S \in SUBSET Kv
  BY DEF Page
<1>2. S \in SUBSET Rows /\ IsFiniteSet(S)
  BY <1>1, RowsAssumption, FS_Subset DEF Rows
<1>3. NewestFirst(S) = <<r>>
  BY DEF ListTable
<1>4. \A s \in S : Live(s)
  OBVIOUS
<1> HIDE DEF S
<1>5. NewestFirst(S) # <<>> /\ NewestFirst(S)[1] = r
  BY <1>3
<1>6. r \in Present(S)
  BY <1>2, <1>5, FirstIsNewest
<1>7. QED BY <1>4, <1>6 DEF Present

(* select.one returns the first of the live rows that match.               *)
LEMMA SelectOneFact ==
    ASSUME TypeOK, NEW w
    PROVE  LET r == SelectOne(w) IN
           /\ r = None => \A s \in Docs : Live(s) => ~MatchesSelect(w, s)
           /\ r # None => Live(r) /\ \A s \in Docs :
                            Live(s) /\ MatchesSelect(w, s) /\ s # r => Newer(r, s)
<1> DEFINE S == {r \in Docs : Live(r) /\ MatchesSelect(w, r)}
           q == NewestFirst(S)
           P == Present(S)
           a == SelectAll(w, 1)
           r == SelectOne(w)
<1>1. S \in SUBSET Docs /\ Docs \in SUBSET Rows /\ IsFiniteSet(Docs)
  BY RowsAssumption DEF Rows
<1>2. P = S
  BY DEF Present, Live
<1>3. a = SubSeq(q, 1, IF 1 < Len(q) THEN 1 ELSE Len(q))
  BY DEF SelectAll, Found, FirstOf
<1>4. r = IF a = <<>> THEN None ELSE Head(a)
  BY DEF SelectOne
<1>5. S \in SUBSET Rows
  BY <1>1
<1>6. \A s \in Docs : Live(s) /\ MatchesSelect(w, s) => s \in S
  OBVIOUS
<1>7. \A s \in S : Live(s)
  OBVIOUS
<1> HIDE DEF S, a, r
<1>8. IsFiniteSet(S)
  BY <1>1, FS_Subset
<1>9. /\ q = <<>> <=> P = {}
      /\ P # {} => q[1] \in P /\ \A s \in P \ {q[1]} : Newer(q[1], s)
      /\ q \in Seq(P)
  BY <1>5, <1>8, FirstIsNewest, NewestFact
<1>10. P \in SUBSET Rows
  BY <1>2, <1>5
<1> HIDE DEF q, P
<1>11. Len(q) \in Nat /\ (q = <<>> <=> Len(q) = 0)
  BY <1>9, LenProperties, EmptySeq
<1>12. CASE P = {}
  <2>1. a = <<>>
    <3>1. (IF 1 < Len(q) THEN 1 ELSE Len(q)) = 0
      BY <1>9, <1>11, <1>12
    <3>2. a = SubSeq(q, 1, 0)
      BY <1>3, <3>1
    <3>3. QED BY <3>2, SubSeqEmpty
  <2>2. QED BY <1>2, <1>4, <1>6, <1>12, <2>1 DEF r
<1>13. CASE P # {}
  <2>1. Len(q) >= 1 /\ q[1] \in P
    BY <1>9, <1>11, <1>13
  <2>2. a = SubSeq(q, 1, 1)
    BY <1>3, <1>11, <2>1
  <2>3. a \in Seq(P) /\ Len(a) = 1 /\ a[1] = q[1]
    <3>1. \A i \in 1 .. 1 : q[i] \in P
      BY <2>1
    <3>2. /\ SubSeq(q, 1, 1) \in Seq(P)
          /\ Len(SubSeq(q, 1, 1)) = IF 1 <= 1 THEN 1 - 1 + 1 ELSE 0
          /\ \A i \in 1 .. 1 - 1 + 1 : SubSeq(q, 1, 1)[i] = q[1 + i - 1]
      BY <3>1, SubSeqProperties
    <3>3. SubSeq(q, 1, 1)[1] = q[1]
      BY <3>2
    <3>4. QED BY <2>2, <3>2, <3>3
  <2>4. a # <<>> /\ Head(a) = a[1]
    <3>1. Len(<<>>) = 0
      BY EmptySeq
    <3>2. Len(a) # 0
      BY <2>3
    <3>3. a # <<>>
      BY <3>1, <3>2
    <3>4. QED BY <2>3, <3>3
  <2>5. r = q[1]
    BY <1>4, <2>3, <2>4
  <2>6. r # None
    BY <1>10, <2>1, <2>5, NoneAssumption
  <2>7. QED BY <1>2, <1>6, <1>7, <1>9, <1>13, <2>5, <2>6 DEF r
<1>14. QED BY <1>12, <1>13

LEMMA TypedReadersAgree == TypeOK => ReadersAgree
<1> SUFFICES ASSUME TypeOK PROVE ReadersAgree
  OBVIOUS
<1>1. ASSUME NEW r \in Kv
      PROVE  Get(r) # None <=> \E n \in 0 .. Cardinality(Kv) : ListTable(Kv, 1, n) = <<r>>
  <2>1. Get(r) # None <=> Live(r)
    BY GetFinds DEF Rows
  <2>2. QED BY <2>1, ListingFinds, ListingIsLive
<1>2. QED BY <1>1, SelectOneFact DEF ReadersAgree

-----------------------------------------------------------------------------
(* Every storing operation is a Store of some rows S: it leaves the others *)
(* as they were, and the new ones are records or gone.                     *)
Stores(t, S, rows) ==
    /\ Store(t, S, rows)
    /\ S \subseteq Rows
    /\ rows \in [Rows -> Record \cup {None}]
    /\ \A r \in Rows \ S : rows[r] = conn.rows[r]

LEMMA WithoutStores ==
    ASSUME TypeOK, NEW S \in SUBSET Rows
    PROVE  /\ Without(S) \in [Rows -> Record \cup {None}]
           /\ \A r \in Rows \ S : Without(S)[r] = conn.rows[r]
BY DEF Without, TypeOK, Table

LEMMA WriteStores ==
    ASSUME TypeOK, NEW t \in Threads, NEW r \in Rows, NEW v \in Values, NEW ttl \in {0, 1},
           Write(t, r, v, ttl)
    PROVE  \E S, rows : Stores(t, S, rows)
<1> DEFINE new == [val |-> v, exp |-> IF ttl = 0 THEN 0 ELSE now + ttl, at |-> now]
           rows == [conn.rows EXCEPT ![r] = new]
<1>1. conn.rows \in [Rows -> Record \cup {None}] /\ now \in Nat
  BY DEF TypeOK, Table
<1>2. new \in Record
  BY <1>1 DEF Record
<1>3. rows \in [Rows -> Record \cup {None}] /\ \A s \in Rows \ {r} : rows[s] = conn.rows[s]
  BY <1>1, <1>2
<1>4. Store(t, {r}, rows)
  BY DEF Write
<1>5. Stores(t, {r}, rows)
  BY <1>3, <1>4 DEF Stores
<1>6. QED BY <1>5

(* The three kinds of operations.                                          *)
LEMMA OperationCases ==
    ASSUME TypeOK, NEW t \in Threads, Operation(t)
    PROVE  \/ \E S, rows : Stores(t, S, rows)
           \/ Begin(t) \/ Commit(t) \/ Rollback(t)
<1>1. ASSUME NEW r \in Rows, NEW v \in Values, NEW ttl \in {0, 1},
             Put(t, r, v, ttl) \/ Upsert(t, r, v, ttl) \/ PutBlob(t, r, v, ttl)
      PROVE  \E S, rows : Stores(t, S, rows)
  <2>1. Write(t, r, v, ttl)
    BY <1>1 DEF Put, Upsert, PutBlob
  <2>2. QED BY <2>1, WriteStores
<1>2. ASSUME NEW S \in SUBSET Rows, Store(t, S, Without(S))
      PROVE  \E T, rows : Stores(t, T, rows)
  <2>1. Stores(t, S, Without(S))
    BY <1>2, WithoutStores DEF Stores
  <2>2. QED BY <2>1
<1>3. ASSUME NEW r \in Kv, Del(t, r)
      PROVE  \E S, rows : Stores(t, S, rows)
  BY <1>2, <1>3 DEF Del, Rows
<1>4. ASSUME NEW w \in Wheres, DeleteWhere(t, w)
      PROVE  \E S, rows : Stores(t, S, rows)
  <2> DEFINE S == {r \in Docs : conn.rows[r] # None /\ MatchesStored(w, r)}
  <2>1. S \in SUBSET Rows /\ Store(t, S, Without(S))
    BY <1>4 DEF DeleteWhere, Rows
  <2>2. QED BY <1>2, <2>1
<1>5. ASSUME ExpireRows(t)
      PROVE  \E S, rows : Stores(t, S, rows)
  <2> DEFINE S == {r \in Kv \cup Docs : Expired(r)}
  <2>1. S \in SUBSET Rows /\ Store(t, S, Without(S))
    BY <1>5 DEF ExpireRows, Rows
  <2>2. QED BY <1>2, <2>1
<1>6. QED BY <1>1, <1>3, <1>4, <1>5 DEF Operation

-----------------------------------------------------------------------------
(* The two hold together: a rollback that restores the disk needs that the *)
(* disk is a table, a commit that there is none when nothing is open.      *)
StoreInv == TypeOK /\ LossIsConfined

LEMMA InitStoreInv == Init => StoreInv
<1> SUFFICES ASSUME Init PROVE StoreInv
  OBVIOUS
<1>1. conn \in Table /\ disk = conn
  <2>1. [r \in Rows |-> None] \in [Rows -> Record \cup {None}]
    OBVIOUS
  <2>2. QED BY <2>1 DEF Init, Table
<1>2. [t \in Threads |-> "idle"] \in [Threads -> {"idle", "ready", "remember", "insert"}]
  OBVIOUS
<1>3. TypeOK
  BY <1>1, <1>2 DEF Init, TypeOK
<1>4. QED BY <1>1, <1>3 DEF StoreInv, LossIsConfined

LEMMA StoresKeeps ==
    ASSUME StoreInv, NEW t \in Threads, NEW S, NEW rows, Stores(t, S, rows)
    PROVE  StoreInv'
<1>1. /\ conn' = [conn EXCEPT !.rows = rows]
      /\ disk' = IF inTx THEN disk ELSE conn'
      /\ touched' = IF inTx THEN touched \cup S ELSE touched
      /\ call' = [call EXCEPT ![t] = "remember"]
      /\ ops' = ops + 1 /\ inTx' = inTx /\ now' = now /\ audit' = audit
  BY DEF Stores, Store, CommitIfNeeded
<1>2. conn' \in Table /\ conn'.rows = rows /\ conn'.events = conn.events
  BY <1>1 DEF StoreInv, TypeOK, Table, Stores
<1>3. TypeOK'
  BY <1>1, <1>2 DEF StoreInv, TypeOK, Stores
<1>4. LossIsConfined'
  <2>1. CASE inTx
    BY <1>1, <1>2, <2>1 DEF StoreInv, TypeOK, LossIsConfined, Stores
  <2>2. CASE ~inTx
    BY <1>1, <2>2 DEF LossIsConfined
  <2>3. QED BY <2>1, <2>2
<1>5. QED BY <1>3, <1>4 DEF StoreInv

LEMMA NextStoreInv == StoreInv /\ [Next]_vars => StoreInv'
<1> SUFFICES ASSUME StoreInv, [Next]_vars PROVE StoreInv'
  OBVIOUS
<1> USE DEF StoreInv, Threads
<1>1. ASSUME NEW t \in Threads, Operation(t) PROVE StoreInv'
  <2>1. CASE \E S, rows : Stores(t, S, rows)
    BY <2>1, StoresKeeps
  <2>2. CASE Begin(t)
    BY <2>2 DEF Begin, TypeOK, LossIsConfined
  <2>3. CASE Commit(t)
    BY <2>3 DEF Commit, TypeOK, LossIsConfined
  <2>4. CASE Rollback(t)
    BY <2>4 DEF Rollback, TypeOK, LossIsConfined
  <2>5. QED BY <1>1, <2>1, <2>2, <2>3, <2>4, OperationCases
<1>2. ASSUME NEW t \in Threads, Remember(t) PROVE StoreInv'
  BY <1>2 DEF Remember, TypeOK, LossIsConfined
<1>3. ASSUME NEW t \in Threads, InsertEvent(t) PROVE StoreInv'
  <2>1. conn' \in Table /\ conn'.rows = conn.rows
    BY <1>3 DEF InsertEvent, TypeOK, Table
  <2>2. disk' = IF inTx THEN disk ELSE conn'
    BY <1>3 DEF InsertEvent, CommitIfNeeded
  <2>3. TypeOK'
    BY <1>3, <2>1, <2>2 DEF InsertEvent, TypeOK
  <2>4. LossIsConfined'
    BY <1>3, <2>1, <2>2 DEF InsertEvent, LossIsConfined
  <2>5. QED BY <2>3, <2>4
<1>4. ASSUME NEW t \in Threads, StartCall(t) \/ CallEnds(t) \/ OutsiderAudits(t)
      PROVE  StoreInv'
  BY <1>4 DEF StartCall, CallEnds, OutsiderAudits, TypeOK, LossIsConfined
<1>5. CASE TimePasses
  BY <1>5 DEF TimePasses, TypeOK, LossIsConfined
<1>6. CASE Reload \/ Crash
  <2>1. Reopen
    BY <1>6 DEF Reload, Crash
  <2>2. call' \in [Threads -> {"idle", "ready", "remember", "insert"}]
    BY <2>1 DEF Reopen
  <2>3. conn' = disk /\ disk' = disk
    BY <2>1 DEF Reopen
  <2>4. TypeOK'
    BY <2>1, <2>2, <2>3 DEF Reopen, TypeOK
  <2>5. QED BY <2>3, <2>4 DEF LossIsConfined
<1>7. CASE UNCHANGED vars
  BY <1>7 DEF vars, TypeOK, LossIsConfined
<1>8. QED BY <1>1, <1>2, <1>3, <1>4, <1>5, <1>6, <1>7 DEF Next

-----------------------------------------------------------------------------
(* Every variable of the store keeps its type.                             *)
THEOREM TypeCorrect == Spec => []TypeOK
<1>1. StoreInv => TypeOK
  BY DEF StoreInv
<1>2. QED BY <1>1, InitStoreInv, NextStoreInv, PTL DEF Spec

(* Whatever the scripts do with the one connection and the one flag, a     *)
(* crash, a reload or a rollback loses only rows written since the open    *)
(* transaction began, and nothing when none is open.                       *)
THEOREM LossConfined == Spec => []LossIsConfined
<1>1. StoreInv => LossIsConfined
  BY DEF StoreInv
<1>2. QED BY <1>1, InitStoreInv, NextStoreInv, PTL DEF Spec

(* A row that get answers is on some page of the listing and no other is,  *)
(* and select.one returns the newest live match: expired rows that are     *)
(* newer hide nothing (host.py db_select_all, list_db_kv).                 *)
THEOREM ReadersAreOne == Spec => []ReadersAgree
<1>1. StoreInv => ReadersAgree
  BY TypedReadersAgree DEF StoreInv
<1>2. QED BY <1>1, InitStoreInv, NextStoreInv, PTL DEF Spec

(* While a transaction stays open the disk does not change.                *)
THEOREM OpenIsHeldBack == Spec => HeldBack
<1>1. StoreInv /\ [Next]_vars => [inTx /\ inTx' => disk' = disk]_vars
  <2> SUFFICES ASSUME StoreInv, Next, inTx, inTx' PROVE disk' = disk
    BY DEF vars
  <2>1. ASSUME NEW t \in Threads, Operation(t) PROVE disk' = disk
    <3>1. CASE \E S, rows : Stores(t, S, rows)
      BY <3>1 DEF Stores, Store, CommitIfNeeded
    <3>2. CASE Begin(t) \/ Commit(t) \/ Rollback(t)
      BY <3>2 DEF Begin, Commit, Rollback
    <3>3. QED BY <2>1, <3>1, <3>2, OperationCases DEF StoreInv
  <2>2. ASSUME NEW t \in Threads,
               \/ Remember(t) \/ InsertEvent(t)
               \/ StartCall(t) \/ CallEnds(t) \/ OutsiderAudits(t)
        PROVE  disk' = disk
    BY <2>2 DEF Remember, InsertEvent, CommitIfNeeded, StartCall, CallEnds, OutsiderAudits
  <2>3. CASE TimePasses \/ Reload \/ Crash
    BY <2>3 DEF TimePasses, Reload, Crash, Reopen
  <2>4. QED BY <2>1, <2>2, <2>3 DEF Next
<1>2. QED BY <1>1, InitStoreInv, NextStoreInv, PTL DEF Spec, HeldBack

-----------------------------------------------------------------------------
(* The store implements OneTransaction.  Outside a transaction no row is   *)
(* held to be written in one.                                              *)
TxInv == StoreInv /\ (~inTx => touched = {})

LEMMA InitTxInv == Init => TxInv
BY InitStoreInv DEF TxInv, Init

LEMMA NextTxInv == TxInv /\ [Next]_vars => TxInv'
<1> SUFFICES ASSUME TxInv, [Next]_vars PROVE ~inTx' => touched' = {}
  BY NextStoreInv DEF TxInv
<1> USE DEF TxInv
<1>1. ASSUME NEW t \in Threads, Operation(t) PROVE ~inTx' => touched' = {}
  <2>1. CASE \E S, rows : Stores(t, S, rows)
    BY <2>1 DEF Stores, Store
  <2>2. CASE Begin(t) \/ Commit(t) \/ Rollback(t)
    BY <2>2 DEF Begin, Commit, Rollback
  <2>3. QED BY <1>1, <2>1, <2>2, OperationCases DEF StoreInv
<1>2. ASSUME NEW t \in Threads,
             \/ Remember(t) \/ InsertEvent(t)
             \/ StartCall(t) \/ CallEnds(t) \/ OutsiderAudits(t)
      PROVE  ~inTx' => touched' = {}
  BY <1>2 DEF Remember, InsertEvent, StartCall, CallEnds, OutsiderAudits
<1>3. CASE TimePasses \/ Reload \/ Crash
  BY <1>3 DEF TimePasses, Reload, Crash, Reopen
<1>4. CASE UNCHANGED vars
  BY <1>4 DEF vars
<1>5. QED BY <1>1, <1>2, <1>3, <1>4 DEF Next

(* What the connection sees is what the transaction's users see.           *)
LEMMA SeenFact == TypeOK /\ LossIsConfined => conn.rows = Shared!Seen
<1> SUFFICES ASSUME TypeOK, LossIsConfined PROVE conn.rows = Shared!Seen
  OBVIOUS
<1>1. conn.rows \in [Rows -> Record \cup {None}]
  BY DEF TypeOK, Table
<1>2. ASSUME NEW r \in Rows PROVE conn.rows[r] = Shared!Seen[r]
  <2>1. CASE r \in touched
    BY <2>1 DEF Shared!Seen
  <2>2. CASE r \notin touched
    BY <2>2 DEF Shared!Seen, LossIsConfined
  <2>3. QED BY <2>1, <2>2
<1>3. Shared!Seen = [r \in Rows |-> Shared!Seen[r]]
  BY DEF Shared!Seen
<1>4. QED BY <1>1, <1>2, <1>3

(* The mapping at the two ends of a transaction.                           *)
LEMMA EventsAreNumbers == TypeOK => conn.events \in Nat /\ disk.events \in Nat
BY DEF TypeOK, Table

LEMMA NoneWritten ==
    ASSUME touched = {}
    PROVE  [r \in touched |-> conn.rows[r]] = Shared!Nothing
BY DEF Shared!Nothing

(* The steps.                                                              *)
LEMMA StoreMaps ==
    ASSUME TxInv, NEW t \in Threads, NEW S, NEW rows, Stores(t, S, rows)
    PROVE  Shared!Change \/ Shared!Collect
<1>1. /\ conn' = [conn EXCEPT !.rows = rows]
      /\ disk' = IF inTx THEN disk ELSE conn'
      /\ touched' = IF inTx THEN touched \cup S ELSE touched
      /\ inTx' = inTx
      /\ S \subseteq Rows /\ rows \in [Rows -> Record \cup {None}]
  BY DEF Stores, Store, CommitIfNeeded
<1>2. conn'.rows = rows /\ conn'.events = conn.events
  BY <1>1 DEF TxInv, StoreInv, TypeOK, Table
<1>3. CASE inTx
  <2> DEFINE all == touched \cup S
  <2>1. all \in SUBSET Rows /\ touched \subseteq all
    BY <1>1 DEF TxInv, StoreInv, TypeOK
  <2>2. [r \in touched' |-> conn'.rows[r]] \in [all -> Record \cup {None}]
    BY <1>1, <1>2, <1>3, <2>1
  <2>3. DOMAIN [r \in touched |-> conn.rows[r]] \subseteq all
    BY <2>1
  <2>4. /\ disk'.rows = disk.rows /\ disk'.events = disk.events
        /\ conn'.events - disk'.events = conn.events - disk.events
    BY <1>1, <1>2, <1>3
  <2>5. Shared!Collect
    BY <1>1, <1>3, <2>1, <2>2, <2>3, <2>4 DEF Shared!Collect
  <2>6. QED BY <2>5
<1>4. CASE ~inTx
  <2>1. conn = disk /\ touched = {} /\ touched' = {} /\ disk' = conn'
    BY <1>1, <1>4 DEF TxInv, StoreInv, LossIsConfined
  <2>2. disk'.rows \in [Rows -> Record \cup {None}]
    BY <1>1, <1>2, <2>1
  <2>3. [r \in touched' |-> conn'.rows[r]] = [r \in touched |-> conn.rows[r]]
    BY <2>1
  <2>4. /\ disk'.events = disk.events
        /\ conn'.events - disk'.events = conn.events - disk.events
    BY <1>2, <2>1
  <2>5. Shared!Change
    BY <1>1, <1>4, <2>2, <2>3, <2>4 DEF Shared!Change
  <2>6. QED BY <2>5
<1>5. QED BY <1>3, <1>4

LEMMA EventMaps ==
    ASSUME TxInv, NEW t \in Threads, InsertEvent(t)
    PROVE  Shared!Audit
<1>1. conn'.rows = conn.rows /\ conn'.events = conn.events + 1
  BY DEF InsertEvent, TxInv, StoreInv, TypeOK, Table
<1>2. /\ disk' = IF inTx THEN disk ELSE conn'
      /\ inTx' = inTx /\ touched' = touched
  BY DEF InsertEvent, CommitIfNeeded
<1>3. conn.events \in Nat /\ disk.events \in Nat
  BY EventsAreNumbers DEF TxInv, StoreInv
<1>4. [r \in touched' |-> conn'.rows[r]] = [r \in touched |-> conn.rows[r]]
  BY <1>1, <1>2
<1>5. CASE inTx
  <2>1. conn'.events - disk'.events = (conn.events - disk.events) + 1
    BY <1>1, <1>2, <1>3, <1>5
  <2>2. disk'.rows = disk.rows /\ disk'.events = disk.events
    BY <1>2, <1>5
  <2>3. QED BY <1>2, <1>4, <1>5, <2>1, <2>2 DEF Shared!Audit
<1>6. CASE ~inTx
  <2>1. conn = disk /\ disk' = conn'
    BY <1>2, <1>6 DEF TxInv, StoreInv, LossIsConfined
  <2>2. conn'.events - disk'.events = conn.events - disk.events
    BY <1>1, <1>3, <2>1
  <2>3. disk'.rows = disk.rows /\ disk'.events = disk.events + 1
    BY <1>1, <2>1
  <2>4. QED BY <1>2, <1>4, <1>6, <2>2, <2>3 DEF Shared!Audit
<1>7. QED BY <1>5, <1>6

(* Commit, and the three that forget: a rollback, a reload and a crash.    *)
LEMMA EndMaps ==
    ASSUME TxInv, inTx' = FALSE, touched' = {},
           \/ disk' = conn /\ conn' = conn
           \/ conn' = disk /\ disk' = disk
    PROVE  Shared!Commit \/ Shared!Forget \/ UNCHANGED Shared!tx
<1>1. conn'.events \in Nat /\ conn.events \in Nat /\ disk.events \in Nat /\ conn' = disk'
  BY EventsAreNumbers DEF TxInv, StoreInv
<1>2. conn'.events - disk'.events = 0
  BY <1>1
<1>3. [r \in touched' |-> conn'.rows[r]] = Shared!Nothing
  BY DEF Shared!Nothing
<1>4. CASE ~inTx
  <2>1. conn = disk /\ touched = {} /\ conn' = conn /\ disk' = disk
    BY <1>4 DEF TxInv, StoreInv, LossIsConfined
  <2>2. [r \in touched' |-> conn'.rows[r]] = [r \in touched |-> conn.rows[r]]
    BY <2>1
  <2>3. inTx' = inTx
    BY <1>4 DEF TxInv, StoreInv, TypeOK
  <2>4. QED BY <2>1, <2>2, <2>3 DEF Shared!tx
<1>5. CASE inTx /\ disk' = conn
  <2>1. conn.rows = Shared!Seen
    BY SeenFact DEF TxInv, StoreInv
  <2>2. disk'.events = disk.events + (conn.events - disk.events)
    BY <1>1, <1>5
  <2>3. disk'.rows = Shared!Seen
    BY <1>5, <2>1
  <2>4. QED BY <1>2, <1>3, <1>5, <2>2, <2>3 DEF Shared!Commit, Shared!Over
<1>6. CASE inTx /\ disk' = disk
  BY <1>2, <1>3, <1>6 DEF Shared!Forget, Shared!Over
<1>7. inTx \in BOOLEAN
  BY DEF TxInv, StoreInv, TypeOK
<1>8. QED BY <1>4, <1>5, <1>6, <1>7

LEMMA TxStep == TxInv /\ [Next]_vars => [Shared!Next]_(Shared!tx)
<1> SUFFICES ASSUME TxInv, [Next]_vars PROVE Shared!Next \/ UNCHANGED Shared!tx
  OBVIOUS
<1>1. ASSUME UNCHANGED <<conn, disk, inTx, touched>> PROVE UNCHANGED Shared!tx
  BY <1>1 DEF Shared!tx
<1>2. ASSUME NEW t \in Threads, Operation(t) PROVE Shared!Next \/ UNCHANGED Shared!tx
  <2>1. CASE \E S, rows : Stores(t, S, rows)
    BY <2>1, StoreMaps DEF Shared!Next
  <2>2. CASE Begin(t)
    <3>1. /\ conn' = conn /\ disk' = disk /\ ~inTx /\ inTx' = TRUE
          /\ touched = {} /\ touched' = {}
      BY <2>2 DEF Begin, TxInv
    <3>2. Shared!Begin
      BY <3>1 DEF Shared!Begin
    <3>3. QED BY <3>2 DEF Shared!Next
  <2>3. CASE Commit(t) \/ Rollback(t)
    <3>1. /\ inTx' = FALSE /\ touched' = {}
          /\ \/ disk' = conn /\ conn' = conn
             \/ conn' = disk /\ disk' = disk
      BY <2>3 DEF Commit, Rollback
    <3>2. QED BY <3>1, EndMaps DEF Shared!Next
  <2>4. QED BY <1>2, <2>1, <2>2, <2>3, OperationCases DEF TxInv, StoreInv
<1>3. ASSUME NEW t \in Threads, InsertEvent(t) PROVE Shared!Next \/ UNCHANGED Shared!tx
  BY <1>3, EventMaps DEF Shared!Next
<1>4. ASSUME NEW t \in Threads,
             Remember(t) \/ StartCall(t) \/ CallEnds(t) \/ OutsiderAudits(t)
      PROVE  UNCHANGED Shared!tx
  BY <1>1, <1>4 DEF Remember, StartCall, CallEnds, OutsiderAudits
<1>5. CASE TimePasses \/ UNCHANGED vars
  BY <1>1, <1>5 DEF TimePasses, vars
<1>6. CASE Reload \/ Crash
  <2>1. conn' = disk /\ disk' = disk /\ inTx' = FALSE /\ touched' = {}
    BY <1>6 DEF Reload, Crash, Reopen
  <2>2. QED BY <2>1, EndMaps DEF Shared!Next
<1>7. QED BY <1>2, <1>3, <1>4, <1>5, <1>6 DEF Next

LEMMA TxInit == Init => Shared!Init
<1> SUFFICES ASSUME Init PROVE Shared!Init
  OBVIOUS
<1>1. /\ disk.rows \in [Rows -> Record \cup {None}]
      /\ disk.events = 0 /\ conn.events = 0 /\ touched = {} /\ inTx = FALSE
  BY DEF Init
<1>2. [r \in touched |-> conn.rows[r]] = Shared!Nothing
  BY <1>1, NoneWritten
<1>3. QED BY <1>1, <1>2 DEF Shared!Init

(* The store is one transaction that all scripts share, for any rows and   *)
(* any number of scripts, reloads and crashes: HostDb implements           *)
(* OneTransaction (host.py db_begin, db_commit, db_rollback,               *)
(* _commit_if_needed, close).                                              *)
THEOREM ImplementsTransaction == Spec => StoreIsTransaction
<1>1. QED
  BY TxInit, InitTxInv, NextTxInv, TxStep, PTL DEF Spec, StoreIsTransaction, Shared!Spec

(* Every read answers from what is on disk with the open transaction's     *)
(* changes over it, also those of another script (host.py db_get and the   *)
(* listings read through the one connection).                              *)
THEOREM ReadersSeeTransaction == Spec => [](conn.rows = Shared!Seen)
<1>1. StoreInv => conn.rows = Shared!Seen
  BY SeenFact DEF StoreInv
<1>2. QED BY <1>1, InitStoreInv, NextStoreInv, PTL DEF Spec

-----------------------------------------------------------------------------
(* The inductive invariant of the memory half.                             *)

(* The thread that keeps the lock has read what is still there, unless a   *)
(* rotate came in between.                                                 *)
WorkInv == lock # None /\ work.cell \notin raced =>
    /\ work.cell \in CacheKeys => work.item = cache[work.cell]
    /\ work.cell \in Buffers => work.q = bufs[work.cell]

(* The values of a buffer rise and are numbers of earlier operations.      *)
Ring(q, n) ==
    /\ q.max > 0 /\ Len(q.items) <= q.max
    /\ \A i \in 1 .. Len(q.items) : q.items[i].val < n
    /\ \A i, j \in 1 .. Len(q.items) : i < j => q.items[i].val < q.items[j].val
RingInv ==
    /\ \A b \in Buffers : bufs[b] # None => Ring(bufs[b], count)
    /\ lock # None /\ work.q # None => Ring(work.q, count)
Ends(q, i) == Len(q.items) > 0 /\ q.items[Len(q.items)] = i
NewestInv == \A b \in Buffers \ raced : newest[b] # None /\ Mem!Live(newest[b]) =>
    bufs[b] # None /\ Ends(bufs[b], newest[b])

(* Half-way through a rotate the cache is fresh already.                   *)
Fresh(q) == \A i \in 1 .. Len(q.items) : q.items[i].of = epoch
FreshInv == \A c \in Session \ raced :
    /\ c \in CacheKeys /\ cache[c] # None => cache[c].of = epoch
    /\ rotating = "no" /\ c \in Buffers /\ bufs[c] # None => Fresh(bufs[c])

(* A counter that is not there has counted nothing since.                  *)
CountInv == \A k \in CacheKeys \ raced :
    sum[k] = IF cache[k] = None THEN 0 ELSE cache[k].val

MemInv == Mem!TypeOK /\ WorkInv /\ RingInv /\ NewestInv /\ FreshInv /\ CountInv

-----------------------------------------------------------------------------
(* What a purge keeps, and what a full deque keeps.                        *)

Within(p, q) ==     \* p is some of q, in its order
    \E f \in [1 .. Len(p) -> 1 .. Len(q)] :
        /\ \A m, n \in 1 .. Len(p) : m < n => f[m] < f[n]
        /\ \A n \in 1 .. Len(p) : p[n] = q[f[n]]

LEMMA KeptFact ==
    ASSUME NEW q \in Seq(Mem!Item)
    PROVE  /\ Mem!Kept(q) \in Seq(Mem!Item) /\ Len(Mem!Kept(q)) <= Len(q)
           /\ Within(Mem!Kept(q), q)
           /\ Len(q) > 0 /\ Mem!Live(q[Len(q)]) =>
                Len(Mem!Kept(q)) > 0 /\ Mem!Kept(q)[Len(Mem!Kept(q))] = q[Len(q)]
<1> DEFINE S == {i \in DOMAIN q : Mem!Live(q[i])}
           R == {p \in S \X S : p[1] < p[2]}
           c == Cardinality(S)
           k == Mem!Kept(q)
           e(n) == CHOOSE i \in S : Cardinality({j \in S : j < i}) = n - 1
           f == [n \in 1 .. c |-> e(n)]
<1>1. Len(q) \in Nat /\ DOMAIN q = 1 .. Len(q) /\ S \in SUBSET (1 .. Len(q))
  BY LenProperties
<1>2. /\ \A i \in S : Mem!Live(q[i])
      /\ Len(q) > 0 /\ Mem!Live(q[Len(q)]) => Len(q) \in S
  BY <1>1
<1>3. k = [n \in 1 .. c |-> q[e(n)]]
  BY DEF Mem!Kept, Mem!Cardinality, Cardinality
<1>4. \A i, j \in S : <<i, j>> \in R <=> i < j
  OBVIOUS
<1>5. \A i : e(i) = CHOOSE j \in S : Cardinality({l \in S : l < j}) = i - 1
  OBVIOUS
<1> HIDE DEF S, R, e, k
<1>6. Orders(R, S)
  BY <1>1, <1>4 DEF Orders
<1>7. IsFiniteSet(S) /\ c \in Nat /\ c <= Len(q)
  <2> DEFINE D == 1 .. Len(q)
  <2>1. /\ IsFiniteSet(D)
        /\ Cardinality(D) = IF 1 > Len(q) THEN 0 ELSE Len(q) - 1 + 1
    BY <1>1, FS_Interval
  <2>2. Cardinality(D) = Len(q)
    BY <1>1, <2>1
  <2>3. S \in SUBSET D
    BY <1>1
  <2> HIDE DEF D
  <2>4. IsFiniteSet(S) /\ Cardinality(S) <= Cardinality(D)
    BY <2>1, <2>3, FS_Subset
  <2>5. QED BY <2>2, <2>4, FS_CardinalityType
<1>8. \A i \in S : Place(R, S, i) = Cardinality({j \in S : j < i})
  <2>1. \A i \in S : {j \in S : <<j, i>> \in R} = {j \in S : j < i}
    BY <1>4
  <2>2. QED BY <2>1 DEF Place
<1>9. \A n \in 1 .. c : (\E i \in S : Place(R, S, i) = n - 1)
                          => e(n) \in S /\ Place(R, S, e(n)) = n - 1
  <2> SUFFICES ASSUME NEW n \in 1 .. c, \E i \in S : Place(R, S, i) = n - 1
               PROVE  e(n) \in S /\ Place(R, S, e(n)) = n - 1
    OBVIOUS
  <2>1. \E i \in S : Cardinality({j \in S : j < i}) = n - 1
    BY <1>8
  <2>2. e(n) \in S /\ Cardinality({j \in S : j < e(n)}) = n - 1
    BY <1>5, <2>1
  <2>3. QED BY <1>8, <2>2
<1>10. DOMAIN f = 1 .. c /\ \A n \in 1 .. c : f[n] = e(n)
  OBVIOUS
<1> HIDE DEF f
<1>11. /\ \A n \in 1 .. c : f[n] \in S
       /\ \A m, n \in 1 .. c : m < n => <<f[m], f[n]>> \in R
       /\ \A i \in S : \E n \in 1 .. c : f[n] = i
  <2>1. \A n \in 1 .. c : (\E i \in S : Place(R, S, i) = n - 1)
                             => f[n] \in S /\ Place(R, S, f[n]) = n - 1
    BY <1>9, <1>10
  <2>2. QED BY <1>6, <1>7, <2>1, ListedInOrder
<1>12. \A m, n \in 1 .. c : m < n => f[m] < f[n]
  BY <1>4, <1>11
<1>13. k = [n \in 1 .. c |-> q[f[n]]]
  <2> HIDE DEF c
  <2>1. QED BY <1>3, <1>10
<1> HIDE DEF c
<1>14. f \in [1 .. c -> 1 .. Len(q)]
  <2>1. f = [n \in 1 .. c |-> f[n]]
    BY <1>10 DEF f
  <2>2. QED BY <1>1, <1>11, <2>1
<1>15. \A n \in 1 .. c : k[n] = q[f[n]] /\ q[f[n]] \in Mem!Item
  BY <1>13, <1>14, ElementOfSeq
<1>16. k \in [1 .. c -> Mem!Item]
  BY <1>13, <1>15
<1>17. k \in Seq(Mem!Item) /\ Len(k) = c
  BY <1>7, <1>16, ListIsSeq
<1>18. Within(k, q)
  BY <1>12, <1>14, <1>15, <1>17 DEF Within
<1>19. ASSUME Len(q) > 0, Mem!Live(q[Len(q)])
       PROVE  Len(k) > 0 /\ k[Len(k)] = q[Len(q)]
  <2>1. PICK n \in 1 .. c : f[n] = Len(q)
    BY <1>2, <1>11, <1>19
  <2>2. c \in 1 .. c /\ f[c] \in 1 .. Len(q)
    BY <1>7, <1>14, <2>1
  <2>3. ~(n < c)
    <3>1. n < c => f[n] < f[c]
      BY <1>12, <2>2
    <3>2. QED BY <1>1, <2>1, <2>2, <3>1
  <2>4. n = c
    BY <1>7, <2>1, <2>3
  <2>5. QED BY <1>7, <1>15, <1>17, <2>1, <2>2, <2>4
<1>20. QED BY <1>7, <1>17, <1>18, <1>19 DEF k

LEMMA LastOfFact ==
    ASSUME NEW q \in Seq(Mem!Item), NEW n \in Nat, n > 0
    PROVE  /\ Mem!LastOf(q, n) \in Seq(Mem!Item)
           /\ Len(Mem!LastOf(q, n)) <= n /\ Len(Mem!LastOf(q, n)) <= Len(q)
           /\ Len(q) > 0 => Len(Mem!LastOf(q, n)) > 0
           /\ \A i \in 1 .. Len(Mem!LastOf(q, n)) :
                Mem!LastOf(q, n)[i] = q[Len(q) - Len(Mem!LastOf(q, n)) + i]
<1> DEFINE p == Mem!LastOf(q, n)
<1>1. Len(q) \in Nat /\ \A i \in 1 .. Len(q) : q[i] \in Mem!Item
  BY LenProperties, ElementOfSeq
<1>2. CASE n >= Len(q)
  <2>1. p = q
    BY <1>2 DEF Mem!LastOf
  <2> HIDE DEF p
  <2>2. \A i \in 1 .. Len(p) : p[i] = q[Len(q) - Len(p) + i]
    BY <1>1, <2>1
  <2>3. QED BY <1>1, <1>2, <2>1, <2>2 DEF p
<1>3. CASE ~(n >= Len(q))
  <2> DEFINE a == Len(q) - n + 1
             b == Len(q)
             s == SubSeq(q, a, b)
  <2>1. p = s
    BY <1>3 DEF Mem!LastOf
  <2>2. a \in Int /\ b \in Int /\ a <= b /\ b - a + 1 = n /\ \A i \in a .. b : q[i] \in Mem!Item
    BY <1>1, <1>3
  <2>3. \A i \in 1 .. n : a + i - 1 = b - n + i
    BY <1>1
  <2> HIDE DEF a, b
  <2>4. /\ s \in Seq(Mem!Item)
        /\ Len(s) = IF a <= b THEN b - a + 1 ELSE 0
        /\ \A i \in 1 .. b - a + 1 : s[i] = q[a + i - 1]
    BY <2>2, SubSeqProperties
  <2> HIDE DEF s
  <2>5. Len(s) = n /\ \A i \in 1 .. n : s[i] = q[a + i - 1]
    BY <2>2, <2>4
  <2>6. \A i \in 1 .. n : s[i] = q[b - n + i]
    BY <2>3, <2>5
  <2> HIDE DEF p
  <2>7. QED BY <1>1, <1>3, <2>1, <2>4, <2>5, <2>6 DEF p, b
<1>4. QED BY <1>2, <1>3

-----------------------------------------------------------------------------
(* Rings keep their order through pushes and purges.                       *)

LEMMA RingKept ==
    ASSUME NEW q \in Mem!Deque, NEW n \in Nat, Ring(q, n),
           NEW p \in Seq(Mem!Item), Len(p) <= Len(q.items), Within(p, q.items)
    PROVE  [q EXCEPT !.items = p] \in Mem!Deque /\ Ring([q EXCEPT !.items = p], n)
<1> DEFINE r == [q EXCEPT !.items = p]
           s == q.items
<1>1. r \in Mem!Deque /\ r.items = p /\ r.max = q.max
  BY DEF Mem!Deque
<1>2. s \in Seq(Mem!Item) /\ q.max \in Nat /\ Len(s) \in Nat /\ Len(p) \in Nat
  BY LenProperties DEF Mem!Deque
<1>3. \A i \in 1 .. Len(s) : s[i].val \in Nat
  <2>1. \A i \in 1 .. Len(s) : s[i] \in Mem!Item
    BY <1>2, ElementOfSeq
  <2>2. QED BY <2>1 DEF Mem!Item
<1>4. /\ q.max > 0 /\ Len(s) <= q.max
      /\ \A i \in 1 .. Len(s) : s[i].val < n
      /\ \A i, j \in 1 .. Len(s) : i < j => s[i].val < s[j].val
  BY DEF Ring
<1> HIDE DEF r, s
<1>5. PICK f \in [1 .. Len(p) -> 1 .. Len(s)] :
        /\ \A i, j \in 1 .. Len(p) : i < j => f[i] < f[j]
        /\ \A i \in 1 .. Len(p) : p[i] = s[f[i]]
  BY DEF Within, s
<1>6. \A i \in 1 .. Len(p) : f[i] \in 1 .. Len(s) /\ p[i].val = s[f[i]].val
  BY <1>5
<1>7. \A i \in 1 .. Len(p) : p[i].val < n
  BY <1>4, <1>6
<1>8. \A i, j \in 1 .. Len(p) : i < j => p[i].val < p[j].val
  <2> SUFFICES ASSUME NEW i \in 1 .. Len(p), NEW j \in 1 .. Len(p), i < j
               PROVE  p[i].val < p[j].val
    OBVIOUS
  <2>1. f[i] < f[j] /\ f[i] \in 1 .. Len(s) /\ f[j] \in 1 .. Len(s)
    BY <1>5, <1>6
  <2>2. s[f[i]].val < s[f[j]].val
    BY <1>4, <2>1
  <2>3. QED BY <1>6, <2>2
<1>9. Len(p) <= q.max
  BY <1>2, <1>4 DEF s
<1>10. Ring(r, n)
  BY <1>1, <1>4, <1>7, <1>8, <1>9 DEF Ring
<1>11. QED BY <1>1, <1>10 DEF r

LEMMA BufferTypes ==
    ASSUME MemInv, NEW b \in Buffers
    PROVE  /\ bufs[b] # None => /\ bufs[b] \in Mem!Deque /\ bufs[b].items \in Seq(Mem!Item)
                                /\ bufs[b].max \in Nat /\ Ring(bufs[b], count)
           /\ Mem!Content(b) = IF bufs[b] = None THEN <<>> ELSE bufs[b].items
           /\ Mem!Content(b) \in Seq(Mem!Item)
<1>1. bufs[b] # None => /\ bufs[b] \in Mem!Deque /\ bufs[b].items \in Seq(Mem!Item)
                        /\ bufs[b].max \in Nat /\ Ring(bufs[b], count)
  BY DEF MemInv, Mem!TypeOK, Mem!Deque, RingInv
<1>2. QED BY <1>1, EmptySeq DEF Mem!Content

LEMMA PushedFact ==
    ASSUME MemInv, NEW b \in Buffers, NEW i \in Mem!Item, i.val = count, NEW limit \in Nat
    PROVE  LET q == Mem!Pushed(b, i, limit) IN
           /\ q \in Mem!Deque /\ Ring(q, count + 1) /\ Ends(q, i)
           /\ \A j \in 1 .. Len(q.items) :
                \/ q.items[j] = i
                \/ /\ bufs[b] # None
                   /\ \E m \in 1 .. Len(bufs[b].items) : q.items[j] = bufs[b].items[m]
<1> DEFINE max == IF bufs[b] # None THEN bufs[b].max ELSE IF limit = 0 THEN 1 ELSE limit
           s == Mem!Content(b)
           a == Append(s, i)
           p == Mem!LastOf(a, max)
           q == Mem!Pushed(b, i, limit)
<1>1. s \in Seq(Mem!Item) /\ (s = IF bufs[b] = None THEN <<>> ELSE bufs[b].items)
  BY BufferTypes
<1>2. bufs[b] # None => Ring(bufs[b], count) /\ bufs[b].max \in Nat
  BY BufferTypes
<1>3. max \in Nat /\ max > 0
  BY <1>2 DEF Ring
<1>4. q = [items |-> p, max |-> max]
  BY DEF Mem!Pushed
<1>5. count \in Nat
  BY DEF MemInv, Mem!TypeOK
<1> HIDE DEF s, max, q
<1>6. /\ a \in Seq(Mem!Item) /\ Len(a) = Len(s) + 1 /\ a[Len(s) + 1] = i
      /\ \A j \in 1 .. Len(s) : a[j] = s[j]
      /\ Len(s) \in Nat
  BY <1>1, AppendProperties, LenProperties
<1> HIDE DEF a
<1>7. /\ p \in Seq(Mem!Item) /\ Len(p) <= max /\ Len(p) <= Len(a)
      /\ Len(a) > 0 => Len(p) > 0
      /\ \A j \in 1 .. Len(p) : p[j] = a[Len(a) - Len(p) + j]
  BY <1>3, <1>6, LastOfFact
<1> HIDE DEF p
<1>8. Len(p) \in Nat /\ Len(p) > 0
  BY <1>6, <1>7, LenProperties
<1>9. q \in Mem!Deque /\ q.items = p /\ q.max = max
  BY <1>3, <1>4, <1>7 DEF Mem!Deque
<1>10. /\ \A j \in 1 .. Len(s) : s[j].val \in Nat /\ s[j].val < count
       /\ \A j, m \in 1 .. Len(s) : j < m => s[j].val < s[m].val
  <2>1. CASE bufs[b] = None
    <3>1. Len(s) = 0
      BY <1>1, <2>1, EmptySeq
    <3>2. QED BY <3>1
  <2>2. CASE bufs[b] # None
    <3>1. \A j \in 1 .. Len(s) : s[j] \in Mem!Item
      BY <1>1, ElementOfSeq
    <3>2. \A j \in 1 .. Len(s) : s[j].val \in Nat
      BY <3>1 DEF Mem!Item
    <3>3. QED BY <1>1, <1>2, <2>2, <3>2 DEF Ring
  <2>3. QED BY <2>1, <2>2
<1>11. \A j \in 1 .. Len(a) : a[j].val \in Nat /\ a[j].val < count + 1
  <2> SUFFICES ASSUME NEW j \in 1 .. Len(a) PROVE a[j].val \in Nat /\ a[j].val < count + 1
    OBVIOUS
  <2>1. CASE j = Len(s) + 1
    BY <1>5, <1>6, <2>1
  <2>2. CASE j \in 1 .. Len(s)
    <3>1. a[j].val \in Nat /\ a[j].val < count
      BY <1>6, <1>10, <2>2
    <3>2. QED BY <1>5, <3>1
  <2>3. QED BY <1>6, <2>1, <2>2
<1>12. \A j, m \in 1 .. Len(a) : j < m => a[j].val < a[m].val
  <2> SUFFICES ASSUME NEW j \in 1 .. Len(a), NEW m \in 1 .. Len(a), j < m
               PROVE  a[j].val < a[m].val
    OBVIOUS
  <2>1. j \in 1 .. Len(s) /\ a[j] = s[j]
    BY <1>6
  <2>2. CASE m = Len(s) + 1
    BY <1>5, <1>6, <1>10, <2>1, <2>2
  <2>3. CASE m \in 1 .. Len(s)
    BY <1>6, <1>10, <2>1, <2>3
  <2>4. QED BY <1>6, <2>2, <2>3
<1> DEFINE d == Len(a) - Len(p)
<1>13. d \in Nat /\ \A j \in 1 .. Len(p) : d + j \in 1 .. Len(a) /\ p[j] = a[d + j]
  BY <1>6, <1>7, <1>8
<1>14. p[Len(p)] = i
  <2>1. Len(p) \in 1 .. Len(p) /\ d + Len(p) = Len(s) + 1
    BY <1>6, <1>8
  <2> HIDE DEF d
  <2>2. QED BY <1>6, <1>13, <2>1
<1> HIDE DEF d
<1>15. Ring(q, count + 1)
  <2>1. \A j \in 1 .. Len(p) : p[j].val < count + 1
    BY <1>11, <1>13
  <2>2. \A j, m \in 1 .. Len(p) : j < m => p[j].val < p[m].val
    <3> SUFFICES ASSUME NEW j \in 1 .. Len(p), NEW m \in 1 .. Len(p), j < m
                 PROVE  p[j].val < p[m].val
      OBVIOUS
    <3>1. d + j \in 1 .. Len(a) /\ d + m \in 1 .. Len(a) /\ d + j < d + m
      BY <1>8, <1>13
    <3>2. a[d + j].val < a[d + m].val
      BY <1>12, <3>1
    <3>3. QED BY <1>13, <3>2
  <2>3. QED BY <1>3, <1>7, <1>9, <2>1, <2>2 DEF Ring
<1>16. Ends(q, i)
  BY <1>8, <1>9, <1>14 DEF Ends
<1>17. ASSUME NEW j \in 1 .. Len(p)
       PROVE  \/ p[j] = i
              \/ bufs[b] # None /\ \E m \in 1 .. Len(bufs[b].items) : p[j] = bufs[b].items[m]
  <2>1. PICK m \in 1 .. Len(a) : p[j] = a[m]
    BY <1>13
  <2>2. CASE m = Len(s) + 1
    BY <1>6, <2>1, <2>2
  <2>3. CASE m \in 1 .. Len(s)
    <3>1. bufs[b] # None
      <4>1. bufs[b] = None => Len(s) = 0
        BY <1>1, EmptySeq
      <4>2. QED BY <2>3, <4>1
    <3>2. s = bufs[b].items
      BY <1>1, <3>1
    <3>3. QED BY <1>6, <2>1, <2>3, <3>1, <3>2
  <2>4. QED BY <1>6, <2>2, <2>3
<1>18. QED BY <1>9, <1>15, <1>16, <1>17 DEF q

-----------------------------------------------------------------------------
(* Operations of the cache.                                                *)

LEMMA InitMemInv == Mem!Init => MemInv
<1> SUFFICES ASSUME Mem!Init PROVE MemInv
  OBVIOUS
<1>1. Mem!TypeOK
  BY DEF Mem!Init, Mem!TypeOK, Mem!Nothing
<1>2. WorkInv /\ RingInv /\ NewestInv /\ FreshInv /\ CountInv
  BY DEF Mem!Init, WorkInv, RingInv, NewestInv, FreshInv, CountInv
<1>3. QED BY <1>1, <1>2 DEF MemInv

LEMMA TypedTimes ==
    ASSUME MemInv
    PROVE  /\ clock \in Nat /\ count \in Nat /\ epoch \in Nat
           /\ \A ttl \in {0, 1} : Mem!Until(ttl) \in Nat
           /\ cache \in [CacheKeys -> Mem!Item \cup {None}]
           /\ sum \in [CacheKeys -> Nat]
           /\ lock \in Scripts \cup {None}
           /\ work \in [cell : Mem!Cells \cup {None}, item : Mem!Item \cup {None},
                        q : Mem!Deque \cup {None}]
           /\ bufs \in [Buffers -> Mem!Deque \cup {None}]
           /\ newest \in [Buffers -> Mem!Item \cup {None}]
BY DEF MemInv, Mem!TypeOK, Mem!Until

(* Later a ring is one still: its values are of earlier operations.        *)
LEMMA RingLater ==
    ASSUME NEW q \in Mem!Deque, NEW n \in Nat, Ring(q, n)
    PROVE  Ring(q, n + 1)
<1> DEFINE s == q.items
<1>1. s \in Seq(Mem!Item)
  BY DEF Mem!Deque
<1>2. \A i \in 1 .. Len(s) : s[i] \in Mem!Item
  BY <1>1, ElementOfSeq
<1>3. \A i \in 1 .. Len(s) : s[i].val \in Nat /\ s[i].val < n
  BY <1>2 DEF Mem!Item, Ring
<1>4. \A i \in 1 .. Len(s) : s[i].val < n + 1
  BY <1>3
<1>5. QED BY <1>4 DEF Ring

LEMMA RingsLater ==
    ASSUME MemInv, count' = count \/ count' = count + 1,
           bufs' = bufs, work'.q = work.q \/ work'.q = None \/ lock' = None,
           lock' # None /\ work'.q # None => lock # None
    PROVE  RingInv'
<1>1. \A q \in Mem!Deque : Ring(q, count) => Ring(q, count')
  BY TypedTimes, RingLater
<1>2. \A b \in Buffers : bufs[b] # None => Ring(bufs[b], count')
  BY <1>1, BufferTypes
<1>3. lock' # None /\ work'.q # None => Ring(work'.q, count')
  <2> SUFFICES ASSUME lock' # None, work'.q # None PROVE Ring(work'.q, count')
    OBVIOUS
  <2>1. work'.q = work.q /\ lock # None
    OBVIOUS
  <2>2. work.q \in Mem!Deque /\ Ring(work.q, count)
    BY <2>1, TypedTimes DEF MemInv, RingInv
  <2>3. QED BY <1>1, <2>1, <2>2
<1>4. QED BY <1>2, <1>3 DEF RingInv

LEMMA SetOK ==
    ASSUME MemInv, NEW k \in CacheKeys, NEW ttl \in {0, 1}, Mem!CacheSet(k, ttl)
    PROVE  MemInv'
<1> DEFINE i == [val |-> 0, exp |-> Mem!Until(ttl), of |-> epoch]
<1>1. /\ lock = None /\ count' = count + 1
      /\ cache' = [cache EXCEPT ![k] = i] /\ sum' = [sum EXCEPT ![k] = 0]
      /\ clock' = clock /\ epoch' = epoch /\ rotating' = rotating /\ raced' = raced
      /\ bufs' = bufs /\ lock' = lock /\ work' = work /\ newest' = newest
  BY DEF Mem!CacheSet, Mem!Operates, Mem!MemoryOnly
<1>2. i \in Mem!Item /\ i.val = 0 /\ i.of = epoch
  BY TypedTimes DEF Mem!Item
<1> HIDE DEF i
<1>3. Mem!TypeOK'
  BY <1>1, <1>2, TypedTimes DEF MemInv, Mem!TypeOK
<1>4. RingInv'
  BY <1>1, RingsLater
<1>5. WorkInv' /\ NewestInv'
  BY <1>1 DEF MemInv, WorkInv, NewestInv, Mem!Live, Ends
<1>6. FreshInv'
  BY <1>1, <1>2, TypedTimes DEF MemInv, FreshInv, Fresh
<1>7. CountInv'
  BY <1>1, <1>2, TypedTimes DEF MemInv, CountInv
<1>8. QED BY <1>3, <1>4, <1>5, <1>6, <1>7 DEF MemInv

LEMMA DropOK ==
    ASSUME MemInv, NEW S \in SUBSET CacheKeys, Mem!DropKeys(S), lock = None,
           count' = count \/ count' = count + 1
    PROVE  MemInv'
<1>1. /\ cache' = [k \in CacheKeys |-> IF k \in S THEN None ELSE cache[k]]
      /\ sum' = [k \in CacheKeys |-> IF k \in S THEN 0 ELSE sum[k]]
      /\ clock' = clock /\ epoch' = epoch /\ rotating' = rotating /\ raced' = raced
      /\ bufs' = bufs /\ lock' = lock /\ work' = work /\ newest' = newest
  BY DEF Mem!DropKeys, Mem!MemoryOnly
<1>2. /\ cache' \in [CacheKeys -> Mem!Item \cup {None}] /\ sum' \in [CacheKeys -> Nat]
      /\ count' \in Nat
  BY <1>1, TypedTimes
<1>3. Mem!TypeOK'
  BY <1>1, <1>2 DEF MemInv, Mem!TypeOK
<1>4. RingInv'
  BY <1>1, RingsLater
<1>5. WorkInv' /\ NewestInv'
  BY <1>1 DEF MemInv, WorkInv, NewestInv, Mem!Live, Ends
<1>6. FreshInv'
  BY <1>1 DEF MemInv, FreshInv, Fresh
<1>7. CountInv'
  BY <1>1 DEF MemInv, CountInv
<1>8. QED BY <1>3, <1>4, <1>5, <1>6, <1>7 DEF MemInv

LEMMA IncrReadsOK ==
    ASSUME MemInv, NEW t \in Scripts, NEW k \in CacheKeys, Mem!IncrReads(t, k)
    PROVE  MemInv'
<1> DEFINE i == IF Mem!Found(k) THEN cache[k] ELSE None
<1>1. /\ lock = None /\ count' = count + 1 /\ lock' = t
      /\ work' = [cell |-> k, item |-> i, q |-> None]
      /\ cache' = [cache EXCEPT ![k] = IF Mem!Found(k) THEN @ ELSE None]
      /\ sum' = [sum EXCEPT ![k] = IF Mem!Found(k) THEN @ ELSE 0]
      /\ clock' = clock /\ epoch' = epoch /\ rotating' = rotating /\ raced' = raced
      /\ bufs' = bufs /\ newest' = newest
  BY DEF Mem!IncrReads, Mem!Operates, Mem!MemoryOnly
<1>2. i \in Mem!Item \cup {None}
  BY TypedTimes
<1>3. cache' = [cache EXCEPT ![k] = i] /\ work'.cell = k /\ work'.item = i /\ work'.q = None
  BY <1>1
<1>4. sum'[k] = IF Mem!Found(k) THEN sum[k] ELSE 0
  BY <1>1, TypedTimes
<1>5. i # None => i = cache[k] /\ sum'[k] = sum[k]
  BY <1>4
<1>6. \A l \in CacheKeys \ {k} : sum'[l] = sum[l]
  BY <1>1, TypedTimes
<1>7. k \notin Buffers
  BY MemoryAssumption
<1>8. sum' \in [CacheKeys -> Nat]
  BY <1>1, <1>4, TypedTimes
<1>9. work' \in [cell : Mem!Cells \cup {None}, item : Mem!Item \cup {None},
                 q : Mem!Deque \cup {None}]
  BY <1>1, <1>2 DEF Mem!Cells
<1> HIDE DEF i
<1>10. cache' \in [CacheKeys -> Mem!Item \cup {None}] /\ cache'[k] = i
       /\ \A l \in CacheKeys \ {k} : cache'[l] = cache[l]
  BY <1>2, <1>3, TypedTimes
<1>11. Mem!TypeOK'
  BY <1>1, <1>8, <1>9, <1>10 DEF MemInv, Mem!TypeOK
<1>12. RingInv'
  BY <1>1, <1>3, RingsLater
<1>13. WorkInv'
  BY <1>3, <1>7, <1>10 DEF WorkInv
<1>14. NewestInv'
  BY <1>1 DEF MemInv, NewestInv, Mem!Live, Ends
<1>15. FreshInv'
  BY <1>1, <1>5, <1>10 DEF MemInv, FreshInv, Fresh
<1>16. CountInv'
  <2>1. k \notin raced => sum'[k] = IF i = None THEN 0 ELSE i.val
    BY <1>4, <1>5 DEF MemInv, CountInv, i
  <2>2. QED BY <1>1, <1>6, <1>10, <2>1 DEF MemInv, CountInv
<1>17. QED BY <1>11, <1>12, <1>13, <1>14, <1>15, <1>16 DEF MemInv

LEMMA IncrWritesOK ==
    ASSUME MemInv, NEW t \in Scripts, NEW ttl \in {0, 1}, Mem!IncrWrites(t, ttl)
    PROVE  MemInv'
<1> DEFINE k == work.cell
           i == [val |-> IF work.item = None THEN 1 ELSE work.item.val + 1,
                 exp |-> Mem!Until(ttl),
                 of |-> IF work.item = None THEN epoch ELSE work.item.of]
<1>1. /\ lock = t /\ k \in CacheKeys /\ lock' = None /\ work' = Mem!Nothing
      /\ cache' = [cache EXCEPT ![k] = i] /\ sum' = [sum EXCEPT ![k] = @ + 1]
      /\ clock' = clock /\ epoch' = epoch /\ rotating' = rotating /\ raced' = raced
      /\ bufs' = bufs /\ newest' = newest /\ count' = count
  BY DEF Mem!IncrWrites, Mem!MemoryOnly
<1>2. lock # None
  BY <1>1, MemoryAssumption
<1>3. work.item # None => work.item \in Mem!Item /\ work.item.val \in Nat /\ work.item.of \in Nat
  BY TypedTimes DEF Mem!Item
<1>4. i \in Mem!Item
  BY <1>3, TypedTimes DEF Mem!Item
<1>5. /\ i.val = IF work.item = None THEN 1 ELSE work.item.val + 1
      /\ i.of = IF work.item = None THEN epoch ELSE work.item.of
  OBVIOUS
<1>6. k \notin raced => work.item = cache[k]
  BY <1>1, <1>2 DEF MemInv, WorkInv
<1> HIDE DEF i
<1>7. /\ cache' \in [CacheKeys -> Mem!Item \cup {None}] /\ cache'[k] = i
      /\ \A l \in CacheKeys \ {k} : cache'[l] = cache[l]
  BY <1>1, <1>4, TypedTimes
<1>8. /\ sum' \in [CacheKeys -> Nat] /\ sum'[k] = sum[k] + 1
      /\ \A l \in CacheKeys \ {k} : sum'[l] = sum[l]
  BY <1>1, TypedTimes
<1>9. Mem!TypeOK'
  <2>1. work' \in [cell : Mem!Cells \cup {None}, item : Mem!Item \cup {None},
                   q : Mem!Deque \cup {None}]
    BY <1>1 DEF Mem!Nothing
  <2>2. QED BY <1>1, <1>7, <1>8, <2>1 DEF MemInv, Mem!TypeOK
<1>10. RingInv'
  BY <1>1, RingsLater
<1>11. WorkInv' /\ NewestInv'
  BY <1>1 DEF MemInv, WorkInv, NewestInv, Mem!Live, Ends
<1>12. k \in Session \ raced => i.of = epoch
  BY <1>1, <1>5, <1>6 DEF MemInv, FreshInv
<1>13. FreshInv'
  BY <1>1, <1>7, <1>12 DEF MemInv, FreshInv, Fresh
<1>14. k \notin raced => i.val = sum'[k]
  <2> SUFFICES ASSUME k \notin raced PROVE i.val = sum'[k]
    OBVIOUS
  <2>1. sum[k] = IF cache[k] = None THEN 0 ELSE cache[k].val
    BY <1>1 DEF MemInv, CountInv
  <2>2. QED BY <1>5, <1>6, <1>8, <2>1
<1>15. CountInv'
  BY <1>1, <1>4, <1>7, <1>8, <1>14, MemoryAssumption DEF MemInv, CountInv
<1>16. QED BY <1>9, <1>10, <1>11, <1>13, <1>15 DEF MemInv

-----------------------------------------------------------------------------
(* Operations of the buffers.                                              *)

LEMMA ClearOK ==
    ASSUME MemInv, NEW b \in Buffers, Mem!BufferClear(b)
    PROVE  MemInv'
<1>1. /\ lock = None /\ count' = count + 1
      /\ bufs' = [bufs EXCEPT ![b] = None] /\ newest' = [newest EXCEPT ![b] = None]
      /\ clock' = clock /\ epoch' = epoch /\ rotating' = rotating /\ raced' = raced
      /\ cache' = cache /\ lock' = lock /\ work' = work /\ sum' = sum
  BY DEF Mem!BufferClear, Mem!Operates, Mem!MemoryOnly
<1>2. /\ bufs' \in [Buffers -> Mem!Deque \cup {None}] /\ bufs'[b] = None
      /\ \A c \in Buffers \ {b} : bufs'[c] = bufs[c]
      /\ newest' \in [Buffers -> Mem!Item \cup {None}] /\ newest'[b] = None
      /\ \A c \in Buffers \ {b} : newest'[c] = newest[c]
  BY <1>1, TypedTimes
<1>3. Mem!TypeOK'
  BY <1>1, <1>2, TypedTimes DEF MemInv, Mem!TypeOK
<1>4. RingInv'
  <2>1. \A q \in Mem!Deque : Ring(q, count) => Ring(q, count')
    BY <1>1, TypedTimes, RingLater
  <2>2. \A c \in Buffers : bufs'[c] # None => Ring(bufs'[c], count')
    BY <1>2, <2>1, BufferTypes
  <2>3. QED BY <1>1, <2>2 DEF RingInv
<1>5. WorkInv' /\ CountInv'
  BY <1>1 DEF MemInv, WorkInv, CountInv
<1>6. NewestInv'
  BY <1>1, <1>2 DEF MemInv, NewestInv, Mem!Live, Ends
<1>7. FreshInv'
  BY <1>1, <1>2 DEF MemInv, FreshInv, Fresh
<1>8. QED BY <1>3, <1>4, <1>5, <1>6, <1>7 DEF MemInv

LEMMA ReadsOK ==
    ASSUME MemInv, NEW t \in Scripts, NEW b \in Buffers, Mem!Reads(t, b)
    PROVE  MemInv'
<1>1. /\ lock = None /\ count' = count + 1 /\ lock' = t
      /\ work' = [cell |-> b, item |-> None, q |-> bufs[b]]
      /\ clock' = clock /\ epoch' = epoch /\ rotating' = rotating /\ raced' = raced
      /\ cache' = cache /\ bufs' = bufs /\ sum' = sum /\ newest' = newest
  BY DEF Mem!Reads, Mem!Operates, Mem!MemoryOnly
<1>2. /\ work'.cell = b /\ work'.q = bufs[b] /\ b \notin CacheKeys
      /\ work' \in [cell : Mem!Cells \cup {None}, item : Mem!Item \cup {None},
                    q : Mem!Deque \cup {None}]
  BY <1>1, TypedTimes, MemoryAssumption DEF Mem!Cells
<1>3. Mem!TypeOK'
  BY <1>1, <1>2, TypedTimes DEF MemInv, Mem!TypeOK
<1>4. RingInv'
  <2>1. \A q \in Mem!Deque : Ring(q, count) => Ring(q, count')
    BY <1>1, TypedTimes, RingLater
  <2>2. \A c \in Buffers : bufs[c] # None => Ring(bufs[c], count')
    BY <2>1, BufferTypes
  <2>3. QED BY <1>1, <1>2, <2>2 DEF RingInv
<1>5. WorkInv'
  BY <1>1, <1>2 DEF WorkInv
<1>6. NewestInv' /\ FreshInv' /\ CountInv'
  BY <1>1 DEF MemInv, NewestInv, Mem!Live, Ends, FreshInv, Fresh, CountInv
<1>7. QED BY <1>3, <1>4, <1>5, <1>6 DEF MemInv

LEMMA PushOK ==
    ASSUME MemInv, NEW t \in Scripts, NEW b \in Buffers, NEW limit \in Limits,
           NEW ttl \in {0, 1}, Mem!Push(t, b, limit, ttl)
    PROVE  MemInv'
<1> DEFINE i == [val |-> count, exp |-> Mem!Until(ttl), of |-> epoch]
           q == Mem!Pushed(b, i, limit)
<1>1. /\ lock = None /\ count' = count + 1 /\ lock' = t
      /\ bufs' = [bufs EXCEPT ![b] = q] /\ newest' = [newest EXCEPT ![b] = i]
      /\ work' = [cell |-> b, item |-> None, q |-> q]
      /\ clock' = clock /\ epoch' = epoch /\ rotating' = rotating /\ raced' = raced
      /\ cache' = cache /\ sum' = sum
  BY DEF Mem!Push, Mem!Operates, Mem!MemoryOnly
<1>2. i \in Mem!Item /\ i.val = count /\ i.of = epoch
  BY TypedTimes DEF Mem!Item
<1>3. limit \in Nat /\ b \notin CacheKeys
  BY MemoryAssumption
<1> HIDE DEF i
<1>4. /\ q \in Mem!Deque /\ Ring(q, count + 1) /\ Ends(q, i)
      /\ \A j \in 1 .. Len(q.items) :
           \/ q.items[j] = i
           \/ /\ bufs[b] # None
              /\ \E m \in 1 .. Len(bufs[b].items) : q.items[j] = bufs[b].items[m]
  BY <1>2, <1>3, PushedFact
<1> HIDE DEF q
<1>5. /\ work'.cell = b /\ work'.q = q
      /\ work' \in [cell : Mem!Cells \cup {None}, item : Mem!Item \cup {None},
                    q : Mem!Deque \cup {None}]
  BY <1>1, <1>4 DEF Mem!Cells
<1>6. /\ bufs' \in [Buffers -> Mem!Deque \cup {None}] /\ bufs'[b] = q
      /\ \A c \in Buffers \ {b} : bufs'[c] = bufs[c]
      /\ newest' \in [Buffers -> Mem!Item \cup {None}] /\ newest'[b] = i
      /\ \A c \in Buffers \ {b} : newest'[c] = newest[c]
  BY <1>1, <1>2, <1>4, TypedTimes
<1>7. Mem!TypeOK'
  BY <1>1, <1>5, <1>6, TypedTimes DEF MemInv, Mem!TypeOK
<1>8. RingInv'
  <2>1. \A r \in Mem!Deque : Ring(r, count) => Ring(r, count')
    BY <1>1, TypedTimes, RingLater
  <2>2. \A c \in Buffers : bufs'[c] # None => Ring(bufs'[c], count')
    BY <1>1, <1>4, <1>6, <2>1, BufferTypes
  <2>3. QED BY <1>1, <1>4, <1>5, <2>2 DEF RingInv
<1>9. WorkInv'
  BY <1>3, <1>5, <1>6 DEF WorkInv
<1>10. NewestInv'
  <2>1. q # None
    BY <1>4, MemoryAssumption
  <2>2. QED BY <1>1, <1>4, <1>6, <2>1 DEF MemInv, NewestInv, Mem!Live, Ends
<1>11. FreshInv'
  <2>1. b \in Session \ raced /\ rotating = "no" => Fresh(q)
    BY <1>2, <1>4 DEF MemInv, FreshInv, Fresh
  <2>2. QED BY <1>1, <1>6, <2>1 DEF MemInv, FreshInv, Fresh
<1>12. CountInv'
  BY <1>1 DEF MemInv, CountInv
<1>13. QED BY <1>7, <1>8, <1>9, <1>10, <1>11, <1>12 DEF MemInv

(* A purge stores what it has read less the expired, in the order it had.  *)
LEMMA PurgesOK ==
    ASSUME MemInv, NEW t \in Scripts, Mem!Purges(t)
    PROVE  MemInv'
<1> DEFINE b == work.cell
           kept == [work.q EXCEPT !.items = Mem!Kept(@)]
           all == work.q = None \/ \A i \in Mem!Range(work.q.items) : Mem!Live(i)
           q == IF all THEN bufs[b] ELSE kept
<1>1. /\ lock = t /\ b \in Buffers /\ lock' = None /\ work' = Mem!Nothing
      /\ bufs' = [bufs EXCEPT ![b] = q]
      /\ clock' = clock /\ epoch' = epoch /\ rotating' = rotating /\ raced' = raced
      /\ cache' = cache /\ sum' = sum /\ newest' = newest /\ count' = count
  BY DEF Mem!Purges, Mem!MemoryOnly
<1>2. lock # None
  BY <1>1, MemoryAssumption
<1> HIDE DEF all
<1>3. ~all => work.q # None
  BY DEF all
<1>4. ASSUME ~all
      PROVE  /\ kept \in Mem!Deque /\ Ring(kept, count)
             /\ Within(kept.items, work.q.items)
             /\ \A i : Ends(work.q, i) /\ Mem!Live(i) => Ends(kept, i)
  <2> DEFINE s == work.q.items
             k == Mem!Kept(s)
  <2>1. work.q \in Mem!Deque /\ Ring(work.q, count) /\ s \in Seq(Mem!Item)
    BY <1>2, <1>3, <1>4, TypedTimes DEF MemInv, RingInv, Mem!Deque
  <2>2. kept = [work.q EXCEPT !.items = k]
    OBVIOUS
  <2>3. kept.items = k
    BY <2>1, <2>2 DEF Mem!Deque
  <2> HIDE DEF k, kept
  <2>4. /\ k \in Seq(Mem!Item) /\ Len(k) <= Len(s) /\ Within(k, s)
        /\ Len(s) > 0 /\ Mem!Live(s[Len(s)]) => Len(k) > 0 /\ k[Len(k)] = s[Len(s)]
    BY <2>1, KeptFact DEF k
  <2>5. kept \in Mem!Deque /\ Ring(kept, count)
    BY <2>1, <2>2, <2>4, TypedTimes, RingKept
  <2>6. QED BY <2>3, <2>4, <2>5 DEF Ends
<1>5. q \in Mem!Deque \cup {None} /\ (q # None => Ring(q, count))
  BY <1>1, <1>4, TypedTimes, BufferTypes
<1>6. b \notin raced => work.q = bufs[b]
  BY <1>1, <1>2 DEF MemInv, WorkInv
<1>7. ASSUME b \notin raced, newest[b] # None, Mem!Live(newest[b])
      PROVE  q # None /\ Ends(q, newest[b])
  <2>1. bufs[b] # None /\ Ends(bufs[b], newest[b])
    BY <1>1, <1>7 DEF MemInv, NewestInv
  <2>2. CASE all
    BY <2>1, <2>2
  <2>3. CASE ~all
    <3>1. q = kept /\ work.q = bufs[b]
      BY <1>6, <1>7, <2>3
    <3> HIDE DEF q, kept
    <3>2. Ends(kept, newest[b])
      BY <1>4, <1>7, <2>1, <2>3, <3>1
    <3>3. QED BY <1>4, <2>3, <3>1, <3>2, MemoryAssumption
  <2>4. QED BY <2>2, <2>3
<1>8. ASSUME b \in Session \ raced, rotating = "no", q # None
      PROVE  Fresh(q)
  <2>1. bufs[b] # None => Fresh(bufs[b])
    BY <1>1, <1>8 DEF MemInv, FreshInv
  <2>2. CASE all
    BY <1>8, <2>1, <2>2
  <2>3. CASE ~all
    <3>1. q = kept /\ work.q = bufs[b] /\ bufs[b] # None
      BY <1>3, <1>6, <1>8, <2>3
    <3> HIDE DEF q, kept
    <3>2. Within(kept.items, bufs[b].items) /\ Fresh(bufs[b])
      BY <1>4, <2>1, <2>3, <3>1
    <3>3. PICK f \in [1 .. Len(kept.items) -> 1 .. Len(bufs[b].items)] :
            \A n \in 1 .. Len(kept.items) : kept.items[n] = bufs[b].items[f[n]]
      BY <3>2 DEF Within
    <3>4. \A n \in 1 .. Len(kept.items) : kept.items[n].of = epoch
      BY <3>2, <3>3 DEF Fresh
    <3>5. QED BY <3>1, <3>4 DEF Fresh
  <2>4. QED BY <2>2, <2>3
<1> HIDE DEF q, kept
<1>9. /\ bufs' \in [Buffers -> Mem!Deque \cup {None}] /\ bufs'[b] = q
      /\ \A c \in Buffers \ {b} : bufs'[c] = bufs[c]
  BY <1>1, <1>5, TypedTimes
<1>10. Mem!TypeOK'
  <2>1. work' \in [cell : Mem!Cells \cup {None}, item : Mem!Item \cup {None},
                   q : Mem!Deque \cup {None}]
    BY <1>1 DEF Mem!Nothing
  <2>2. QED BY <1>1, <1>9, <2>1 DEF MemInv, Mem!TypeOK
<1>11. RingInv'
  BY <1>1, <1>5, <1>9, BufferTypes DEF RingInv
<1>12. WorkInv' /\ CountInv'
  BY <1>1 DEF MemInv, WorkInv, CountInv
<1>13. NewestInv'
  BY <1>1, <1>7, <1>9 DEF MemInv, NewestInv, Mem!Live, Ends
<1>14. FreshInv'
  BY <1>1, <1>8, <1>9 DEF MemInv, FreshInv, Fresh
<1>15. QED BY <1>10, <1>11, <1>12, <1>13, <1>14 DEF MemInv

-----------------------------------------------------------------------------
(* The rotate and the clock.                                               *)

LEMMA RotateCacheOK == ASSUME MemInv, Mem!RotateClearsCache PROVE MemInv'
<1>1. /\ epoch' = epoch + 1 /\ rotating' = "buffers"
      /\ cache' = [k \in CacheKeys |-> IF k \in Session THEN None ELSE cache[k]]
      /\ sum' = [k \in CacheKeys |-> IF k \in Session THEN 0 ELSE sum[k]]
      /\ raced' = raced \cup (IF lock # None THEN {work.cell} \cap Session ELSE {})
      /\ bufs' = bufs /\ lock' = lock /\ work' = work /\ clock' = clock
      /\ count' = count /\ newest' = newest
  BY DEF Mem!RotateClearsCache, Mem!InTheMiddle
<1>2. raced' \subseteq Mem!Cells
  BY <1>1, MemoryAssumption DEF MemInv, Mem!TypeOK, Mem!Cells
<1>3. cache' \in [CacheKeys -> Mem!Item \cup {None}] /\ sum' \in [CacheKeys -> Nat]
  BY <1>1, TypedTimes
<1>4. Mem!TypeOK'
  BY <1>1, <1>2, <1>3, TypedTimes DEF MemInv, Mem!TypeOK
<1>5. WorkInv'
  BY <1>1 DEF MemInv, WorkInv
<1>6. RingInv' /\ NewestInv'
  BY <1>1 DEF MemInv, RingInv, NewestInv, Mem!Live, Ends, Ring
<1>7. FreshInv' /\ CountInv'
  BY <1>1 DEF MemInv, FreshInv, Fresh, CountInv
<1>8. QED BY <1>4, <1>5, <1>6, <1>7 DEF MemInv

LEMMA RotateBuffersOK == ASSUME MemInv, Mem!RotateClearsBuffers PROVE MemInv'
<1>1. /\ rotating = "buffers" /\ rotating' = "no"
      /\ bufs' = [b \in Buffers |-> IF b \in Session THEN None ELSE bufs[b]]
      /\ newest' = [b \in Buffers |-> IF b \in Session THEN None ELSE newest[b]]
      /\ raced' = raced \cup (IF lock # None THEN {work.cell} \cap Session ELSE {})
      /\ cache' = cache /\ lock' = lock /\ work' = work /\ clock' = clock
      /\ count' = count /\ epoch' = epoch /\ sum' = sum
  BY DEF Mem!RotateClearsBuffers, Mem!InTheMiddle
<1>2. raced' \subseteq Mem!Cells
  BY <1>1, MemoryAssumption DEF MemInv, Mem!TypeOK, Mem!Cells
<1>3. /\ bufs' \in [Buffers -> Mem!Deque \cup {None}]
      /\ newest' \in [Buffers -> Mem!Item \cup {None}]
  BY <1>1, TypedTimes
<1>4. Mem!TypeOK'
  BY <1>1, <1>2, <1>3, TypedTimes DEF MemInv, Mem!TypeOK
<1>5. WorkInv'
  BY <1>1 DEF MemInv, WorkInv
<1>6. RingInv'
  BY <1>1 DEF MemInv, RingInv, Ring
<1>7. NewestInv'
  BY <1>1 DEF MemInv, NewestInv, Mem!Live, Ends
<1>8. FreshInv' /\ CountInv'
  BY <1>1 DEF MemInv, FreshInv, Fresh, CountInv
<1>9. QED BY <1>4, <1>5, <1>6, <1>7, <1>8 DEF MemInv

LEMMA RotateRaisesOK == ASSUME MemInv, Mem!RotateRaises PROVE MemInv'
<1>1. /\ epoch' = (IF rotating = "no" THEN epoch + 1 ELSE epoch) /\ rotating' = "no"
      /\ raced' = raced \cup Session
      /\ bufs' = bufs /\ lock' = lock /\ work' = work /\ clock' = clock
      /\ count' = count /\ newest' = newest /\ cache' = cache /\ sum' = sum
  BY DEF Mem!RotateRaises
<1>2. raced' \subseteq Mem!Cells
  BY <1>1, MemoryAssumption DEF MemInv, Mem!TypeOK, Mem!Cells
<1>3. Mem!TypeOK'
  BY <1>1, <1>2, TypedTimes DEF MemInv, Mem!TypeOK
<1>4. WorkInv' /\ FreshInv' /\ CountInv'
  BY <1>1 DEF MemInv, WorkInv, FreshInv, CountInv
<1>5. RingInv' /\ NewestInv'
  BY <1>1 DEF MemInv, RingInv, Ring, NewestInv, Mem!Live, Ends
<1>6. QED BY <1>3, <1>4, <1>5 DEF MemInv

(* What has expired by now is not the newest that has to be there later.   *)
LEMMA TimeOK == ASSUME MemInv, Mem!TimePasses PROVE MemInv'
<1>1. /\ clock' = clock + 1
      /\ cache' = cache /\ bufs' = bufs /\ lock' = lock /\ work' = work /\ count' = count
      /\ epoch' = epoch /\ rotating' = rotating /\ raced' = raced /\ sum' = sum
      /\ newest' = newest
  BY DEF Mem!TimePasses
<1>2. Mem!TypeOK'
  BY <1>1, TypedTimes DEF MemInv, Mem!TypeOK
<1>3. WorkInv' /\ RingInv' /\ FreshInv' /\ CountInv'
  BY <1>1 DEF MemInv, WorkInv, RingInv, Ring, FreshInv, Fresh, CountInv
<1>4. NewestInv'
  <2>1. \A i \in Mem!Item : Mem!Live(i)' => Mem!Live(i)
    BY <1>1, TypedTimes DEF Mem!Live, Mem!Item
  <2>2. ASSUME NEW b \in Buffers \ raced, newest[b] # None, Mem!Live(newest[b])'
        PROVE  bufs[b] # None /\ Ends(bufs[b], newest[b])
    <3>1. newest[b] \in Mem!Item
      BY <2>2, TypedTimes
    <3>2. newest[b].exp \in Nat /\ clock \in Nat
      BY <3>1, TypedTimes DEF Mem!Item
    <3>3. Mem!Live(newest[b])
      BY <1>1, <2>2, <3>2 DEF Mem!Live
    <3>4. QED BY <2>2, <3>3 DEF MemInv, NewestInv
  <2>3. QED BY <1>1, <2>2 DEF NewestInv, Mem!Live, Ends
<1>5. QED BY <1>2, <1>3, <1>4 DEF MemInv

LEMMA NextMemInv == MemInv /\ [Mem!Next]_(Mem!vars) => MemInv'
<1> SUFFICES ASSUME MemInv, [Mem!Next]_(Mem!vars) PROVE MemInv'
  OBVIOUS
<1>1. CASE Mem!Next
  <2>1. ASSUME NEW k \in CacheKeys, Mem!CacheGetPops(k) PROVE MemInv'
    BY <2>1, DropOK DEF Mem!CacheGetPops
  <2>2. ASSUME NEW S \in SUBSET CacheKeys, Mem!CacheDrop(S) PROVE MemInv'
    BY <2>2, DropOK DEF Mem!CacheDrop, Mem!Operates
  <2>3. QED BY <1>1, <2>1, <2>2, SetOK, IncrReadsOK, IncrWritesOK, ClearOK, ReadsOK, PushOK,
               PurgesOK, RotateCacheOK, RotateBuffersOK, RotateRaisesOK, TimeOK DEF Mem!Next
<1>2. CASE UNCHANGED Mem!vars
  BY <1>2 DEF Mem!vars, MemInv, Mem!TypeOK, WorkInv, RingInv, Ring, NewestInv, Mem!Live, Ends,
              FreshInv, Fresh, CountInv
<1>3. QED BY <1>1, <1>2

LEMMA MemInvIsEnough == MemInv => MemoryInv
<1> SUFFICES ASSUME MemInv PROVE MemoryInv
  OBVIOUS
<1>1. \A b \in Buffers : \A i \in 1 .. Len(Mem!Content(b)) :
        bufs[b] # None /\ Mem!Content(b) = bufs[b].items
  BY BufferTypes, EmptySeq
<1>2. \A b \in Buffers : /\ Len(Mem!Content(b)) \in Nat
                         /\ DOMAIN Mem!Content(b) = 1 .. Len(Mem!Content(b))
  BY BufferTypes, LenProperties
<1>3. Mem!SessionIsFresh
  <2>1. ASSUME rotating = "no", NEW c \in Session \ raced, c \in Buffers,
               NEW i \in Mem!Range(Mem!Content(c))
        PROVE  i.of = epoch
    <3>1. PICK n \in 1 .. Len(Mem!Content(c)) : i = Mem!Content(c)[n]
      BY <1>2, <2>1 DEF Mem!Range
    <3>2. bufs[c] # None /\ Mem!Content(c) = bufs[c].items
      BY <1>1, <2>1, <3>1
    <3>3. Fresh(bufs[c])
      BY <2>1, <3>2 DEF MemInv, FreshInv
    <3>4. QED BY <3>1, <3>2, <3>3 DEF Fresh
  <2>2. QED BY <2>1 DEF MemInv, FreshInv, Mem!SessionIsFresh
<1>4. Mem!NoLostIncrement
  BY DEF MemInv, CountInv, Mem!NoLostIncrement
<1>5. Mem!RingBuffer
  <2> SUFFICES ASSUME NEW b \in Buffers
               PROVE  /\ bufs[b] # None => Len(bufs[b].items) <= bufs[b].max
                      /\ \A i, j \in DOMAIN Mem!Content(b) :
                           i < j => Mem!Content(b)[i].val < Mem!Content(b)[j].val
                      /\ b \notin raced /\ newest[b] # None /\ Mem!Live(newest[b]) =>
                           Mem!Content(b) # <<>> /\ Mem!Last(Mem!Content(b)) = newest[b]
    BY DEF Mem!RingBuffer
  <2>1. bufs[b] # None => Len(bufs[b].items) <= bufs[b].max
    BY BufferTypes DEF Ring
  <2>2. \A i, j \in DOMAIN Mem!Content(b) :
          i < j => Mem!Content(b)[i].val < Mem!Content(b)[j].val
    <3> SUFFICES ASSUME NEW i \in DOMAIN Mem!Content(b), NEW j \in DOMAIN Mem!Content(b), i < j
                 PROVE  Mem!Content(b)[i].val < Mem!Content(b)[j].val
      OBVIOUS
    <3>1. bufs[b] # None /\ Mem!Content(b) = bufs[b].items
      BY <1>1, <1>2
    <3>2. Ring(bufs[b], count)
      BY <3>1, BufferTypes
    <3>3. QED BY <1>2, <3>1, <3>2 DEF Ring
  <2>3. ASSUME b \notin raced, newest[b] # None, Mem!Live(newest[b])
        PROVE  Mem!Content(b) # <<>> /\ Mem!Last(Mem!Content(b)) = newest[b]
    <3>1. bufs[b] # None /\ Ends(bufs[b], newest[b])
      BY <2>3 DEF MemInv, NewestInv
    <3>2. Mem!Content(b) = bufs[b].items
      BY <3>1, BufferTypes
    <3>3. Len(<<>>) = 0
      BY EmptySeq
    <3>4. QED BY <3>1, <3>2, <3>3 DEF Ends, Mem!Last
  <2>4. QED BY <2>1, <2>2, <2>3
<1>6. QED BY <1>3, <1>4, <1>5 DEF MemInv, MemoryInv, Mem!MemoryInv

(* After a rotate no value of an earlier session is left in a session      *)
(* scope, no increment is lost, and a buffer keeps its last pushes in      *)
(* order, within the limit, until they expire: for any threads, keys and   *)
(* buffers, but for the cells that a rotate met half-way through an        *)
(* operation (host.py cache_incr, _purge_buffer; live.py                   *)
(* on_session_rotate).                                                     *)
THEOREM MemoryKept == Mem!Spec => []MemoryInv
BY InitMemInv, NextMemInv, MemInvIsEnough, PTL DEF Mem!Spec

-----------------------------------------------------------------------------
(* The host whole: a step of one half leaves the other as it is.           *)

LEMMA StepOfOneHalf ==
    [HostNext]_<<vars, memory>> => [Next]_vars /\ [Mem!Next]_(Mem!vars)
BY DEF HostNext, DbStep, MemStep, memory, vars, Mem!vars

(* A behaviour of the host is a behaviour of its database and one of its   *)
(* memory (rfn/host.py): what is proved or checked of one half, the other  *)
(* cannot undo.                                                            *)
THEOREM HalvesAreAlone == HostSpec => Spec /\ Mem!Spec
BY StepOfOneHalf, PTL DEF HostSpec, HostInit, Spec, Mem!Spec

(* The whole host keeps what its halves promise, in whatever order scripts *)
(* store, read, count and push, sessions rotate and the process restarts.  *)
THEOREM HostKeeps ==
    HostSpec => /\ [](LossIsConfined /\ ReadersAgree /\ MemoryInv)
                /\ StoreIsTransaction
BY HalvesAreAlone, LossConfined, ReadersAreOne, MemoryKept, ImplementsTransaction, PTL
=============================================================================
