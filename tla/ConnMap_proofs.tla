--------------------------- MODULE ConnMap_proofs ---------------------------
(***************************************************************************)
(* Proofs about ConnMap for every number of endpoints and servers, every   *)
(* size of the map and all times that TimesAssumption allows.              *)
(***************************************************************************)
EXTENDS ConnMap, FiniteSetTheorems, SequenceTheorems, TLAPS

-----------------------------------------------------------------------------
(* What remembering and cleaning up leave in the map.  Where its entries   *)
(* stand matters only for who is evicted; the rest speaks of their set.    *)

New(e, to) == [ep |-> e, to |-> to, ts |-> now]

LEMMA UpdatedFact ==
    ASSUME TypeOK, NEW e \in Eps, NEW to \in Origins
    PROVE  /\ Updated(e, to) \in Seq(Entry)
           /\ InMap(e) = {} => /\ Len(Updated(e, to)) = Len(map) + 1
                               /\ Updated(e, to)[Len(map) + 1] = New(e, to)
           /\ InMap(e) # {} => Len(Updated(e, to)) = Len(map)
           /\ New(e, to) \in Range(Updated(e, to))
           /\ \A x \in Range(Updated(e, to)) :
                x = New(e, to) \/ (x \in Range(map) /\ x.ep # e)
<1> DEFINE m == New(e, to)
<1>1. m \in Entry /\ m.ep = e
  BY DEF TypeOK, Entry, New
<1>2. map \in Seq(Entry) /\ Len(map) \in Nat /\ DOMAIN map = 1 .. Len(map)
  BY LenProperties DEF TypeOK
<1>3. CASE InMap(e) = {}
  <2>1. Updated(e, to) = Append(map, m)
    BY <1>3 DEF Updated, New
  <2> HIDE DEF m
  <2>2. /\ Append(map, m) \in Seq(Entry)
        /\ Len(Append(map, m)) = Len(map) + 1
        /\ \A i \in 1 .. Len(map) : Append(map, m)[i] = map[i]
        /\ Append(map, m)[Len(map) + 1] = m
    BY <1>1, <1>2, AppendProperties
  <2>3. DOMAIN Append(map, m) = 1 .. Len(map) + 1
    BY <2>2, LenProperties
  <2>4. \A i \in 1 .. Len(map) : map[i] \in Range(map) /\ map[i].ep # e
    BY <1>2, <1>3 DEF InMap, Range
  <2>5. ASSUME NEW x \in Range(Append(map, m))
        PROVE  x = m \/ (x \in Range(map) /\ x.ep # e)
    <3>1. PICK i \in 1 .. Len(map) + 1 : x = Append(map, m)[i]
      BY <2>3 DEF Range
    <3>2. i \in 1 .. Len(map) \/ i = Len(map) + 1
      BY <1>2
    <3>3. QED BY <2>2, <2>4, <3>1, <3>2
  <2>6. Len(map) + 1 \in 1 .. Len(map) + 1
    BY <1>2
  <2>7. m \in Range(Append(map, m))
    BY <2>2, <2>3, <2>6 DEF Range
  <2>8. QED BY <1>3, <2>1, <2>2, <2>5, <2>7 DEF m
<1>4. CASE InMap(e) # {}
  <2> DEFINE u == [i \in DOMAIN map |-> IF map[i].ep = e THEN m ELSE map[i]]
  <2>1. Updated(e, to) = u
    BY <1>4 DEF Updated, New
  <2> HIDE DEF m
  <2>2. \A i \in 1 .. Len(map) : map[i] \in Entry
    BY <1>2, ElementOfSeq
  <2>3. u \in [1 .. Len(map) -> Entry]
    BY <1>1, <1>2, <2>2
  <2>4. u \in Seq(Entry) /\ DOMAIN u = 1 .. Len(map)
    BY <1>2, <2>3, SeqDef
  <2>5. Len(u) = Len(map)
    BY <1>2, <2>4, LenProperties
  <2>6. PICK i \in 1 .. Len(map) : map[i].ep = e
    BY <1>2, <1>4 DEF InMap
  <2>7. m \in Range(u)
    BY <1>2, <2>4, <2>6 DEF Range
  <2>8. \A x \in Range(u) : x = m \/ (x \in Range(map) /\ x.ep # e)
    BY <1>2, <2>4 DEF Range
  <2> HIDE DEF u
  <2>9. QED BY <1>4, <2>1, <2>4, <2>5, <2>7, <2>8 DEF m
<1>5. QED BY <1>3, <1>4

(* Eviction keeps what was just remembered.                                *)
LEMMA EvictedFact ==
    ASSUME TypeOK, NEW e \in Eps, NEW to \in Origins
    PROVE  /\ Evicted(Updated(e, to)) \in Seq(Entry)
           /\ Len(Evicted(Updated(e, to))) <= MapLimit
           /\ New(e, to) \in Range(Evicted(Updated(e, to)))
           /\ \A x \in Range(Evicted(Updated(e, to))) :
                x = New(e, to) \/ (x \in Range(map) /\ x.ep # e)
<1> DEFINE u == Updated(e, to)
<1>1. /\ u \in Seq(Entry)
      /\ InMap(e) = {} => /\ Len(u) = Len(map) + 1
                          /\ u[Len(map) + 1] = New(e, to)
      /\ InMap(e) # {} => Len(u) = Len(map)
      /\ New(e, to) \in Range(u)
      /\ \A x \in Range(u) : x = New(e, to) \/ (x \in Range(map) /\ x.ep # e)
  BY UpdatedFact
<1>2. Len(map) \in Nat /\ Len(map) <= MapLimit /\ MapLimit \in Nat /\ MapLimit > 0
  BY LenProperties, TimesAssumption DEF TypeOK
<1> HIDE DEF u
<1>3. Len(u) \in Nat /\ DOMAIN u = 1 .. Len(u)
  BY <1>1, LenProperties
<1>4. CASE Len(u) <= MapLimit
  <2>1. Evicted(u) = u
    BY <1>2, <1>3, <1>4 DEF Evicted
  <2>2. QED BY <1>1, <1>4, <2>1 DEF u
<1>5. CASE Len(u) > MapLimit
  <2> DEFINE k == Len(u) - MapLimit + 1
             s == SubSeq(u, k, Len(u))
  <2>1. Evicted(u) = s
    BY <1>5 DEF Evicted
  <2>2. k \in Int /\ k >= 1 /\ k <= Len(u) /\ Len(u) - k + 1 = MapLimit
    BY <1>2, <1>3, <1>5
  <2>3. \A i \in k .. Len(u) : u[i] \in Entry
    <3>1. \A i \in 1 .. Len(u) : u[i] \in Entry
      BY <1>1, ElementOfSeq
    <3>2. \A i \in k .. Len(u) : i \in 1 .. Len(u)
      BY <1>3, <2>2
    <3>3. QED BY <3>1, <3>2
  <2> HIDE DEF k
  <2>4. /\ s \in Seq(Entry)
        /\ Len(s) = MapLimit
        /\ \A i \in 1 .. MapLimit : s[i] = u[k + i - 1]
    <3>1. /\ s \in Seq(Entry)
          /\ Len(s) = IF k <= Len(u) THEN Len(u) - k + 1 ELSE 0
          /\ \A i \in 1 .. Len(u) - k + 1 : s[i] = u[k + i - 1]
      BY <1>3, <2>2, <2>3, SubSeqProperties
    <3>2. QED BY <2>2, <3>1
  <2> HIDE DEF s
  <2>5. DOMAIN s = 1 .. MapLimit
    BY <2>4, LenProperties
  <2>6. \A i \in 1 .. MapLimit : k + i - 1 \in 1 .. Len(u)
    BY <1>2, <1>3, <2>2
  <2>7. \A x \in Range(s) : x \in Range(u)
    BY <1>3, <2>4, <2>5, <2>6 DEF Range
  <2>8. InMap(e) = {} /\ u[Len(u)] = New(e, to)
    <3>1. Len(u) # Len(map)
      BY <1>2, <1>3, <1>5
    <3>2. InMap(e) = {}
      BY <1>1, <3>1
    <3>3. QED BY <1>1, <3>2
  <2>9. MapLimit \in 1 .. MapLimit /\ k + MapLimit - 1 = Len(u)
    BY <1>2, <1>3, <2>2
  <2>10. New(e, to) \in Range(s)
    BY <2>4, <2>5, <2>8, <2>9 DEF Range
  <2>11. MapLimit <= MapLimit
    BY <1>2
  <2>12. QED BY <1>1, <2>1, <2>4, <2>7, <2>10, <2>11 DEF u
<1>6. QED BY <1>2, <1>3, <1>4, <1>5

(* The clean-up keeps the entries that are Kept, all of them: an increasing*)
(* enumeration as long as their set is onto.                               *)
LEMMA CleanedFact ==
    ASSUME TypeOK,
           NEW f \in [1 .. Cardinality({i \in DOMAIN map : Kept(map[i])})
                        -> {i \in DOMAIN map : Kept(map[i])}],
           \A m, n \in DOMAIN f : m < n => f[m] < f[n]
    PROVE  /\ [n \in DOMAIN f |-> map[f[n]]] \in Seq(Entry)
           /\ Len([n \in DOMAIN f |-> map[f[n]]]) <= MapLimit
           /\ Range([n \in DOMAIN f |-> map[f[n]]]) = {x \in Range(map) : Kept(x)}
<1> DEFINE K == {i \in DOMAIN map : Kept(map[i])}
           c == Cardinality(K)
           g == [n \in DOMAIN f |-> map[f[n]]]
<1>1. map \in Seq(Entry) /\ Len(map) \in Nat /\ DOMAIN map = 1 .. Len(map)
  BY LenProperties DEF TypeOK
<1>2. IsFiniteSet(1 .. Len(map)) /\ Cardinality(1 .. Len(map)) = Len(map)
  <2>1. /\ IsFiniteSet(1 .. Len(map))
        /\ Cardinality(1 .. Len(map)) = IF 1 > Len(map) THEN 0 ELSE Len(map) - 1 + 1
    BY <1>1, FS_Interval
  <2>2. QED BY <1>1, <2>1
<1>3. IsFiniteSet(K) /\ c <= Len(map)
  <2>1. K \in SUBSET (1 .. Len(map))
    BY <1>1
  <2> HIDE DEF K
  <2>2. IsFiniteSet(K) /\ Cardinality(K) <= Cardinality(1 .. Len(map))
    <3> DEFINE D == 1 .. Len(map)
    <3>1. IsFiniteSet(D) /\ K \in SUBSET D
      BY <1>2, <2>1
    <3> HIDE DEF D
    <3>2. IsFiniteSet(K) /\ Cardinality(K) <= Cardinality(D)
      BY <3>1, FS_Subset
    <3>3. QED BY <3>2 DEF D
  <2>3. QED BY <1>2, <2>2
<1>4. c \in Nat
  BY <1>3, FS_CardinalityType
<1>5. IsFiniteSet(1 .. c) /\ Cardinality(1 .. c) = c
  <2> HIDE DEF c
  <2>1. /\ IsFiniteSet(1 .. c)
        /\ Cardinality(1 .. c) = IF 1 > c THEN 0 ELSE c - 1 + 1
    BY <1>4, FS_Interval
  <2>2. QED BY <1>4, <2>1
<1>6. f \in [1 .. c -> K] /\ DOMAIN f = 1 .. c
  OBVIOUS
<1>7. K \subseteq 1 .. Len(map)
  BY <1>1
<1>8. \A n \in 1 .. c : f[n] \in K /\ f[n] \in Nat
  BY <1>6, <1>7
<1>9. \A m, n \in 1 .. c : f[m] = f[n] => m = n
  <2> SUFFICES ASSUME NEW m \in 1 .. c, NEW n \in 1 .. c, f[m] = f[n], m # n PROVE FALSE
    OBVIOUS
  <2>1. m < n \/ n < m
    BY <1>4
  <2>2. f[m] < f[n] \/ f[n] < f[m]
    BY <1>6, <2>1
  <2>3. QED BY <1>8, <2>2
<1> HIDE DEF c, K
<1>10. f \in Injection(1 .. c, K)
  BY <1>6, <1>9 DEF Injection, IsInjective
<1>11. f \in Surjection(1 .. c, K)
  BY <1>3, <1>5, <1>10, FS_Injection DEF c
<1>12. \A i \in K : \E n \in 1 .. c : f[n] = i
  BY <1>11 DEF Surjection
<1>13. DOMAIN g = 1 .. c /\ \A n \in 1 .. c : g[n] = map[f[n]]
  BY <1>6
<1>14. g \in Seq(Entry)
  <2>1. \A n \in 1 .. c : map[f[n]] \in Entry
    BY <1>1, <1>7, <1>8, ElementOfSeq
  <2>2. g \in [1 .. c -> Entry]
    BY <1>6, <2>1
  <2> HIDE DEF g
  <2>3. QED BY <1>4, <2>2, SeqDef
<1> HIDE DEF g
<1>15. Len(g) = c
  BY <1>4, <1>13, <1>14, LenProperties
<1>16. Len(g) <= MapLimit
  <2>1. Len(map) <= MapLimit
    BY DEF TypeOK
  <2>2. MapLimit \in Int
    BY TimesAssumption
  <2> HIDE DEF TypeOK
  <2>3. QED BY <1>1, <1>3, <1>4, <1>15, <2>1, <2>2
<1>17. \A i \in K : i \in DOMAIN map /\ Kept(map[i])
  BY DEF K
<1>18. \A i \in DOMAIN map : Kept(map[i]) => i \in K
  BY DEF K
<1>19. Range(g) = {x \in Range(map) : Kept(x)}
  <2>1. ASSUME NEW x \in Range(g) PROVE x \in Range(map) /\ Kept(x)
    BY <1>8, <1>13, <1>17 DEF Range
  <2>2. ASSUME NEW x \in Range(map), Kept(x) PROVE x \in Range(g)
    <3>1. PICK i \in DOMAIN map : x = map[i]
      BY DEF Range
    <3>2. i \in K
      BY <1>18, <2>2, <3>1
    <3>3. PICK n \in 1 .. c : f[n] = i
      BY <1>12, <3>2
    <3>4. QED BY <1>13, <3>1, <3>3 DEF Range
  <2>3. QED BY <2>1, <2>2
<1>20. QED BY <1>14, <1>16, <1>19 DEF g

-----------------------------------------------------------------------------
(* The inductive invariant.                                                *)

Keyed(S) == \A m, n \in S : m.ep = n.ep => m = n
Proxied(e) == dial[e] # None /\ dial[e].first = "proxy"

(* Nothing bears a time that has not come yet.                             *)
InPast ==
    /\ pidAt <= now /\ scanAt <= now
    /\ \A m \in Range(map) : m.ts <= now
    /\ \A e \in Eps : dial[e] # None =>
          dial[e].since <= dial[e].last /\ dial[e].last <= now

(* Unless a write has failed the file has every entry of the map, with the *)
(* same origin, though perhaps an older time.                              *)
FileHasMap ==
    loop => \A m \in Range(map) : disk[m.ep] # None /\ disk[m.ep].to = m.to

(* What map and file know of a connection that the proxy has is right.     *)
RightOrigin ==
    \A e \in Eps : Proxied(e) =>
        /\ \A m \in Range(map) : m.ep = e => m.to = dial[e].to
        /\ disk[e] # None => disk[e].to = dial[e].to
AnswersAreRight ==
    \A e \in Eps : answer[e] # None =>
        /\ Proxied(e)
        /\ answer[e].how = "map" => answer[e].to = dial[e].to

(* An endpoint written off is not in the map, as long as writes succeed.   *)
DroppedAreGone == loop => \A m \in Range(map) : m.ep \notin dropped

(* An entry written for a connection stays in map and file with a time of  *)
(* the connection, until the clean-up may forget it.                       *)
WrittenWhileYoung ==
    \A e \in Eps \ dropped : Proxied(e) /\ ~dial[e].reused =>
        \/ /\ \E m \in Range(map) : m.ep = e /\ m.ts >= dial[e].since
           /\ disk[e] # None /\ disk[e].ts >= dial[e].since
        \/ now - dial[e].since > KeepFor
KeptWhileUsed ==
    \A e \in Eps \ dropped : Proxied(e) =>
        \/ \E m \in Range(map) : m.ep = e /\ m.ts >= dial[e].last
        \/ now - dial[e].last > KeepFor

(* Scans find the game's endpoints only, and what they have found is       *)
(* cached since the last of them.                                          *)
OwnsGameOnly == \A e \in ProxyEps : seen[e] = None
FoundIsCached ==
    \A e \in found :
        /\ e \in GameEps /\ dial[e] # None /\ game # 0 /\ pid = game
        /\ seen[e] = [pid |-> game, ts |-> scanAt]

MapInv == TypeOK /\ Keyed(Range(map)) /\ InPast
FileInv == FileHasMap /\ RightOrigin /\ AnswersAreRight
KeepInv == DroppedAreGone /\ WrittenWhileYoung /\ KeptWhileUsed
OwnerInv == OwnsGameOnly /\ FoundIsCached

-----------------------------------------------------------------------------
(* What the actions do to the map, the file and the connections.           *)

LEMMA NoneIsNone ==
    /\ \A o \in Origins, t \in Nat : [to |-> o, ts |-> t] # None
    /\ \A p \in Nat, t \in Nat : [pid |-> p, ts |-> t] # None
    /\ \A c \in Conn : c # None
    /\ \A o \in Origins, h \in Hows : [how |-> h, to |-> o] # None
<1>1. \A o \in Origins, t \in Nat : [to |-> o, ts |-> t] \in [to : Origins, ts : Nat]
  OBVIOUS
<1>2. \A p \in Nat, t \in Nat : [pid |-> p, ts |-> t] \in [pid : Nat, ts : Nat]
  OBVIOUS
<1>3. \A o \in Origins, h \in Hows :
        [how |-> h, to |-> o] \in [how : Hows, to : Origins]
  OBVIOUS
<1>4. QED BY <1>1, <1>2, <1>3, NoneAssumption

(* The file has the entries of a map whose keys are distinct, no other.    *)
LEMMA FileFact ==
    ASSUME NEW m, Range(m) \subseteq Entry, Keyed(Range(m))
    PROVE  /\ FileOf(m) \in [Eps -> [to : Origins, ts : Nat] \cup {None}]
           /\ \A x \in Range(m) : /\ FileOf(m)[x.ep] # None
                                  /\ FileOf(m)[x.ep].to = x.to /\ FileOf(m)[x.ep].ts = x.ts
           /\ \A e \in Eps : FileOf(m)[e] # None => \E x \in Range(m) : x.ep = e
<1> DEFINE S == Range(m)
           F(e) == IF \E x \in S : x.ep = e
                   THEN LET x == CHOOSE x \in S : x.ep = e IN [to |-> x.to, ts |-> x.ts]
                   ELSE None
<1>1. FileOf(m) = [e \in Eps |-> F(e)]
  BY DEF FileOf
<1>2. \A x \in S : x.ep \in Eps /\ x.to \in Origins /\ x.ts \in Nat
  BY DEF Entry
<1>3. S = Range(m)
  OBVIOUS
<1> HIDE DEF S
<1>4. ASSUME NEW x \in S
      PROVE  F(x.ep) = [to |-> x.to, ts |-> x.ts]
  <2>1. (CHOOSE y \in S : y.ep = x.ep) \in S /\ (CHOOSE y \in S : y.ep = x.ep).ep = x.ep
    OBVIOUS
  <2>2. (CHOOSE y \in S : y.ep = x.ep) = x
    BY <1>3, <2>1 DEF Keyed
  <2>3. QED BY <2>2
<1>5. \A e \in Eps : ~(\E x \in S : x.ep = e) => F(e) = None
  OBVIOUS
<1>6. \A e \in Eps : F(e) \in [to : Origins, ts : Nat] \cup {None}
  <2>1. \A x \in S : F(x.ep) \in [to : Origins, ts : Nat]
    BY <1>2, <1>4
  <2>2. QED BY <1>5, <2>1
<1> HIDE DEF F
<1>7. \A x \in S : /\ FileOf(m)[x.ep] # None
                   /\ FileOf(m)[x.ep].to = x.to /\ FileOf(m)[x.ep].ts = x.ts
  <2> SUFFICES ASSUME NEW x \in S
               PROVE  /\ FileOf(m)[x.ep] # None
                      /\ FileOf(m)[x.ep].to = x.to /\ FileOf(m)[x.ep].ts = x.ts
    OBVIOUS
  <2>1. FileOf(m)[x.ep] = [to |-> x.to, ts |-> x.ts]
    BY <1>1, <1>2, <1>4
  <2>2. QED BY <1>2, <2>1, NoneIsNone
<1>8. QED BY <1>1, <1>3, <1>5, <1>6, <1>7

LEMMA EntriesOfSeq ==
    ASSUME NEW m \in Seq(Entry)
    PROVE  \A x \in Range(m) : x \in Entry
<1>1. DOMAIN m = 1 .. Len(m)
  BY LenProperties
<1>2. \A i \in 1 .. Len(m) : m[i] \in Entry
  BY ElementOfSeq
<1>3. QED BY <1>1, <1>2 DEF Range

(* Remembering: one entry is new, some may be gone.  The file is the new   *)
(* map, or as it was: then the origin was known, or the write failed.      *)
LEMMA RememberFact ==
    ASSUME TypeOK, Keyed(Range(map)), InPast, NEW e \in Eps, NEW to \in Origins,
           Remember(e, to)
    PROVE  /\ map' \in Seq(Entry) /\ Len(map') <= MapLimit /\ Keyed(Range(map'))
           /\ New(e, to) \in Range(map')
           /\ \A x \in Range(map') : x = New(e, to) \/ (x \in Range(map) /\ x.ep # e)
           /\ \A x \in Range(map) :
                x.ep # e => x \in Range(map') \/ x.ep \in dropped'
           /\ dropped' \subseteq Eps
           /\ \A x \in Eps \ dropped' : x # e \/ ~loop' => x \notin dropped
           /\ e \in dropped' => e \in dropped /\ ~loop'
           /\ \A x \in dropped' : x \in dropped \/ \A y \in Range(map') : y.ep # x
           /\ loop' => loop
           /\ \/ disk' = FileOf(map')
              \/ disk' = disk /\ (~loop' \/ ~Changed(e, to))
           /\ dirty' \in BOOLEAN /\ loop' \in BOOLEAN /\ faults' \in Nat /\ cleaner' = cleaner
<1> DEFINE u == Evicted(Updated(e, to))
           lost == {x \in Eps : InMap(x) # {} /\ \A i \in DOMAIN map' : map'[i].ep # x}
<1>1. map' = u
  BY DEF Remember
<1>2. /\ u \in Seq(Entry) /\ Len(u) <= MapLimit
      /\ New(e, to) \in Range(u)
      /\ \A x \in Range(u) : x = New(e, to) \/ (x \in Range(map) /\ x.ep # e)
  BY EvictedFact
<1> HIDE DEF u
<1>3. New(e, to).ep = e
  BY DEF New
<1>4. Keyed(Range(map'))
  BY <1>1, <1>2, <1>3 DEF Keyed
<1>5. dropped' = (IF loop' THEN dropped \ {e} ELSE dropped) \cup lost
  BY DEF Remember
<1>6. \A x \in lost : x \in Eps /\ \A y \in Range(map') : y.ep # x
  BY DEF Range
<1>7. \A x \in Range(map) : x.ep \in Eps /\ InMap(x.ep) # {}
  <2>1. Range(map) \subseteq Entry
    BY EntriesOfSeq DEF TypeOK
  <2>2. QED BY <2>1 DEF Range, InMap, Entry
<1>8. ASSUME NEW x \in Range(map), x.ep # e, x \notin Range(map')
      PROVE  x.ep \in lost
  <2>1. \A y \in Range(map') : y.ep # x.ep
    BY <1>1, <1>2, <1>3, <1>8 DEF Keyed
  <2>2. QED BY <1>7, <2>1 DEF Range
<1>9. e \notin lost
  BY <1>1, <1>2, <1>3, <1>6
<1> HIDE DEF lost
<1>10. /\ loop' => loop
       /\ \/ disk' = FileOf(map')
          \/ disk' = disk /\ (~loop' \/ ~Changed(e, to))
       /\ dirty' \in BOOLEAN /\ loop' \in BOOLEAN /\ faults' \in Nat /\ cleaner' = cleaner
  <2>1. /\ cleaner' = cleaner
        /\ IF Changed(e, to) THEN Persist(map', loop)
           ELSE UNCHANGED <<disk, dirty, loop, faults>>
    BY DEF Remember
  <2>2. dirty \in BOOLEAN /\ loop \in BOOLEAN /\ faults \in Nat
    BY DEF TypeOK
  <2>3. CASE Changed(e, to)
    <3>1. \/ disk' = FileOf(map') /\ dirty' = FALSE /\ loop' = loop /\ faults' = faults
          \/ faults' = faults + 1 /\ dirty' = TRUE /\ loop' = FALSE /\ disk' = disk
      BY <2>1, <2>3 DEF Persist
    <3>2. faults + 1 \in Nat
      BY <2>2
    <3>3. CASE disk' = FileOf(map') /\ dirty' = FALSE /\ loop' = loop /\ faults' = faults
      BY <2>1, <2>2, <3>3, Zenon
    <3>4. CASE faults' = faults + 1 /\ dirty' = TRUE /\ loop' = FALSE /\ disk' = disk
      BY <2>1, <3>2, <3>4, Zenon
    <3>5. QED BY <3>1, <3>3, <3>4
  <2>4. CASE ~Changed(e, to)
    BY <2>1, <2>2, <2>4
  <2>5. QED BY <2>3, <2>4
<1>11. dropped \subseteq Eps
  BY DEF TypeOK
<1>12. /\ \A x \in Range(map) :
            x.ep # e => x \in Range(map') \/ x.ep \in dropped'
       /\ dropped' \subseteq Eps
       /\ \A x \in Eps \ dropped' : x # e \/ ~loop' => x \notin dropped
       /\ e \in dropped' => e \in dropped /\ ~loop'
       /\ \A x \in dropped' : x \in dropped \/ \A y \in Range(map') : y.ep # x
  BY <1>5, <1>6, <1>8, <1>9, <1>11
<1>13. QED BY <1>1, <1>2, <1>4, <1>10, <1>12

(* A packet: which connection it belongs to does not change, nor when that *)
(* began; it becomes the proxy's only if it is remembered.                 *)
LEMMA PacketFact ==
    ASSUME TypeOK, NEW e \in Eps, Packet(e)
    PROVE  /\ dial[e] \in Conn /\ dial'[e] \in Conn /\ dial' \in [Eps -> Conn \cup {None}]
           /\ \A x \in Eps : x # e => dial'[x] = dial[x]
           /\ dial'[e].to = dial[e].to /\ dial'[e].since = dial[e].since
           /\ dial[e].first = "proxy" => dial'[e].first = "proxy"
           /\ dial[e].reused => dial'[e].reused
           /\ loop
           /\ \/ /\ Redirected(e) /\ Remember(e, dial[e].to)
                 /\ \/ dial' = dial /\ ~loop'
                    \/ /\ loop' /\ dial'[e].last = now
                       /\ dial[e].first # "proxy" =>
                            dial'[e].reused \/ Changed(e, dial[e].to) \/ dial'[e].first # "proxy"
              \/ /\ ~Redirected(e) /\ UNCHANGED <<store, dropped, faults>>
                 /\ dial'[e].last = dial[e].last
                 /\ dial'[e].first = "proxy" => dial[e].first = "proxy"
           /\ "direct" \in dial'[e].way => "direct" \in dial[e].way \/ ~Redirected(e)
<1> DEFINE way == IF Redirected(e) THEN "proxy" ELSE "direct"
           c == dial[e]
           sent == [c EXCEPT !.way = @ \cup {way},
                             !.last = IF way = "proxy" THEN now ELSE @,
                             !.first = IF @ = "none" THEN way ELSE @,
                             !.reused = @ \/ (c.first = "none" /\ ~Changed(e, c.to))]
<1>1. c \in Conn
  BY DEF Packet, TypeOK
<1>2. way \in {"proxy", "direct"} /\ (way = "proxy" <=> Redirected(e))
  OBVIOUS
<1>3. /\ dial' = IF loop' THEN [dial EXCEPT ![e] = sent] ELSE dial
      /\ IF way = "proxy" THEN Remember(e, c.to) ELSE UNCHANGED <<store, dropped, faults>>
      /\ loop
  BY DEF Packet
<1> HIDE DEF way
<1> DEFINE ch == Changed(e, c.to)
           r == Redirected(e)
<1>4. ch \in BOOLEAN /\ r \in BOOLEAN
  BY DEF Changed, Redirected
<1>5. /\ c.to \in Origins /\ c.since \in Nat /\ c.last \in Nat
      /\ c.way \subseteq {"proxy", "direct"} /\ c.first \in {"none", "proxy", "direct"}
      /\ c.reused \in BOOLEAN
  BY <1>1 DEF Conn
<1>6. now \in Nat /\ dial \in [Eps -> Conn \cup {None}]
  BY DEF TypeOK
<1>7. /\ sent \in Conn
      /\ sent.to = c.to /\ sent.since = c.since
      /\ sent.way = c.way \cup {way}
      /\ sent.last = (IF way = "proxy" THEN now ELSE c.last)
      /\ sent.first = (IF c.first = "none" THEN way ELSE c.first)
      /\ sent.reused = (c.reused \/ (c.first = "none" /\ ~ch))
  <2> HIDE DEF ch
  <2> DEFINE s == [c EXCEPT !.way = @ \cup {way},
                             !.last = IF way = "proxy" THEN now ELSE @,
                             !.first = IF @ = "none" THEN way ELSE @,
                             !.reused = @ \/ (c.first = "none" /\ ~ch)]
  <2>1. sent = s
    BY DEF ch
  <2>2. (c.reused \/ (c.first = "none" /\ ~ch)) \in BOOLEAN
    BY <1>5
  <2>3. /\ s \in Conn
        /\ s.to = c.to /\ s.since = c.since
        /\ s.way = c.way \cup {way}
        /\ s.last = (IF way = "proxy" THEN now ELSE c.last)
        /\ s.first = (IF c.first = "none" THEN way ELSE c.first)
        /\ s.reused = (c.reused \/ (c.first = "none" /\ ~ch))
    BY <1>1, <1>2, <1>5, <1>6, <2>2 DEF Conn
  <2> HIDE DEF s, c
  <2>4. QED BY <2>1, <2>3
<1> HIDE DEF sent
<1>8. CASE ~loop'
  <2>1. way = "proxy" /\ dial' = dial
    BY <1>2, <1>3, <1>8 DEF store
  <2>2. QED BY <1>1, <1>2, <1>3, <1>6, <1>8, <2>1
<1>9. CASE loop'
  <2>1. dial' = [dial EXCEPT ![e] = sent]
    BY <1>3, <1>9
  <2>2. /\ dial'[e] = sent /\ dial' \in [Eps -> Conn \cup {None}]
        /\ \A x \in Eps : x # e => dial'[x] = dial[x]
    BY <1>6, <1>7, <2>1
  <2>3. QED
    <3> HIDE DEF ch
    <3>1. way = "proxy" => Remember(e, c.to)
      BY <1>3
    <3>2. way # "proxy" => UNCHANGED <<store, dropped, faults>>
      BY <1>3
    <3>3. c.first # "proxy" => sent.reused \/ ch \/ sent.first # "proxy"
      BY <1>5, <1>7
    <3>4. QED BY <1>1, <1>2, <1>3, <1>5, <1>7, <1>9, <2>2, <3>1, <3>2, <3>3 DEF ch
<1>10. QED BY <1>8, <1>9

(* The clean-up: only entries that it may forget are gone.                 *)
LEMMA CleanUpFact ==
    ASSUME TypeOK, Keyed(Range(map)), CleanUp
    PROVE  /\ map' \in Seq(Entry) /\ Len(map') <= MapLimit /\ Keyed(Range(map'))
           /\ Range(map') = {x \in Range(map) : Kept(x)}
           /\ disk' = FileOf(map') \/ disk' = disk
           /\ dirty' \in BOOLEAN /\ cleaner' \in BOOLEAN /\ faults' \in Nat
<1>1. PICK f \in [1 .. Cardinality({i \in DOMAIN map : Kept(map[i])})
                    -> {i \in DOMAIN map : Kept(map[i])}] :
        /\ \A m, n \in DOMAIN f : m < n => f[m] < f[n]
        /\ map' = [n \in DOMAIN f |-> map[f[n]]]
  BY DEF CleanUp
<1> DEFINE g == [n \in DOMAIN f |-> map[f[n]]]
<1>2. /\ g \in Seq(Entry) /\ Len(g) <= MapLimit
      /\ Range(g) = {x \in Range(map) : Kept(x)}
  BY <1>1, CleanedFact
<1>3. map' = g
  BY <1>1
<1> HIDE DEF g
<1>4. Keyed(Range(map'))
  BY <1>2, <1>3 DEF Keyed
<1>5. faults \in Nat /\ faults + 1 \in Nat /\ dirty \in BOOLEAN /\ cleaner \in BOOLEAN
  BY DEF TypeOK
<1>6. \/ disk' = FileOf(map') /\ dirty' = FALSE /\ cleaner' = cleaner /\ faults' = faults
      \/ faults' = faults + 1 /\ dirty' = TRUE /\ cleaner' = FALSE /\ disk' = disk
  BY DEF CleanUp, Persist
<1>7. dirty' \in BOOLEAN /\ cleaner' \in BOOLEAN /\ faults' \in Nat
  BY <1>5, <1>6, Zenon
<1>8. disk' = FileOf(map') \/ disk' = disk
  BY <1>6
<1>9. QED BY <1>2, <1>3, <1>4, <1>7, <1>8

(* The rest leaves the redirector alone.                                   *)
Aside ==
    \/ \E e \in Eps : Resolve(e) \/ HangUp(e) \/ \E o \in Origins : Dial(e, o)
    \/ GameStarts \/ GameEnds \/ TimePasses

LEMMA NextCases == ASSUME Next PROVE (\E e \in Eps : Packet(e)) \/ CleanUp \/ RestartRedirector \/ Aside
BY DEF Next, Aside

NewConn(c) == c.since = now /\ c.last = now /\ c.first = "none"

LEMMA AsideFact ==
    ASSUME TypeOK, Aside
    PROVE  /\ UNCHANGED <<store, caches, dropped, looped>>
           /\ dial' \in [Eps -> Conn \cup {None}]
           /\ \A x \in Eps : \/ dial'[x] = dial[x] \/ dial'[x] = None
                             \/ dial[x] = None /\ NewConn(dial'[x]) /\ now' = now
           /\ now' \in Nat /\ now' >= now
           /\ {game', born', dials', faults', misses'} \subseteq Nat
           /\ found' \subseteq found
<1>1. /\ now \in Nat /\ now + 1 \in Nat /\ {game, born, dials, faults, misses} \subseteq Nat
      /\ born + 1 \in Nat /\ dials + 1 \in Nat /\ 0 \in Nat /\ now + 1 >= now
      /\ dial \in [Eps -> Conn \cup {None}]
  BY DEF TypeOK
<1>2. CASE \E e \in Eps : Resolve(e)
  BY <1>1, <1>2 DEF Resolve, net, bounds
<1>3. CASE \E e \in Eps : HangUp(e)
  BY <1>1, <1>3 DEF HangUp, bounds
<1>4. CASE \E e \in Eps : \E o \in Origins : Dial(e, o)
  <2>1. PICK e \in Eps, o \in Origins : Dial(e, o)
    BY <1>4
  <2> DEFINE c == [to |-> o, since |-> now, last |-> now, way |-> {},
                   first |-> "none", reused |-> FALSE]
  <2>2. c \in Conn /\ NewConn(c)
    BY <1>1 DEF Conn, NewConn
  <2>3. /\ dial' = [dial EXCEPT ![e] = c] /\ dial[e] = None /\ dials' = dials + 1
        /\ UNCHANGED <<now, game, born, caches, store, looped, found, dropped, faults, misses>>
    BY <2>1 DEF Dial
  <2> HIDE DEF c
  <2>4. QED BY <1>1, <2>2, <2>3
<1>5. CASE GameStarts
  BY <1>1, <1>5 DEF GameStarts, bounds
<1>6. CASE GameEnds
  BY <1>1, <1>6 DEF GameEnds, bounds
<1>7. CASE TimePasses
  BY <1>1, <1>7 DEF TimePasses, net, bounds
<1>8. QED BY <1>2, <1>3, <1>4, <1>5, <1>6, <1>7 DEF Aside

LEMMA OwnersTyped ==
    ASSUME TypeOK
    PROVE  /\ \A f \in {game, 0} : Target(pid, pidAt, f) \in Nat
           /\ \A t \in Nat, ok \in BOOLEAN :
                Refreshed(t, ok) \subseteq [Eps -> [pid : Nat, ts : Nat] \cup {None}]
<1>1. now \in Nat /\ game \in Nat /\ pid \in Nat
      /\ seen \in [Eps -> [pid : Nat, ts : Nat] \cup {None}]
  BY DEF TypeOK
<1>2. \A f \in {game, 0} : Target(pid, pidAt, f) \in Nat
  BY <1>1 DEF Target
<1>3. \A e \in Eps : Pruned[e] \in [pid : Nat, ts : Nat] \cup {None}
  BY <1>1 DEF Pruned
<1>4. Pruned \in [Eps -> [pid : Nat, ts : Nat] \cup {None}]
  BY <1>1 DEF Pruned
<1>5. ASSUME NEW t \in Nat, NEW ok \in BOOLEAN
      PROVE  Scanned(t, ok) \subseteq [Eps -> [pid : Nat, ts : Nat] \cup {None}]
  BY <1>1, <1>3 DEF Scanned
<1>6. ASSUME NEW t \in Nat, NEW ok \in BOOLEAN
      PROVE  Refreshed(t, ok) \subseteq [Eps -> [pid : Nat, ts : Nat] \cup {None}]
  BY <1>4, <1>5 DEF Refreshed
<1>7. QED BY <1>2, <1>6

LEMMA AnswerTyped ==
    ASSUME TypeOK, Aside
    PROVE  answer' \in [Eps -> [how : Hows, to : Origins] \cup {None}]
<1>1. answer \in [Eps -> [how : Hows, to : Origins] \cup {None}]
  BY DEF TypeOK
<1>2. ASSUME NEW e \in Eps, Resolve(e)
      PROVE  answer' \in [Eps -> [how : Hows, to : Origins] \cup {None}]
  <2>1. CASE ResolveByMap(e)
    <3>1. disk[e].to \in Origins
      BY <2>1 DEF ResolveByMap, InFile, TypeOK
    <3>2. QED BY <1>1, <2>1, <3>1 DEF ResolveByMap, Hows
  <2>2. CASE ResolveByWatcher(e)
    <3>1. PICK x \in GameEps, how \in Hows : /\ dial[x] # None
              /\ answer' = [answer EXCEPT ![e] = [how |-> how, to |-> dial[x].to]]
      BY <2>2 DEF ResolveByWatcher, Hows
    <3>2. dial[x].to \in Origins
      BY <3>1 DEF TypeOK, Eps, Conn
    <3>3. QED BY <1>1, <3>1, <3>2
  <2>3. QED BY <1>2, <2>1, <2>2 DEF Resolve
<1>3. ASSUME NEW e \in Eps, HangUp(e)
      PROVE  answer' \in [Eps -> [how : Hows, to : Origins] \cup {None}]
  BY <1>1, <1>3 DEF HangUp
<1>4. ASSUME NEW e \in Eps, NEW o \in Origins, Dial(e, o)
      PROVE  answer' \in [Eps -> [how : Hows, to : Origins] \cup {None}]
  BY <1>1, <1>4 DEF Dial
<1>5. ASSUME GameEnds
      PROVE  answer' \in [Eps -> [how : Hows, to : Origins] \cup {None}]
  BY <1>1, <1>5 DEF GameEnds
<1>6. QED BY <1>1, <1>2, <1>3, <1>4, <1>5 DEF Aside, GameStarts, TimePasses

(* Types, keys and times.                                                  *)
LEMMA InitMap == ASSUME Init PROVE MapInv
<1>1. <<>> \in Seq(Entry) /\ Len(<<>>) = 0 /\ Range(<<>>) = {}
  BY EmptySeq DEF Range
<1>2. MapLimit \in Nat /\ ScanInterval + 1 \in Nat
  BY TimesAssumption
<1>3. TypeOK
  <2>1. {now, game, born, pid, pidAt, scanAt, dials, faults, misses} \subseteq Nat
    BY <1>2 DEF Init
  <2>2. {dirty, loop, cleaner, looped} \subseteq BOOLEAN
    BY DEF Init
  <2>3. map \in Seq(Entry) /\ Len(map) <= MapLimit
    BY <1>1, <1>2 DEF Init
  <2>4. /\ dial \in [Eps -> Conn \cup {None}]
        /\ seen \in [Eps -> [pid : Nat, ts : Nat] \cup {None}]
        /\ disk \in [Eps -> [to : Origins, ts : Nat] \cup {None}]
        /\ answer \in [Eps -> [how : Hows, to : Origins] \cup {None}]
        /\ found \subseteq Eps /\ dropped \subseteq Eps
    BY DEF Init
  <2>5. QED BY <2>1, <2>2, <2>3, <2>4 DEF TypeOK
<1>4. Keyed(Range(map))
  BY <1>1 DEF Init, Keyed
<1>5. InPast
  BY <1>1, <1>2 DEF Init, InPast
<1>6. QED BY <1>3, <1>4, <1>5 DEF MapInv

LEMMA PacketTypes ==
    ASSUME MapInv, NEW e \in Eps, Packet(e)
    PROVE  TypeOK' /\ Keyed(Range(map'))
<1>1. TypeOK /\ Keyed(Range(map)) /\ InPast
  BY DEF MapInv
<1>2. dial[e] \in Conn /\ dial' \in [Eps -> Conn \cup {None}]
  BY <1>1, PacketFact
<1>3. dial[e].to \in Origins
  BY <1>2 DEF Conn
<1>4. /\ map' \in Seq(Entry) /\ Len(map') <= MapLimit /\ Keyed(Range(map'))
      /\ disk' \in [Eps -> [to : Origins, ts : Nat] \cup {None}]
      /\ {dirty', loop', cleaner'} \subseteq BOOLEAN /\ faults' \in Nat /\ dropped' \subseteq Eps
  <2>1. CASE UNCHANGED <<store, dropped, faults>>
    BY <1>1, <2>1 DEF store, TypeOK
  <2>2. CASE Remember(e, dial[e].to)
    <3>1. /\ map' \in Seq(Entry) /\ Len(map') <= MapLimit /\ Keyed(Range(map'))
          /\ dropped' \subseteq Eps
          /\ disk' = FileOf(map') \/ disk' = disk
          /\ dirty' \in BOOLEAN /\ loop' \in BOOLEAN /\ faults' \in Nat /\ cleaner' = cleaner
      BY <1>1, <1>3, <2>2, RememberFact
    <3>2. cleaner \in BOOLEAN /\ disk \in [Eps -> [to : Origins, ts : Nat] \cup {None}]
      BY <1>1 DEF TypeOK
    <3>3. \A x \in Range(map') : x \in Entry
      BY <3>1, EntriesOfSeq
    <3>4. FileOf(map') \in [Eps -> [to : Origins, ts : Nat] \cup {None}]
      BY <3>1, <3>3, FileFact
    <3>5. {dirty', loop', cleaner'} \subseteq BOOLEAN
      BY <3>1, <3>2
    <3>6. QED BY <3>1, <3>2, <3>4, <3>5
  <2>3. QED BY <1>1, <2>1, <2>2, PacketFact
<1>5. PICK f \in {game, 0}, g \in {game, 0}, ok \in BOOLEAN :
        /\ misses' = IF f = game /\ g = game /\ ok THEN misses ELSE misses + 1
        /\ RefreshTarget(e, f, g) /\ RefreshEndpoints(e, Target(pid, pidAt, f), ok)
        /\ looped' = (looped \/ (/\ Redirected(e) /\ e \in ProxyEps
                                  /\ game # 0 /\ f = game /\ g = game))
  BY DEF Packet
<1>6. /\ {now, game, born, pid, pidAt, scanAt, dials, faults, misses} \subseteq Nat
      /\ seen \in [Eps -> [pid : Nat, ts : Nat] \cup {None}]
      /\ answer \in [Eps -> [how : Hows, to : Origins] \cup {None}]
      /\ found \subseteq Eps /\ looped \in BOOLEAN
  BY <1>1 DEF TypeOK
<1>7. pid' \in Nat /\ pidAt' \in Nat /\ misses' \in Nat
  BY <1>5, <1>6 DEF RefreshTarget, Target
<1>8. scanAt' \in Nat /\ seen' \in [Eps -> [pid : Nat, ts : Nat] \cup {None}] /\ found' \subseteq Eps
  <2>1. found' = FoundNow(e) /\ GameEps \subseteq Eps
    BY DEF Packet, Eps
  <2>2. Refreshed(Target(pid, pidAt, f), ok) \subseteq [Eps -> [pid : Nat, ts : Nat] \cup {None}]
    BY <1>1, <1>5, OwnersTyped
  <2>3. QED BY <1>5, <1>6, <2>1, <2>2 DEF RefreshEndpoints, FoundNow
<1>9. looped' \in BOOLEAN
  <2>1. looped' = looped \/ looped' = TRUE
    BY <1>5, <1>6
  <2>2. QED BY <1>6, <2>1
<1>10. UNCHANGED <<now, game, born, answer, dials>>
  BY DEF Packet
<1>11. QED BY <1>2, <1>4, <1>6, <1>7, <1>8, <1>9, <1>10 DEF TypeOK

LEMMA MapStep == ASSUME MapInv, Next PROVE MapInv'
<1>1. TypeOK /\ Keyed(Range(map)) /\ InPast
  BY DEF MapInv
<1>2. /\ {now, game, born, pid, pidAt, scanAt, dials, faults, misses} \subseteq Nat
      /\ dial \in [Eps -> Conn \cup {None}]
      /\ disk \in [Eps -> [to : Origins, ts : Nat] \cup {None}]
  BY <1>1 DEF TypeOK
<1>3. \A x \in Range(map) : x \in Entry
  BY <1>1, EntriesOfSeq DEF TypeOK
<1>4. ASSUME NEW e \in Eps, Packet(e) PROVE MapInv'
  <2>1. TypeOK' /\ Keyed(Range(map'))
    BY <1>4, PacketTypes
  <2>2. /\ dial[e] \in Conn /\ dial'[e] \in Conn
        /\ \A x \in Eps : x # e => dial'[x] = dial[x]
        /\ dial'[e].to = dial[e].to /\ dial'[e].since = dial[e].since
        /\ \/ Remember(e, dial[e].to) \/ UNCHANGED <<store, dropped, faults>>
        /\ dial' = dial \/ dial'[e].last = now \/ dial'[e].last = dial[e].last
    BY <1>1, <1>4, PacketFact
  <2>3. now' = now
    BY <1>4 DEF Packet
  <2>4. \A m \in Range(map') : m.ts <= now
    <3>1. CASE UNCHANGED <<store, dropped, faults>>
      BY <1>1, <3>1 DEF store, InPast
    <3>2. CASE Remember(e, dial[e].to)
      <4>1. dial[e].to \in Origins
        BY <2>2 DEF Conn
      <4>2. \A x \in Range(map') : x = New(e, dial[e].to) \/ (x \in Range(map) /\ x.ep # e)
        BY <1>1, <3>2, <4>1, RememberFact
      <4>3. New(e, dial[e].to).ts <= now
        BY <1>2 DEF New
      <4>4. QED BY <1>1, <4>2, <4>3 DEF InPast
    <3>3. QED BY <2>2, <3>1, <3>2
  <2>5. pidAt' <= now /\ scanAt' <= now
    BY <1>1, <1>2, <1>4 DEF Packet, RefreshTarget, RefreshEndpoints, InPast
  <2>6. \A x \in Eps : dial'[x] # None =>
          dial'[x].since <= dial'[x].last /\ dial'[x].last <= now
    <3>1. dial[e].since <= dial[e].last /\ dial[e].last <= now
      BY <1>1, <2>2, NoneIsNone DEF InPast
    <3>2. dial[e].since \in Nat /\ dial[e].last \in Nat /\ now \in Nat
      BY <1>2, <2>2 DEF Conn
    <3>3. dial'[e].since <= dial'[e].last /\ dial'[e].last <= now
      BY <2>2, <3>1, <3>2
    <3>4. QED BY <1>1, <2>2, <3>3 DEF InPast
  <2>7. QED BY <2>1, <2>3, <2>4, <2>5, <2>6 DEF MapInv, InPast
<1>5. CASE CleanUp
  <2>1. /\ map' \in Seq(Entry) /\ Len(map') <= MapLimit /\ Keyed(Range(map'))
        /\ Range(map') = {x \in Range(map) : Kept(x)}
        /\ disk' = FileOf(map') \/ disk' = disk
        /\ dirty' \in BOOLEAN /\ cleaner' \in BOOLEAN /\ faults' \in Nat
    BY <1>1, <1>5, CleanUpFact
  <2>2. Range(map') \subseteq Entry
    BY <1>3, <2>1
  <2>3. FileOf(map') \in [Eps -> [to : Origins, ts : Nat] \cup {None}]
    BY <2>1, <2>2, FileFact
  <2>4. UNCHANGED <<now, net, caches, loop, answer, looped, found, dropped, dials, misses>>
    BY <1>5 DEF CleanUp
  <2>5. TypeOK'
    <3>1. loop \in BOOLEAN /\ looped \in BOOLEAN
      BY <1>1 DEF TypeOK
    <3>2. {dirty', loop', cleaner', looped'} \subseteq BOOLEAN
      BY <2>1, <2>4, <3>1
    <3>3. QED BY <1>1, <1>2, <2>1, <2>3, <2>4, <3>2 DEF TypeOK, net, caches
  <2>6. InPast'
    BY <1>1, <2>1, <2>4 DEF InPast, net, caches
  <2>7. QED BY <2>1, <2>5, <2>6 DEF MapInv
<1>6. CASE RestartRedirector
  <2>1. /\ pid' = 0 /\ pidAt' = 0 /\ seen' = [x \in Eps |-> None] /\ scanAt' = 0
        /\ map' = <<>> /\ dirty' = FALSE /\ loop' = TRUE /\ cleaner' = TRUE
        /\ found' = {} /\ dropped' = Eps /\ faults' = faults + 1
        /\ UNCHANGED <<now, net, disk, answer, looped, dials, misses>>
    BY <1>6 DEF RestartRedirector
  <2>2. <<>> \in Seq(Entry) /\ Len(<<>>) = 0 /\ Range(<<>>) = {}
    BY EmptySeq DEF Range
  <2>3. faults + 1 \in Nat /\ 0 \in Nat /\ 0 <= MapLimit /\ 0 <= now
    BY <1>2, TimesAssumption
  <2>4. TypeOK'
    BY <1>1, <1>2, <2>1, <2>2, <2>3 DEF TypeOK, net
  <2>5. InPast' /\ Keyed(Range(map'))
    BY <1>1, <2>1, <2>2, <2>3 DEF InPast, Keyed, net
  <2>6. QED BY <2>4, <2>5 DEF MapInv
<1>7. CASE Aside
  <2>1. /\ UNCHANGED <<store, caches, dropped, looped>>
        /\ dial' \in [Eps -> Conn \cup {None}]
        /\ \A x \in Eps : \/ dial'[x] = dial[x] \/ dial'[x] = None
                          \/ dial[x] = None /\ NewConn(dial'[x]) /\ now' = now
        /\ now' \in Nat /\ now' >= now
        /\ {game', born', dials', faults', misses'} \subseteq Nat
        /\ found' \subseteq found
    BY <1>1, <1>7, AsideFact
  <2>2. answer' \in [Eps -> [how : Hows, to : Origins] \cup {None}]
    BY <1>1, <1>7, AnswerTyped
  <2>3. TypeOK'
    BY <1>1, <2>1, <2>2 DEF TypeOK, store, caches
  <2>4. InPast'
    <3>1. pidAt' <= now' /\ scanAt' <= now'
      BY <1>1, <1>2, <2>1 DEF InPast, caches
    <3>2. \A m \in Range(map') : m.ts <= now'
      <4>1. \A m \in Range(map) : m.ts <= now /\ m.ts \in Nat
        BY <1>1, <1>3 DEF InPast, Entry
      <4>2. QED BY <1>2, <2>1, <4>1 DEF store
    <3>3. ASSUME NEW x \in Eps, dial'[x] # None
          PROVE  dial'[x].since <= dial'[x].last /\ dial'[x].last <= now'
      <4>1. CASE dial'[x] = dial[x]
        <5>1. dial[x].since <= dial[x].last /\ dial[x].last <= now /\ dial[x].last \in Nat
          BY <1>1, <1>2, <3>3, <4>1 DEF InPast, Conn
        <5>2. QED BY <1>2, <2>1, <4>1, <5>1
      <4>2. CASE NewConn(dial'[x]) /\ now' = now
        BY <1>2, <4>2 DEF NewConn
      <4>3. QED BY <2>1, <3>3, <4>1, <4>2
    <3>4. QED BY <3>1, <3>2, <3>3 DEF InPast
  <2>5. QED BY <1>1, <2>1, <2>3, <2>4 DEF MapInv, store
<1>8. QED BY <1>4, <1>5, <1>6, <1>7, NextCases

-----------------------------------------------------------------------------
(* The file: it agrees with the map, and both with the connections.        *)

LEMMA InitFile == ASSUME Init PROVE FileInv
<1>1. Range(<<>>) = {}
  BY EmptySeq DEF Range
<1>2. QED BY <1>1 DEF Init, FileInv, FileHasMap, RightOrigin, AnswersAreRight, Proxied

LEMMA KnownOrigin ==
    ASSUME TypeOK, FileHasMap, loop, NEW e \in Eps, NEW to \in Origins, ~Changed(e, to)
    PROVE  /\ disk[e] # None /\ disk[e].to = to
           /\ \E m \in Range(map) : m.ep = e
<1>1. PICK i \in DOMAIN map : map[i].ep = e /\ map[i].to = to
  BY DEF Changed, InMap
<1>2. map[i] \in Range(map)
  BY DEF Range
<1>3. QED BY <1>1, <1>2 DEF FileHasMap

LEMMA PacketFile ==
    ASSUME MapInv, FileInv, NEW e \in Eps, Packet(e)
    PROVE  FileInv'
<1> DEFINE o == dial[e].to
<1>1. TypeOK /\ Keyed(Range(map)) /\ InPast /\ FileHasMap /\ RightOrigin /\ AnswersAreRight
  BY DEF MapInv, FileInv
<1>2. /\ dial[e] \in Conn /\ dial'[e] \in Conn
      /\ \A x \in Eps : x # e => dial'[x] = dial[x]
      /\ dial'[e].to = o
      /\ dial[e].first = "proxy" => dial'[e].first = "proxy"
      /\ loop
      /\ \/ Remember(e, o) /\ (loop' \/ dial' = dial)
         \/ /\ UNCHANGED <<store, dropped, faults>>
            /\ dial'[e].first = "proxy" => dial[e].first = "proxy"
  BY <1>1, PacketFact
<1>3. o \in Origins /\ dial[e] # None /\ dial'[e] # None
  BY <1>2, NoneIsNone DEF Conn
<1> HIDE DEF o
<1>4. answer' = answer
  BY DEF Packet
<1>5. \A x \in Eps : Proxied(x) => Proxied(x)' /\ dial'[x].to = dial[x].to
  BY <1>2, <1>3 DEF Proxied, o
<1>6. AnswersAreRight'
  BY <1>1, <1>4, <1>5 DEF AnswersAreRight
<1>7. CASE Remember(e, o)
  <2>1. /\ map' \in Seq(Entry) /\ Keyed(Range(map'))
        /\ New(e, o) \in Range(map')
        /\ \A x \in Range(map') : x = New(e, o) \/ (x \in Range(map) /\ x.ep # e)
        /\ \/ disk' = FileOf(map')
           \/ disk' = disk /\ (~loop' \/ ~Changed(e, o))
    BY <1>1, <1>3, <1>7, RememberFact
  <2>2. New(e, o).ep = e /\ New(e, o).to = o
    BY DEF New
  <2>3. \A x \in Range(map') : x \in Entry
    BY <2>1, EntriesOfSeq
  <2>4. /\ \A x \in Range(map') : /\ FileOf(map')[x.ep] # None
                                  /\ FileOf(map')[x.ep].to = x.to /\ FileOf(map')[x.ep].ts = x.ts
        /\ \A x \in Eps : FileOf(map')[x] # None => \E y \in Range(map') : y.ep = x
    BY <2>1, <2>3, FileFact
  <2>5. ~Changed(e, o) => disk[e] # None /\ disk[e].to = o
    BY <1>1, <1>2, <1>3, KnownOrigin
  <2>6. FileHasMap'
    <3> SUFFICES ASSUME loop', NEW x \in Range(map')
                 PROVE  disk'[x.ep] # None /\ disk'[x.ep].to = x.to
      BY DEF FileHasMap
    <3>1. CASE disk' = FileOf(map')
      BY <2>4, <3>1
    <3>2. CASE disk' = disk /\ ~Changed(e, o)
      BY <1>1, <1>2, <2>1, <2>2, <2>5, <3>2 DEF FileHasMap
    <3>3. QED BY <2>1, <3>1, <3>2
  <2>7. RightOrigin'
    <3> SUFFICES ASSUME NEW x \in Eps, Proxied(x)'
                 PROVE  /\ \A m \in Range(map') : m.ep = x => m.to = dial'[x].to
                        /\ disk'[x] # None => disk'[x].to = dial'[x].to
      BY DEF RightOrigin
    <3>1. \A m \in Range(map') : m.ep = x => m.to = dial'[x].to
      <4>1. CASE x = e
        BY <1>2, <2>1, <2>2, <4>1
      <4>2. CASE x # e
        <5>1. Proxied(x) /\ dial'[x] = dial[x]
          BY <1>2, <4>2 DEF Proxied
        <5>2. QED BY <1>1, <2>1, <2>2, <4>2, <5>1 DEF RightOrigin
      <4>3. QED BY <4>1, <4>2
    <3>2. CASE disk' = FileOf(map')
      BY <2>4, <3>1, <3>2
    <3>3. CASE disk' = disk /\ x # e
      <4>1. Proxied(x) /\ dial'[x] = dial[x]
        BY <1>2, <3>3 DEF Proxied
      <4>2. QED BY <1>1, <3>1, <3>3, <4>1 DEF RightOrigin
    <3>4. CASE disk' = disk /\ x = e /\ ~loop'
      <4>1. Proxied(x) /\ dial' = dial
        <5>1. dial' = dial
          BY <1>2, <1>7, <3>4 DEF Remember, Evicted, store
        <5>2. QED BY <5>1 DEF Proxied
      <4>2. QED BY <1>1, <3>1, <3>4, <4>1 DEF RightOrigin
    <3>5. CASE disk' = disk /\ x = e /\ ~Changed(e, o)
      BY <1>2, <2>5, <3>1, <3>5
    <3>6. QED BY <2>1, <3>2, <3>3, <3>4, <3>5
  <2>8. QED BY <1>6, <2>6, <2>7 DEF FileInv
<1>8. CASE /\ UNCHANGED <<store, dropped, faults>>
           /\ dial'[e].first = "proxy" => dial[e].first = "proxy"
  <2>1. \A x \in Eps : Proxied(x)' => Proxied(x) /\ dial'[x].to = dial[x].to
    BY <1>2, <1>3, <1>8 DEF Proxied, o
  <2>2. FileHasMap' /\ RightOrigin'
    BY <1>1, <1>8, <2>1 DEF FileHasMap, RightOrigin, store
  <2>3. QED BY <1>6, <2>2 DEF FileInv
<1>9. QED BY <1>2, <1>7, <1>8

LEMMA StillProxied ==
    ASSUME TypeOK, Aside, NEW x \in Eps, Proxied(x)'
    PROVE  Proxied(x) /\ dial'[x] = dial[x]
<1>1. \/ dial'[x] = dial[x] \/ dial'[x] = None \/ dial'[x].first = "none"
  BY AsideFact DEF NewConn
<1>2. QED BY <1>1 DEF Proxied

LEMMA AsideAnswers ==
    ASSUME TypeOK, RightOrigin, AnswersAreRight, Aside
    PROVE  AnswersAreRight'
<1>1. answer \in [Eps -> [how : Hows, to : Origins] \cup {None}]
      /\ dial \in [Eps -> Conn \cup {None}]
  BY DEF TypeOK
<1>2. ASSUME NEW e \in Eps, Resolve(e) PROVE AnswersAreRight'
  <2>1. Proxied(e) /\ dial' = dial /\ disk' = disk
    BY <1>2 DEF Resolve, Proxied, net, store
  <2>2. CASE ResolveByMap(e)
    <3>1. /\ disk[e] # None
          /\ answer' = [answer EXCEPT ![e] = [how |-> "map", to |-> disk[e].to]]
      BY <2>2 DEF ResolveByMap, InFile
    <3>2. disk[e].to = dial[e].to
      BY <2>1, <3>1 DEF RightOrigin
    <3>3. QED BY <1>1, <2>1, <3>1, <3>2 DEF AnswersAreRight, Proxied
  <2>3. CASE ResolveByWatcher(e)
    <3>1. PICK x \in GameEps, how \in {"watcher", "unread"} :
            answer' = [answer EXCEPT ![e] = [how |-> how, to |-> dial[x].to]]
      BY <2>3 DEF ResolveByWatcher
    <3>2. QED BY <1>1, <2>1, <3>1 DEF AnswersAreRight, Proxied
  <2>4. QED BY <1>2, <2>2, <2>3 DEF Resolve
<1>3. ASSUME NEW e \in Eps, HangUp(e) PROVE AnswersAreRight'
  BY <1>1, <1>3 DEF HangUp, AnswersAreRight, Proxied
<1>4. ASSUME NEW e \in Eps, NEW o \in Origins, Dial(e, o) PROVE AnswersAreRight'
  BY <1>1, <1>4 DEF Dial, AnswersAreRight, Proxied
<1>5. ASSUME GameEnds PROVE AnswersAreRight'
  BY <1>1, <1>5 DEF GameEnds, AnswersAreRight, Proxied
<1>6. ASSUME GameStarts \/ TimePasses PROVE AnswersAreRight'
  BY <1>6 DEF GameStarts, TimePasses, AnswersAreRight, Proxied, net
<1>7. QED BY <1>2, <1>3, <1>4, <1>5, <1>6 DEF Aside

LEMMA FileStep == ASSUME MapInv, FileInv, Next PROVE FileInv'
<1>1. TypeOK /\ Keyed(Range(map)) /\ FileHasMap /\ RightOrigin /\ AnswersAreRight
  BY DEF MapInv, FileInv
<1>2. \A x \in Range(map) : x \in Entry
  BY <1>1, EntriesOfSeq DEF TypeOK
<1>3. CASE CleanUp
  <2>1. /\ Keyed(Range(map'))
        /\ Range(map') = {x \in Range(map) : Kept(x)}
        /\ disk' = FileOf(map') \/ disk' = disk
    BY <1>1, <1>3, CleanUpFact
  <2>2. Range(map') \subseteq Entry
    BY <1>2, <2>1
  <2>3. /\ \A x \in Range(map') : /\ FileOf(map')[x.ep] # None
                                  /\ FileOf(map')[x.ep].to = x.to /\ FileOf(map')[x.ep].ts = x.ts
        /\ \A e \in Eps : FileOf(map')[e] # None => \E x \in Range(map') : x.ep = e
    BY <2>1, <2>2, FileFact
  <2>4. UNCHANGED <<dial, loop, answer>>
    BY <1>3 DEF CleanUp, net
  <2>5. FileHasMap'
    BY <1>1, <2>1, <2>3, <2>4 DEF FileHasMap
  <2>6. RightOrigin'
    <3> SUFFICES ASSUME NEW e \in Eps, Proxied(e)
                 PROVE  /\ \A m \in Range(map') : m.ep = e => m.to = dial[e].to
                        /\ disk'[e] # None => disk'[e].to = dial[e].to
      BY <2>4 DEF RightOrigin, Proxied
    <3>1. \A m \in Range(map') : m.ep = e => m.to = dial[e].to
      BY <1>1, <2>1 DEF RightOrigin
    <3>2. CASE disk' = FileOf(map')
      BY <2>3, <3>1, <3>2
    <3>3. CASE disk' = disk
      BY <1>1, <3>1, <3>3 DEF RightOrigin
    <3>4. QED BY <2>1, <3>2, <3>3
  <2>7. AnswersAreRight'
    BY <1>1, <2>4 DEF AnswersAreRight, Proxied
  <2>8. QED BY <2>5, <2>6, <2>7 DEF FileInv
<1>4. CASE RestartRedirector
  <2>1. map' = <<>> /\ UNCHANGED <<dial, disk, answer>>
    BY <1>4 DEF RestartRedirector, net
  <2>2. Range(<<>>) = {}
    BY EmptySeq DEF Range
  <2>3. QED
    BY <1>1, <2>1, <2>2 DEF FileInv, FileHasMap, RightOrigin, AnswersAreRight, Proxied
<1>5. CASE Aside
  <2>1. UNCHANGED store
    BY <1>1, <1>5, AsideFact
  <2>2. FileHasMap'
    BY <1>1, <2>1 DEF FileHasMap, store
  <2>3. RightOrigin'
    BY <1>1, <1>5, <2>1, StillProxied DEF RightOrigin, store
  <2>4. QED BY <1>1, <1>5, <2>2, <2>3, AsideAnswers DEF FileInv
<1>6. QED BY <1>3, <1>4, <1>5, PacketFile, NextCases

-----------------------------------------------------------------------------
(* Entries last as long as their connections.                              *)

LEMMA InitKeep == ASSUME Init PROVE KeepInv
BY DEF Init, KeepInv, DroppedAreGone, WrittenWhileYoung, KeptWhileUsed, Proxied

LEMMA PacketKeep ==
    ASSUME MapInv, FileInv, KeepInv, NEW e \in Eps, Packet(e)
    PROVE  KeepInv'
<1> DEFINE o == dial[e].to
<1>1. /\ TypeOK /\ Keyed(Range(map)) /\ InPast /\ FileHasMap
      /\ DroppedAreGone /\ WrittenWhileYoung /\ KeptWhileUsed
  BY DEF MapInv, FileInv, KeepInv
<1>2. /\ dial[e] \in Conn /\ dial'[e] \in Conn
      /\ \A x \in Eps : x # e => dial'[x] = dial[x]
      /\ dial'[e].since = dial[e].since
      /\ dial[e].reused => dial'[e].reused
      /\ loop
      /\ \/ /\ Remember(e, o)
            /\ \/ dial' = dial /\ ~loop'
               \/ /\ loop' /\ dial'[e].last = now
                  /\ dial[e].first # "proxy" =>
                       dial'[e].reused \/ Changed(e, o) \/ dial'[e].first # "proxy"
         \/ /\ UNCHANGED <<store, dropped, faults>>
            /\ dial'[e].last = dial[e].last
            /\ dial'[e].first = "proxy" => dial[e].first = "proxy"
  BY <1>1, PacketFact
<1>3. o \in Origins /\ dial[e] # None /\ dial'[e] # None
  BY <1>2, NoneIsNone DEF Conn
<1>4. now' = now /\ now \in Nat
  BY <1>1 DEF Packet, TypeOK
<1>5. /\ dial[e].since <= now /\ dial[e].last <= now
      /\ dial[e].since \in Nat /\ dial[e].last \in Nat
  <2>1. dial[e].since <= dial[e].last /\ dial[e].last <= now
    BY <1>1, <1>3 DEF InPast
  <2>2. dial[e].since \in Nat /\ dial[e].last \in Nat
    BY <1>2 DEF Conn
  <2>3. QED BY <1>4, <2>1, <2>2
<1> HIDE DEF o
<1>6. CASE UNCHANGED <<store, dropped, faults>> /\ dial'[e].last = dial[e].last
           /\ (dial'[e].first = "proxy" => dial[e].first = "proxy")
  <2>1. \A x \in Eps : Proxied(x)' =>
          /\ Proxied(x) /\ dial'[x].since = dial[x].since /\ dial'[x].last = dial[x].last
          /\ dial[x].reused => dial'[x].reused
    BY <1>2, <1>3, <1>6 DEF Proxied
  <2>2. map' = map /\ disk' = disk /\ loop' = loop /\ dropped' = dropped
    BY <1>6 DEF store
  <2>3. QED BY <1>1, <1>4, <2>1, <2>2
            DEF KeepInv, DroppedAreGone, WrittenWhileYoung, KeptWhileUsed
<1>7. CASE /\ Remember(e, o)
           /\ \/ dial' = dial /\ ~loop'
              \/ /\ loop' /\ dial'[e].last = now
                 /\ dial[e].first # "proxy" =>
                      dial'[e].reused \/ Changed(e, o) \/ dial'[e].first # "proxy"
  <2>1. /\ map' \in Seq(Entry) /\ Keyed(Range(map'))
        /\ New(e, o) \in Range(map')
        /\ \A x \in Range(map') : x = New(e, o) \/ (x \in Range(map) /\ x.ep # e)
        /\ \A x \in Range(map) :
             x.ep # e => x \in Range(map') \/ x.ep \in dropped'
        /\ \A x \in Eps \ dropped' : x # e \/ ~loop' => x \notin dropped
        /\ e \in dropped' => e \in dropped /\ ~loop'
        /\ \A x \in dropped' : x \in dropped \/ \A y \in Range(map') : y.ep # x
        /\ \/ disk' = FileOf(map')
           \/ disk' = disk /\ (~loop' \/ ~Changed(e, o))
    BY <1>1, <1>3, <1>7, RememberFact
  <2>2. New(e, o).ep = e /\ New(e, o).ts = now
    BY DEF New
  <2>3. \A x \in Range(map') : x \in Entry
    BY <2>1, EntriesOfSeq
  <2>4. \A x \in Range(map') :
          /\ FileOf(map')[x.ep] # None
          /\ FileOf(map')[x.ep].to = x.to /\ FileOf(map')[x.ep].ts = x.ts
    BY <2>1, <2>3, FileFact
  <2>5. DroppedAreGone'
    BY <1>1, <1>2, <2>1, <2>2 DEF DroppedAreGone
  <2>6. ASSUME NEW x \in Eps \ dropped', Proxied(x)', x # e
        PROVE  x \notin dropped /\ Proxied(x) /\ dial'[x] = dial[x]
    BY <1>2, <2>1, <2>6 DEF Proxied
  <2>7. WrittenWhileYoung'
    <3> SUFFICES ASSUME NEW x \in Eps \ dropped', Proxied(x)', ~dial'[x].reused
                 PROVE  \/ /\ \E m \in Range(map') : m.ep = x /\ m.ts >= dial'[x].since
                           /\ disk'[x] # None /\ disk'[x].ts >= dial'[x].since
                        \/ now - dial'[x].since > KeepFor
      BY <1>4 DEF WrittenWhileYoung
    <3>1. CASE x # e
      <4>1. x \notin dropped /\ Proxied(x) /\ dial'[x] = dial[x]
        BY <2>6, <3>1
      <4>2. \/ /\ \E m \in Range(map) : m.ep = x /\ m.ts >= dial[x].since
               /\ disk[x] # None /\ disk[x].ts >= dial[x].since
            \/ now - dial[x].since > KeepFor
        BY <1>1, <4>1 DEF WrittenWhileYoung
      <4>3. ASSUME NEW m \in Range(map), m.ep = x, m.ts >= dial[x].since,
                   disk[x] # None, disk[x].ts >= dial[x].since
            PROVE  /\ m \in Range(map')
                   /\ disk'[x] # None /\ disk'[x].ts >= dial[x].since
        <5>1. m \in Range(map')
          BY <2>1, <3>1, <4>3
        <5>2. QED BY <2>1, <2>4, <4>3, <5>1
      <4>4. QED BY <4>1, <4>2, <4>3
    <3>2. CASE x = e
      <4>1. \E m \in Range(map') : m.ep = x /\ m.ts >= dial'[x].since
        BY <1>2, <1>5, <2>1, <2>2, <3>2
      <4>2. CASE disk' = FileOf(map')
        BY <1>2, <1>5, <2>1, <2>2, <2>4, <3>2, <4>1, <4>2
      <4>3. CASE disk' = disk /\ ~loop'
        <5>1. dial' = dial /\ e \notin dropped
          BY <1>7, <2>1, <3>2, <4>3
        <5>2. QED BY <1>1, <3>2, <4>1, <4>3, <5>1 DEF WrittenWhileYoung, Proxied
      <4>4. CASE disk' = disk /\ loop' /\ ~Changed(e, o)
        <5>1. Proxied(e) /\ ~dial[e].reused
          <6>1. dial'[e].first = "proxy" /\ ~dial'[e].reused
            BY <3>2 DEF Proxied
          <6>2. dial[e].first = "proxy"
            BY <1>7, <4>4, <6>1
          <6>3. QED BY <1>2, <1>3, <6>1, <6>2 DEF Proxied
        <5>2. \E m \in Range(map) : m.ep = e
          BY <1>1, <1>2, <1>3, <4>4, KnownOrigin
        <5>3. e \notin dropped
          BY <1>1, <1>2, <5>2 DEF DroppedAreGone
        <5>4. QED BY <1>1, <1>2, <3>2, <4>1, <4>4, <5>1, <5>3 DEF WrittenWhileYoung
      <4>5. QED BY <2>1, <4>2, <4>3, <4>4
    <3>3. QED BY <3>1, <3>2
  <2>8. KeptWhileUsed'
    <3> SUFFICES ASSUME NEW x \in Eps \ dropped', Proxied(x)'
                 PROVE  \/ \E m \in Range(map') : m.ep = x /\ m.ts >= dial'[x].last
                        \/ now - dial'[x].last > KeepFor
      BY <1>4 DEF KeptWhileUsed
    <3>1. CASE x # e
      <4>1. x \notin dropped /\ Proxied(x) /\ dial'[x] = dial[x]
        BY <2>6, <3>1
      <4>2. \/ \E m \in Range(map) : m.ep = x /\ m.ts >= dial[x].last
            \/ now - dial[x].last > KeepFor
        BY <1>1, <4>1 DEF KeptWhileUsed
      <4>3. ASSUME NEW m \in Range(map), m.ep = x
            PROVE  m \in Range(map')
        BY <2>1, <3>1, <4>3
      <4>4. QED BY <4>1, <4>2, <4>3
    <3>2. CASE x = e
      <4>1. dial'[e].last <= now
        BY <1>4, <1>5, <1>7
      <4>2. QED BY <1>4, <2>1, <2>2, <3>2, <4>1
    <3>3. QED BY <3>1, <3>2
  <2>9. QED BY <2>5, <2>7, <2>8 DEF KeepInv
<1>8. QED BY <1>2, <1>6, <1>7

LEMMA CleanUpKeep ==
    ASSUME MapInv, KeepInv, CleanUp
    PROVE  KeepInv'
<1>1. /\ TypeOK /\ Keyed(Range(map)) /\ InPast
      /\ DroppedAreGone /\ WrittenWhileYoung /\ KeptWhileUsed
  BY DEF MapInv, KeepInv
<1>2. /\ map' \in Seq(Entry) /\ Keyed(Range(map'))
      /\ Range(map') = {x \in Range(map) : Kept(x)}
      /\ disk' = FileOf(map') \/ disk' = disk
  BY <1>1, CleanUpFact
<1>3. UNCHANGED <<now, dial, loop, dropped>>
  BY DEF CleanUp, net
<1>4. \A x \in Range(map') : x \in Entry
  BY <1>2, EntriesOfSeq
<1>5. \A x \in Range(map') :
          /\ FileOf(map')[x.ep] # None
          /\ FileOf(map')[x.ep].to = x.to /\ FileOf(map')[x.ep].ts = x.ts
  BY <1>2, <1>4, FileFact
<1>6. \A x \in Range(map) : x \in Entry
  BY <1>1, EntriesOfSeq DEF TypeOK
<1>7. now \in Nat /\ KeepFor \in Nat
  BY <1>1, TimesAssumption DEF TypeOK
(* What was no younger than t and has been forgotten says that t is long ago. *)
<1>8. ASSUME NEW x \in Range(map), NEW t \in Nat, x.ts >= t, x \notin Range(map')
      PROVE  now - t > KeepFor
  <2>1. ~(now - x.ts <= KeepFor)
    BY <1>2, <1>8 DEF Kept
  <2>2. x.ts \in Nat
    BY <1>6 DEF Entry
  <2>3. QED BY <1>7, <1>8, <2>1, <2>2
<1>9. \A x \in Eps : Proxied(x) => dial[x].since \in Nat /\ dial[x].last \in Nat
  BY <1>1 DEF TypeOK, Proxied, Conn
<1>10. DroppedAreGone'
  BY <1>1, <1>2, <1>3 DEF DroppedAreGone
<1>11. WrittenWhileYoung'
  <2> SUFFICES ASSUME NEW x \in Eps \ dropped, Proxied(x), ~dial[x].reused
               PROVE  \/ /\ \E m \in Range(map') : m.ep = x /\ m.ts >= dial[x].since
                         /\ disk'[x] # None /\ disk'[x].ts >= dial[x].since
                      \/ now - dial[x].since > KeepFor
    BY <1>3 DEF WrittenWhileYoung, Proxied
  <2>1. CASE now - dial[x].since > KeepFor
    BY <2>1
  <2>2. CASE \E m \in Range(map) : m.ep = x /\ m.ts >= dial[x].since
             /\ disk[x] # None /\ disk[x].ts >= dial[x].since
    <3>1. PICK m \in Range(map) : m.ep = x /\ m.ts >= dial[x].since
      BY <2>2
    <3>2. CASE m \in Range(map')
      BY <1>2, <1>5, <2>2, <3>1, <3>2
    <3>3. CASE m \notin Range(map')
      BY <1>8, <1>9, <3>1, <3>3
    <3>4. QED BY <3>2, <3>3
  <2>3. QED BY <1>1, <2>1, <2>2 DEF WrittenWhileYoung
<1>12. KeptWhileUsed'
  <2> SUFFICES ASSUME NEW x \in Eps \ dropped, Proxied(x)
               PROVE  \/ \E m \in Range(map') : m.ep = x /\ m.ts >= dial[x].last
                      \/ now - dial[x].last > KeepFor
    BY <1>3 DEF KeptWhileUsed, Proxied
  <2>1. CASE now - dial[x].last > KeepFor
    BY <2>1
  <2>2. CASE \E m \in Range(map) : m.ep = x /\ m.ts >= dial[x].last
    BY <1>8, <1>9, <2>2
  <2>3. QED BY <1>1, <2>1, <2>2 DEF KeptWhileUsed
<1>13. QED BY <1>10, <1>11, <1>12 DEF KeepInv

LEMMA KeepStep == ASSUME MapInv, FileInv, KeepInv, Next PROVE KeepInv'
<1>1. /\ TypeOK /\ DroppedAreGone /\ WrittenWhileYoung /\ KeptWhileUsed
  BY DEF MapInv, KeepInv
<1>2. CASE RestartRedirector
  <2>1. map' = <<>> /\ dropped' = Eps
    BY <1>2 DEF RestartRedirector
  <2>2. Range(<<>>) = {}
    BY EmptySeq DEF Range
  <2>3. QED BY <2>1, <2>2 DEF KeepInv, DroppedAreGone, WrittenWhileYoung, KeptWhileUsed
<1>3. CASE Aside
  <2>1. UNCHANGED <<store, dropped>> /\ now' \in Nat /\ now' >= now
    BY <1>1, <1>3, AsideFact
  <2>2. map' = map /\ disk' = disk /\ loop' = loop /\ dropped' = dropped
    BY <2>1 DEF store
  <2>3. \A x \in Eps : Proxied(x)' =>
          /\ Proxied(x) /\ dial'[x] = dial[x]
          /\ now - dial[x].since > KeepFor => now' - dial[x].since > KeepFor
          /\ now - dial[x].last > KeepFor => now' - dial[x].last > KeepFor
    <3> SUFFICES ASSUME NEW x \in Eps, Proxied(x)'
                 PROVE  /\ Proxied(x) /\ dial'[x] = dial[x]
                        /\ now - dial[x].since > KeepFor => now' - dial[x].since > KeepFor
                        /\ now - dial[x].last > KeepFor => now' - dial[x].last > KeepFor
      OBVIOUS
    <3>1. Proxied(x) /\ dial'[x] = dial[x]
      BY <1>1, <1>3, StillProxied
    <3>2. dial[x].since \in Nat /\ dial[x].last \in Nat /\ now \in Nat /\ KeepFor \in Nat
      BY <1>1, <3>1, TimesAssumption DEF TypeOK, Proxied, Conn
    <3>3. QED BY <2>1, <3>1, <3>2
  <2>4. DroppedAreGone'
    BY <1>1, <2>2 DEF DroppedAreGone
  <2>5. WrittenWhileYoung'
    BY <1>1, <2>2, <2>3 DEF WrittenWhileYoung
  <2>6. KeptWhileUsed'
    BY <1>1, <2>2, <2>3 DEF KeptWhileUsed
  <2>7. QED BY <2>4, <2>5, <2>6 DEF KeepInv
<1>4. QED BY <1>2, <1>3, PacketKeep, CleanUpKeep, NextCases

-----------------------------------------------------------------------------
(* Whose packet it is.                                                     *)

LEMMA InitOwner == ASSUME Init PROVE OwnerInv /\ NeverLooped
BY DEF Init, OwnerInv, OwnsGameOnly, FoundIsCached, NeverLooped, Eps

(* The proxy's endpoints have no owner.                                    *)
LEMMA NobodyKnown ==
    ASSUME TypeOK, OwnsGameOnly, NEW x \in ProxyEps
    PROVE  \A t, ok : \A s \in Refreshed(t, ok) : s[x] = None
<1>1. x \in Eps /\ x \notin GameEps /\ seen[x] = None
  BY EndpointsAssumption DEF Eps, OwnsGameOnly
<1>2. Pruned[x] = None
  BY <1>1 DEF Pruned
<1>3. \A t, ok : \A s \in Scanned(t, ok) : s[x] = None
  BY <1>1, <1>2 DEF Scanned, InScan
<1>4. QED BY <1>2, <1>3 DEF Refreshed

(* What stays found through a packet, and what comes to be, is in the cache*)
(* with the time of the last scan: either that scan is young enough to be  *)
(* believed, or there is another, and it has found the connection.         *)
LEMMA FoundOwner ==
    ASSUME MapInv, FoundIsCached, NEW e \in Eps, Packet(e), NEW x \in found'
    PROVE  /\ x \in GameEps /\ x \in Eps /\ dial[x] # None
           /\ game # 0 /\ game \in Nat /\ pid' = game
           /\ seen'[x] = [pid |-> game, ts |-> scanAt']
<1>1. found' = FoundNow(e) /\ game # 0 /\ pid' = game
  BY DEF Packet, FoundNow
<1>2. /\ TypeOK /\ now \in Nat /\ scanAt \in Nat /\ game \in Nat
      /\ ScanInterval \in Nat /\ EpTtl \in Nat /\ ScanInterval <= EpTtl
  BY TimesAssumption DEF MapInv, TypeOK
<1>3. PICK t, ok : RefreshEndpoints(e, t, ok)
  BY DEF Packet
<1>4. CASE Fresh(e) \/ now - scanAt < ScanInterval
  <2>1. x \in found
    BY <1>1, <1>4 DEF FoundNow
  <2>2. /\ x \in GameEps /\ x \in Eps /\ dial[x] # None
        /\ seen[x] = [pid |-> game, ts |-> scanAt]
    BY <2>1 DEF FoundIsCached, Eps
  <2>3. seen[x].ts = scanAt /\ seen[x] # None
    <3>1. [pid |-> game, ts |-> scanAt].ts = scanAt
      OBVIOUS
    <3>2. QED BY <1>2, <2>2, <3>1, NoneIsNone
  <2>4. CASE Fresh(e)
    BY <1>1, <1>2, <1>3, <2>2, <2>4 DEF RefreshEndpoints
  <2>5. CASE ~Fresh(e) /\ now - scanAt < ScanInterval
    <3>1. Fresh(x)
      BY <1>2, <2>3, <2>5 DEF Fresh
    <3>2. Pruned[x] = seen[x]
      BY <2>2, <3>1 DEF Pruned
    <3>3. seen' = Pruned /\ scanAt' = scanAt
      BY <1>3, <2>5 DEF RefreshEndpoints, Refreshed
    <3>4. QED BY <1>1, <1>2, <2>2, <3>2, <3>3
  <2>6. QED BY <1>4, <2>4, <2>5
<1>5. CASE ~(Fresh(e) \/ now - scanAt < ScanInterval)
  <2>1. scanAt' = now
    BY <1>3, <1>5 DEF RefreshEndpoints
  <2>2. x \in GameEps /\ dial[x] # None /\ seen'[x] = [pid |-> game, ts |-> now]
    BY <1>1, <1>5 DEF FoundNow
  <2>3. QED BY <1>1, <1>2, <2>1, <2>2 DEF Eps
<1>6. QED BY <1>4, <1>5

LEMMA PacketOwner ==
    ASSUME MapInv, OwnerInv, NeverLooped, NEW e \in Eps, Packet(e)
    PROVE  OwnerInv' /\ NeverLooped'
<1>1. TypeOK /\ OwnsGameOnly /\ FoundIsCached /\ ~looped
  BY DEF MapInv, OwnerInv, NeverLooped
<1>2. PICK f \in {game, 0}, g \in {game, 0}, ok \in BOOLEAN :
        /\ RefreshTarget(e, f, g) /\ RefreshEndpoints(e, Target(pid, pidAt, f), ok)
        /\ looped' = (looped \/ (/\ Redirected(e) /\ e \in ProxyEps
                                  /\ game # 0 /\ f = game /\ g = game))
  BY DEF Packet
<1>3. /\ \A x \in Eps : dial[x] # None => dial'[x] # None
  BY <1>1, PacketFact, NoneIsNone
<1>4. OwnsGameOnly'
  <2>1. seen' = seen \/ seen' \in Refreshed(Target(pid, pidAt, f), ok)
    BY <1>2 DEF RefreshEndpoints
  <2>2. QED BY <1>1, <2>1, NobodyKnown DEF OwnsGameOnly
<1>5. FoundIsCached'
  <2>1. game' = game
    BY DEF Packet
  <2>2. QED BY <1>1, <1>3, <2>1, FoundOwner DEF FoundIsCached
<1>6. NeverLooped'
  <2>1. ASSUME Redirected(e), e \in ProxyEps, game # 0, f = game, g = game
        PROVE  FALSE
    <3>1. Owner(e)' = 0
      BY <1>4, <2>1 DEF OwnsGameOnly, Owner
    <3>2. pid' = 0
      BY <2>1, <3>1 DEF Redirected
    <3>3. ~Fresh(e)
      BY <1>1, <2>1 DEF OwnsGameOnly, Fresh
    <3>4. QED
      BY <1>2, <2>1, <3>2, <3>3 DEF RefreshTarget, Target
  <2>2. QED BY <1>1, <1>2, <2>1 DEF NeverLooped
<1>7. QED BY <1>4, <1>5, <1>6 DEF OwnerInv

LEMMA OwnerStep ==
    ASSUME MapInv, OwnerInv, NeverLooped, Next
    PROVE  OwnerInv' /\ NeverLooped'
<1>1. TypeOK /\ OwnsGameOnly /\ FoundIsCached /\ ~looped
  BY DEF MapInv, OwnerInv, NeverLooped
<1>2. CASE CleanUp
  <2>1. UNCHANGED <<net, caches, looped, found>>
    BY <1>2 DEF CleanUp
  <2>2. QED BY <1>1, <2>1
            DEF OwnerInv, OwnsGameOnly, FoundIsCached, NeverLooped, net, caches
<1>3. CASE RestartRedirector
  BY <1>1, <1>3 DEF RestartRedirector, OwnerInv, OwnsGameOnly, FoundIsCached, NeverLooped, Eps
<1>4. CASE Aside
  <2>1. UNCHANGED <<caches, looped>> /\ found' \subseteq found
    BY <1>1, <1>4, AsideFact
  <2>2. OwnsGameOnly' /\ NeverLooped'
    BY <1>1, <2>1 DEF OwnsGameOnly, NeverLooped, caches
  <2>3. dial \in [Eps -> Conn \cup {None}]
    BY <1>1 DEF TypeOK
  <2>4. \A x \in found' : dial'[x] # None /\ game' = game
    <3> SUFFICES ASSUME NEW x \in found' PROVE dial'[x] # None /\ game' = game
      OBVIOUS
    <3>1. x \in found /\ x \in GameEps /\ x \in Eps /\ dial[x] # None /\ game # 0
      BY <1>1, <2>1 DEF FoundIsCached, Eps
    <3>2. ASSUME NEW e \in Eps, Resolve(e) PROVE dial'[x] # None /\ game' = game
      BY <3>1, <3>2 DEF Resolve, net
    <3>3. ASSUME NEW e \in Eps, HangUp(e) PROVE dial'[x] # None /\ game' = game
      BY <2>3, <3>1, <3>3 DEF HangUp
    <3>4. ASSUME NEW e \in Eps, NEW o \in Origins, Dial(e, o)
          PROVE  dial'[x] # None /\ game' = game
      BY <2>3, <3>1, <3>4 DEF Dial
    <3>5. ASSUME GameStarts \/ TimePasses PROVE dial'[x] # None /\ game' = game
      BY <3>1, <3>5 DEF GameStarts, TimePasses, net
    <3>6. ~GameEnds
      BY <3>1 DEF GameEnds
    <3>7. QED BY <1>4, <3>2, <3>3, <3>4, <3>5, <3>6 DEF Aside
  <2>5. FoundIsCached'
    BY <1>1, <2>1, <2>4 DEF FoundIsCached, caches
  <2>6. QED BY <2>2, <2>5 DEF OwnerInv
<1>5. QED BY <1>2, <1>3, <1>4, PacketOwner, NextCases

-----------------------------------------------------------------------------
(* The theorems.                                                           *)

IInv == MapInv /\ FileInv /\ KeepInv /\ OwnerInv /\ NeverLooped

LEMMA Inductive == Spec => []IInv
<1>1. Init => IInv
  BY InitMap, InitFile, InitKeep, InitOwner DEF IInv
<1>2. IInv /\ [Next]_vars => IInv'
  <2> SUFFICES ASSUME IInv, [Next]_vars PROVE IInv'
    OBVIOUS
  <2>1. CASE Next
    BY <2>1, MapStep, FileStep, KeepStep, OwnerStep DEF IInv
  <2>2. CASE UNCHANGED vars
    BY <2>2 DEF IInv, vars, net, caches, store, MapInv, TypeOK, InPast, FileInv, FileHasMap,
                RightOrigin, AnswersAreRight, KeepInv, DroppedAreGone, WrittenWhileYoung,
                KeptWhileUsed, OwnerInv, OwnsGameOnly, FoundIsCached, NeverLooped, Proxied, bounds
  <2>3. QED BY <2>1, <2>2
<1>3. QED BY <1>1, <1>2, PTL DEF Spec

(* The proxy guesses only where MapIsTrusted says: an entry written for the*)
(* connection is in the file, with a time of the connection, and it cannot *)
(* be too old for a proxy that resolves soon.                              *)
LEMMA GuessStep ==
    ASSUME IInv, Next, NEW e \in Eps \ dropped,
           answer'[e] # None, answer'[e] # answer[e], answer'[e].how = "watcher"
    PROVE  dial[e].reused
<1>1. TypeOK /\ WrittenWhileYoung /\ InPast
  BY DEF IInv, MapInv, KeepInv
<1>2. answer \in [Eps -> [how : Hows, to : Origins] \cup {None}]
  BY <1>1 DEF TypeOK
<1>3. ASSUME NEW x \in Eps, Resolve(x)
      PROVE  dial[e].reused
  <2>1. x = e
    <3>1. \E a : answer' = [answer EXCEPT ![x] = a]
      BY <1>3 DEF Resolve, ResolveByMap, ResolveByWatcher
    <3>2. QED BY <1>2, <3>1
  <2>2. ResolveByWatcher(e)
    <3>1. [how |-> "map", to |-> disk[e].to].how = "map"
      OBVIOUS
    <3>2. ~ResolveByMap(e)
      BY <1>2, <3>1 DEF ResolveByMap
    <3>3. QED BY <1>3, <2>1, <3>2 DEF Resolve
  <2>3. /\ Proxied(e) /\ ~InFile(e)
        /\ now - dial[e].since <= MaxAge - PersistAfter
    <3>1. PICK y \in GameEps, how \in {"unread"} \cup (IF InFile(e) THEN {} ELSE {"watcher"}) :
            answer' = [answer EXCEPT ![e] = [how |-> how, to |-> dial[y].to]]
      BY <2>2 DEF ResolveByWatcher
    <3>2. how = "watcher"
      BY <1>2, <3>1
    <3>3. ~InFile(e)
      BY <3>2
    <3>4. QED BY <1>3, <2>1, <3>3 DEF Resolve, Proxied
  <2>4. /\ now \in Nat /\ dial[e].since \in Nat /\ MaxAge \in Nat /\ PersistAfter \in Nat
        /\ KeepFor \in Nat /\ MaxAge < KeepFor
    BY <1>1, <2>3, TimesAssumption DEF TypeOK, Proxied, Conn
  <2>5. ~(now - dial[e].since > KeepFor)
    BY <2>3, <2>4
  <2>6. ASSUME disk[e] # None, disk[e].ts >= dial[e].since PROVE FALSE
    <3>1. disk[e].ts \in Nat
      BY <1>1, <2>6 DEF TypeOK
    <3>2. now - disk[e].ts <= MaxAge
      BY <2>3, <2>4, <2>6, <3>1
    <3>3. QED BY <2>3, <2>6, <3>2 DEF InFile
  <2>7. QED BY <1>1, <2>3, <2>5, <2>6 DEF WrittenWhileYoung
<1>4. ASSUME NEW x \in Eps, HangUp(x) PROVE FALSE
  BY <1>2, <1>4 DEF HangUp
<1>5. ASSUME NEW x \in Eps, NEW o \in Origins, Dial(x, o) PROVE FALSE
  BY <1>2, <1>5 DEF Dial
<1>6. ASSUME GameEnds PROVE FALSE
  BY <1>2, <1>6 DEF GameEnds
<1>7. ASSUME NEW x \in Eps, Packet(x) PROVE FALSE
  BY <1>7 DEF Packet
<1>8. ASSUME CleanUp \/ RestartRedirector \/ GameStarts \/ TimePasses PROVE FALSE
  BY <1>8 DEF CleanUp, RestartRedirector, GameStarts, TimePasses
<1>9. QED BY <1>3, <1>4, <1>5, <1>6, <1>7, <1>8 DEF Next

(* What the proxy reads in the file is where the connection was going,     *)
(* though endpoints are reused, entries evicted or forgotten, writes fail  *)
(* and the redirector restarts beside its old file; and a file that can be *)
(* read is silent only about connections that were evicted or reused an    *)
(* endpoint whose entry was too young to be written again (proc_divert.py  *)
(* _remember_conn, _cleanup_conn_map; server.py _lazy_resolve_upstream).   *)
THEOREM TheMapIsTrusted == Spec => MapIsTrusted
<1>1. IInv => TypeOK /\ MapNeverLies
  BY DEF IInv, MapInv, FileInv, AnswersAreRight, MapNeverLies
<1>2. IInv /\ [Next]_vars =>
        [\A e \in Eps \ dropped :
           answer'[e] # None /\ answer'[e] # answer[e] /\ answer'[e].how = "watcher"
               => dial[e].reused]_vars
  BY GuessStep
<1>3. QED BY <1>1, <1>2, Inductive, PTL DEF Spec, MapIsTrusted, GuessOnlyForReused

(* As long as a connection sends, or has sent within KeepFor, its origin is*)
(* found for the reply, unless it was evicted (_lookup_conn).              *)
THEOREM RepliesAreFound == Spec => []RepliesFind
<1>1. IInv => RepliesFind
  <2> SUFFICES ASSUME IInv, NEW e \in Eps \ dropped, dial[e] # None,
                      dial[e].first = "proxy", now - dial[e].last <= KeepFor
               PROVE  Lookup(e) = dial[e].to
    BY DEF RepliesFind
  <2>1. TypeOK /\ RightOrigin /\ KeptWhileUsed /\ Proxied(e)
    BY DEF IInv, MapInv, FileInv, KeepInv, Proxied
  <2>2. now \in Nat /\ dial[e].last \in Nat /\ KeepFor \in Nat
    BY <2>1, TimesAssumption DEF TypeOK, Conn
  <2>3. PICK m \in Range(map) : m.ep = e
    BY <2>1, <2>2 DEF KeptWhileUsed
  <2>4. InMap(e) # {}
    BY <2>3 DEF InMap, Range
  <2> DEFINE c == CHOOSE x \in Range(map) : x.ep = e
  <2>5. c \in Range(map) /\ c.ep = e
    BY <2>3
  <2>6. Lookup(e) = c.to
    BY <2>4 DEF Lookup
  <2> HIDE DEF c
  <2>7. QED BY <2>1, <2>5, <2>6 DEF RightOrigin
<1>2. QED BY <1>1, Inductive, PTL

(* The proxy's own connections to a server are not sent back to the proxy  *)
(* while a game runs, but for a packet whose own look-up overlooks it:     *)
(* nobody owns them, and the game is somebody (get_packet_owner_pid,       *)
(* get_target_pid).                                                        *)
THEOREM TrafficNeverLoops == Spec => []NeverLooped
<1>1. IInv => NeverLooped
  BY DEF IInv
<1>2. QED BY <1>1, Inductive, PTL

(* After a scan has found a connection of the game, all its packets go to  *)
(* the proxy until it ends, the redirector restarts, a look-up overlooks   *)
(* the game or a scan fails or finds too much for the cache: because a     *)
(* scan is repeated no later than its finds expire (_refresh_endpoint_     *)
(* cache).                                                                 *)
THEOREM FoundStaysRedirected == Spec => StaysRedirected
<1>1. ASSUME IInv, Next, NEW e \in found \cap found', "direct" \in dial'[e].way
      PROVE  "direct" \in dial[e].way
  <2>1. TypeOK /\ MapInv /\ FoundIsCached
    BY <1>1 DEF IInv, MapInv, OwnerInv
  <2>2. e \in GameEps /\ e \in Eps /\ dial[e] # None
    BY <2>1 DEF FoundIsCached, Eps
  <2>4. ASSUME NEW x \in Eps, Packet(x) PROVE "direct" \in dial[e].way
    <3> DEFINE entry == [pid |-> game, ts |-> scanAt']
    <3>1. CASE x = e
      <4>1. game \in Nat /\ pid' = game /\ seen'[e] = entry
        BY <1>1, <2>1, <2>4, FoundOwner
      <4>2. scanAt' \in Nat
        BY <1>1, MapStep DEF IInv, MapInv, TypeOK
      <4>3. entry # None /\ entry.pid = game
        BY <4>1, <4>2, NoneIsNone
      <4>4. Redirected(e)
        BY <4>1, <4>3 DEF Redirected, Owner
      <4>5. QED BY <1>1, <2>1, <2>4, <3>1, <4>4, PacketFact
    <3>2. CASE x # e
      <4>1. dial'[e] = dial[e]
        BY <2>1, <2>2, <2>4, <3>2, PacketFact
      <4>2. QED BY <1>1, <4>1
    <3>3. QED BY <3>1, <3>2
  <2>5. CASE CleanUp \/ RestartRedirector
    BY <1>1, <2>5 DEF CleanUp, RestartRedirector, net
  <2>6. CASE Aside
    <3>1. dial \in [Eps -> Conn \cup {None}]
      BY <2>1 DEF TypeOK
    <3>2. ASSUME NEW x \in Eps, Resolve(x) PROVE dial'[e] = dial[e]
      BY <3>2 DEF Resolve, net
    <3>3. ASSUME NEW x \in Eps, HangUp(x) PROVE dial'[e] = dial[e]
      BY <1>1, <2>2, <3>1, <3>3 DEF HangUp
    <3>4. ASSUME NEW x \in Eps, NEW o \in Origins, Dial(x, o) PROVE dial'[e] = dial[e]
      BY <2>2, <3>1, <3>4 DEF Dial
    <3>5. ASSUME GameStarts \/ TimePasses PROVE dial'[e] = dial[e]
      BY <3>5 DEF GameStarts, TimePasses, net
    <3>6. ~GameEnds
      BY <1>1, <2>2 DEF GameEnds
    <3>7. QED BY <1>1, <2>6, <3>2, <3>3, <3>4, <3>5, <3>6 DEF Aside
  <2>7. QED BY <1>1, <2>4, <2>5, <2>6, NextCases
<1>2. IInv /\ [Next]_vars =>
        [\A e \in found \cap found' : "direct" \in dial'[e].way => "direct" \in dial[e].way]_vars
  BY <1>1
<1>3. QED BY <1>2, Inductive, PTL DEF Spec, StaysRedirected
=============================================================================
