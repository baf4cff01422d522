----------------------------- MODULE HostMemory -----------------------------
(***************************************************************************)
(* Caches and buffers of RFNHost (rfn/host.py) and the session rotate that *)
(* clears their session scopes (rfn/live.py).  An operation runs under     *)
(* host._lock; those that read and then write are two actions with the     *)
(* lock kept in between, because the rotate takes only the live runtime's  *)
(* lock and may come in the middle.  An expiry of 0 means never.           *)
(***************************************************************************)
EXTENDS Naturals, FiniteSets, Sequences, SequencesExt

CONSTANTS
    Threads,
    CacheKeys,      \* (scope, key) pairs of the cache
    Buffers,        \* (scope, key) pairs of the buffers
    Session,        \* those of a scope whose name starts with "session"
    Limits,         \* limits that scripts pass to buffer.push
    None,           \* no entry; nobody
    OpMax, TimeMax, RotateMax   \* bounds

VARIABLES
    cache,          \* cache key -> entry
    bufs,           \* buffer -> its deque and maxlen
    lock,           \* who keeps host._lock between two actions
    work,           \* what that thread has read: the cell and its content
    now, ops,       \* clock; operations so far
    epoch,          \* session rotates begun (history); also tags every value
    rotating,       \* where on_session_rotate is
    raced,          \* cells a rotate met in the middle of an operation (history)
    sum,            \* increments per cache key since it was last absent or set (history)
    newest          \* last item pushed to a buffer and not cleared (history)

vars == <<cache, bufs, lock, work, now, ops, epoch, rotating, raced, sum, newest>>

Cells == CacheKeys \cup Buffers
Item == [val : Nat, exp : Nat, of : Nat]
Deque == [items : Seq(Item), max : Nat]
Nothing == [cell |-> None, item |-> None, q |-> None]

TypeOK ==
    /\ cache \in [CacheKeys -> Item \cup {None}]
    /\ bufs \in [Buffers -> Deque \cup {None}]
    /\ lock \in Threads \cup {None}
    /\ work \in [cell : Cells \cup {None}, item : Item \cup {None}, q : Deque \cup {None}]
    /\ {now, ops, epoch} \subseteq Nat
    /\ rotating \in {"no", "cache", "buffers"}
    /\ raced \subseteq Cells
    /\ sum \in [CacheKeys -> Nat]
    /\ newest \in [Buffers -> Item \cup {None}]

Init ==
    /\ cache = [k \in CacheKeys |-> None] /\ bufs = [b \in Buffers |-> None]
    /\ lock = None /\ work = Nothing /\ now = 1 /\ ops = 0
    /\ epoch = 0 /\ rotating = "no" /\ raced = {}
    /\ sum = [k \in CacheKeys |-> 0] /\ newest = [b \in Buffers |-> None]

Live(i) == i.exp = 0 \/ i.exp > now
Until(ttl) == IF ttl = 0 THEN 0 ELSE now + ttl
Found(k) == cache[k] # None /\ Live(cache[k])
(* The list of the live items; its n-th has n - 1 live ones before it.     *)
Kept(q) ==
    LET live == {i \in DOMAIN q : Live(q[i])}
    IN  [n \in 1 .. Cardinality(live) |->
            q[CHOOSE i \in live : Cardinality({j \in live : j < i}) = n - 1]]
Content(b) == IF bufs[b] = None THEN <<>> ELSE bufs[b].items

(* The readers: cache.get, has and ttl; buffer.latest and take; the lists. *)
CacheGet(k) == IF Found(k) THEN cache[k].val ELSE None
CacheTtl(k) == IF cache[k] = None \/ ~Live(cache[k]) \/ cache[k].exp = 0
               THEN 0 ELSE cache[k].exp - now
ListCache == {k \in CacheKeys : Found(k)}
(* list(q)[-0:] is the whole list.                                         *)
LastOf(s, n) == IF n = 0 \/ n >= Len(s) THEN s ELSE SubSeq(s, Len(s) - n + 1, Len(s))
BufferTake(b, n) == LastOf(Kept(Content(b)), n)
BufferLatest(b) == IF Kept(Content(b)) = <<>> THEN None ELSE Last(Kept(Content(b)))
ListBuffer(b) == LastOf(Kept(Content(b)), 8)

-----------------------------------------------------------------------------
(* Cache operations.                                                       *)

Operates == lock = None /\ ops < OpMax /\ ops' = ops + 1
MemoryOnly == UNCHANGED <<now, epoch, rotating, raced>>

CacheSet(k, ttl) ==
    /\ Operates
    /\ cache' = [cache EXCEPT ![k] = [val |-> 0, exp |-> Until(ttl), of |-> epoch]]
    /\ sum' = [sum EXCEPT ![k] = 0]
    /\ MemoryOnly /\ UNCHANGED <<bufs, lock, work, newest>>
DropKeys(S) ==
    /\ cache' = [k \in CacheKeys |-> IF k \in S THEN None ELSE cache[k]]
    /\ sum' = [k \in CacheKeys |-> IF k \in S THEN 0 ELSE sum[k]]
    /\ MemoryOnly /\ UNCHANGED <<bufs, lock, work, newest>>
(* cache.del of one key, cache.clear of those with a prefix.               *)
CacheDrop(S) == Operates /\ DropKeys(S)
(* cache.get removes an entry that has expired.                            *)
CacheGetPops(k) == lock = None /\ cache[k] # None /\ ~Live(cache[k])
                   /\ DropKeys({k}) /\ UNCHANGED ops
IncrReads(t, k) ==
    /\ Operates
    /\ lock' = t
    /\ work' = [cell |-> k, item |-> IF Found(k) THEN cache[k] ELSE None, q |-> None]
    /\ cache' = [cache EXCEPT ![k] = IF Found(k) THEN @ ELSE None]
    /\ sum' = [sum EXCEPT ![k] = IF Found(k) THEN @ ELSE 0]
    /\ MemoryOnly /\ UNCHANGED <<bufs, newest>>
(* The new value derives from the one read, and so from its session.       *)
IncrWrites(t, ttl) ==
    /\ lock = t /\ work.cell \in CacheKeys
    /\ cache' = [cache EXCEPT ![work.cell] =
        [val |-> IF work.item = None THEN 1 ELSE work.item.val + 1,
         exp |-> Until(ttl),
         of |-> IF work.item = None THEN epoch ELSE work.item.of]]
    /\ sum' = [sum EXCEPT ![work.cell] = @ + 1]
    /\ lock' = None /\ work' = Nothing
    /\ MemoryOnly /\ UNCHANGED <<bufs, ops, newest>>

-----------------------------------------------------------------------------
(* Buffer operations: a push, a take or a latest ends with _purge_buffer,  *)
(* which reads the deque and stores a new one if something has expired.    *)

(* The maxlen is that of the first push; a full deque drops its oldest     *)
(* item before the expired ones are purged.                                *)
Pushed(b, i, limit) ==
    LET max == IF bufs[b] # None THEN bufs[b].max ELSE IF limit = 0 THEN 1 ELSE limit
    IN  [items |-> LastOf(Append(Content(b), i), max), max |-> max]
Push(t, b, limit, ttl) ==
    LET i == [val |-> ops, exp |-> Until(ttl), of |-> epoch]
        q == Pushed(b, i, limit)
    IN  /\ Operates
        /\ bufs' = [bufs EXCEPT ![b] = q]
        /\ newest' = [newest EXCEPT ![b] = i]
        /\ lock' = t /\ work' = [cell |-> b, item |-> None, q |-> q]
        /\ MemoryOnly /\ UNCHANGED <<cache, sum>>
Reads(t, b) ==
    /\ Operates
    /\ lock' = t /\ work' = [cell |-> b, item |-> None, q |-> bufs[b]]
    /\ MemoryOnly /\ UNCHANGED <<cache, bufs, sum, newest>>
Purges(t) ==
    /\ lock = t /\ work.cell \in Buffers
    /\ bufs' = [bufs EXCEPT ![work.cell] =
         IF work.q = None \/ \A i \in Range(work.q.items) : Live(i) THEN @
         ELSE [work.q EXCEPT !.items = Kept(@)]]
    /\ lock' = None /\ work' = Nothing
    /\ MemoryOnly /\ UNCHANGED <<cache, ops, sum, newest>>
BufferClear(b) ==
    /\ Operates
    /\ bufs' = [bufs EXCEPT ![b] = None]
    /\ newest' = [newest EXCEPT ![b] = None]
    /\ MemoryOnly /\ UNCHANGED <<cache, lock, work, sum>>

-----------------------------------------------------------------------------
(* The session rotate and the clock.                                       *)

InTheMiddle == IF lock # None THEN {work.cell} \cap Session ELSE {}
RotateClearsCache ==
    /\ rotating = "no" /\ epoch < RotateMax
    /\ epoch' = epoch + 1
    /\ cache' = [k \in CacheKeys |-> IF k \in Session THEN None ELSE cache[k]]
    /\ sum' = [k \in CacheKeys |-> IF k \in Session THEN 0 ELSE sum[k]]
    /\ rotating' = "buffers"
    /\ raced' = raced \cup InTheMiddle
    /\ UNCHANGED <<bufs, lock, work, now, ops, newest>>
RotateClearsBuffers_NotCleared ==
    /\ rotating = "buffers"
    /\ rotating' = "no"
    /\ raced' = raced \cup InTheMiddle
    /\ UNCHANGED <<cache, bufs, lock, work, now, ops, epoch, sum, newest>>
RotateClearsBuffers ==
    /\ rotating = "buffers"
    /\ bufs' = [b \in Buffers |-> IF b \in Session THEN None ELSE bufs[b]]
    /\ newest' = [b \in Buffers |-> IF b \in Session THEN None ELSE newest[b]]
    /\ rotating' = "no"
    /\ raced' = raced \cup InTheMiddle
    /\ UNCHANGED <<cache, lock, work, now, ops, epoch, sum>>
(* A dictionary that another thread changes while the rotate iterates over *)
(* it: the rotate raises and clears no more.                               *)
RotateRaises ==
    /\ lock # None
    /\ rotating = "buffers" \/ epoch < RotateMax
    /\ epoch' = IF rotating = "no" THEN epoch + 1 ELSE epoch
    /\ rotating' = "no"
    /\ raced' = raced \cup Session
    /\ UNCHANGED <<cache, bufs, lock, work, now, ops, sum, newest>>
TimePasses ==
    /\ now < TimeMax
    /\ now' = now + 1
    /\ UNCHANGED <<cache, bufs, lock, work, ops, epoch, rotating, raced, sum, newest>>

Next ==
    \/ \E k \in CacheKeys : CacheGetPops(k) \/ \E ttl \in {0, 1} : CacheSet(k, ttl)
    \/ \E S \in SUBSET CacheKeys : CacheDrop(S)
    \/ \E b \in Buffers : BufferClear(b)
    \/ \E t \in Threads :
        \/ \E k \in CacheKeys : IncrReads(t, k)
        \/ \E ttl \in {0, 1} : IncrWrites(t, ttl)
        \/ \E b \in Buffers : Reads(t, b)
            \/ \E limit \in Limits, ttl \in {0, 1} : Push(t, b, limit, ttl)
        \/ Purges(t)
    \/ RotateClearsCache \/ RotateClearsBuffers \/ RotateRaises
    \/ TimePasses

Spec == Init /\ [][Next]_vars

-----------------------------------------------------------------------------
(* After a rotate, no value of an earlier session is left in a session     *)
(* scope, unless the rotate raised or met an operation between its read    *)
(* and its write: then the write puts the old value back.                  *)
SessionIsFresh ==
    rotating = "no" => \A c \in Session \ raced :
        /\ c \in CacheKeys /\ cache[c] # None => cache[c].of = epoch
        /\ c \in Buffers => \A i \in Range(Content(c)) : i.of = epoch

(* A counter counts every increment since it was set or absent, whatever   *)
(* threads increment it.                                                   *)
NoLostIncrement ==
    \A k \in CacheKeys \ raced : cache[k] # None => cache[k].val = sum[k]

(* A buffer holds pushes in their order, no more than its first limit, and *)
(* the last push that was not cleared is there until it expires.           *)
RingBuffer ==
    \A b \in Buffers :
        /\ bufs[b] # None => Len(bufs[b].items) <= bufs[b].max
        /\ \A i, j \in DOMAIN Content(b) : i < j => Content(b)[i].val < Content(b)[j].val
        /\ b \notin raced /\ newest[b] # None /\ Live(newest[b]) =>
             Content(b) # <<>> /\ Last(Content(b)) = newest[b]

(* Whatever the lock does not order, caches and buffers keep all three.    *)
MemoryInv == TypeOK /\ SessionIsFresh /\ NoLostIncrement /\ RingBuffer
=============================================================================
