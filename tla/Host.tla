-------------------------------- MODULE Host --------------------------------
(***************************************************************************)
(* RFNHost whole (rfn/host.py): its database half, which the module        *)
(* extends, and its memory half, an instance with variables of its own.    *)
(* The two share the lock, but no state that the properties of either read.*)
(***************************************************************************)
EXTENDS HostDb

CONSTANTS CacheKeys, Buffers, Session, Limits, MemoryOps, RotateMax

VARIABLES cache, bufs, lock, work, clock, count, epoch, rotating, raced, sum, newest

Mem == INSTANCE HostMemory WITH
    Threads <- Scripts, OpMax <- MemoryOps, now <- clock, ops <- count

(* None is nobody and no entry; a limit is not negative.                   *)
ASSUME MemoryAssumption ==
    /\ CacheKeys \cap Buffers = {} /\ Session \subseteq CacheKeys \cup Buffers
    /\ Limits \subseteq Nat
    /\ None \notin Scripts \cup Mem!Item \cup Mem!Deque

memory == <<cache, bufs, lock, work, clock, count, epoch, rotating, raced, sum, newest>>

(* A step of the host is a step of one half.  The lock is held by one half *)
(* at a time and a database operation runs under it from end to end; here a*)
(* step of one half may also fall where the other holds it.                *)
DbStep == Next /\ UNCHANGED memory
MemStep == Mem!Next /\ UNCHANGED vars

HostInit == Init /\ Mem!Init
HostNext == DbStep \/ MemStep
HostSpec == HostInit /\ [][HostNext]_<<vars, memory>>

(* What the memory half keeps: SessionIsFresh, NoLostIncrement, RingBuffer.*)
MemoryInv == Mem!MemoryInv
=============================================================================
