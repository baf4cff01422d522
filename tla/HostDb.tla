------------------------------- MODULE HostDb -------------------------------
(***************************************************************************)
(* The database half of RFNHost (rfn/host.py): one sqlite connection and   *)
(* one flag _in_tx, shared by every script of the process.  Each section   *)
(* under host._lock is one action; a storing operation has three: the      *)
(* statement, the audit event in memory, the audit row.  Scripts interleave*)
(* between them, may raise anywhere (a transaction they opened stays open) *)
(* and are cut off by a crash.  A reload waits for the calls, closes the   *)
(* connection without a commit and opens another.  A row is a number: its  *)
(* place by primary key, which breaks ties between equal updated_at.       *)
(***************************************************************************)
EXTENDS Naturals, FiniteSets, Sequences, SequencesExt

CONSTANTS
    Scripts,        \* threads inside an active call, which a reload drains
    Outsiders,      \* threads that only audit (session rotate, web handlers)
    Kv, Docs, Blobs,\* rows of the tables kv, tables and blobs
    Values,         \* other than null, which reads like no row
    None,           \* no such row
    OpMax,          \* bound on storing operations and transactions
    TimeMax         \* bound on the clock

ASSUME RowsAssumption ==
    /\ Kv \cup Docs \cup Blobs \subseteq Nat
    /\ Kv \cap Docs = {} /\ Kv \cap Blobs = {} /\ Docs \cap Blobs = {}
    /\ IsFiniteSet(Kv) /\ IsFiniteSet(Docs)
ASSUME ThreadsAssumption == Scripts \cap Outsiders = {}
ASSUME BoundsAssumption == OpMax \in Nat /\ TimeMax \in Nat

VARIABLES
    conn,           \* what the connection sees: its rows, its number of audit rows
    disk,           \* the same, as committed
    inTx,           \* _in_tx
    touched,        \* rows written since the transaction was opened (history)
    now,            \* the clock; an expiry of 0 means never
    audit,          \* len(audit_events) of the host
    call,           \* where each thread is
    ops             \* operations so far (bound)

vars == <<conn, disk, inTx, touched, now, audit, call, ops>>

Threads == Scripts \cup Outsiders
Rows == Kv \cup Docs \cup Blobs
Record == [val : Values, exp : Nat, at : Nat]
ASSUME NoneAssumption == None \notin Values \cup Rows \cup Record
Table == [rows : [Rows -> Record \cup {None}], events : Nat]

TypeOK ==
    /\ conn \in Table /\ disk \in Table
    /\ inTx \in BOOLEAN /\ touched \subseteq Rows
    /\ now \in Nat /\ audit \in Nat /\ ops \in Nat
    /\ call \in [Threads -> {"idle", "ready", "remember", "insert"}]

Init ==
    /\ conn = [rows |-> [r \in Rows |-> None], events |-> 0] /\ disk = conn
    /\ inTx = FALSE /\ touched = {} /\ now = 1 /\ audit = 0 /\ ops = 0
    /\ call = [t \in Threads |-> "idle"]

-----------------------------------------------------------------------------
(* Reading.                                                                *)

Expired(r) ==
    /\ conn.rows[r] # None
    /\ conn.rows[r].exp # 0 /\ conn.rows[r].exp <= now
Live(r) == conn.rows[r] # None /\ ~Expired(r)
Get(r) == IF Live(r) THEN conn.rows[r].val ELSE None
GetBlob(r) == Get(r)
BlobMeta(r) == conn.rows[r]     \* answers also for a blob that has expired
Newer(r, s) ==
    \/ conn.rows[r].at > conn.rows[s].at
    \/ conn.rows[r].at = conn.rows[s].at /\ r < s
(* A row comes after those that are newer.                                 *)
NewestFirst(S) ==
    LET rows == {r \in S : conn.rows[r] # None}
    IN  [n \in 1 .. Cardinality(rows) |->
            CHOOSE r \in rows : Cardinality({s \in rows : Newer(s, r)}) = n - 1]
FirstOf(s, n) == SubSeq(s, 1, IF n < Len(s) THEN n ELSE Len(s))

(* A where object asks for nothing, for a field of the value, for a field  *)
(* of the key, or for a field under its qualified name "key.f".            *)
Wheres == [kind : {"any"}, of : {None}] \cup [kind : {"value"}, of : Values]
          \cup [kind : {"key", "qualified"}, of : Docs]
MatchesStored(w, r) ==
    \/ w.kind = "any"
    \/ w.kind = "value" /\ conn.rows[r].val = w.of
    \/ w.kind = "key" /\ r = w.of
MatchesSelect(w, r) == MatchesStored(w, r) \/ (w.kind = "qualified" /\ r = w.of)

(* The rows are filtered first and counted after each append, so that a    *)
(* limit of 0 still returns one.                                           *)
Found(S, w) == NewestFirst({r \in S : Live(r) /\ MatchesSelect(w, r)})
SelectAll_CutsFirst(w, limit) ==
    Found(Range(FirstOf(NewestFirst(Docs), IF limit = 0 THEN 1 ELSE limit)), w)
SelectAll(w, limit) == FirstOf(Found(Docs, w), IF limit = 0 THEN 1 ELSE limit)
SelectOne(w) == IF SelectAll(w, 1) = <<>> THEN None ELSE Head(SelectAll(w, 1))

(* The listings page over all rows and filter each page.                   *)
Page(S, limit, offset) ==
    {r \in S : \E i \in DOMAIN NewestFirst(S) :
        offset < i /\ i <= offset + limit /\ NewestFirst(S)[i] = r}
ListTable(S, limit, offset) == NewestFirst({r \in Page(S, limit, offset) : Live(r)})
ListEvents(limit) == IF limit < conn.events THEN limit ELSE conn.events
CountRows(S) == Cardinality({r \in S : conn.rows[r] # None})

-----------------------------------------------------------------------------
(* Storing.                                                                *)

CommitIfNeeded == disk' = IF inTx THEN disk ELSE conn'

Store(t, S, rows) ==
    /\ call[t] = "ready" /\ ops < OpMax
    /\ conn' = [conn EXCEPT !.rows = rows]
    /\ CommitIfNeeded
    /\ touched' = IF inTx THEN touched \cup S ELSE touched
    /\ call' = [call EXCEPT ![t] = "remember"]
    /\ ops' = ops + 1
    /\ UNCHANGED <<inTx, now, audit>>

Write(t, r, v, ttl) ==
    Store(t, {r}, [conn.rows EXCEPT ![r] =
        [val |-> v, exp |-> IF ttl = 0 THEN 0 ELSE now + ttl, at |-> now]])
Put(t, r, v, ttl) == r \in Kv /\ Write(t, r, v, ttl)
Upsert(t, r, v, ttl) == r \in Docs /\ Write(t, r, v, ttl)
PutBlob(t, r, v, ttl) == r \in Blobs /\ Write(t, r, v, ttl)
Without(S) == [r \in Rows |-> IF r \in S THEN None ELSE conn.rows[r]]
Del_NoCommit(t, r) ==
    /\ r \in Kv /\ call[t] = "ready" /\ ops < OpMax
    /\ conn' = [conn EXCEPT !.rows = Without({r})]
    /\ touched' = IF inTx THEN touched \cup {r} ELSE touched
    /\ call' = [call EXCEPT ![t] = "remember"]
    /\ ops' = ops + 1
    /\ UNCHANGED <<disk, inTx, now, audit>>
Del(t, r) == r \in Kv /\ Store(t, {r}, Without({r}))
DeleteWhere(t, w) ==
    LET S == {r \in Docs : conn.rows[r] # None /\ MatchesStored(w, r)}
    IN  Store(t, S, Without(S))
ExpireRows(t) ==
    LET S == {r \in Kv \cup Docs : Expired(r)} IN Store(t, S, Without(S))

Remember(t) ==
    /\ call[t] = "remember"
    /\ audit' = audit + 1
    /\ call' = [call EXCEPT ![t] = "insert"]
    /\ UNCHANGED <<conn, disk, inTx, touched, now, ops>>
InsertEvent_Commits(t) ==
    /\ call[t] = "insert"
    /\ conn' = [conn EXCEPT !.events = @ + 1]
    /\ disk' = conn'
    /\ call' = [call EXCEPT ![t] = IF t \in Scripts THEN "ready" ELSE "idle"]
    /\ UNCHANGED <<inTx, touched, now, audit, ops>>
InsertEvent(t) ==
    /\ call[t] = "insert"
    /\ conn' = [conn EXCEPT !.events = @ + 1]
    /\ CommitIfNeeded
    /\ call' = [call EXCEPT ![t] = IF t \in Scripts THEN "ready" ELSE "idle"]
    /\ UNCHANGED <<inTx, touched, now, audit, ops>>

Begin(t) ==
    /\ call[t] = "ready" /\ ops < OpMax
    /\ ~inTx
    /\ inTx' = TRUE /\ touched' = {}
    /\ ops' = ops + 1
    /\ UNCHANGED <<conn, disk, now, audit, call>>
(* Neither looks at who opened the transaction, or whether one is open.    *)
Commit(t) ==
    /\ call[t] = "ready"
    /\ disk' = conn
    /\ inTx' = FALSE /\ touched' = {}
    /\ UNCHANGED <<conn, now, audit, call, ops>>
Rollback(t) ==
    /\ call[t] = "ready"
    /\ conn' = disk
    /\ inTx' = FALSE /\ touched' = {}
    /\ UNCHANGED <<disk, now, audit, call, ops>>

-----------------------------------------------------------------------------
(* Calls, the clock, reload and crash.                                     *)

StartCall(t) ==
    /\ t \in Scripts /\ call[t] = "idle"
    /\ call' = [call EXCEPT ![t] = "ready"]
    /\ UNCHANGED <<conn, disk, inTx, touched, now, audit, ops>>
(* The script returns, or an operation of it raises (also db.begin in an   *)
(* open transaction): nothing is rolled back.                              *)
CallEnds(t) ==
    /\ call[t] = "ready"
    /\ call' = [call EXCEPT ![t] = "idle"]
    /\ UNCHANGED <<conn, disk, inTx, touched, now, audit, ops>>
OutsiderAudits(t) ==
    /\ t \in Outsiders /\ call[t] = "idle" /\ ops < OpMax
    /\ call' = [call EXCEPT ![t] = "remember"]
    /\ ops' = ops + 1
    /\ UNCHANGED <<conn, disk, inTx, touched, now, audit>>
TimePasses ==
    /\ now < TimeMax
    /\ now' = now + 1
    /\ UNCHANGED <<conn, disk, inTx, touched, audit, call, ops>>

(* The next host starts from what was committed.                           *)
Reopen ==
    /\ conn' = disk
    /\ inTx' = FALSE /\ touched' = {} /\ audit' = 0
    /\ call' = [t \in Threads |-> "idle"]
    /\ UNCHANGED <<disk, now, ops>>
(* An outsider caught by the close finds _db gone, its row is lost.        *)
Reload == (\A t \in Scripts : call[t] = "idle") /\ Reopen
Crash == Reopen

Operation(t) ==
    \/ \E r \in Rows, v \in Values, ttl \in {0, 1} :
        Put(t, r, v, ttl) \/ Upsert(t, r, v, ttl) \/ PutBlob(t, r, v, ttl)
    \/ \E r \in Kv : Del(t, r)
    \/ \E w \in Wheres : DeleteWhere(t, w)
    \/ ExpireRows(t)
    \/ Begin(t) \/ Commit(t) \/ Rollback(t)

Next ==
    \/ \E t \in Threads :
        \/ Operation(t)
        \/ Remember(t) \/ InsertEvent(t)
        \/ StartCall(t) \/ CallEnds(t) \/ OutsiderAudits(t)
    \/ TimePasses \/ Reload \/ Crash

Spec == Init /\ [][Next]_vars

-----------------------------------------------------------------------------
(* What a crash, a reload or any script's rollback can take away is        *)
(* confined to rows written since the open transaction began: without one, *)
(* everything that was answered, the audit included, is on disk.           *)
LossIsConfined ==
    /\ ~inTx => conn = disk
    /\ \A r \in Rows : conn.rows[r] # disk.rows[r] => r \in touched

(* While a transaction stays open nothing reaches the disk: not through    *)
(* another script's writes, nor through an audit row of any thread.        *)
HeldBack == [][inTx /\ inTx' => disk' = disk]_vars

(* The store is one transaction that all share: what the connection sees   *)
(* are the rows on disk with the rows written in the transaction over them.*)
Shared == INSTANCE OneTransaction WITH
    Contents <- Record \cup {None},
    durable  <- disk.rows,
    pending  <- [r \in touched |-> conn.rows[r]],
    audited  <- disk.events,
    auditing <- conn.events - disk.events,
    open     <- inTx

(* Whatever scripts, rollbacks, reloads and crashes do to each other, a    *)
(* commit makes all of the transaction durable, and everything else that   *)
(* ends it makes none of it durable and loses nothing else.                *)
StoreIsTransaction == Shared!Spec

(* The readers agree on what is there: a row that get answers is on some   *)
(* page of the listing, a row it does not answer on none, and select.one   *)
(* returns the newest live match although expired rows are newer.          *)
ReadersAgree ==
    /\ \A r \in Kv : Get(r) # None <=>
        \E n \in 0 .. Cardinality(Kv) : ListTable(Kv, 1, n) = <<r>>
    /\ \A w \in Wheres : LET r == SelectOne(w) IN
        /\ r = None => \A s \in Docs : Live(s) => ~MatchesSelect(w, s)
        /\ r # None => Live(r) /\ \A s \in Docs :
                         Live(s) /\ MatchesSelect(w, s) /\ s # r => Newer(r, s)
=============================================================================
