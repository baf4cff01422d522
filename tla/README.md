# TLA+ models of RocoMITMServer (SMKR)

This directory holds TLA+ specifications of the concurrent core of
RocoMITMServer 2.3, TLC configurations that check them on small instances, and
proofs, checked by TLAPS, that hold for every instance. Paths below are relative
to `src/src/roco_mitm/` unless they start with `src/`.

    tlc -workers 2 -config MitmC2S_safety.cfg MCMitmC2S.tla
    tlapm MitmC2S_proofs.tla

## 1. Inventory

| Component | State | Operations | Interacts with |
|---|---|---|---|
| Proxy session, client to server (`proxy/server.py`: `MitmSession._pump_c2s`, `inject`, `_pump_upstream_send`, `run`) | `state.cipher`, `last_internal`, `last_gcp_seq`, `c2s_seq_offset`, `last_c2_by_opcode`, outbound queue, observe queue, `_closed` | read and renumber client packets, inject, write batches, close | web app (inject, hooks), observe thread |
| Proxy session, server to client (`_pump_s2c`, `_prime_s2c_state`, `_observe`) | reassembly buffer, cipher, key already announced | forward, learn the session key, switch to passthrough, hand packets to the observe worker | options set from the web, session hook |
| Session registry (`ACTIVE_SESSION`, `ACTIVE_SESSIONS`, `get_active_session`, `request_shutdown`; web `_session_state`, `_last_session_key_hex`) | the active session; the key the web process knows | connect, key, close, rotate | proxy loop, observe thread, RFN rotate |
| RFN live runtime (`rfn/live.py`, `web/app.py` 499-932) | host and runtime, `_pending` queries, `_active_calls`, `_lock` | packet/http/schedule calls, query with singleflight, observe, rotate, reload, close | executor threads, event loop, host |
| RFN scheduler (`rfn/runtime.py`, `rfn/host.py` 633-693) | `jobs` in memory, table `jobs` in sqlite | every/after/cron, cancel, enable, run due jobs, reschedule | live runtime, restart |
| RFN host storage (`rfn/host.py`) | caches, bounded buffers, sqlite connection with one `_in_tx` flag | get/put/expire, append/read, begin/commit/rollback | all scripts of the process |
| Event bus (`web/event_bus.py`) | sequence, ring history, subscriber queues | publish, clear, subscribe with replay, unsubscribe | WebSocket clients |
| Connection redirection (`divert/proc_divert.py`, `proxy/server.py` 1300-1326) | `conn_map` in memory and on disk | remember, look up, clean up, persist; resolve upstream | two processes through one file |
| RFN machine (`rfn/vm.py`, `assembler.py`, `importer.py`) | functions, frames with their registers and instruction counts | assemble, check, call, step | host |
| Codec and readers (`codec/proto_codec.py`, `rfn/reader.py`) | a reader's position | encode, decode, search for the start, skip, seek | scripts, web |
| Packet feed of the web application (`web/app.py` 475-721, 1540-1608) | `_packet_queue`, `_rfn_packet_queue`, their workers, `_recent_injects` | publish, queue for decoding, update, pass on to scripts, reset the stream | observe threads, event bus |
| Wire format (`proxy/protocol.py`, `crypto.py`, `wire_builder.py`), `manifest.py`, `paths.py`, opcode tables (`codec/opcode_*.py`) | none, or a table read at start | compute | session, web, scripts |
| Counters (`PerfStats`, `PerfDetailCollector`), web handlers, MCP, CLI, front end | counters, settings | read and write | user |

### What is hard, and what makes each part correct

* **C2S.** One asyncio loop with three pumps, a thread per observed packet, and
  injections that arrive whenever the loop is free, also while the pump is
  suspended in `put()` with a packet that has its number already. Correct: the
  upstream sees consecutive numbers, each once, in order; a refused injection
  leaves nothing behind; injections are based on real packets; teardown ends, if the peers let it.
* **S2C.** An option changes between two reads while half a packet is buffered;
  the key is primed by the loop and again by a late thread. Correct: the client
  gets the server's bytes, all and in order; every new key is announced once.
* **Registry.** A late thread may revive a closed session. Correct: injections
  go to a session that is open.
* **Live runtime.** Many threads share one entry per key; deadlines, failed
  sends, rotates and reloads interleave; a thread waits for the loop with the
  lock that the loop needs. Correct: an answer belongs to the query, every query
  returns, nobody runs on a closed host, a drain sees every call.
* **Scheduler.** Jobs change while they run; memory and database disagree after
  a restart. Correct: a cancelled job stays cancelled; a due job runs.
* **Storage.** Transactions of scripts that know nothing of each other share a
  connection. Correct: what a script committed stays.
* **Event bus and packet feed.** Slow subscribers; packets and resets come from any
  thread, decodes end late. Correct: what a subscriber sees is increasing and
  gap-free but for counted drops, nothing of the old stream follows a reset, an
  update names its packet, and every queued packet gets one.
* **Redirection.** The file lags behind the map, endpoints and processes are
  cached, and both are reused. Correct: a connection that was redirected is found
  by the proxy, stays redirected, and no traffic goes round in a circle.
* **Machine.** Sixty instructions with a capability each, jumps and recursion on a
  worker thread. Correct: what reaches the host was declared by the function that
  ran, and every call ends.
* **Codec.** Signs, widths, order, prefixes. Correct: what was written is read.

## 2. Plan

The modules in the order of their importance, and what has become of them.

1. `MitmC2S`, `SeqNumbers`, `MitmC2S_proofs`: the C2S half of a session and the promise
   that it implements. Done.
2. `LiveRuntime`, `LiveRuntime_proofs`: calls, queries, rotate, reload. Done.
3. `S2CPath`, `S2CPath_proofs`: the S2C stream with the passthrough
   switch, key priming and its event up to the web application. Done.
4. `Scheduler`, `Scheduler_proofs`: jobs in memory and database, the tick, the reschedule
   after a run, reload and restart. Done.
5. `SessionRegistry`, `Web_proofs`: which session is the active one, and what the
   web application shows and rotates, with observe threads that outlive `run()`. Done.
6. `HostDb`, `OneTransaction`, `HostMemory`, `Host`, `Host_proofs`: one connection and one
   transaction flag shared by all scripts, and the single transaction that they implement;
   caches and buffers with expiry, and the rotate that clears them. Done.
7. `EventBus`, `PacketFeed`, `Web_proofs`: publish, drop-oldest, replay, clear, and
   the way of a packet through the decode queue to the browsers. Done. "A numbered
   stream with counted gaps" became an invariant (`FeedInv`) instead of a module of its own.
8. `ConnMap`, `ConnMap_proofs`: the map, its file, the clean-up, and the proxy that reads the
   file. Done.
9. `Capabilities`, `Machine`, `Machine_proofs`: the assembler, the virtual machine and the rights of every
   instruction. `ProtoWire`, `PayloadPath`: the protobuf codec and the reader of scripts.
   Done. Trailer arithmetic of `wire_builder` and the times of cron jobs were dropped, see
   Not modelled.

## 3. The modules and the code

### MitmC2S

One `MitmSession`. Everything but the observe thread runs on one asyncio loop, so a
stretch of code without a suspending `await` is atomic; the pump's inner loop over the
packets of one read takes several actions during which no other loop action may run
(`LoopFree`), only the observe thread. The places where the loop is given up are exactly
those of the code: `read()`, a `put()` on a full outbound queue (`pump = "blocked"`, the
item in `held`), the sender's `get()`, its linger for a second item (`hand`) and its
`drain()`.

| State | Code |
|---|---|
| `cipher`, `baseline`, `lastSeq`, `offset` | the key of `SessionState.cipher`, session id of `last_internal`, `last_gcp_seq`, `c2s_seq_offset` |
| `outq`, `obsq`, `thread` | `_outbound_queue`, `_observe_queue`, the packet inside `asyncio.to_thread(self._observe, ...)` |
| `cnext`, `buf`, `observed`, `pump`, `held` | locals of `_pump_c2s` |
| `sender`, `hand`, `sent` | locals of `_pump_upstream_send`; what was given to the transport |
| `s2cDone`, `closed`, `stage` | `_pump_s2c` returned, `_closed`, where `run()` is: its tasks, the closing of both writers in `finally`, its end |
| `unflushed` | transports that still hold bytes for their peer; their `wait_closed()` does not return |
| `acked` | history: the keys that an ACK of the connection announced |

Abstractions: a packet is its sequence number, the kind of its body (a session id of
one of two classes, or a packet that is not DATA), the key of the body and the `counter1`
inside; a broken header is the item `Garbage`. A body of odd length (`Odd`) or of another
key than the cipher's cannot be rewritten: `RewriteC2sSeq` then renumbers the header alone,
and if the cipher of the wrong key decrypts to anything, which CBC without a checksum allows,
the body is encrypted again with a changed block (`Spoiled`). `PrimeAgain` is the observe
thread that primes the cipher late with the key of any ACK seen so far; `S2CPath` has the
queue that decides which. `c2s_batch_bytes` may stop a batch anywhere. The sequence
space is `SeqMod` instead of 2^32. `counter2` is left out. An `inject` refused for any
reason (no cipher, no baseline, closed, number too large, queue full) is one outcome.
Injections that succeed are bounded by `InjectMax`; refused ones change nothing and are not counted.

`SeqNumbers` is what the upstream may rely on: numbers are issued one after the other,
and each is written once. `NumbersPromise` is the refinement, with `issued` mapped to
the first number plus the length of the stream and `written` to the numbers sent. A
connection starts anywhere in the sequence space and may wrap; "later" and "issued" are
meant of the numbers before the wrap, which `Unwrapped` recovers.

### LiveRuntime

`RFNLiveRuntime` with its threads: HTTP, exec and schedule calls (`Callers`), the packet
worker (`Worker`), the event loop (`loop`: the event that it is stuck on while it needs
`_lock`), and reload. Each `with self._lock` section is one action that needs the lock
free; the one that calls `inject_send` keeps the lock from `StartSend` to `Release`,
because the injection function waits up to two seconds for the loop.

| State | Code |
|---|---|
| `at`, `key`, `pend`, `answer`, `pkt` | locals of a call and of `_query_active` |
| `pending`, `result`, `waiters`, `due` | `_pending`, `_PendingQuery.result`, `.waiters`; passed deadlines |
| `lock`, `active` | `_lock` when kept across `inject_send`, `_active_calls` |
| `loop`, `posted`, `rfnq` | the loop, `run_coroutine_threadsafe` jobs, `_rfn_packet_queue` |
| `host`, `open`, `reload`, `old`, `made` | `self.host` and `self.runtime`, hosts not closed, where `reload()` is |

Abstractions: each thread makes at most one call with at most one query, so a pending
query is named after its creator. A packet is the set of keys whose predicate accepts it
and whether a packet binding wants it. Entering and leaving the nested active call of a
query is merged with the lock section next to it. An inject posted to the loop may run
after its caller has given up, as in the code. `close()` is a reload that installs
nothing; reloads do not overlap. A rotate comes from the loop or, with `observe_s2c`,
from the observe thread (`ThreadRotates`). `run_job_once`, status and statistics keep no
state that the properties read.

### S2CPath

The other half of a session, to the point where the web application remembers the key.
Bytes are halves of packets: half 2n-1 holds the header (and the key) of packet n, half
2n the rest, and a read returns any number of halves, so packets are cut and joined in
every way that matters. `cipher`, `emitted` and `webKey` are `state.cipher`,
`state.emitted_session_key_hex` and `AppContext._last_session_key_hex`. The observe thread
primes the cipher (`ThreadPrimes`) and announces the key (`ThreadEnds`) in two steps, beside the loop.
Three history variables name what the code does not protect against: `torn` (passthrough
switched inside a packet), `blind` (an ACK dropped from the observe queue or overtaken by
a switch of `observe_s2c`), and `newest`, the key of the last ACK that was parsed.

### Scheduler

The host's jobs (`jobs`) and the table `jobs` (`stored`), the tick with its batch
(`at`, `batch`), and three actors: the script that the tick runs, the web handlers and
another script. Every operation has a memory part and a database part, in the code's
order, and other actors run in between (`half`). `Reschedule` goes by the job that was
collected, not by what is in memory when the run ends: this is the code's behaviour and
the reason for `CancelledIsGone` failing.

The database part may fail (`FinishFails`): `json.dumps` of the arguments, sqlite, or the
audit row after it raises when memory is changed already, and in the tick the exception ends
the loop over the due jobs. A row may also be taken back later: `Begin`, `Commit` and
`Rollback` are those of any script, over the one connection, and a restart loses what was
not committed (`saved`). `unsaved` names the jobs whose row is missing for one of these reasons.

Abstractions: `next_run_at` is the order in which jobs become due; `cron` behaves as
`every`. `run_job_once` runs a function as any other script does and changes no job by
itself. An operation that a reload overlaps writes to a host that is closed and is
dropped.

### SessionRegistry

`ACTIVE_SESSION` (`active`), `ACTIVE_SESSIONS` (`Registered`, the sessions that are
running) and, of the web application, `_session_state` (`connected`, `shownKey`) and
`_last_session_key_hex`. Sessions are numbers in the order of `started_at`.
`get_active_session` is two actions, `Look` and one of the `Got...` actions, and the key
update is two, `LoopKey` and `LoopWrite` (or `ThreadKey` and `ThreadWrite`), because the
observe thread of a session, which outlives `run()`, writes `ACTIVE_SESSION` and calls the
session hook without a lock. `rfnKey` is the key for which the RFN state was last rotated.
A rotate may raise (`Rotate`): `rotate_error` is published, and the key is written all the same
(`web/app.py:531-541`), so the state stays that of an older key until the next rotate.

Three windows are named by history variables instead of being hidden: `torn`, an ended
session made active between the check and the second read (`proxy/server.py:1215`),
`raced`, two key updates that overlap (`web/app.py:521`), and `unrotated`, a rotate that
raised with none after it. Without them `StatusInv` and `InjectFindsOpen` fail.

### EventBus and PacketFeed

`EventBus` is a library of operators on one record, so that a publish is one call where
the code makes one. `PacketFeed` holds what was given to `call_soon_threadsafe` (`calls`),
the decode queue (`jobs`), its worker, the RFN queue with its own worker, and the browsers; the
observe threads are the hook actions. A browser's sender gathers a batch (`Gather`, `hand`) and
sends it whole, or fails with it in hand (`Send`); the subscription stays then until the handler
ends (`Leave`). The decode worker may die with a job (`WorkerDies`: outside its `try` the decoder
raises for a detail file that is no object), and the next packet starts it again. A packet
that scripts want goes on to the RFN worker (`Offer`), which decodes it again if it had no schema
and then publishes a second update (`RfnPublishes`). History (`eraOf`, `place`,
`owed`, `lost`, `died`) says when a packet was reported, under which number it was published,
whether the page still waits for its update, and what a worker took with it when it died.

Abstractions: a packet is a number and a class; the payload of an update is the number it
names. Of the RFN queue only the packets to be decoded again are kept; since others take places in
it too, it may refuse a packet at any time. The detail view, which reads decoded packets from
files, is left out.

### HostDb, HostMemory and Host

`HostDb` is `conn`, what the one sqlite connection sees, and `disk`, what is committed. Each
section under `host._lock` is an action; a storing operation is three (the statement, the
audit event in memory, the audit row), with any other thread in between. A row is a
number, its place by primary key, and no value is null (which reads like no row); a where object is one of four kinds (`Wheres`). `Reload`
waits for the scripts, `Crash` for nobody.

`OneTransaction` is what the users of the store may rely on: one transaction, whoever opened
it. Outside it a change is on disk at once; inside it changes collect, everybody sees them,
and they reach the disk together with the commit, audit rows included, or never.
`StoreIsTransaction` is the refinement (`Shared`): `durable` and `audited` are the disk,
`open` is the flag `_in_tx`, and the changes that are pending are the rows written since the
transaction began (`touched`), as the connection sees them.

`HostMemory` is the caches and buffers. The operations that read and then write are two
actions with the lock kept, because the session rotate (`on_session_rotate`) takes another
lock and may come in the middle; `raced` names the cells it met so, `RotateRaises` is the
dictionary that changes while the rotate iterates over it. `Host` puts the two side by side:
a step of the host (`HostNext`) is a step of one of them and leaves the other as it is.

### ConnMap

Two processes and the game. A packet is one action, `Packet`, in the order of
`ProcDivert.run`: whose is it (`RefreshTarget`, `RefreshEndpoints`, `Owner`), remember where
the connection was going (`Remember`, with its eviction and `Persist`), send it one way or
the other. A packet whose endpoint is not fresh in the cache asks for the game twice, before and after
the scan (`f` and `g` of `RefreshTarget`), and either time may overlook a game that runs, as
`find_process_pid` does with a process it may not look at. A scan finds nothing if the game
has gone or denies it (`ok` of `Scanned`), and what is too much for the cache is evicted.
The code evicts what entered first; the model evicts anything, since the order of the
cache matters to no property here.

`CleanUp` is the other thread, `Resolve` the proxy in its own process, which sees
nothing but the file. It asks the watcher when the file is silent (how = "watcher") and
after any exception in reading it (how = "unread"). A failed write of the file ends the
thread that tried. `found` and `dropped` are histories: the endpoints in the cache as the
last scan found them, and those evicted from the map or forgotten and not recorded since.
`misses` counts the packets that met a failed look-up or scan and bounds them together with
the faults.

Two things the code does *not* promise, though an instance with one endpoint and scans as
often as the clock ticks does not show them. A connection on an endpoint still cached for
the one before it is redirected on that old find, and goes to the server directly when the
find expires while no scan is due; `StaysRedirected` is about connections that a scan has
found, and about those only until a look-up overlooks the game, a scan of it fails or the
cache evicts the find. Then the rest of a redirected connection goes to the server
directly until the next scan, and `NeverLooped` leaves out a packet whose own look-up
overlooked the game, since nobody owns the proxy's packets and None == None redirects them. And an endpoint that was evicted stays unknown to the proxy if the write that was to
record it again fails; it remains `dropped` then. The instance of `connmap` has both.

External: the WinDivert handle, the connection table of the operating system (`dial`), and
the connection watcher's choice among the game's connections.

### Capabilities and Machine

`Machine` reads a source line by line (`ReadLine`), checks the module (`Finish`) and runs it
(`Step`, one instruction). The state of a run is the stack of frames, each with its own
registers and its own count of instructions, as in the code. A jump has the label it goes to and the
argument that was written last, since `_check_module` looks at the last one only and only if it is a
string: `jmp 5`, or a label in another place, is assembled unchecked and may end the call with a
`KeyError` (`Jump`). In a replay a query runs its predicate for one matching observed pair after the
other until it accepts one; every run is a new frame with its own budget, and the frame knows how
many pairs are behind it (`more`, `NextPair`). `Capabilities` has the table of
what every family of instructions asserts (`Table`, `Needed`), the instructions that assert by
themselves (`Asserted`: a copy reads one path and writes another, a move writes both, `db.exec` reads if
the registered statement selects), and the rule by which a declared scope covers a need.
Against it stands what an instruction does to the host and the right that the manual names for
that (`Alters`, `Uses`), which only the properties use: a wrong name in the table does not pass.
Instructions that only compute are represented by `int.add` and `int.sub`; what an
instruction does to the host is `HostDb`, `HostMemory` and `LiveRuntime`, and here only
the fact that it got there (`effects`).

### ProtoWire and PayloadPath

`ProtoWire` is the codec: varints, tags, scalars, fields, packed lists, nested messages, the
decoder with its search for a start (`BestStart`), and the reader of scripts. It works on
bytes, since the round trip is its property; the widths of fixed fields are constants.
`PayloadPath` is a payload that is written field by field, loses bytes at its end or gains a prefix,
and is decoded or walked through. `Back` says what comes back of a number: of four types a negative
one loses its sign, and `RoundTrip` is what holds with that. It is about prefixes without a
possible tag; one that parses as fields, such as the bytes 8, 1, becomes part of the result.

### Modules for TLC that hold two halves

`MCHost`, `MCWeb` and `MCScripts` each hold two components that share no state which the
properties read: the database and the memory of the host, the packet feed and the
registry, the machine and the payload. A behaviour of the whole projects to a behaviour
of each, so a variable (`half`, or `part` in `MCWeb`) lets TLC explore the projections one at a
time instead of their product; the half that stands still has one initial state. `MCWeb` has three
parts: of the feed it takes the browsers and the queues by themselves. For the host the projection
is a theorem (`HalvesAreAlone`). Feed and registry do meet
in one place, where a new key schedules a reset: the feed takes a reset from any thread at
any time, which includes the times at which the registry causes one.

## 4. What the runs check

A property that joins several named parts is defined as their conjunction in its module:
`KeyHeld`, `JobsInv`, `MemoryInv`, `MapIsTrusted`, `FeedInv`, `StatusInv`, `StaysInside`
and `PayloadInv` each begin with the type invariant of the module.

| Run | Instance | Shows |
|---|---|---|
| `c2s_safety` | 3 client packets of 3 kinds, 2 keys, 2 injections, outbound and observe queue of 1, batch of 2, sequence space of 8, first number 5, so that the last numbers wrap | `InOrderButForTheWaiting`: the only reordering is injections ahead of the one packet waiting in `put()`. `BodyRepeatsHeader`: a body its key decrypts shows the header's number, and a body is spoiled only if an ACK announced another key. `BaselineIsReal` (never a heartbeat's session id), `NumbersPromise` (refines `SeqNumbers`) |
| `c2s_edge` | 1 key, peers that may leave bytes unread, sequence space of 8, first number 6, fair | `Numbered`: wire numbers are consecutive and used once, also at the wrap. `AnsweredInjections`: success if and only if queued; a number that does not fit is refused and leaves nothing behind. `AcceptedIsWritten`: everything accepted is written or the session is closed. `CloseEnds`: a closed session ends once its transports are flushed |
| `live_safety` | 2 callers and the worker on one key, 1 packet, 1 rotate | `AnswerHeard`: an answer comes from a packet observed while the caller was on the query, with no rotate between. `RegisteredIsOpen`, `WaitersCounted` |
| `live_live` | 1 caller and the worker, 2 reloads, fair | `DrainSeesEveryCall`, `QueryReturns`, `LoopComesFree`, `ReloadEnds` |
| `s2c_stream` | 3 packets in any cut, 2 keys, observe queue of 2, 2 option changes, fair | `ClientStream`: written and buffered is what was read, in order. `KeyHeld`: the cipher comes back to the newest key, the web knows it. `KeyArrives`, `PacketsFlow` |
| `sched_jobs` | 2 jobs, one raising, one one-shot, batch of 1, 2 operations or 1 and a transaction, failing writes, 1 restart, fair | `JobsInv`: a job in memory is in the table, enabled, of that kind, unless two operations met on it or its last write failed or was rolled back. `AfterRunsOnce`, `DueGetsTurn` |
| `host` | 2 scripts, 1 outsider, 5 rows, 3 operations, 3 instants; 1 cache key, 1 buffer, 4 operations, 2 rotates | `LossIsConfined`: what a rollback, reload or crash takes away was written in the open transaction. `StoreIsTransaction` (refines `OneTransaction`): all scripts, reloads and crashes together behave like one transaction, which reaches the disk whole or not at all. `ReadersAgree`: get, listing and select see the same rows. `MemoryInv`: increments and pushes are not lost, a rotate leaves nothing of the old session |
| `connmap` | 2 game endpoints, 1 of the proxy, 2 connections, 2 servers, map and endpoint cache of 1, 5 instants, 2 games, 1 fault or failed look-up; game endpoints and servers are symmetric | `MapIsTrusted`: what the proxy reads is where the connection was going, and when it can read the file it must guess only for reused or evicted endpoints. `RepliesFind`: the origin of a reply is known while the connection is used. `NeverLooped`: no packet of the proxy comes back to it, but for one whose look-up overlooks the game. `StaysRedirected`: once a scan has found a connection all its packets go to the proxy, until a look-up or scan fails or the cache overflows |
| `web` | 1 browser with a queue of 2, batch of 2, 2 packets, 1 reset; decode queue of 2, RFN queue of 1, 3 packets; 2 sessions, 2 keys, 2 ACKs, 1 late packet, 1 request; fair | `FeedInv`: in order, gaps counted, and the decode queue stands still only from the death of its worker to the next packet. `ResetSeparates`, `UpdateIsOfItsPacket`. `QueuedIsSettled`: every queued packet gets its update unless the worker died with it or for good. `StatusInv`: the page says connected exactly while a session is there, the RFN state belongs to the last key unless updates raced or the rotate raised. `InjectFindsOpen` |
| `scripts` | every source of two functions and 3 lines out of 19, 3 instructions per frame, 3 frames, 2 observed pairs; every message of 3 fields of 8 kinds, prefix of 2, cut of 2 | `StaysInside`: what reaches the host was declared, under the right it uses, by the function that ran, a pure function alters nothing, a checked jump finds its label. `CallEnds`. `PayloadInv`: what was written is found, but for the signs that `Back` names. `SkipsWholeFields` |
| `cancelled`, `codec_signed` | 2 jobs; one signed field | findings |

Bounds, and why they are enough. Queues of one make "full" as common as "empty"; three
client packets give one written, one queued and one waiting in `put()`; two injections
give one before and one behind the waiting packet. Two callers and the worker are the
creator, a joiner and the thread that answers; one key suffices because entries of
different keys share nothing but the lock. Two reloads let a call capture the host of
one and end during the next. Three packets give two keys in a row and a packet cut by a
switch. Two jobs with a batch of one make one job wait behind another. Three operations
are one before a transaction, the transaction and one of another script inside it. Five
instants with times-to-live of one to three let every deadline of the map pass on both
sides of every other. Two sessions are the one that ended and the one that took over.
Two observed pairs are one that is refused and the one behind it. With fixed fields of one and two
bytes, and every varint type cut to these widths, the two messages `Low` and `High` of `MCScripts`
write the ends of ten types of both widths.

What these instances do not show: an endless stream of packets of a higher priority, behind
which the decode queue never comes to a packet of priority 20. In the instance one of two waiting
jobs passes the other, but `PacketMax` ends the stream, so `QueuedIsSettled` holds of a burst and
not of a flood. One browser says nothing about two that differ, since each has a queue of its own;
larger numbers of everything are what the proofs are for. Deadlock is not checked: sessions end, clients fall silent and counters
reach their bounds. That something which must go on does go on is stated by the liveness
properties instead.

### Fairness

* `MitmC2S`: a runnable task runs, a timer fires, a read ends once its transport is closed and
  holds no bytes any more. Nothing is assumed of the client, of the upstream's end of stream,
  of `inject`'s callers, of the observe thread, nor that a peer ever reads what it is sent
  (`Flushed`): `run()` awaits `wait_closed()` of both writers without a timeout
  (`proxy/server.py:485`), so a session whose peer neither reads nor resets the connection
  stays in its `finally`. `CloseEnds` says that this is the only thing that keeps it there.
* `LiveRuntime`: runnable threads run, deadlines pass, the worker's `observe_packet`
  ends, reload goes on. Nothing is assumed of packets, rotates, reloads, of the length of a
  script, or of the loop's luck in running a posted inject before its two seconds are over.
* `S2CPath`: tasks and threads that can run do run. That the client reads what it is
  sent is not assumed, since `client_w.drain()` has no timeout; `KeyArrives` is conditional
  on the pump leaving `drain` again and again.
* `Scheduler`: the tick comes every half second, its script ends (`max_ops`, query
  timeouts), a thread in the middle of an operation goes on.
* `PacketFeed` (`FeedFairness`): the loop runs what it was given, the worker takes the next
  job and finishes it or dies with it. Nothing is assumed of the RFN worker, of browsers and of
  their senders.
* `Machine`: a running call executes its next instruction (`WF_vars(Step)`): it is an
  ordinary loop on a thread.

`HostDb`, `HostMemory`, `ConnMap`, `SessionRegistry` and `PayloadPath` make no promise about
what must happen, and assume no fairness.

## 5. What is proved

For every value of the constants, from the named assumptions of the modules only (for
`Scheduler` `NoneAssumption`: no job key is the value "none"; for `SessionRegistry` that
sessions are numbered and no key is the value "none"; for `ConnMap` that an endpoint is the
game's or the proxy's, that the value "none" is no record, and the order of the code's
constants: scans are no rarer than their finds expire, 30 s < 60 s < 300 s; for `Host` that
there are finitely many rows, in disjoint tables, that the value "none" is no row, value,
entry or thread, and that limits are not negative; for `Machine` that the header of a function
gives a name and a parameter list, and that the interpreter allows at least one frame), and for the
properties of `MitmC2S` that speak of the order of numbers also
`NoReuse == ClientMax + InjectMax <= SeqMod`: a connection, wherever it starts, has at most
2^32 packets. It may wrap; only a number that is used a second time is excluded, for which
the same properties are false.

* `MitmC2S_proofs`: `TypeCorrect`, and under `NoReuse` `NumbersConsecutive`,
  `OrderOnTheWire` and `Implements` (the refinement of
  `SeqNumbers`). `Numbered` is not inductive: it does not say which number comes next.
  The invariant adds that the stream is an arrangement of `First .. First + n - 1`, that
  `lastSeq` and `offset` count the client packets and injections in it (`Counting`), that
  the observe path holds only packets already forwarded (`Observing`), and that only
  injections made while the pump was blocked pass the client packet that waits (`Good`).
  Every action then either leaves the stream as it is (writing, lingering, cancelling
  move items between its four parts) or inserts the next number at the one place where
  it may go; `InsertKeepsGood` is that step once, for both. `BodiesRepeatHeaders` and
  `BaselinesAreReal` are not about order and need no hypothesis: their invariant
  (`Agreeing`) holds through any number of wraps. Nor does `NothingNumberedIsLost`
  (`NothingIsLost`): a step puts at most one packet into the stream and moves no other
  (`PutIn`), and what the transport was given is only added to; what is written is thus at
  any time the beginning of what was numbered. `InjectionsAnswered`
  (`AnsweredInjections`) needs no order and holds across the wrap: a step leaves the set of
  stream positions that hold injections as it is or, when `inject` queues one, shifts it and adds
  one, so that its cardinality is the number of calls answered with success.
* `LiveRuntime_proofs`: `TypeCorrect`, `RegisteredAreOpen`, `AnswersAreHeard`,
  `CurrentStaysOpen`, `ActiveIsCounted`, `DrainIsComplete`. `IInv` adds to type
  correctness that a query on which somebody waits was created by its thread for the
  same key (`Creators`), that a thread without a query has left no trace of one
  (`Fresh`), that an outcome about to be overwritten is registered nowhere (`Popped`),
  that nobody on a registered query has been cut off (`Uncut`), and that whoever is on a
  matched query has heard the packet (`MatchHeard`). `Counted` says that `_active_calls`
  is the number of threads inside a call plus the number inside a query; it is proved
  with the cardinality of sets that gain or lose one member, and gives the drain.
  `WaitersAreCounted` (`WaitersCounted`) is counted the same way, query by query: whoever
  steps onto a query, leaves it or is cut off moves one thread in one set and one unit in
  one `waiters` (`CountJoin`, `CountLeave`, `CountAside`).
* `S2CPath_proofs`: `TypeCorrect`, `StreamArrives`, `NeverRejected`. The invariant says
  that, without a torn switch, `out` and `buf` continue each other in the numbering up to
  `got` (`InPlace`), packets are written whole until passthrough is in force
  (`WholePackets`), then nothing is buffered (`NothingBehind`), before that at most half
  a packet outside the inner loop (`HalfBehind`), and the observe path holds no ACK
  before the pump has seen one (`KeyBeforeObserver`).
* `KeysAreHeld` (`KeyHeld`). Of the places where an ACK may be on its way
  (just read, the observe queue, the observe thread) the youngest that holds one holds the
  newest key as its last, and when none holds one the cipher and the web application have
  that key (`KeysInTurn`). This ends only once an ACK was dropped from a full observe queue
  or overtaken by a switch of `observe_s2c` (`blind`), or when the session has ended.
* `Scheduler_proofs`: `MemoryAgrees` (`JobsInv`) and `OneShotRunsOnce` (`AfterRunsOnce`). That
  memory and table agree is broken between the two halves of every operation. The
  invariant says of each key on which no two operations have met (`raced`) how far the one
  operation has come, and that its row agrees unless it is in `unsaved` (`InStep`), and of the tick what it knows of the job that it is
  running (`TickInv`): a one-shot job runs once because its reschedule removes it before
  the batch goes on. `NothingDueIsPassed` (`DueKeepsItsPlace`): in no step does a job that
  became due later, or again, get before one that is due.
* `Host_proofs`, of `HostDb`: `TypeCorrect`, `LossConfined` and `OpenIsHeldBack` (`HeldBack`: the
  disk does not change while a transaction is open). All storing operations
  are a `Store` of some rows that leaves the others alone (`Stores`, `OperationCases`), so
  one argument serves twelve of them; `StoreInv` is type correctness and the property
  itself, which is inductive. `ReadersAreOne` (`ReadersAgree`) is about the readers of any
  typed store: a list is ordered by the number of members before each
  (`ListedInOrder`, the pigeonhole principle again), so that the first is the newest and every
  row is on some page.
* `Host_proofs`, of `OneTransaction`: `ImplementsTransaction` (`StoreIsTransaction`), every
  step is a step of the transaction or none. `TxInv` adds to `StoreInv` that outside a
  transaction no row counts as written in one. `ReadersSeeTransaction`: what anyone reads is
  the disk under the pending changes.
* `Host_proofs`, of `HostMemory`: `MemoryKept` (`MemoryInv`). None of its three parts is
  inductive: they are broken between the read and the write of one operation. The
  invariant says that who keeps the lock has read what is still there, unless a rotate
  came in between (`WorkInv`); that half-way through a rotate the cache is fresh already
  (`FreshInv`); that a counter which is not there has counted nothing (`CountInv`); and that
  the values of a buffer, and of the deque a thread has in hand, rise and are older than the
  next (`RingInv`). `KeptFact` says what a purge keeps: the live items, in their order, the
  last one if it lives.
* `Host_proofs`, of `Host`: `HalvesAreAlone`, a behaviour of the host is one of its database and
  one of its memory, and therefore `HostKeeps`, all of the above of the whole host. Steps of the
  database are also allowed while the memory keeps the lock, more than the code does.
* `Web_proofs`, of `SessionRegistry`: `StatusIsTrue` (`StatusInv`) and `InjectionFinds`
  (`InjectFindsOpen`). The invariant adds that only sessions that were registered become
  active or have work in their threads (`ServedInv`); what the loop has found still holds
  when it reads again, but for a torn read (`GotInv`); the page says connected without a session
  only until the `session_closed` hook has run (`ShownInv`); and, unless updates raced, at
  most one update is between rotating and writing, and, unless the rotate raised, the RFN state
  belongs to its key (`KeyInv`). That the latest of several sessions exists is `LatestIsOne`, from the
  well-foundedness of the natural numbers.
* `Web_proofs`, of `PacketFeed` and `EventBus`: `ViewersAreServed` (`FeedInv`), `ResetsSeparate` and
  `UpdatesNameTheirPackets`. Every list on the bus rises in its numbers and holds only
  events that are `Good`: packets reported after the last reset that ran, resets that
  ran, updates that name the place of their packet; `PublishOK`, `ClearOK`,
  `SubscribeOK`, `TakeOK` and `SendOK` say so of the bus for any set of events, with an even account
  for every viewer (`Accounts`); `UpdateOK` and `OfferOK` say it of what the two workers do. That a packet is `Good` when its turn comes follows
  from the order in which the calls wait for the loop (`Waits`): each reset waits behind the
  packets reported before it, and the first that waits is the next to run (`RunsReset`).
  `OwedPacketsAreQueued` (`OwedIsQueued`): every packet whose update is owed is in the
  decode queue or with its worker, once, or was with a worker that died, also when the queue was
  full or the bus was reset. The invariant (`Owing`) adds that the worker's job has left the queue.
* `ConnMap_proofs`: `TheMapIsTrusted` (`MapIsTrusted`), `RepliesAreFound`,
  `TrafficNeverLoops` and `FoundStaysRedirected`. Proved of the set of the map's entries,
  whose order matters only for who is evicted (`RememberFact`, `CleanUpFact`; that the
  clean-up keeps every young entry is the pigeonhole principle). `FileInv`: as long as
  no write has failed the file has every entry of the map with the same origin, and map and
  file are right about every connection the proxy has. `KeepInv`: an entry recorded for a
  connection stays in map and file, not older than the connection, until the clean-up may
  forget it; not older than its last packet in the map. `OwnerInv`: what a scan
  has found carries the time of the last scan, so it is fresh or scanned again
  (`FoundOwner`).
* `Machine_proofs`: `ScriptsStayInside` (`StaysInside`). Of the instructions nothing is
  assumed, neither their shape nor that their registers exist. The invariant says that a
  frame which waits for what it called stands at an instruction (`IsStack`), so that there is a
  next place to return to; that while the module runs it is the one that was checked
  (`CheckedInv`), so that a label the assembler has checked is there, and a call that ended
  with a `KeyError` had a jump it has not checked (`Unchecked`); and that every effect was
  permitted by the function of the frame on top, whoever called it (`OnlyDeclared`), where
  `UsesAsserted` compares, family by family, the right an instruction uses with those it asserts.
  `EveryCallSpends` (`EveryStepSpends`): what is left to the frames (`Left`: observed pairs, then
  instructions) gets lower with every step, in the order of words in a dictionary, since a call
  opens a frame below one that has just spent, a return closes one, and a predicate that is
  run again has its instructions back but one pair less. There are finitely many such words
  (`LeftsFinite`), `Budget` counts those below, and a call is over after at most that many
  steps.

Only model-checked:

* All liveness: `AcceptedIsWritten`, `CloseEnds`, `QueryReturns`, `LoopComesFree`,
  `ReloadEnds`, `KeyArrives`, `PacketsFlow`, `DueGetsTurn`, `QueuedIsSettled`, `CallEnds`. It
  rests on fairness, and so on ENABLED, which the prover does not know. What is safety in four
  of them is proved: nothing is lost before it is written (`NothingNumberedIsLost`), nothing
  passes what is due (`NothingDueIsPassed`), nothing that is owed is forgotten
  (`OwedPacketsAreQueued`, a worker that dies aside), no instruction is free (`EveryCallSpends`). Fairness adds that
  the steps are taken. TLC has checked these four as well as the other invariants of the
  proofs, on the instances of the runs; the runs do not repeat them.
* `PayloadInv` and `SkipsWholeFields` of `PayloadPath` over `ProtoWire`: the codec is recursive
  in its values and lists, its operators are RECURSIVE, and what they compute for every input
  is an induction over data.

## 6. Findings

1. `cancelled`: a job cancelled (or disabled) after the tick has collected it is put back
   by the reschedule that follows its run (`rfn/runtime.py:62`); the manual says that
   cancelling deletes it.
2. `codec_signed`: a negative `int32` travels as 64-bit two's complement and the decoder
   gives the sign back only to values below 2^32 (`codec/proto_codec.py:473`), so -128
   arrives as 2^64 - 128. So does a negative `enum`; negative `sfixed32` and `sfixed64` arrive as
   their unsigned bits (line 480 passes them through).

Counter-examples met while modelling whose behaviour is in the models and which the
properties have to allow for:

* The packet worker expires a shared query at its creator's deadline (`rfn/live.py:298`); a
  caller that joined later keeps waiting on it while the next caller injects again. The
  manual promises one shared inject.
* After a failed send the creator overwrites the outcome of the query, also one that a
  packet has already set (`rfn/live.py:373`): of two callers one gets the response and
  the other an error. The manual promises the same response.
* The creator keeps `_lock` while it waits for the loop, and the loop needs `_lock` for the
  next packet (`rfn/live.py:359`): forwarding stands still until the inject times out,
  although the class promises that slow scripts cannot block it. `LoopComesFree` says that
  it goes on then.
* With `observe_s2c` on, a captured key is announced by the observe worker only; a missing
  or full observe queue loses it and the RFN state is not rotated (`proxy/server.py:713`).
* A job that raises is not rescheduled and is first again at the next tick; jobs behind it
  never run (`rfn/runtime.py:55`). `DueGetsTurn` speaks of the others.
* A schedule operation whose write fails, or is rolled back by another script, leaves a job that
  runs and is not in the table, or a row without a job (`rfn/host.py:637`, 940, 369). The next
  write of the row mends it (`unsaved` of `JobsInv`).
* After a drain that timed out, or with a client that does not read, `run()` may wait for
  `wait_closed()` for good (`proxy/server.py:485`). `CloseEnds` and `AcceptedIsWritten` speak of
  transports that get rid of their bytes.
* Fields that a schema does not know count against a start in the decoder's search, and a
  payload that was cut is decoded up to the cut without a word (`codec/proto_codec.py:259`,
  271): a start inside a prefix, or in the middle, can win. A prefix that parses as fields (8, 1)
  is read as such. `RoundTrip` speaks of whole payloads of known fields behind no possible tag.
* `_check_module` looks at the last argument of a jump, and only if it is a string
  (`rfn/assembler.py:190-193`), while the machine jumps to `str` of a certain one: `jmp 5`, or
  `jz r0, missing, l1`, is assembled and ends in a `KeyError` without a code
  (`rfn/vm.py:44`). `NoDanglingJump` speaks of the jumps that were checked.
* A rotate that meets an operation between its read and its write, or a dictionary that
  changes under it, leaves values of the old session behind (`rfn/live.py:687`); two
  overlapping key updates leave the RFN state with the wrong key (`web/app.py:521`), and so does
  a rotate that raises, whose key is remembered all the same (`web/app.py:533-541`). The
  manual (`src/MITMScript/RFN完整说明.md:360`) says that a new key always rotates and that a
  rotate clears the session scopes.
* The manual (`src/MITMScript/RFN完整说明.md:116`) says that every instruction that reaches
  the host must declare a capability; `audit.*`, `route.resolve` and `schema.*` assert none
  (`Needed`).
* There is one packet worker, so a packet handler that queries waits for a response only
  the worker itself could deliver. Its query returns, by its timeout, without a match.
* A reload that overlaps a call may close the host that the call captured before it
  registered (`rfn/live.py:197`).

## 7. Not modelled

* HTTP, WebSocket and MCP handlers beyond what they call, settings, command line, self
  test, front end, the schema generator: they keep no state that another part reads, or only
  present it. Performance counters only measure.
* Encryption, padding, trailer and length arithmetic: used as a black box, a body can be
  decrypted if and only if the cipher has its key. Floating point in the codec.
* `codec/opcode_payload.py` (heuristics for single opcodes, pure functions of bytes),
  `opcode_registry.py` and its reload, `opcode_pack.py`, `manifest.py`, `paths.py`: tables and
  pure functions, for which tests with real data say more than a model with small sets.
* File operations and HTTP of the host: each is one call to the operating system.
* Of the modelled parts: exceptions of a predicate in `observe_packet` (`rfn/live.py:301`);
  two reloads at once (`rfn/live.py:110`); the shutdown of the web application, which may
  wait on the loop for calls that wait for the loop (`web/app.py:838`); the jobs dictionary
  that changes while due jobs are collected (`rfn/runtime.py:51`); `counter2` of injected
  packets; `decode_now`, which decodes outside the queue for the browser that asks.
