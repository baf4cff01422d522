------------------------------ MODULE ConnMap -------------------------------
(***************************************************************************)
(* The redirector (divert/proc_divert.py) and the proxy's look-up of the   *)
(* upstream (proxy/server.py _lazy_resolve_upstream), two processes joined *)
(* by the file conn_map.json.  For each outbound packet the redirector     *)
(* decides, from two short-lived caches, whether it is the game's; if so   *)
(* it remembers where the connection was going and sends it to the proxy.  *)
(* A packet is handled to its end before the next (one thread); the clean- *)
(* up thread and the proxy run beside it.                                  *)
(***************************************************************************)
EXTENDS Naturals, FiniteSets, Sequences, SequencesExt

CONSTANTS
    GameEps,        \* endpoints (address and port) of the game's connections
    ProxyEps,       \* endpoints of the proxy's own connections to a server
    Origins,        \* game servers
    None,
    MapLimit,       \* conn_map_limit
    ScanInterval, EpTtl, PidTtl,        \* endpoint_scan_interval, endpoint_cache_ttl, 2.0
    CacheLimit,                         \* endpoint_cache_limit
    PersistAfter, MaxAge, KeepFor,      \* 30, CONN_MAP_MAX_AGE, 300
    TimeMax, GameMax, DialMax,
    FaultMax                            \* bounds; FaultMax of faults and misses together

Eps == GameEps \cup ProxyEps
(* Where the proxy has an origin from: the file, the watcher because the   *)
(* file is silent, the watcher because the file could not be read.         *)
Hows == {"map", "watcher", "unread"}
Conn == [to : Origins, since : Nat, last : Nat, way : SUBSET {"proxy", "direct"},
         first : {"none", "proxy", "direct"}, reused : BOOLEAN]

ASSUME EndpointsAssumption == GameEps \cap ProxyEps = {}
ASSUME NoneAssumption ==    \* None is none of the records of this module
    /\ None \notin [to : Origins, ts : Nat] \cup [pid : Nat, ts : Nat] /\ None \notin Origins
    /\ None \notin [how : Hows, to : Origins] \cup Conn
ASSUME TimesAssumption ==
    /\ {ScanInterval, EpTtl, PidTtl, CacheLimit, PersistAfter, MaxAge, KeepFor, MapLimit}
          \subseteq Nat
    /\ ScanInterval <= EpTtl /\ PersistAfter < MaxAge /\ MaxAge < KeepFor
    /\ MapLimit > 0

VARIABLES
    now,
    game, born,     \* pid of the running game or 0; games started so far
    dial,           \* endpoint -> the connection there, or None
    pid, pidAt,     \* target_pid_cache, last_refresh
    seen, scanAt,   \* endpoint_pid_cache, endpoint_last_scan
    map,            \* conn_map, oldest insertion first
    disk,           \* the file: endpoint -> origin and ts, or None
    dirty,          \* conn_map_dirty
    loop, cleaner,  \* the packet loop and the clean-up thread are alive
    answer,         \* what the proxy found for a connection
    looped,         \* the proxy's own traffic was sent back to it (history; see Packet)
    found,          \* endpoints in the cache as the last scan found them (history)
    dropped,        \* endpoints evicted or forgotten, and not recorded since (history)
    dials, faults, misses   \* bounds

net == <<game, born, dial>>
caches == <<pid, pidAt, seen, scanAt>>
store == <<map, disk, dirty, loop, cleaner>>
bounds == <<dials, faults, misses>>
vars == <<now, net, caches, store, answer, looped, found, dropped, bounds>>

Entry == [ep : Eps, to : Origins, ts : Nat]

TypeOK ==
    /\ {now, game, born, pid, pidAt, scanAt, dials, faults, misses} \subseteq Nat
    /\ dial \in [Eps -> Conn \cup {None}]
    /\ seen \in [Eps -> [pid : Nat, ts : Nat] \cup {None}]
    /\ map \in Seq(Entry) /\ Len(map) <= MapLimit
    /\ disk \in [Eps -> [to : Origins, ts : Nat] \cup {None}]
    /\ {dirty, loop, cleaner, looped} \subseteq BOOLEAN
    /\ answer \in [Eps -> [how : Hows, to : Origins] \cup {None}]
    /\ found \subseteq Eps /\ dropped \subseteq Eps

(* The epoch, which the caches start from, is longer ago than any scan.    *)
Init ==
    /\ now = ScanInterval + 1 /\ game = 0 /\ born = 0 /\ dial = [e \in Eps |-> None]
    /\ pid = 0 /\ pidAt = 0 /\ seen = [e \in Eps |-> None] /\ scanAt = 0
    /\ map = <<>> /\ disk = [e \in Eps |-> None] /\ dirty = FALSE
    /\ loop = TRUE /\ cleaner = TRUE
    /\ answer = [e \in Eps |-> None] /\ looped = FALSE /\ found = {} /\ dropped = {}
    /\ dials = 0 /\ faults = 0 /\ misses = 0

-----------------------------------------------------------------------------
(* Whose packet is it?                                                     *)

(* get_target_pid, with p cached at a time; f is what find_process_pid     *)
(* returns if it is asked: the game, or nobody, also when it was denied a  *)
(* look at a game that runs.                                               *)
Target_CachesNone(p, at, f) == IF now - at > PidTtl THEN f ELSE p
Target(p, at, f) == IF now - at > PidTtl \/ p = 0 THEN f ELSE p

Fresh(e) == seen[e] # None /\ now - seen[e].ts <= EpTtl
(* A packet that misses the endpoint cache asks before and after the scan. *)
RefreshTarget(e, f, g) ==
    /\ pidAt' = IF now - pidAt > PidTtl \/ pid = 0 THEN now ELSE pidAt
    /\ pid' = LET p == Target(pid, pidAt, f) IN IF Fresh(e) THEN p ELSE Target(p, pidAt', g)

Pruned == [e \in Eps |-> IF Fresh(e) THEN seen[e] ELSE None]
(* A scan raises if the process t has gone, or denies it (~ok), and leaves *)
(* the cache pruned.  What is too much for the cache is evicted.           *)
InScan(t, ok) == {e \in GameEps : ok /\ t # 0 /\ t = game /\ dial[e] # None}
Scanned(t, ok) ==
    LET all == [e \in Eps |-> IF e \in InScan(t, ok) THEN [pid |-> t, ts |-> now] ELSE Pruned[e]]
        full == {e \in Eps : all[e] # None}
        kept == {S \in SUBSET full : \/ S = full /\ Cardinality(S) <= CacheLimit
                                     \/ Cardinality(S) = CacheLimit}
    IN  {[e \in Eps |-> IF e \in S THEN all[e] ELSE None] : S \in kept}
Refreshed_ClearsFirst(t, ok) ==
    IF now - scanAt < ScanInterval THEN {[e \in Eps |-> None]} ELSE Scanned(t, ok)
Refreshed(t, ok) == IF now - scanAt < ScanInterval THEN {Pruned} ELSE Scanned(t, ok)
RefreshEndpoints(e, t, ok) ==
    IF Fresh(e) THEN UNCHANGED <<seen, scanAt>>
    ELSE /\ seen' \in Refreshed(t, ok)
         /\ scanAt' = IF now - scanAt < ScanInterval THEN scanAt ELSE now
(* get_packet_owner_pid; 0 is nobody known.  The cache holds endpoints of  *)
(* the target only, so the proxy's connections never have an owner.        *)
Owner(e) == IF seen[e] = None THEN 0 ELSE seen[e].pid
(* What of the last scan is in the cache still, after a packet to e: nothing*)
(* if the game was overlooked.                                             *)
FoundNow(e) ==
    IF game = 0 \/ pid' # game THEN {}
    ELSE IF Fresh(e) \/ now - scanAt < ScanInterval THEN found
    ELSE {x \in GameEps : dial[x] # None /\ seen'[x] = [pid |-> game, ts |-> now]}

-----------------------------------------------------------------------------
(* The map and its file.                                                   *)

InMap(e) == {i \in DOMAIN map : map[i].ep = e}
Lookup(e) == IF InMap(e) = {} THEN None
             ELSE (CHOOSE m \in Range(map) : m.ep = e).to
(* Assigning to a known key keeps its place in the order.                  *)
Updated(e, to) ==
    LET m == [ep |-> e, to |-> to, ts |-> now]
    IN  IF InMap(e) = {} THEN Append(map, m)
        ELSE [i \in DOMAIN map |-> IF map[i].ep = e THEN m ELSE map[i]]
Evicted(m) == IF Len(m) > MapLimit THEN SubSeq(m, Len(m) - MapLimit + 1, Len(m)) ELSE m
Changed_IgnoresOrigin(e, to) ==
    \/ InMap(e) = {}
    \/ \E i \in InMap(e) : now - map[i].ts > PersistAfter
    \/ Evicted(Updated(e, to)) # Updated(e, to)
Changed(e, to) ==
    \/ InMap(e) = {}
    \/ \E i \in InMap(e) : map[i].to # to \/ now - map[i].ts > PersistAfter
    \/ Evicted(Updated(e, to)) # Updated(e, to)
FileOf(m) == [e \in Eps |->
    IF \E x \in Range(m) : x.ep = e
    THEN LET x == CHOOSE x \in Range(m) : x.ep = e IN [to |-> x.to, ts |-> x.ts]
    ELSE None]
(* The temporary file replaces the old one at once.  If the reader holds it*)
(* twice in a row the second PermissionError ends the thread.              *)
Persist(m, thread) ==
    \/ disk' = FileOf(m) /\ dirty' = FALSE /\ UNCHANGED <<thread, faults>>
    \/ /\ faults + misses' < FaultMax /\ faults' = faults + 1
       /\ dirty' = TRUE /\ thread' = FALSE
       /\ UNCHANGED disk
Remember(e, to) ==
    /\ map' = Evicted(Updated(e, to))
    /\ IF Changed(e, to) THEN Persist(map', loop)
       ELSE UNCHANGED <<disk, dirty, loop, faults>>
    /\ UNCHANGED cleaner
    /\ dropped' = (IF loop' THEN dropped \ {e} ELSE dropped) \cup
         {x \in Eps : InMap(x) # {} /\ \A i \in DOMAIN map' : map'[i].ep # x}

-----------------------------------------------------------------------------
(* Packets to a game server.                                               *)

Redirected(e) == Owner(e)' = pid'

(* With no owner known and no game known the two are equal: then every     *)
(* packet to the game's port is redirected.  looped is about packets for   *)
(* which no look-up overlooked the game.                                   *)
Packet(e) ==
    /\ loop /\ dial[e] # None
    /\ \E f, g \in {game, 0}, ok \in BOOLEAN :
         /\ misses' = IF f = game /\ g = game /\ ok THEN misses ELSE misses + 1
         /\ faults + misses' <= FaultMax
         /\ RefreshTarget(e, f, g) /\ RefreshEndpoints(e, Target(pid, pidAt, f), ok)
         /\ looped' = (looped \/ (/\ Redirected(e) /\ e \in ProxyEps
                                  /\ game # 0 /\ f = game /\ g = game))
    /\ found' = FoundNow(e)
    /\ LET way == IF Redirected(e) THEN "proxy" ELSE "direct"
           c == dial[e]
           sent == [c EXCEPT !.way = @ \cup {way},
                             !.last = IF way = "proxy" THEN now ELSE @,
                             !.first = IF @ = "none" THEN way ELSE @,
                             !.reused = @ \/ (c.first = "none" /\ ~Changed(e, c.to))]
       IN  /\ IF way = "proxy" THEN Remember(e, c.to)
              ELSE UNCHANGED <<store, dropped, faults>>
           /\ dial' = IF loop' THEN [dial EXCEPT ![e] = sent] ELSE dial
    /\ UNCHANGED <<now, game, born, answer, dials>>

(* The clean-up thread, every thirty seconds.  What it keeps stays in the  *)
(* same order.                                                             *)
Kept_MaxAge(m) == now - m.ts <= MaxAge
Kept(m) == now - m.ts <= KeepFor
CleanUp ==
    /\ cleaner /\ UNCHANGED misses
    /\ LET K == {i \in DOMAIN map : Kept(map[i])}
       IN  \E f \in [1 .. Cardinality(K) -> K] :
             /\ \A m, n \in DOMAIN f : m < n => f[m] < f[n]
             /\ map' = [n \in DOMAIN f |-> map[f[n]]]
    /\ map' # map \/ dirty
    /\ Persist(map', cleaner)
    /\ UNCHANGED <<now, net, caches, loop, answer, looped, found, dropped, dials>>
RestartRedirector ==
    /\ faults + misses < FaultMax /\ faults' = faults + 1
    /\ pid' = 0 /\ pidAt' = 0 /\ seen' = [e \in Eps |-> None] /\ scanAt' = 0
    /\ map' = <<>> /\ dirty' = FALSE /\ loop' = TRUE /\ cleaner' = TRUE
    /\ found' = {} /\ dropped' = Eps
    /\ UNCHANGED <<now, net, disk, answer, looped, dials, misses>>

-----------------------------------------------------------------------------
(* The proxy accepts a redirected connection and looks for its upstream.   *)

InFile(e) == disk[e] # None /\ now - disk[e].ts <= MaxAge
ResolveByMap(e) ==
    /\ InFile(e)
    /\ answer' = [answer EXCEPT ![e] = [how |-> "map", to |-> disk[e].to]]
(* wait_for_game_server: some established connection of the game.  It is   *)
(* asked when the file is silent, and after any exception in reading it.   *)
ResolveByWatcher(e) ==
    \E x \in GameEps, how \in {"unread"} \cup (IF InFile(e) THEN {} ELSE {"watcher"}) :
        /\ game # 0 /\ dial[x] # None
        /\ answer' = [answer EXCEPT ![e] = [how |-> how, to |-> dial[x].to]]
(* The proxy accepts and resolves soon after the connection was made: well *)
(* within the half minute that the map lets pass before it writes again.   *)
Resolve(e) ==
    /\ dial[e] # None /\ dial[e].first = "proxy" /\ answer[e] = None
    /\ now - dial[e].since <= MaxAge - PersistAfter
    /\ ResolveByMap(e) \/ ResolveByWatcher(e)
    /\ UNCHANGED <<now, net, caches, store, looped, found, dropped, bounds>>

-----------------------------------------------------------------------------
(* The game, the proxy's connections and the clock.                        *)

Dial(e, o) ==
    /\ dial[e] = None /\ dials < DialMax
    /\ e \in GameEps => game # 0
    /\ dial' = [dial EXCEPT ![e] = [to |-> o, since |-> now, last |-> now, way |-> {},
                                    first |-> "none", reused |-> FALSE]]
    /\ answer' = [answer EXCEPT ![e] = None]
    /\ dials' = dials + 1
    /\ UNCHANGED <<now, game, born, caches, store, looped, found, dropped, faults, misses>>
HangUp(e) ==
    /\ dial[e] # None
    /\ dial' = [dial EXCEPT ![e] = None]
    /\ answer' = [answer EXCEPT ![e] = None]
    /\ found' = found \ {e}
    /\ UNCHANGED <<now, game, born, caches, store, looped, dropped, bounds>>
GameStarts ==
    /\ game = 0 /\ born < GameMax
    /\ born' = born + 1 /\ game' = born + 1
    /\ UNCHANGED <<now, dial, caches, store, answer, looped, found, dropped, bounds>>
GameEnds ==
    /\ game # 0 /\ game' = 0
    /\ dial' = [e \in Eps |-> IF e \in GameEps THEN None ELSE dial[e]]
    /\ answer' = [e \in Eps |-> IF e \in GameEps THEN None ELSE answer[e]]
    /\ found' = found \ GameEps
    /\ UNCHANGED <<now, born, caches, store, looped, dropped, bounds>>
TimePasses ==
    /\ now < TimeMax /\ now' = now + 1
    /\ UNCHANGED <<net, caches, store, answer, looped, found, dropped, bounds>>

Next ==
    \/ \E e \in Eps : \/ Packet(e) \/ Resolve(e) \/ HangUp(e)
                      \/ \E o \in Origins : Dial(e, o)
    \/ CleanUp \/ RestartRedirector
    \/ GameStarts \/ GameEnds \/ TimePasses

Spec == Init /\ [][Next]_vars

-----------------------------------------------------------------------------
(* What the proxy reads in the file is where this connection was going,    *)
(* although endpoints are reused, the map is evicted, writes fail and the  *)
(* redirector restarts with the old file in place.                         *)
MapNeverLies ==
    \A e \in Eps : answer[e] # None /\ answer[e].how = "map" => answer[e].to = dial[e].to

(* A connection that has not been evicted finds its way back as long as it *)
(* is in use, whatever the clean-up did meanwhile.                         *)
RepliesFind ==
    \A e \in Eps \ dropped :
        dial[e] # None /\ dial[e].first = "proxy" /\ now - dial[e].last <= KeepFor
            => Lookup(e) = dial[e].to

(* When it can read the file, the proxy has to guess only for a connection *)
(* that reuses an endpoint whose entry was too young to be written again,  *)
(* or one that was evicted.                                                *)
GuessOnlyForReused ==
    [][\A e \in Eps \ dropped :
        answer'[e] # None /\ answer'[e] # answer[e] /\ answer'[e].how = "watcher"
            => dial[e].reused]_vars

(* So the file can be trusted: it is right, and silent only about those.   *)
MapIsTrusted == [](TypeOK /\ MapNeverLies) /\ GuessOnlyForReused

(* While a game runs, the proxy's own traffic is not sent back to it but   *)
(* for a packet whose own look-up overlooks the game: that nobody was found*)
(* is not remembered.                                                      *)
NeverLooped == ~looped

(* Once a scan has found a connection of the game, no packet of it goes to *)
(* the server directly, whatever expires in the caches, until a look-up    *)
(* overlooks the game, a scan of it fails or finds more than the cache     *)
(* holds, the connection ends or the redirector restarts.                  *)
StaysRedirected ==
    [][\A e \in found \cap found' :
            "direct" \in dial'[e].way => "direct" \in dial[e].way]_vars
=============================================================================
