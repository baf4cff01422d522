-------------------------- MODULE SessionRegistry ----------------------------
(***************************************************************************)
(* Which session is the active one (ACTIVE_SESSION and ACTIVE_SESSIONS of  *)
(* proxy/server.py), and what the web application makes of the session     *)
(* events (install_proxy_hooks, session_status and                         *)
(* _handle_session_key_update of web/app.py).  The event loop does one     *)
(* thing at a time; each session has an observe thread that outlives it,   *)
(* writes ACTIVE_SESSION and calls the session hook without a lock.        *)
(* Sessions are numbers, in the order of started_at.                       *)
(***************************************************************************)
EXTENDS Naturals, FiniteSets

CONSTANTS
    SessionMax,     \* bound: sessions
    Keys,
    NoteMax, AckMax, StatusMax  \* bounds: packets observed, status requests

ASSUME SessionMaxAssumption == SessionMax \in Nat

Sessions == 1 .. SessionMax
None == 0
NoKey == "none"
NoCall == [at |-> "idle"]

ASSUME KeysAssumption == NoKey \notin Keys

VARIABLES
    phase,          \* session -> "new", "connecting", "running", "gone"
    closed,         \* session -> _closed
    key, emitted,   \* session -> state.session_key_hex, emitted_session_key_hex
    active,         \* ACTIVE_SESSION
    thread,         \* session -> what its observe thread is doing
    loop,           \* what the event loop is doing
    connected, shownKey,        \* _session_state
    lastKey,        \* _last_session_key_hex
    rfnKey,         \* the key that the RFN state belongs to (history)
    torn,           \* an ended session became active while the loop read active (history)
    raced,          \* two key updates overlapped (history)
    unrotated,      \* on_session_rotate raised, and has not rotated since (history)
    refused,        \* the last injection was refused for want of a session
    notes, acks, asked          \* counters of the bounds

registry == <<phase, closed, key, emitted, active>>
web == <<connected, shownKey, lastKey, rfnKey>>
sess == <<registry, thread, loop, web, torn, raced, unrotated, refused, notes, acks, asked>>

SessInit ==
    /\ phase = [s \in Sessions |-> "new"] /\ closed = [s \in Sessions |-> FALSE]
    /\ key = [s \in Sessions |-> NoKey] /\ emitted = key /\ active = None
    /\ thread = [s \in Sessions |-> NoCall] /\ loop = NoCall
    /\ connected = FALSE /\ shownKey = NoKey /\ lastKey = NoKey /\ rfnKey = NoKey
    /\ torn = FALSE /\ raced = FALSE /\ unrotated = FALSE /\ refused = FALSE
    /\ notes = 0 /\ acks = 0 /\ asked = 0

Registered == {s \in Sessions : phase[s] = "running"}
Open == {s \in Registered : ~closed[s]}
Latest(ss) == IF ss = {} THEN None ELSE CHOOSE s \in ss : \A t \in ss : t <= s
Choose == Latest(Open)

Updating(call) == call.at \in {"key", "write"}
LoopIdle == loop = NoCall

-----------------------------------------------------------------------------
(* A session on the loop: MitmSession.run, close.                          *)

Accept(s) ==
    /\ LoopIdle /\ phase[s] = "new" /\ \A t \in Sessions : t < s => phase[t] # "new"
    /\ phase' = [phase EXCEPT ![s] = "connecting"]
    /\ UNCHANGED <<closed, key, emitted, active, thread, loop, web, torn, raced, unrotated, refused, notes, acks, asked>>
ConnectFails(s) ==
    /\ LoopIdle /\ phase[s] = "connecting"
    /\ phase' = [phase EXCEPT ![s] = "gone"]
    /\ UNCHANGED <<closed, key, emitted, active, thread, loop, web, torn, raced, unrotated, refused, notes, acks, asked>>
Register(s) ==
    /\ LoopIdle /\ phase[s] = "connecting"
    /\ phase' = [phase EXCEPT ![s] = "running"]
    /\ active' = s /\ connected' = TRUE
    /\ UNCHANGED <<closed, key, emitted, thread, loop, shownKey, lastKey, rfnKey, torn, raced, unrotated, refused, notes, acks, asked>>
(* request_shutdown closes all sessions it knows, the end of a pump or a   *)
(* script's disconnect one.                                                *)
Close(ss) ==
    /\ LoopIdle /\ ss # {} /\ closed' = [s \in Sessions |-> closed[s] \/ s \in ss]
    /\ UNCHANGED <<phase, key, emitted, active, thread, loop, web, torn, raced, unrotated, refused, notes, acks, asked>>
Shutdown == Close(Registered \cup ({active} \ {None}))
EndOne(s) == s \in Open /\ Close({s})

(* The end of run(): the session leaves the table, another becomes the     *)
(* active one, and the session_closed hook begins.                         *)
Successor(s) == active' = IF active = s THEN Latest(Open \ {s}) ELSE active
Finish(s) ==
    /\ LoopIdle /\ phase[s] = "running" /\ closed[s]
    /\ phase' = [phase EXCEPT ![s] = "gone"]
    /\ Successor(s)
    /\ loop' = [at |-> "get", for |-> "closed"]
    /\ UNCHANGED <<closed, key, emitted, thread, web, torn, raced, unrotated, refused, notes, acks, asked>>

-----------------------------------------------------------------------------
(* get_active_session on the loop: look, repair, then read again.          *)

Ask(what) ==
    /\ LoopIdle /\ asked < StatusMax /\ asked' = asked + 1
    /\ loop' = [at |-> "get", for |-> what]
    /\ UNCHANGED <<registry, thread, web, torn, raced, unrotated, refused, notes, acks>>
Stale_NoneOnly == active = None
Stale == active = None \/ closed[active]
Look ==
    /\ loop.at = "get"
    /\ active' = IF Stale THEN Choose ELSE active
    /\ loop' = [at |-> "got", for |-> loop.for]
    /\ torn' = (torn /\ loop.for # "closed")
    /\ UNCHANGED <<phase, closed, key, emitted, thread, web, raced, unrotated, refused, notes, acks, asked>>
(* An injection: it fails without a session, or with a closed one.         *)
GotForInject ==
    /\ loop.at = "got" /\ loop.for = "inject"
    /\ refused' = (active = None \/ closed[active])
    /\ loop' = NoCall
    /\ UNCHANGED <<registry, thread, web, torn, raced, unrotated, notes, acks, asked>>
GotForDisconnect ==
    /\ loop.at = "got" /\ loop.for = "disconnect"
    /\ closed' = [s \in Sessions |-> closed[s] \/ s = active]
    /\ refused' = FALSE /\ loop' = NoCall
    /\ UNCHANGED <<phase, key, emitted, active, thread, web, torn, raced, unrotated, notes, acks, asked>>
(* session_closed or a status request: with a session, its key is          *)
(* reconciled.                                                             *)
GotForWeb ==
    /\ loop.at = "got" /\ loop.for \in {"closed", "status"}
    /\ refused' = FALSE
    /\ IF active = None
       THEN /\ loop' = NoCall
            /\ IF loop.for = "closed" THEN connected' = FALSE /\ shownKey' = NoKey
                                      ELSE UNCHANGED <<connected, shownKey>>
       ELSE /\ connected' = (connected \/ loop.for = "closed")
            /\ IF key[active] = NoKey
               THEN /\ shownKey' = IF loop.for = "closed" THEN NoKey ELSE shownKey
                    /\ loop' = NoCall
               ELSE loop' = [at |-> "key", new |-> key[active]] /\ UNCHANGED shownKey
    /\ UNCHANGED <<registry, thread, lastKey, rfnKey, torn, raced, unrotated, notes, acks, asked>>

(* _handle_session_key_update: read and rotate, then write.  A rotate that  *)
(* raises is published (rotate_error); the key is written all the same.    *)
OldKey_Shown == shownKey
OldKey == IF lastKey # NoKey THEN lastKey ELSE shownKey
Rotates(new) == OldKey # NoKey /\ OldKey # new
Belongs(new) == IF Rotates(new) \/ rfnKey = NoKey THEN new ELSE rfnKey
Rotate(new) ==
    \/ rfnKey' = Belongs(new) /\ unrotated' = (unrotated /\ ~Rotates(new))
    \/ Rotates(new) /\ unrotated' = TRUE /\ UNCHANGED rfnKey
Others(s) == {loop} \cup {thread[t] : t \in Sessions \ {s}}
LoopKey ==
    /\ loop.at = "key" /\ Rotate(loop.new)
    /\ loop' = [loop EXCEPT !.at = "write"]
    /\ raced' = (raced \/ \E t \in Sessions : Updating(thread[t]))
    /\ UNCHANGED <<registry, thread, connected, shownKey, lastKey, torn, refused, notes, acks, asked>>
LoopWrite ==
    /\ loop.at = "write" /\ lastKey' = loop.new /\ shownKey' = loop.new
    /\ loop' = NoCall
    /\ UNCHANGED <<registry, thread, connected, rfnKey, torn, raced, unrotated, refused, notes, acks, asked>>

-----------------------------------------------------------------------------
(* The observe thread of a session: a packet of the client, or an ACK.     *)

Give(s, call) ==
    /\ LoopIdle /\ phase[s] = "running" /\ thread[s] = NoCall
    /\ thread' = [thread EXCEPT ![s] = call]
    /\ UNCHANGED <<phase, closed, emitted, active, loop, web, torn, raced, unrotated, refused, asked>>
GivePacket(s) ==
    /\ notes < NoteMax /\ notes' = notes + 1
    /\ Give(s, [at |-> "note"]) /\ UNCHANGED <<key, acks>>
(* The pump has primed the key already.                                    *)
GiveAck(s, k) ==
    /\ acks < AckMax /\ acks' = acks + 1
    /\ key' = [key EXCEPT ![s] = k]
    /\ Give(s, [at |-> "prime", new |-> k]) /\ UNCHANGED notes
(* Without observe_s2c the pump calls the hook itself.                     *)
AckOnLoop(s, k) ==
    /\ acks < AckMax /\ acks' = acks + 1
    /\ LoopIdle /\ phase[s] = "running"
    /\ key' = [key EXCEPT ![s] = k] /\ emitted' = [emitted EXCEPT ![s] = k]
    /\ loop' = IF emitted[s] = k THEN NoCall ELSE [at |-> "key", new |-> k]
    /\ UNCHANGED <<phase, closed, active, thread, web, torn, raced, unrotated, refused, notes, asked>>

(* _note_c2s_sequence, perhaps of a session that has ended.                *)
Note(s) ==
    /\ thread[s].at = "note"
    /\ thread' = [thread EXCEPT ![s] = NoCall]
    /\ active' = s
    /\ torn' = (torn \/ (loop.at = "got" /\ closed[s]))
    /\ UNCHANGED <<phase, closed, key, emitted, loop, web, raced, unrotated, refused, notes, acks, asked>>
Prime(s) ==
    /\ thread[s].at = "prime"
    /\ key' = [key EXCEPT ![s] = thread[s].new]
    /\ emitted' = [emitted EXCEPT ![s] = thread[s].new]
    /\ thread' = [thread EXCEPT ![s] =
            IF emitted[s] = @.new THEN NoCall ELSE [@ EXCEPT !.at = "key"]]
    /\ UNCHANGED <<phase, closed, active, loop, web, torn, raced, unrotated, refused, notes, acks, asked>>
ThreadKey(s) ==
    /\ thread[s].at = "key" /\ Rotate(thread[s].new)
    /\ thread' = [thread EXCEPT ![s].at = "write"]
    /\ raced' = (raced \/ \E call \in Others(s) : Updating(call))
    /\ UNCHANGED <<registry, loop, connected, shownKey, lastKey, torn, refused, notes, acks, asked>>
ThreadWrite(s) ==
    /\ thread[s].at = "write" /\ lastKey' = thread[s].new /\ shownKey' = thread[s].new
    /\ thread' = [thread EXCEPT ![s] = NoCall]
    /\ UNCHANGED <<registry, loop, connected, rfnKey, torn, raced, unrotated, refused, notes, acks, asked>>

SessNext ==
    \/ \E s \in Sessions :
        \/ Accept(s) \/ ConnectFails(s) \/ Register(s) \/ EndOne(s) \/ Finish(s)
        \/ GivePacket(s) \/ Note(s) \/ Prime(s) \/ ThreadKey(s) \/ ThreadWrite(s)
        \/ \E k \in Keys : GiveAck(s, k) \/ AckOnLoop(s, k)
    \/ Shutdown \/ (\E what \in {"inject", "status", "disconnect"} : Ask(what))
    \/ Look \/ GotForInject \/ GotForDisconnect \/ GotForWeb \/ LoopKey \/ LoopWrite

SessSpec == SessInit /\ [][SessNext]_sess

-----------------------------------------------------------------------------
SessTypeOK ==
    /\ active \in Sessions \cup {None}
    /\ \A s \in Sessions : phase[s] \in {"new", "connecting"} => ~closed[s] /\ thread[s] = NoCall
    /\ {lastKey, shownKey, rfnKey} \subseteq Keys \cup {NoKey}

(* The web page says connected while a session is open, and no longer when *)
(* none is left.                                                           *)
ConnectedIsTrue ==
    LoopIdle /\ ~torn =>
        /\ Open # {} => connected
        /\ Registered = {} => ~connected

(* An injection is refused only if no session is open, also when a thread  *)
(* of an ended session has made that one active again.                     *)
InjectFindsOpen == [][GotForInject /\ refused' /\ ~torn => Open = {}]_sess

(* The RFN state belongs to the last key that the web application has      *)
(* seen, over any disconnects in between: unless two threads updated the   *)
(* key at once, or the last rotation there was to do has raised.           *)
RfnFollowsKey ==
    ~raced /\ ~unrotated /\ ~Updating(loop) /\ (\A s \in Sessions : ~Updating(thread[s]))
        => rfnKey = lastKey

(* Whatever the two sessions' threads do, both hold.                       *)
StatusInv == SessTypeOK /\ ConnectedIsTrue /\ RfnFollowsKey
=============================================================================
