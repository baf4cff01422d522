---------------------------- MODULE EventBus ---------------------------------
(***************************************************************************)
(* The event bus between the proxy and the browsers (web/event_bus.py), as *)
(* operators on its state: a counter, a bounded history and one bounded    *)
(* queue for each viewer.  A full queue loses its oldest event.  A         *)
(* viewer's sender takes events from its queue into a batch and sends them *)
(* together; hand counts those it has taken and not sent.  Of a viewer,    *)
(* got (how many events it was sent), last and reset (the last event and   *)
(* the last reset taken for it), since, replayed and cleared are history   *)
(* for the properties.                                                     *)
(***************************************************************************)
EXTENDS Naturals, Sequences

CONSTANTS
    Capacity,       \* EventBus(subscriber_capacity)
    HistoryMax,     \* EventBus(history)
    Replay          \* subscribe(replay_last)

ASSUME EventBusAssumption ==
    /\ Capacity \in Nat \ {0} /\ HistoryMax \in Nat \ {0} /\ Replay \in Nat

Away == [here |-> FALSE]
Newest(s, n) == IF Len(s) <= n THEN s ELSE SubSeq(s, Len(s) - n + 1, Len(s))
NoBus(viewers) == [seq |-> 0, history |-> <<>>, viewer |-> [v \in viewers |-> Away]]

Put_Uncounted(v, event) ==
    IF ~v.here THEN v
    ELSE IF Len(v.queue) = Capacity THEN [v EXCEPT !.queue = Append(Tail(@), event)]
    ELSE [v EXCEPT !.queue = Append(@, event)]
Put(v, event) ==
    IF ~v.here THEN v
    ELSE IF Len(v.queue) = Capacity
    THEN [v EXCEPT !.queue = Append(Tail(@), event), !.dropped = @ + 1]
    ELSE [v EXCEPT !.queue = Append(@, event)]

(* An event is a record without its number; keep is its _history.          *)
Publish(bus, event, keep) ==
    LET numbered == [seq |-> bus.seq + 1, kind |-> event.kind, of |-> event.of]
    IN  [seq |-> bus.seq + 1,
         history |-> IF keep THEN Newest(Append(bus.history, numbered), HistoryMax) ELSE bus.history,
         viewer |-> [v \in DOMAIN bus.viewer |-> Put(bus.viewer[v], numbered)]]

Wiped(v) ==
    IF v.here THEN [v EXCEPT !.queue = <<>>, !.cleared = @ + Len(v.queue)] ELSE Away
Clear(bus) ==
    [bus EXCEPT !.history = <<>>,
                !.viewer = [v \in DOMAIN bus.viewer |-> Wiped(bus.viewer[v])]]

(* The replay stops at a full queue, which Replay <= Capacity rules out.   *)
Replayed(bus) ==
    LET all == Newest(bus.history, Replay)
    IN  IF Len(all) <= Capacity THEN all ELSE SubSeq(all, 1, Capacity)
Subscribe(bus, v) ==
    [bus EXCEPT !.viewer[v] =
        [here |-> TRUE, queue |-> Replayed(bus), dropped |-> 0, hand |-> 0, sending |-> TRUE,
         got |-> 0, last |-> 0, reset |-> 0, since |-> bus.seq, replayed |-> Len(Replayed(bus)),
         cleared |-> 0]]
Unsubscribe(bus, v) == [bus EXCEPT !.viewer[v] = Away]
Taken(v) ==
    LET event == Head(v.queue)
    IN  [v EXCEPT !.queue = Tail(v.queue), !.hand = v.hand + 1, !.last = event.seq,
                  !.reset = IF event.kind = "reset" THEN event.of ELSE v.reset]
Take(bus, v) == [bus EXCEPT !.viewer[v] = Taken(bus.viewer[v])]
(* The batch is sent, or the connection is lost with it: the sender ends,  *)
(* the subscription stays until the socket's handler does.                 *)
Sent(v) == [v EXCEPT !.got = v.got + v.hand, !.hand = 0]
Deliver(bus, v) == [bus EXCEPT !.viewer[v] = Sent(bus.viewer[v])]
Fail(bus, v) == [bus EXCEPT !.viewer[v].sending = FALSE]

-----------------------------------------------------------------------------
(* What is taken for a viewer, replay included, never repeats or goes      *)
(* back; it is sent as it was taken.                                       *)
Here(bus) == {bus.viewer[v] : v \in {w \in DOMAIN bus.viewer : bus.viewer[w].here}}
InOrder(bus) ==
    \A v \in Here(bus) : \A i \in DOMAIN v.queue :
        v.queue[i].seq > IF i = 1 THEN v.last ELSE v.queue[i - 1].seq
(* Every event published since a viewer came was sent to it, is in the     *)
(* hand of its sender, waits for it, was wiped by a clear or is counted as *)
(* dropped: but for these it has them all.                                 *)
Accounted(bus) ==
    \A v \in Here(bus) :
        (bus.seq - v.since) + v.replayed = v.got + v.hand + Len(v.queue) + v.cleared + v.dropped
=============================================================================
