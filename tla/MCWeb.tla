-------------------------------- MODULE MCWeb --------------------------------
(* An instance for TLC of the web application: the way of a packet to the  *)
(* browsers (PacketFeed) and the session that the page shows               *)
(* (SessionRegistry).  They meet only where a new key schedules a reset,   *)
(* which the feed takes from any thread at any time, so TLC explores one   *)
(* at a time (part) instead of the product.  Of the feed it explores       *)
(* the browsers with fewer packets of two classes and no RFN runtime, and  *)
(* the decode queues with nobody looking.                                  *)
EXTENDS PacketFeed, SessionRegistry

CONSTANT WatchedMax     \* bound: packets while browsers look

FirstKey == CHOOSE k \in Keys : TRUE     \* the keys are alike

VARIABLE part

(* The part that stands still has one initial state.                       *)
WebInit ==
    /\ FeedInit /\ SessInit
    /\ part = "queues" \/ (part \in {"browsers", "sessions"} /\ auto)
(* What a part leaves out is not under fairness, and never the only way of *)
(* an action that is.                                                      *)
WebNext ==
    \/ /\ part = "browsers" /\ FeedNext /\ UNCHANGED <<rfn, sess, part>>
       /\ hooked' <= WatchedMax
       /\ \A i \in DOMAIN calls' :
              calls'[i].do # "event" /\ (calls'[i].do = "packet" => calls'[i].class = "s2c")
    \/ /\ part = "queues" /\ FeedNext /\ UNCHANGED <<sess, part>>
       /\ \A v \in Viewers : ~bus'.viewer[v].here
       /\ auto => passing' = 0 /\ resets' = 0
    \/ /\ part = "sessions" /\ SessNext /\ UNCHANGED <<feed, part>>
       /\ acks' = 1 => \A s \in Sessions : key'[s] \in {NoKey, FirstKey}
WebSpec == WebInit /\ [][WebNext]_<<feed, sess, part>> /\ FeedFairness
=============================================================================
