----------------------------- MODULE SeqNumbers -----------------------------
(***************************************************************************)
(* What the upstream may rely on, whatever the queues and the injections   *)
(* do: sequence numbers are issued one after the other, starting with the  *)
(* client's first; a packet is written only under a number that was issued *)
(* for it, and no number is written twice.                                 *)
(***************************************************************************)
EXTENDS Integers

CONSTANT First

VARIABLES issued,   \* the next number to issue
          written   \* the numbers the upstream transport has been given

Init == issued = First /\ written = {}

Issue == issued' = issued + 1 /\ UNCHANGED written

(* One batch: some numbers that are issued and not yet written.            *)
Write ==
    /\ \E batch \in SUBSET ((First .. issued - 1) \ written) :
          batch # {} /\ written' = written \union batch
    /\ UNCHANGED issued

Next == Issue \/ Write

Spec == Init /\ [][Next]_<<issued, written>>
=============================================================================
