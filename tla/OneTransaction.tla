--------------------------- MODULE OneTransaction ---------------------------
(***************************************************************************)
(* What the users of the store may rely on, however many share it and      *)
(* whatever is restarted: there is one transaction for all.  While none is *)
(* open a change is durable at once.  Inside one, changes are collected    *)
(* and everyone sees them; then they become durable together or are        *)
(* forgotten together, and nothing else is.                                *)
(***************************************************************************)
EXTENDS Integers

CONSTANTS
    Rows,
    Contents    \* what a row can hold, no row included

VARIABLES
    durable,    \* what each row holds on disk
    pending,    \* the changes of the open transaction: row -> contents
    audited,    \* audit rows on disk
    auditing,   \* audit rows of the open transaction
    open        \* a transaction is open

tx == <<durable, pending, audited, auditing, open>>

Nothing == [r \in {} |-> r]
Seen == [r \in Rows |-> IF r \in DOMAIN pending THEN pending[r] ELSE durable[r]]

Init ==
    /\ durable \in [Rows -> Contents] /\ pending = Nothing
    /\ audited \in Nat /\ auditing = 0 /\ open = FALSE

Change ==
    /\ ~open /\ durable' \in [Rows -> Contents]
    /\ UNCHANGED <<pending, audited, auditing, open>>
Collect ==
    /\ open
    /\ \E S \in SUBSET Rows : DOMAIN pending \subseteq S /\ pending' \in [S -> Contents]
    /\ UNCHANGED <<durable, audited, auditing, open>>
Audit ==
    /\ IF open THEN auditing' = auditing + 1 /\ UNCHANGED audited
               ELSE audited' = audited + 1 /\ UNCHANGED auditing
    /\ UNCHANGED <<durable, pending, open>>

Begin == ~open /\ open' = TRUE /\ UNCHANGED <<durable, pending, audited, auditing>>
Over == pending' = Nothing /\ auditing' = 0 /\ open' = FALSE
Commit == open /\ Over /\ durable' = Seen /\ audited' = audited + auditing
Forget == open /\ Over /\ UNCHANGED <<durable, audited>>

Next == Change \/ Collect \/ Audit \/ Begin \/ Commit \/ Forget

Spec == Init /\ [][Next]_tx
=============================================================================
