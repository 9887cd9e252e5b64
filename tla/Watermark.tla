----------------------------- MODULE Watermark -----------------------------
(***************************************************************************)
(* What the transaction pool promises to the rest of the database          *)
(* (db.go: DB.begin, DB.beginRead, DB.Wait; the comment on DB.highWatermark *)
(* calls it "the highest consecutively completed txn").                    *)
(*                                                                         *)
(* Transactions 1, 2, 3, ... complete in any order.  The watermark is a     *)
(* number that only ever moves to the next transaction, and only after      *)
(* that transaction has completed.  This module says nothing of how the     *)
(* pool finds out: TxPool implements it with a lock-free list.              *)
(***************************************************************************)
EXTENDS Naturals

CONSTANT Txns          \* the transaction ids that may be handed out

VARIABLES
    completed,         \* transactions whose commit function has been called
    watermark          \* DB.highWatermark

TypeOK ==
    /\ completed \subseteq Txns
    /\ watermark \in Nat

Init ==
    /\ completed = {}
    /\ watermark = 0

Complete(t) ==
    /\ t \notin completed
    /\ completed' = completed \union {t}
    /\ UNCHANGED watermark

Advance ==
    /\ watermark + 1 \in completed
    /\ watermark' = watermark + 1
    /\ UNCHANGED completed

Next ==
    \/ \E t \in Txns : Complete(t)
    \/ Advance

vars == <<completed, watermark>>

Spec == Init /\ [][Next]_vars
=============================================================================
