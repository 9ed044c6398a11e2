----------------------------- MODULE AppendOnlyLog -----------------------------
(***************************************************************************)
(* What the event ledger promises (storage.py): a log to which each public *)
(* operation appends all of its entries at once or none.                   *)
(***************************************************************************)
EXTENDS Sequences

CONSTANT Batches    \* what one operation appends

VARIABLE log

Init == log = <<>>

Next == \E batch \in Batches : log' = log \o batch

Spec == Init /\ [][Next]_log
=============================================================================
