---------------------------- MODULE SourceHistories ----------------------------
(***************************************************************************)
(* What ingest_snapshot promises (storage.py): every logical source has a  *)
(* history of revisions to which an import appends its text, unless that   *)
(* is the latest revision already.                                         *)
(***************************************************************************)
EXTENDS Naturals, Sequences

CONSTANTS
    Keys,    \* logical sources: a source key within a continuity
    Texts    \* contents, told apart by their hash

VARIABLE history    \* the revisions of each source, oldest first

Init == history = [k \in Keys |-> <<>>]

Latest(k) == history[k][Len(history[k])]

Ingest(k, text) ==
    /\ history[k] # <<>> => Latest(k) # text
    /\ history' = [history EXCEPT ![k] = Append(@, text)]

Next == \E k \in Keys, text \in Texts : Ingest(k, text)

Spec == Init /\ [][Next]_history
=============================================================================
