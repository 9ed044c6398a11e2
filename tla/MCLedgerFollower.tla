--------------------------- MODULE MCLedgerFollower ---------------------------
(***************************************************************************)
(* LedgerFollower on a small instance: operations append one entry, like a *)
(* proposal, or two, like a human add or the first import of a source.     *)
(***************************************************************************)
EXTENDS LedgerFollower, TLC

CONSTANTS first, second

MCContents == {first, second}

MCBatches == {<<first>>, <<second, first>>}

MCSymmetry == Permutations(Sessions)
=============================================================================
