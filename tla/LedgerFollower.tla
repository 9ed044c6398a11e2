---------------------------- MODULE LedgerFollower ----------------------------
(***************************************************************************)
(* A follower of the event ledger beside appending sessions: a connection  *)
(* of its own that asks list_ledger_entries (storage.py) for what comes    *)
(* after the last entry it has, page by page.                              *)
(***************************************************************************)
EXTENDS EventLedger, FiniteSets

VARIABLE followed    \* the entries received so far

followerVars == <<vars, followed>>

FollowerInit == Init /\ followed = <<>>

LastFollowed ==
    IF followed = <<>> THEN 0 ELSE followed[Len(followed)].sequence

(* Mutant of After: WHERE sequence >= ?. *)
From(image, last) == {n \in DOMAIN image : n >= last}

(* WHERE sequence > ? *)
After(image, last) == {n \in DOMAIN image : n > last}

(* ORDER BY sequence *)
Nth(numbers, i) ==
    CHOOSE n \in numbers : Cardinality({m \in numbers : m <= n}) = i

(* LIMIT ? *)
Page(image, last, limit) ==
    LET numbers == After(image, last)
        size    == Cardinality(numbers)
    IN  [i \in 1 .. (IF size < limit THEN size ELSE limit) |->
            LET n == Nth(numbers, i)
            IN  [sequence |-> n, content |-> image[n].content]]

Poll(limit) ==
    /\ followed' = followed \o Page(db, LastFollowed, limit)
    /\ UNCHANGED vars

FollowerNext ==
    \/ (\E s \in Sessions : Session(s)) /\ UNCHANGED followed
    \/ \E limit \in 1 .. MaxLedger : Poll(limit)

FollowerSpec == FollowerInit /\ [][FollowerNext]_followerVars
-----------------------------------------------------------------------------
(* A follower misses no entry, gets none twice and none that is rolled back,
   however long appenders wait for the lock after reading the clock. *)
FollowerMissesNothing ==
    \A i \in DOMAIN followed :
        /\ i \in DOMAIN db
        /\ followed[i] = [sequence |-> i, content |-> db[i].content]
=============================================================================
