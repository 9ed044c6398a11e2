---------------------------- MODULE KnowledgeTime ----------------------------
(***************************************************************************)
(* Knowledge and valid time of one claim from its submission to a reader:  *)
(* create_claim_proposal stores its bounds, the compiler and the storage   *)
(* query decide whether it is visible at a cutoff.  Authority, access and  *)
(* worldline are granted throughout; only time decides.                    *)
(***************************************************************************)
EXTENDS Timeline

CONSTANT MaxTick    \* callers use instants 0..MaxTick

ASSUME MaxTickAssumption == MaxTick \in Nat

VARIABLES
    submitted,    \* the knowledge interval the caller gave, or NoInterval
    stored,       \* the interval in the claim row, or NoInterval
    answer        \* the last question asked and what the readers said

vars == <<submitted, stored, answer>>

Instants == 0 .. MaxTick
Bounds == Instants \cup {Unbounded}
Interval == [from : Bounds, to : Bounds]
NoInterval == [from |-> Unbounded]
NoAnswer == [cutoff |-> Unbounded]
Answer == [cutoff : Instants, compiler : BOOLEAN, query : BOOLEAN]

(* Every variable holds values of its type; normalization leads to no instant
   beyond the callers' ones. *)
TypeOK ==
    /\ submitted \in Interval \cup {NoInterval}
    /\ stored \in Interval \cup {NoInterval}
    /\ answer \in Answer \cup {NoAnswer}

Init == submitted = NoInterval /\ stored = NoInterval /\ answer = NoAnswer

(* The submitted interval is validated, then its bounds are normalized. *)
Propose(from, to) ==
    /\ stored = NoInterval
    /\ ValidInterval(from, to)
    /\ submitted' = [from |-> from, to |-> to]
    /\ stored' = [from |-> StoredBound(from), to |-> StoredBound(to)]
    /\ UNCHANGED answer

Ask(cutoff) ==
    /\ stored # NoInterval
    /\ answer' = [cutoff   |-> cutoff,
                  compiler |-> VisibleToCompiler(stored.from, stored.to, cutoff),
                  query    |-> VisibleToQuery(stored.from, stored.to, cutoff)]
    /\ UNCHANGED <<submitted, stored>>

Next ==
    \/ \E from, to \in Bounds : Propose(from, to)
    \/ \E cutoff \in Instants : Ask(cutoff)

Spec == Init /\ [][Next]_vars
-----------------------------------------------------------------------------
(* compiler.py parses instants, storage.py compares texts in SQLite; for every
   stored interval and every cutoff they say the same. *)
ReadersAgree == answer # NoAnswer => answer.compiler = answer.query

(* What a reader may see early is less than a second early. *)
LessThanASecondEarly ==
    answer # NoAnswer /\ answer.compiler /\ submitted.from # Unbounded
        => submitted.from - answer.cutoff < TicksPerSecond

(* What the claim's submitter closed stays closed: nothing is shown at or after
   the end of its knowledge interval. *)
ClosedKnowledgeStaysClosed ==
    answer # NoAnswer /\ answer.compiler /\ submitted.to # Unbounded
        => answer.cutoff < submitted.to

(* "Future knowledge does not enter an earlier cutoff" (ARCHITECTURE.md). *)
FutureKnowledgeExcluded ==
    answer # NoAnswer /\ answer.compiler /\ submitted.from # Unbounded
        => submitted.from <= answer.cutoff
=============================================================================
