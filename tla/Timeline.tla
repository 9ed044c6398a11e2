------------------------------ MODULE Timeline ------------------------------
(***************************************************************************)
(* Instants and half-open intervals of ContinuityForge (timeutil.py).      *)
(*                                                                         *)
(* An instant is an integer number of ticks; TicksPerSecond ticks make a   *)
(* second.  Callers supply instants with sub-second precision and the      *)
(* repository stores them with whole-second precision, so the unit has to  *)
(* be finer than the stored one.                                           *)
(***************************************************************************)
EXTENDS Integers

CONSTANTS
    TicksPerSecond,   \* precision callers have and the stored text has not
    Unbounded         \* the value None of an interval's end

ASSUME TicksAssumption == TicksPerSecond \in Nat \ {0}
ASSUME UnboundedAssumption == Unbounded \notin Int

Bound == Int \cup {Unbounded}

(* Mutant of StoredInstant: the precision is wrong. *)
CoarselyStoredInstant(t) == (t \div (2 * TicksPerSecond)) * 2 * TicksPerSecond

(* isoformat(timespec="seconds"): the sub-second part is cut off. *)
StoredInstant(t) == (t \div TicksPerSecond) * TicksPerSecond

StoredBound(b) == IF b = Unbounded THEN Unbounded ELSE StoredInstant(b)

IsStored(b) == b = Unbounded \/ \E k \in Int : b = k * TicksPerSecond

(* A lower bound lies strictly below an upper bound; None is -oo as a      *)
(* lower bound and +oo as an upper one.                                    *)
Below(lower, upper) ==
    lower # Unbounded /\ upper # Unbounded => lower < upper

(* validate_interval: neither inverted nor empty. *)
ValidInterval(from, to) == Below(from, to)

(* Mutant of ContainsInstant: the interval is closed. *)
ContainsInstantClosed(from, to, t) ==
    /\ from # Unbounded => from <= t
    /\ to # Unbounded => t <= to

ContainsInstant(from, to, t) ==
    /\ from # Unbounded => from <= t
    /\ to # Unbounded => t < to

IntervalsOverlap(leftFrom, leftTo, rightFrom, rightTo) ==
    /\ Below(leftFrom, rightTo)
    /\ Below(rightFrom, leftTo)

(***************************************************************************)
(* Two ways the code asks whether a stored claim is visible at a cutoff:   *)
(* the compiler parses the stored bounds and compares them with the cutoff *)
(* as supplied; the storage query truncates the cutoff and compares the    *)
(* stored texts inside SQLite.                                             *)
(***************************************************************************)
VisibleToCompiler(from, to, cutoff) == ContainsInstant(from, to, cutoff)

(* Mutant of VisibleToQuery: the cutoff is rounded to the next second. *)
VisibleToQueryRoundedUp(from, to, cutoff) ==
    ContainsInstant(from, to, StoredInstant(cutoff) + TicksPerSecond)

VisibleToQuery(from, to, cutoff) ==
    ContainsInstant(from, to, StoredInstant(cutoff))
=============================================================================
