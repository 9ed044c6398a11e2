-------------------------- MODULE KnowledgeTimeProofs --------------------------
(***************************************************************************)
(* Truncating instants to whole seconds: what it does to intervals, proved *)
(* for every precision of the callers' clock, and the invariants of        *)
(* KnowledgeTime that follow.                                              *)
(***************************************************************************)
EXTENDS KnowledgeTime, TLAPS

(* A stored instant is a multiple of the second, at most one second before. *)
LEMMA StoredInstantBounds ==
    ASSUME NEW t \in Int
    PROVE  /\ StoredInstant(t) \in Int
           /\ t \div TicksPerSecond \in Int
           /\ StoredInstant(t) <= t
           /\ t < StoredInstant(t) + TicksPerSecond
<1>1. TicksPerSecond \in Int /\ TicksPerSecond > 0
  BY TicksAssumption
<1>2. PICK q \in Int : q = t \div TicksPerSecond
  BY <1>1
<1>3. /\ t = TicksPerSecond * q + (t % TicksPerSecond)
      /\ 0 <= t % TicksPerSecond
      /\ t % TicksPerSecond < TicksPerSecond
      /\ t % TicksPerSecond \in Int
  BY <1>1, <1>2, SMT
<1>4. StoredInstant(t) = TicksPerSecond * q /\ StoredInstant(t) \in Int
  BY <1>1, <1>2, SMT DEF StoredInstant
<1> QED
  BY <1>1, <1>2, <1>3, <1>4, SMT

(* Between multiples of the second, truncation of the larger one is safe. *)
LEMMA MultipleBelow ==
    ASSUME NEW k \in Int, NEW t \in Int
    PROVE  k * TicksPerSecond <= t <=> k * TicksPerSecond <= StoredInstant(t)
<1> DEFINE q == t \div TicksPerSecond
<1>1. TicksPerSecond \in Int /\ TicksPerSecond > 0
  BY TicksAssumption
<1>2. /\ q \in Int
      /\ StoredInstant(t) = q * TicksPerSecond
      /\ StoredInstant(t) <= t
      /\ t < StoredInstant(t) + TicksPerSecond
  BY StoredInstantBounds DEF StoredInstant
<1> HIDE DEF q
<1>3. CASE k <= q
  <2>1. k * TicksPerSecond <= q * TicksPerSecond
    BY <1>1, <1>2, <1>3, SMT
  <2> QED
    BY <2>1, <1>1, <1>2, SMT
<1>4. CASE q + 1 <= k
  <2>1. (q + 1) * TicksPerSecond <= k * TicksPerSecond
    BY <1>1, <1>2, <1>4, SMT
  <2>2. (q + 1) * TicksPerSecond = q * TicksPerSecond + TicksPerSecond
    BY <1>1, <1>2, SMT
  <2> QED
    BY <2>1, <2>2, <1>1, <1>2, SMT
<1> QED
  BY <1>2, <1>3, <1>4, SMT

(* What normalization stores is a stored bound. *)
LEMMA StoredBoundIsStored ==
    ASSUME NEW b \in Bound
    PROVE  IsStored(StoredBound(b)) /\ StoredBound(b) \in Bound
  BY StoredInstantBounds, UnboundedAssumption
     DEF IsStored, StoredBound, StoredInstant, Bound

(***************************************************************************)
(* The compiler compares stored bounds with the cutoff as given, the       *)
(* storage query with the truncated cutoff (compiler.py:75,                *)
(* storage.py:3250).  On stored bounds both give the same answer.          *)
(***************************************************************************)
THEOREM ReadersAgreeOnStoredBounds ==
    ASSUME NEW from \in Bound, NEW to \in Bound, NEW cutoff \in Int,
           IsStored(from), IsStored(to)
    PROVE  VisibleToCompiler(from, to, cutoff)
               <=> VisibleToQuery(from, to, cutoff)
<1>1. from # Unbounded => (from <= cutoff <=> from <= StoredInstant(cutoff))
  BY MultipleBelow DEF IsStored
<1>2. to # Unbounded => (cutoff < to <=> StoredInstant(cutoff) < to)
  <2>1. SUFFICES ASSUME to # Unbounded
                 PROVE  to <= cutoff <=> to <= StoredInstant(cutoff)
    BY StoredInstantBounds, SMT DEF Bound
  <2> QED
    BY <2>1, MultipleBelow DEF IsStored
<1> QED
  BY <1>1, <1>2 DEF VisibleToCompiler, VisibleToQuery, ContainsInstant

(***************************************************************************)
(* intervals_overlap (timeutil.py:54) decides whether two proper intervals *)
(* have an instant in common; contradiction detection rests on it.         *)
(***************************************************************************)
THEOREM OverlapIsACommonInstant ==
    ASSUME NEW lf \in Bound, NEW lt \in Bound, ValidInterval(lf, lt),
           NEW rf \in Bound, NEW rt \in Bound, ValidInterval(rf, rt)
    PROVE  IntervalsOverlap(lf, lt, rf, rt)
               <=> \E t \in Int : /\ ContainsInstant(lf, lt, t)
                                  /\ ContainsInstant(rf, rt, t)
<1> USE UnboundedAssumption DEF Bound, ValidInterval, IntervalsOverlap, Below,
        ContainsInstant
<1>1. ASSUME NEW t \in Int, ContainsInstant(lf, lt, t), ContainsInstant(rf, rt, t)
      PROVE  IntervalsOverlap(lf, lt, rf, rt)
  BY <1>1, SMT
<1>2. ASSUME IntervalsOverlap(lf, lt, rf, rt)
      PROVE  \E t \in Int : /\ ContainsInstant(lf, lt, t)
                            /\ ContainsInstant(rf, rt, t)
  <2>1. CASE lf # Unbounded /\ (rf # Unbounded => rf <= lf)
    <3>1. ContainsInstant(lf, lt, lf) /\ ContainsInstant(rf, rt, lf)
      BY <1>2, <2>1, SMT
    <3> QED
      BY <2>1, <3>1
  <2>2. CASE rf # Unbounded /\ (lf # Unbounded => lf <= rf)
    <3>1. ContainsInstant(lf, lt, rf) /\ ContainsInstant(rf, rt, rf)
      BY <1>2, <2>2, SMT
    <3> QED
      BY <2>2, <3>1
  <2>3. CASE lf = Unbounded /\ rf = Unbounded
    <3>1. PICK t \in Int : (lt # Unbounded => t < lt) /\ (rt # Unbounded => t < rt)
      <4>1. CASE lt = Unbounded /\ rt = Unbounded
        BY <4>1
      <4>2. CASE lt # Unbounded /\ (rt # Unbounded => lt <= rt)
        <5>1. lt - 1 \in Int
          BY <4>2, SMT
        <5> QED
          BY <4>2, <5>1, SMT
      <4>3. CASE rt # Unbounded /\ (lt # Unbounded => rt <= lt)
        <5>1. rt - 1 \in Int
          BY <4>3, SMT
        <5> QED
          BY <4>3, <5>1, SMT
      <4> QED
        BY <4>1, <4>2, <4>3, SMT
    <3> QED
      BY <2>3, <3>1
  <2> QED
    BY <2>1, <2>2, <2>3, SMT
<1> QED
  BY <1>1, <1>2

-----------------------------------------------------------------------------
(* Every answer was given about the stored form of the submitted interval. *)
IInv ==
    /\ TypeOK
    /\ answer # NoAnswer => stored # NoInterval
    /\ stored # NoInterval =>
          /\ submitted # NoInterval
          /\ stored.from = StoredBound(submitted.from)
          /\ stored.to = StoredBound(submitted.to)
    /\ answer # NoAnswer =>
          /\ answer.compiler =
                VisibleToCompiler(stored.from, stored.to, answer.cutoff)
          /\ answer.query =
                VisibleToQuery(stored.from, stored.to, answer.cutoff)

LEMMA IntervalFacts ==
    /\ NoInterval \notin Interval
    /\ NoAnswer \notin Answer
    /\ Instants \subseteq Int
    /\ Bounds \subseteq Bound
<1>1. \A r \in Interval : "to" \in DOMAIN r
  BY DEF Interval
<1>2. "to" \notin DOMAIN NoInterval
  BY DEF NoInterval
<1>3. \A r \in Answer : "query" \in DOMAIN r
  BY DEF Answer
<1>4. "query" \notin DOMAIN NoAnswer
  BY DEF NoAnswer
<1>5. Instants \subseteq Int
  BY MaxTickAssumption DEF Instants
<1> QED
  BY <1>1, <1>2, <1>3, <1>4, <1>5 DEF Bounds, Bound

(* Stored bounds stay among the callers' instants. *)
LEMMA StoredBoundInBounds ==
    ASSUME NEW b \in Bounds
    PROVE  StoredBound(b) \in Bounds
<1>1. CASE b = Unbounded
  BY <1>1 DEF StoredBound, Bounds
<1>2. CASE b \in Instants /\ b # Unbounded
  <2>1. b \in Int /\ 0 <= b /\ b <= MaxTick
    BY <1>2, MaxTickAssumption DEF Instants
  <2>2. StoredInstant(b) \in Int /\ StoredInstant(b) <= b
    BY <2>1, StoredInstantBounds
  <2>3. 0 <= StoredInstant(b)
    BY <2>1, MultipleBelow, TicksAssumption, SMT
  <2> QED
    BY <1>2, <2>1, <2>2, <2>3, MaxTickAssumption
       DEF StoredBound, Bounds, Instants
<1> QED
  BY <1>1, <1>2 DEF Bounds

LEMMA IInvHolds == Spec => []IInv
<1> USE DEF IInv, TypeOK
<1>1. Init => IInv
  BY DEF Init
<1>2. IInv /\ [Next]_vars => IInv'
  <2> SUFFICES ASSUME IInv, [Next]_vars PROVE IInv'
    OBVIOUS
  <2>1. ASSUME NEW from \in Bounds, NEW to \in Bounds, Propose(from, to)
        PROVE  IInv'
    <3>1. /\ [from |-> from, to |-> to] \in Interval
          /\ [from |-> StoredBound(from), to |-> StoredBound(to)] \in Interval
      BY StoredBoundInBounds DEF Interval
    <3>2. answer = NoAnswer /\ answer' = NoAnswer
      BY <2>1 DEF Propose
    <3>3. submitted' # NoInterval
      BY <2>1, <3>1, IntervalFacts DEF Propose
    <3> QED
      BY <2>1, <3>1, <3>2, <3>3 DEF Propose
  <2>2. ASSUME NEW cutoff \in Instants, Ask(cutoff)
        PROVE  IInv'
    <3>1. answer' \in Answer
      BY <2>2 DEF Ask, Answer, VisibleToCompiler, VisibleToQuery,
                  ContainsInstant
    <3> QED
      BY <2>2, <3>1 DEF Ask
  <2>3. ASSUME UNCHANGED vars PROVE IInv'
    BY <2>3 DEF vars
  <2> QED
    BY <2>1, <2>2, <2>3 DEF Next
<1> QED
  BY <1>1, <1>2, PTL DEF Spec

(* Both readers answer alike about every submitted interval and cutoff. *)
THEOREM ReadersAlwaysAgree == Spec => []ReadersAgree
<1>1. IInv => ReadersAgree
  <2> SUFFICES ASSUME IInv, answer # NoAnswer
               PROVE  answer.compiler = answer.query
    BY DEF ReadersAgree
  <2>1. /\ submitted \in Interval
        /\ answer \in Answer
        /\ stored.from = StoredBound(submitted.from)
        /\ stored.to = StoredBound(submitted.to)
    BY DEF IInv, TypeOK
  <2>2. /\ submitted.from \in Bound /\ submitted.to \in Bound
        /\ answer.cutoff \in Int
    BY <2>1, IntervalFacts DEF Interval, Answer
  <2>3. VisibleToCompiler(stored.from, stored.to, answer.cutoff)
            <=> VisibleToQuery(stored.from, stored.to, answer.cutoff)
    BY <2>1, <2>2, StoredBoundIsStored, ReadersAgreeOnStoredBounds
  <2>4. /\ answer.compiler =
              VisibleToCompiler(stored.from, stored.to, answer.cutoff)
        /\ answer.query =
              VisibleToQuery(stored.from, stored.to, answer.cutoff)
    BY DEF IInv
  <2>5. answer.compiler \in BOOLEAN /\ answer.query \in BOOLEAN
    BY <2>1 DEF Answer
  <2> QED
    BY <2>3, <2>4, <2>5
<1> QED
  BY <1>1, IInvHolds, PTL

(* Whatever the precision of the callers' clock, knowledge is shown less than
   a second before the instant its submitter gave. *)
THEOREM AlwaysLessThanASecondEarly == Spec => []LessThanASecondEarly
<1>1. IInv => LessThanASecondEarly
  <2> SUFFICES ASSUME IInv, answer # NoAnswer, answer.compiler,
                      submitted.from # Unbounded
               PROVE  submitted.from - answer.cutoff < TicksPerSecond
    BY DEF LessThanASecondEarly
  <2>1. /\ submitted \in Interval
        /\ answer \in Answer
        /\ stored.from = StoredBound(submitted.from)
        /\ VisibleToCompiler(stored.from, stored.to, answer.cutoff)
    BY DEF IInv, TypeOK
  <2>2. submitted.from \in Int /\ answer.cutoff \in Int
    BY <2>1, IntervalFacts DEF Interval, Answer, Bounds
  <2>3. stored.from = StoredInstant(submitted.from)
    BY <2>1 DEF StoredBound
  <2>4. /\ stored.from \in Int
        /\ submitted.from < stored.from + TicksPerSecond
    BY <2>2, <2>3, StoredInstantBounds
  <2>5. stored.from <= answer.cutoff
    BY <2>1, <2>4, UnboundedAssumption DEF VisibleToCompiler, ContainsInstant
  <2> QED
    BY <2>2, <2>4, <2>5, TicksAssumption, SMT
<1> QED
  BY <1>1, IInvHolds, PTL

(* Whatever the precision of the callers' clock, no claim is shown at or after
   the instant at which its submitter closed it. *)
THEOREM ClosedAlwaysStaysClosed == Spec => []ClosedKnowledgeStaysClosed
<1>1. IInv => ClosedKnowledgeStaysClosed
  <2> SUFFICES ASSUME IInv, answer # NoAnswer, answer.compiler,
                      submitted.to # Unbounded
               PROVE  answer.cutoff < submitted.to
    BY DEF ClosedKnowledgeStaysClosed
  <2>1. /\ submitted \in Interval
        /\ answer \in Answer
        /\ stored.to = StoredBound(submitted.to)
        /\ VisibleToCompiler(stored.from, stored.to, answer.cutoff)
    BY DEF IInv, TypeOK
  <2>2. submitted.to \in Int /\ answer.cutoff \in Int
    BY <2>1, IntervalFacts DEF Interval, Answer, Bounds
  <2>3. stored.to = StoredInstant(submitted.to)
    BY <2>1 DEF StoredBound
  <2>4. stored.to \in Int /\ stored.to <= submitted.to
    BY <2>2, <2>3, StoredInstantBounds
  <2>5. answer.cutoff < stored.to
    BY <2>1, <2>4, UnboundedAssumption DEF VisibleToCompiler, ContainsInstant
  <2> QED
    BY <2>2, <2>4, <2>5, SMT
<1> QED
  BY <1>1, IInvHolds, PTL
=============================================================================
