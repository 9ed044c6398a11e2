--------------------------- MODULE ClaimReplayProofs ---------------------------
(***************************************************************************)
(* Claims and the audit of their authority for any number of sessions,     *)
(* claims, references, decisions and ledger entries: what preflight admits *)
(* of an old repository replays behind the migration, every committed      *)
(* claim of a current one replays, whatever the clock, and no edited row   *)
(* goes unnoticed.                                                         *)
(***************************************************************************)
EXTENDS LegacyMaterial, ClaimGovernanceProofs, FiniteSetTheorems

IsLedger(l) == \E n \in Nat : l = [i \in 1 .. n |-> l[i]]

IsImage(image) ==
    image = [claims |-> image.claims, evidence |-> image.evidence,
             decisions |-> image.decisions, ledger |-> image.ledger]

(* A repository's tables as anybody may have left them. *)
Shaped(image) ==
    /\ IsImage(image)
    /\ IsLedger(image.decisions)
    /\ IsLedger(image.ledger)
    /\ IsFiniteSet(Existing(image))
-----------------------------------------------------------------------------
(* Ledgers. *)

LEMMA LedgerFacts ==
    ASSUME NEW l, IsLedger(l)
    PROVE  /\ Len(l) \in Nat /\ DOMAIN l = 1 .. Len(l)
           /\ \E S : l \in Seq(S)
<1>1. PICK n \in Nat : l = [i \in 1 .. n |-> l[i]]
  BY DEF IsLedger
<1>2. PICK S : S = {l[i] : i \in 1 .. n}
  OBVIOUS
<1>3. l \in [1 .. n -> S]
  BY <1>1, <1>2
<1>4. l \in Seq(S)
  BY <1>3, SeqDef
<1> QED
  BY <1>4, LenProperties

LEMMA SequencesAreLedgers ==
    ASSUME NEW S, NEW l \in Seq(S)
    PROVE  IsLedger(l)
  BY LenProperties DEF IsLedger

LEMMA AppendedLedger ==
    ASSUME NEW l, IsLedger(l), NEW entry
    PROVE  /\ IsLedger(Append(l, entry))
           /\ DOMAIN Append(l, entry) = DOMAIN l \cup {Len(l) + 1}
           /\ Len(l) + 1 \notin DOMAIN l
           /\ \A n \in DOMAIN l : Append(l, entry)[n] = l[n]
           /\ Append(l, entry)[Len(l) + 1] = entry
<1>1. PICK S : l \in Seq(S)
  BY LedgerFacts
<1>2. l \in Seq(S \cup {entry})
  BY <1>1, SeqMonotonic
<1>3. /\ Append(l, entry) \in Seq(S \cup {entry})
      /\ Len(Append(l, entry)) = Len(l) + 1
      /\ \A i \in 1 .. Len(l) : Append(l, entry)[i] = l[i]
      /\ Append(l, entry)[Len(l) + 1] = entry
  BY <1>2, AppendProperties
<1>4. IsLedger(Append(l, entry))
  BY <1>3, SequencesAreLedgers
<1> QED
  BY <1>3, <1>4, LedgerFacts

IsJoin(joined, l, m) ==
    /\ IsLedger(joined)
    /\ Len(joined) = Len(l) + Len(m)
    /\ \A n \in DOMAIN l : joined[n] = l[n]
    /\ \A n \in DOMAIN m : joined[Len(l) + n] = m[n]

LEMMA JoinedLedger ==
    ASSUME NEW l, IsLedger(l), NEW m, IsLedger(m), NEW joined, joined = l \o m
    PROVE  IsJoin(joined, l, m)
<1>1. PICK S : l \in Seq(S)
  BY LedgerFacts
<1>2. PICK T : m \in Seq(T)
  BY LedgerFacts
<1>3. l \in Seq(S \cup T) /\ m \in Seq(S \cup T)
  BY <1>1, <1>2, SeqMonotonic
<1>4. joined \in Seq(S \cup T)
  BY <1>3
<1>5. /\ Len(joined) = Len(l) + Len(m)
      /\ \A i \in 1 .. Len(l) + Len(m) :
            joined[i] = IF i <= Len(l) THEN l[i] ELSE m[i - Len(l)]
  BY <1>3, ConcatProperties
<1>6. /\ Len(l) \in Nat /\ DOMAIN l = 1 .. Len(l)
      /\ Len(m) \in Nat /\ DOMAIN m = 1 .. Len(m)
  BY LedgerFacts
<1>7. \A n \in DOMAIN l : joined[n] = l[n]
  BY <1>5, <1>6
<1>8. \A n \in DOMAIN m : joined[Len(l) + n] = m[n]
  <2> SUFFICES ASSUME NEW n \in 1 .. Len(m) PROVE joined[Len(l) + n] = m[n]
    BY <1>6
  <2>1. Len(l) + n \in 1 .. Len(l) + Len(m) /\ ~(Len(l) + n <= Len(l))
        /\ Len(l) + n - Len(l) = n
    BY <1>6
  <2> QED
    BY <1>5, <2>1
<1> QED
  BY <1>4, <1>5, <1>7, <1>8, SequencesAreLedgers DEF IsJoin

(* SetToSeq: each element of a finite set is at one place. *)
LEMMA SequenceOfSet ==
    ASSUME NEW S, IsFiniteSet(S)
    PROVE  /\ IsLedger(SetToSeq(S))
           /\ \A i \in DOMAIN SetToSeq(S) : SetToSeq(S)[i] \in S
           /\ \A x \in S : \E i \in DOMAIN SetToSeq(S) : SetToSeq(S)[i] = x
           /\ \A i, j \in DOMAIN SetToSeq(S) :
                 SetToSeq(S)[i] = SetToSeq(S)[j] => i = j
<1> DEFINE f == SetToSeq(S)
           D == 1 .. Cardinality(S)
<1>1. Cardinality(S) \in Nat
  BY FS_CardinalityType
<1>2. \E g \in [D -> S] : IsInjective(g)
  <2>1. ExistsBijection(D, S)
    BY FS_CardinalityType
  <2> QED
    BY <2>1 DEF ExistsBijection, Bijection, Injection
<1>3. f \in [D -> S] /\ IsInjective(f)
  BY <1>2 DEF SetToSeq
<1>4. IsFiniteSet(D) /\ Cardinality(D) = Cardinality(S)
  <2>1. 1 \in Int /\ Cardinality(S) \in Int
    BY <1>1
  <2> QED
    BY <1>1, <2>1, FS_Interval
<1>5. f \in Injection(D, S)
  BY <1>3 DEF Injection
<1> HIDE DEF f, D
<1>6. f \in Surjection(D, S)
  BY <1>4, <1>5, FS_Injection
<1>7. IsLedger(f)
  BY <1>1, <1>3 DEF IsLedger, D
<1> QED
  BY <1>3, <1>6, <1>7 DEF f, Surjection, IsInjective

LEMMA ShortenedLedger ==
    ASSUME NEW l, IsLedger(l), NEW n \in DOMAIN l
    PROVE  IsLedger(RemoveAt(l, n))
<1>1. PICK S : l \in Seq(S)
  BY LedgerFacts
<1>2. n \in 1 .. Len(l) /\ Len(l) \in Nat
  BY LedgerFacts
<1>3. SubSeq(l, 1, n - 1) \in Seq(S)
  BY <1>1, <1>2, SubSeqProperties
<1>4. SubSeq(l, n + 1, Len(l)) \in Seq(S)
  BY <1>1, <1>2, SubSeqProperties
<1>5. SubSeq(l, 1, n - 1) \o SubSeq(l, n + 1, Len(l)) \in Seq(S)
  BY <1>3, <1>4
<1> QED
  BY <1>5, SequencesAreLedgers DEF RemoveAt

LEMMA ChangedLedger ==
    ASSUME NEW l, IsLedger(l), NEW n, NEW entry
    PROVE  IsLedger([l EXCEPT ![n] = entry])
  BY DEF IsLedger

(* A set of numbers has a least one. *)
LEMMA LeastNumber ==
    ASSUME NEW T \in SUBSET Nat, T # {}
    PROVE  \E n \in T : \A m \in T : n <= m
<1> DEFINE Less == {ss \in Nat \X Nat : ss[1] < ss[2]}
<1>1. IsWellFoundedOn(Less, Nat)
  BY NatLessThanWellFounded DEF OpToRel
<1> HIDE DEF Less
<1>2. PICK n \in T : \A m \in T : <<m, n>> \notin Less
  BY <1>1, WFMin
<1>3. \A m \in T : m < n => <<m, n>> \in Less
  BY DEF Less
<1>4. \A m \in T : ~(m < n)
  BY <1>2, <1>3
<1>5. \A m \in T : n <= m
  BY <1>4
<1> QED
  BY <1>5

(* A set of numbers with a bound has a greatest one. *)
LEMMA MaxFacts ==
    ASSUME NEW n \in Nat, NEW S \in SUBSET (0 .. n), S # {}
    PROVE  Max(S) \in S /\ \A x \in S : x <= Max(S)
<1> DEFINE T == {n - x : x \in S}
<1>1. T \in SUBSET Nat /\ T # {}
  OBVIOUS
<1>2. PICK m \in T : \A t \in T : m <= t
  BY <1>1, LeastNumber
<1>3. PICK x \in S : m = n - x
  BY <1>2
<1>4. \A y \in S : x >= y
  <2> SUFFICES ASSUME NEW y \in S PROVE x >= y
    OBVIOUS
  <2>1. n - x <= n - y
    BY <1>2, <1>3
  <2> QED
    BY <2>1
<1> HIDE DEF T
<1>5. Max(S) \in S /\ \A y \in S : Max(S) >= y
  BY <1>4, Zenon DEF Max
<1> QED
  BY <1>5

LEMMA GreatestIsMax ==
    ASSUME NEW n \in Nat, NEW S \in SUBSET (0 .. n), NEW m \in S,
           \A x \in S : x <= m
    PROVE  Max(S) = m
<1>1. Max(S) \in S /\ \A x \in S : x <= Max(S)
  BY MaxFacts, Zenon
<1>2. m <= Max(S) /\ Max(S) <= m
  BY <1>1
<1>3. \A x \in S : x \in Nat
  OBVIOUS
<1>4. m \in Nat /\ Max(S) \in Nat
  BY <1>1, <1>3, Zenon
<1> QED
  BY <1>2, <1>4
-----------------------------------------------------------------------------
(* Ranks in the order of NoLater. *)

Rank(pairs, p) == Cardinality({q \in pairs : NoLater(q, p)})

LEMMA RanksGrow ==
    ASSUME NEW pairs \in SUBSET (Nat \X Nat), IsFiniteSet(pairs),
           NEW p \in pairs, NEW q \in pairs, p # q, NoLater(p, q)
    PROVE  Rank(pairs, p) < Rank(pairs, q)
<1> DEFINE below == {r \in pairs : NoLater(r, p)}
           upto == {r \in pairs : NoLater(r, q)}
<1>1. below \subseteq upto
  BY DEF NoLater
<1>2. q \in upto /\ q \notin below
  <2>1. q = <<q[1], q[2]>> /\ p = <<p[1], p[2]>>
    OBVIOUS
  <2> QED
    BY <2>1 DEF NoLater
<1>3. IsFiniteSet(upto)
  BY FS_Subset
<1> HIDE DEF below, upto
<1>4. /\ Cardinality(below) <= Cardinality(upto)
      /\ Cardinality(below) # Cardinality(upto)
      /\ Cardinality(below) \in Nat /\ Cardinality(upto) \in Nat
  BY <1>1, <1>2, <1>3, FS_Subset, FS_CardinalityType
<1> QED
  BY <1>4 DEF Rank, below, upto

LEMMA RanksDiffer ==
    ASSUME NEW pairs \in SUBSET (Nat \X Nat), IsFiniteSet(pairs)
    PROVE  /\ \A p \in pairs : Rank(pairs, p) \in 1 .. Cardinality(pairs)
           /\ \A p, q \in pairs : Rank(pairs, p) = Rank(pairs, q) => p = q
<1>1. ASSUME NEW p \in pairs
      PROVE  Rank(pairs, p) \in 1 .. Cardinality(pairs)
  <2> DEFINE upto == {r \in pairs : NoLater(r, p)}
  <2>1. upto \subseteq pairs /\ p \in upto
    BY DEF NoLater
  <2> HIDE DEF upto
  <2>2. IsFiniteSet(upto) /\ Cardinality(upto) <= Cardinality(pairs)
    BY <2>1, FS_Subset
  <2>3. Cardinality(upto) # 0
    BY <2>1, <2>2, FS_EmptySet
  <2>4. Cardinality(upto) \in Nat /\ Cardinality(pairs) \in Nat
    BY <2>2, FS_CardinalityType
  <2> QED
    BY <2>2, <2>3, <2>4 DEF Rank, upto
<1>2. ASSUME NEW p \in pairs, NEW q \in pairs,
             Rank(pairs, p) = Rank(pairs, q), p # q
      PROVE  FALSE
  <2>1. NoLater(p, q) \/ NoLater(q, p)
    BY DEF NoLater
  <2>2. Rank(pairs, p) \in Nat
    BY <1>1
  <2> QED
    BY <1>2, <2>1, <2>2, RanksGrow
<1> QED
  BY <1>1, <1>2

(* Every number up to the number of pairs is the rank of one. *)
LEMMA RankedFacts ==
    ASSUME NEW pairs \in SUBSET (Nat \X Nat), IsFiniteSet(pairs)
    PROVE  /\ \A r \in 1 .. Cardinality(pairs) :
                 Ranked(pairs, r) \in pairs /\ Rank(pairs, Ranked(pairs, r)) = r
           /\ \A p \in pairs : Ranked(pairs, Rank(pairs, p)) = p
<1> DEFINE D == 1 .. Cardinality(pairs)
           f == [p \in pairs |-> Rank(pairs, p)]
<1>1. Cardinality(pairs) \in Nat
  BY FS_CardinalityType
<1>2. IsFiniteSet(D) /\ Cardinality(D) = Cardinality(pairs)
  <2>1. 1 \in Int /\ Cardinality(pairs) \in Int
    BY <1>1
  <2> QED
    BY <1>1, <2>1, FS_Interval
<1>3. /\ \A p \in pairs : Rank(pairs, p) \in D
      /\ \A p, q \in pairs : Rank(pairs, p) = Rank(pairs, q) => p = q
  BY RanksDiffer
<1>4. f \in Injection(pairs, D)
  BY <1>3 DEF Injection, IsInjective
<1>5. f \in Surjection(pairs, D)
  <2> HIDE DEF f, D
  <2> QED
    BY <1>2, <1>4, FS_Injection
<1>6. \A r \in D : \E p \in pairs : Rank(pairs, p) = r
  BY <1>5 DEF Surjection
<1>7. \A r \in D : Ranked(pairs, r) \in pairs /\ Rank(pairs, Ranked(pairs, r)) = r
  <2> SUFFICES ASSUME NEW r \in D
               PROVE  Ranked(pairs, r) \in pairs /\ Rank(pairs, Ranked(pairs, r)) = r
    OBVIOUS
  <2>1. Ranked(pairs, r) = CHOOSE p \in pairs : Rank(pairs, p) = r
    BY Zenon DEF Ranked, Rank
  <2>2. \E p \in pairs : Rank(pairs, p) = r
    BY <1>6
  <2> QED
    BY <2>1, <2>2, Zenon
<1> QED
  BY <1>3, <1>7
LEMMA MovedLedger ==
    ASSUME NEW l, IsLedger(l), NEW n \in DOMAIN l, NEW m \in DOMAIN l
    PROVE  IsLedger(InsertAt(RemoveAt(l, n), m, l[n]))
<1> DEFINE shorter == RemoveAt(l, n)
<1>1. PICK S : l \in Seq(S)
  BY LedgerFacts
<1>2. /\ n \in 1 .. Len(l) /\ m \in 1 .. Len(l) /\ Len(l) \in Nat
      /\ l[n] \in S
  BY <1>1, LedgerFacts
<1>3. /\ SubSeq(l, 1, n - 1) \in Seq(S) /\ Len(SubSeq(l, 1, n - 1)) = n - 1
      /\ SubSeq(l, n + 1, Len(l)) \in Seq(S)
      /\ Len(SubSeq(l, n + 1, Len(l))) = Len(l) - n
  <2>1. 1 <= n - 1 + 1 /\ n - 1 <= Len(l) /\ n + 1 <= Len(l) + 1
    BY <1>2
  <2> QED
    BY <1>1, <1>2, <2>1, SubSeqProperties
<1>4. shorter \in Seq(S) /\ Len(shorter) = Len(l) - 1
  <2> DEFINE before == SubSeq(l, 1, n - 1)
             behind == SubSeq(l, n + 1, Len(l))
  <2>1. /\ before \in Seq(S) /\ behind \in Seq(S)
        /\ Len(before) = n - 1 /\ Len(behind) = Len(l) - n
        /\ shorter = before \o behind
    BY <1>3 DEF RemoveAt
  <2> HIDE DEF before, behind, shorter
  <2>2. before \o behind \in Seq(S)
        /\ Len(before \o behind) = Len(before) + Len(behind)
    BY <2>1, ConcatProperties, Zenon
  <2> QED
    BY <1>2, <2>1, <2>2
<1> HIDE DEF shorter
<1>5. /\ SubSeq(shorter, 1, m - 1) \in Seq(S)
      /\ SubSeq(shorter, m, Len(shorter)) \in Seq(S)
  BY <1>2, <1>4, SubSeqProperties
<1>6. <<l[n]>> \in Seq(S)
  BY <1>2
<1>7. SubSeq(shorter, 1, m - 1) \o <<l[n]>> \o SubSeq(shorter, m, Len(shorter))
          \in Seq(S)
  BY <1>5, <1>6
<1> QED
  BY <1>7, SequencesAreLedgers DEF InsertAt, shorter
-----------------------------------------------------------------------------
(* Decisions in ledger order and in row order. *)

LEMMA Positions ==
    ASSUME NEW image, Shaped(image), NEW c
    PROVE  /\ Len(image.ledger) \in Nat /\ Len(image.decisions) \in Nat
           /\ DOMAIN image.ledger = 1 .. Len(image.ledger)
           /\ DOMAIN image.decisions = 1 .. Len(image.decisions)
           /\ DecisionsOf(image, c) \subseteq 1 .. Len(image.decisions)
           /\ Proposals(image, c) \subseteq 1 .. Len(image.ledger)
           /\ Additions(image, c) \subseteq 1 .. Len(image.ledger)
           /\ DecidedEntries(image, c) \subseteq 1 .. Len(image.ledger)
           /\ Attestations(image, c) \subseteq 1 .. Len(image.ledger)
<1>1. /\ Len(image.ledger) \in Nat /\ Len(image.decisions) \in Nat
      /\ DOMAIN image.ledger = 1 .. Len(image.ledger)
      /\ DOMAIN image.decisions = 1 .. Len(image.decisions)
  BY LedgerFacts, Zenon DEF Shaped
<1> QED
  BY <1>1 DEF DecisionsOf, Proposals, Additions, DecidedEntries, Attestations,
              EntriesOf

LEMMA NamedKey ==
    ASSUME NEW image, NEW c, NEW i, NEW n, EntriesNaming(image, c, i) = {n}
    PROVE  ReplayKey(image, c, i) = n
<1>1. Cardinality({n}) = 1
  BY FS_Singleton
<1> QED
  BY <1>1 DEF ReplayKey

LEMMA UnnamedKey ==
    ASSUME NEW image, NEW c, NEW i, EntriesNaming(image, c, i) = {}
    PROVE  ReplayKey(image, c, i) = Len(image.ledger) + i
<1>1. Cardinality({}) = 0
  BY FS_EmptySet
<1> QED
  BY <1>1 DEF ReplayKey

LEMMA LedgeredKeys ==
    ASSUME NEW image, Shaped(image), NEW c, DecisionsAreLedgered(image, c),
           NEW i \in DecisionsOf(image, c)
    PROVE  /\ EntriesNaming(image, c, i) = {ReplayKey(image, c, i)}
           /\ ReplayKey(image, c, i) \in DecidedEntries(image, c)
           /\ ReplayKey(image, c, i) \in 1 .. Len(image.ledger)
           /\ image.ledger[ReplayKey(image, c, i)].decision = i
<1>1. PICK n \in DOMAIN image.ledger : EntriesNaming(image, c, i) = {n}
  BY DEF DecisionsAreLedgered
<1>2. ReplayKey(image, c, i) = n
  BY <1>1, NamedKey
<1>3. n \in DecidedEntries(image, c) /\ image.ledger[n].decision = i
  BY <1>1 DEF EntriesNaming
<1> QED
  BY <1>1, <1>2, <1>3, Positions

KeysAreNumbers(image, c) ==
    \A i \in DecisionsOf(image, c) : ReplayKey(image, c, i) \in Nat

InRowOrder(image, c) ==
    \A i, j \in DecisionsOf(image, c) :
        i < j => ReplayKey(image, c, i) < ReplayKey(image, c, j)

LEMMA RowOrder ==
    ASSUME NEW image, Shaped(image), NEW c, KeysAreNumbers(image, c),
           InRowOrder(image, c)
    PROVE  /\ \A i \in DecisionsOf(image, c) :
                 Preceding(image, c, i) = {j \in DecisionsOf(image, c) : j < i}
           /\ \A rows \in SUBSET DecisionsOf(image, c) :
                 rows # {} => LastOf(image, c, rows) = Max(rows)
<1>1. /\ DecisionsOf(image, c) \subseteq 1 .. Len(image.decisions)
      /\ Len(image.decisions) \in Nat
  BY Positions
<1>2. \A i, j \in DecisionsOf(image, c) :
          ReplayKey(image, c, i) < ReplayKey(image, c, j) <=> i < j
  <2> SUFFICES ASSUME NEW i \in DecisionsOf(image, c),
                      NEW j \in DecisionsOf(image, c)
               PROVE  ReplayKey(image, c, i) < ReplayKey(image, c, j) <=> i < j
    OBVIOUS
  <2>1. i \in Nat /\ j \in Nat
    BY <1>1
  <2>2. ReplayKey(image, c, i) \in Nat /\ ReplayKey(image, c, j) \in Nat
    BY DEF KeysAreNumbers
  <2>3. /\ i < j => ReplayKey(image, c, i) < ReplayKey(image, c, j)
        /\ j < i => ReplayKey(image, c, j) < ReplayKey(image, c, i)
    BY DEF InRowOrder
  <2> QED
    BY <2>1, <2>2, <2>3
<1>3. ASSUME NEW rows \in SUBSET DecisionsOf(image, c), rows # {}
      PROVE  LastOf(image, c, rows) = Max(rows)
  <2>1. rows \in SUBSET (0 .. Len(image.decisions))
    BY <1>1
  <2>2. Max(rows) \in rows /\ \A j \in rows : j <= Max(rows)
    BY <1>1, <1>3, <2>1, MaxFacts
  <2>3. \A i, j \in rows :
            ReplayKey(image, c, j) <= ReplayKey(image, c, i) <=> j <= i
    <3> SUFFICES ASSUME NEW i \in rows, NEW j \in rows
                 PROVE  ReplayKey(image, c, j) <= ReplayKey(image, c, i) <=> j <= i
      OBVIOUS
    <3>1. i \in Nat /\ j \in Nat
      BY <2>1
    <3>2. ReplayKey(image, c, i) \in Nat /\ ReplayKey(image, c, j) \in Nat
      BY DEF KeysAreNumbers
    <3> QED
      BY <1>2, <3>1, <3>2
  <2>4. \E i \in rows :
            \A j \in rows : ReplayKey(image, c, j) <= ReplayKey(image, c, i)
    BY <2>2, <2>3
  <2>5. /\ LastOf(image, c, rows) \in rows
        /\ \A j \in rows :
              ReplayKey(image, c, j) <= ReplayKey(image, c, LastOf(image, c, rows))
    BY <2>4, Zenon DEF LastOf
  <2>6. LastOf(image, c, rows) <= Max(rows) /\ Max(rows) <= LastOf(image, c, rows)
    BY <2>2, <2>3, <2>5
  <2>7. \A i \in rows : i \in Nat
    BY <1>1, <2>1
  <2>8. LastOf(image, c, rows) \in Nat /\ Max(rows) \in Nat
    BY <2>2, <2>5, <2>7, Zenon
  <2> QED
    BY <2>6, <2>8
<1>4. \A i \in DecisionsOf(image, c) :
          Preceding(image, c, i) = {j \in DecisionsOf(image, c) : j < i}
  BY <1>2 DEF Preceding
<1> QED
  BY <1>3, <1>4

LEMMA SameStatusByRows ==
    ASSUME NEW image, Shaped(image), NEW c, KeysAreNumbers(image, c),
           InRowOrder(image, c), NEW rows \in SUBSET DecisionsOf(image, c)
    PROVE  StatusAfter(image, c, rows) = StatusByRows(image, rows)
  BY RowOrder DEF StatusAfter, StatusByRows

(* Ledger, decision rows and stored row of a claim agree. *)
Told(image, c) ==
    /\ DecisionEntriesHold(image, c)
    /\ EvidenceEntriesHold(image, c)
    /\ DecisionsHold(image, c)
    /\ UpdatedAtReplays(image, c)

(* A claim whose whole history is there, in the order of its decision rows,
   and whose digests match.                                                  *)
Whole(image, c) ==
    /\ Told(image, c)
    /\ MaterialHolds(image, c)
    /\ Checkpoints(image, c) # {}

LEMMA WholeInOrder ==
    ASSUME NEW image, Shaped(image), NEW c, DecisionEntriesHold(image, c)
    PROVE  KeysAreNumbers(image, c) /\ InRowOrder(image, c)
<1>1. DecisionsAreLedgered(image, c)
  BY DEF DecisionEntriesHold
<1>2. KeysAreNumbers(image, c)
  BY <1>1, LedgeredKeys DEF KeysAreNumbers
<1>3. InRowOrder(image, c)
  BY DEF DecisionEntriesHold, InRowOrder
<1> QED
  BY <1>2, <1>3

LEMMA WholeIsValid ==
    ASSUME NEW image, Shaped(image), NEW c, Whole(image, c)
    PROVE  AuthorityValid(image, c)
<1>1. KeysAreNumbers(image, c) /\ InRowOrder(image, c)
  BY WholeInOrder DEF Whole, Told
<1>2. ChainHolds(image, c)
  <2> SUFFICES ASSUME NEW i \in DecisionsOf(image, c)
               PROVE  /\ image.decisions[i].from
                            = StatusAfter(image, c, Preceding(image, c, i))
                      /\ image.decisions[i].to
                            \in AllowedTransitions(image.decisions[i].from)
    BY Zenon DEF ChainHolds
  <2> DEFINE earlier == {j \in DecisionsOf(image, c) : j < i}
  <2>1. Preceding(image, c, i) = earlier
    BY <1>1, RowOrder
  <2>2. StatusAfter(image, c, earlier) = StatusByRows(image, earlier)
    BY <1>1, SameStatusByRows
  <2>3. /\ image.decisions[i].from = StatusByRows(image, earlier)
        /\ image.decisions[i].to \in AllowedTransitions(StatusByRows(image, earlier))
    BY DEF Whole, Told, DecisionsHold
  <2> QED
    BY <2>1, <2>2, <2>3
<1>3. StatusReplays(image, c)
  <2>1. StatusAfter(image, c, DecisionsOf(image, c))
            = StatusByRows(image, DecisionsOf(image, c))
    BY <1>1, SameStatusByRows
  <2> QED
    BY <2>1 DEF StatusReplays, Whole, Told, DecisionsHold
<1> QED
  BY <1>2, <1>3 DEF AuthorityValid, Whole, Told, DecisionEntriesHold, EvidenceEntriesHold
-----------------------------------------------------------------------------
(* What a migration appends. *)

(* The entries about c: its proposal, then its decisions by row number. *)
StreamAt(entries, image, c, p, place) ==
    /\ p \in DOMAIN entries /\ entries[p] = ProposalEntry(image, c)
    /\ \A i \in DecisionsOf(image, c) :
          /\ place[i] \in DOMAIN entries
          /\ entries[place[i]] = DecisionEntry(image, i)
          /\ p < place[i]
    /\ \A i, j \in DecisionsOf(image, c) : i < j => place[i] < place[j]
    /\ \A n \in DOMAIN entries :
          entries[n].claim = c =>
              n = p \/ \E i \in DecisionsOf(image, c) : n = place[i]

Streamless(image, k) ==
    {c \in Existing(image) : k = "V02" /\ ~HasHistory(image, c)}

BackfillsFit(entries, image, k) ==
    /\ IsLedger(entries)
    /\ \A n \in DOMAIN entries : entries[n].claim \in Streamless(image, k)
    /\ \A c \in Streamless(image, k) :
          \E p, place : StreamAt(entries, image, c, p, place)

LEMMA BackfillFacts ==
    ASSUME NEW image, Shaped(image), NEW k
    PROVE  BackfillsFit(Backfills(image, k), image, k)
<1> DEFINE entries == Backfills(image, k)
           absent == Streamless(image, k)
           claims == SetToSeq(absent)
           pairs == UNION {{<<n, i>> : i \in {0} \cup DecisionsOf(image, claims[n])} :
                              n \in DOMAIN claims}
<1>1. IsFiniteSet(absent)
  <2>1. IsFiniteSet(Existing(image)) /\ absent \subseteq Existing(image)
    BY DEF Shaped, Streamless
  <2> QED
    BY <2>1, FS_Subset
<1>2. entries = [r \in 1 .. Cardinality(pairs) |->
                    LET p == Ranked(pairs, r)
                    IN  IF p[2] = 0 THEN ProposalEntry(image, claims[p[1]])
                        ELSE DecisionEntry(image, p[2])]
  BY DEF Backfills, Streamless
<1> HIDE DEF absent
<1>3. /\ IsLedger(claims)
      /\ \A n \in DOMAIN claims : claims[n] \in absent
      /\ \A c \in absent : \E n \in DOMAIN claims : claims[n] = c
      /\ \A n, m \in DOMAIN claims : claims[n] = claims[m] => n = m
  BY <1>1, SequenceOfSet
<1> HIDE DEF claims
<1>4. /\ DOMAIN claims = 1 .. Len(claims) /\ Len(claims) \in Nat
      /\ \A c : DecisionsOf(image, c) \subseteq 1 .. Len(image.decisions)
      /\ Len(image.decisions) \in Nat
  BY <1>3, LedgerFacts, Positions
<1>5. \A p : p \in pairs <=>
          \E n \in DOMAIN claims :
              \E i \in {0} \cup DecisionsOf(image, claims[n]) : p = <<n, i>>
  OBVIOUS
<1> HIDE DEF pairs
<1>6. pairs \in SUBSET (Nat \X Nat) /\ IsFiniteSet(pairs)
  <2> DEFINE all == (1 .. Len(claims)) \X (0 .. Len(image.decisions))
  <2>1. IsFiniteSet(1 .. Len(claims)) /\ IsFiniteSet(0 .. Len(image.decisions))
    <3>1. /\ 1 \in Int /\ Len(claims) \in Int
          /\ 0 \in Int /\ Len(image.decisions) \in Int
      BY <1>4
    <3> QED
      BY <3>1, FS_Interval
  <2>2. IsFiniteSet(all)
    BY <2>1, FS_Product
  <2>3. pairs \subseteq all
    <3> SUFFICES ASSUME NEW n \in DOMAIN claims,
                        NEW i \in {0} \cup DecisionsOf(image, claims[n])
                 PROVE  <<n, i>> \in all
      BY <1>5
    <3>1. n \in 1 .. Len(claims) /\ i \in 0 .. Len(image.decisions)
      BY <1>4
    <3> QED
      BY <3>1
  <2> HIDE DEF all
  <2>4. IsFiniteSet(pairs)
    BY <2>2, <2>3, FS_Subset
  <2>5. all \subseteq Nat \X Nat
    BY <1>4 DEF all
  <2> QED
    BY <2>3, <2>4, <2>5
<1>7. /\ \A r \in 1 .. Cardinality(pairs) :
            Ranked(pairs, r) \in pairs /\ Rank(pairs, Ranked(pairs, r)) = r
      /\ \A p \in pairs : Ranked(pairs, Rank(pairs, p)) = p
      /\ \A p \in pairs : Rank(pairs, p) \in 1 .. Cardinality(pairs)
  BY <1>6, RankedFacts, RanksDiffer
<1>8. Cardinality(pairs) \in Nat
  BY <1>6, FS_CardinalityType
<1> HIDE DEF entries
<1>9. IsLedger(entries) /\ DOMAIN entries = 1 .. Cardinality(pairs)
  BY <1>2, <1>8 DEF IsLedger
<1>10. ASSUME NEW n \in DOMAIN claims, NEW i \in {0} \cup DecisionsOf(image, claims[n])
       PROVE  /\ <<n, i>> \in pairs
              /\ Rank(pairs, <<n, i>>) \in DOMAIN entries
              /\ entries[Rank(pairs, <<n, i>>)] =
                    IF i = 0 THEN ProposalEntry(image, claims[n])
                    ELSE DecisionEntry(image, i)
  <2>1. <<n, i>> \in pairs
    BY <1>5
  <2>2. /\ Ranked(pairs, Rank(pairs, <<n, i>>)) = <<n, i>>
        /\ Rank(pairs, <<n, i>>) \in 1 .. Cardinality(pairs)
    BY <1>7, <2>1
  <2> QED
    BY <1>2, <1>9, <2>1, <2>2
<1>11. ASSUME NEW r \in DOMAIN entries
       PROVE  \E n \in DOMAIN claims :
                 \E i \in {0} \cup DecisionsOf(image, claims[n]) :
                     r = Rank(pairs, <<n, i>>) /\ entries[r].claim = claims[n]
  <2>1. Ranked(pairs, r) \in pairs /\ Rank(pairs, Ranked(pairs, r)) = r
    BY <1>7, <1>9
  <2>5. PICK n \in DOMAIN claims :
            \E i \in {0} \cup DecisionsOf(image, claims[n]) :
                Ranked(pairs, r) = <<n, i>>
    BY <1>5, <2>1
  <2>2. PICK i \in {0} \cup DecisionsOf(image, claims[n]) :
            Ranked(pairs, r) = <<n, i>>
    BY <2>5
  <2>3. entries[r] = IF i = 0 THEN ProposalEntry(image, claims[n])
                     ELSE DecisionEntry(image, i)
    BY <1>10, <2>1, <2>2
  <2>4. entries[r].claim = claims[n]
    BY <2>3 DEF ProposalEntry, DecisionEntry, DecisionsOf
  <2> QED
    BY <2>1, <2>2, <2>4
<1>12. ASSUME NEW c \in absent
       PROVE  \E p, place : StreamAt(entries, image, c, p, place)
  <2>1. PICK n \in DOMAIN claims : claims[n] = c
    BY <1>3
  <2> DEFINE p == Rank(pairs, <<n, 0>>)
             place == [i \in DecisionsOf(image, c) |-> Rank(pairs, <<n, i>>)]
  <2>2. p \in DOMAIN entries /\ entries[p] = ProposalEntry(image, c)
    BY <1>10, <2>1
  <2>3. \A i \in DecisionsOf(image, c) : i \in Nat /\ i > 0 /\ n \in Nat
    BY <1>4
  <2>4. ASSUME NEW i \in DecisionsOf(image, c)
        PROVE  /\ place[i] \in DOMAIN entries
               /\ entries[place[i]] = DecisionEntry(image, i)
               /\ p < place[i]
    <3>1. /\ Rank(pairs, <<n, i>>) \in DOMAIN entries
          /\ entries[Rank(pairs, <<n, i>>)] = DecisionEntry(image, i)
          /\ <<n, 0>> \in pairs /\ <<n, i>> \in pairs
      BY <1>10, <2>1, <2>3
    <3>2. NoLater(<<n, 0>>, <<n, i>>) /\ <<n, 0>> # <<n, i>>
      BY <2>3 DEF NoLater
    <3>3. Rank(pairs, <<n, 0>>) < Rank(pairs, <<n, i>>)
      BY <1>6, <3>1, <3>2, RanksGrow
    <3> QED
      BY <3>1, <3>3
  <2>5. ASSUME NEW i \in DecisionsOf(image, c), NEW j \in DecisionsOf(image, c),
               i < j
        PROVE  place[i] < place[j]
    <3>1. <<n, i>> \in pairs /\ <<n, j>> \in pairs
      BY <1>10, <2>1
    <3>2. NoLater(<<n, i>>, <<n, j>>) /\ <<n, i>> # <<n, j>>
      BY <2>3, <2>5 DEF NoLater
    <3>3. Rank(pairs, <<n, i>>) < Rank(pairs, <<n, j>>)
      BY <1>6, <3>1, <3>2, RanksGrow
    <3> QED
      BY <3>3
  <2>6. ASSUME NEW r \in DOMAIN entries, entries[r].claim = c
        PROVE  r = p \/ \E i \in DecisionsOf(image, c) : r = place[i]
    <3>1. PICK m \in DOMAIN claims :
              \E i \in {0} \cup DecisionsOf(image, claims[m]) :
                  r = Rank(pairs, <<m, i>>) /\ entries[r].claim = claims[m]
      BY <1>11
    <3>2. m = n
      BY <1>3, <2>1, <2>6, <3>1
    <3>3. PICK i \in {0} \cup DecisionsOf(image, c) : r = Rank(pairs, <<n, i>>)
      BY <2>1, <3>1, <3>2
    <3> QED
      BY <3>3
  <2> HIDE DEF p, place
  <2> QED
    BY <2>2, <2>4, <2>5, <2>6 DEF StreamAt
<1>13. \A r \in DOMAIN entries : entries[r].claim \in absent
  BY <1>3, <1>11
<1> QED
  BY <1>9, <1>12, <1>13 DEF BackfillsFit, entries, absent

Due(image, k) == {c \in Existing(image) : MaterialAction(image, k, c) = "attest"}

AttestationsFit(entries, image, k, at) ==
    /\ IsLedger(entries)
    /\ \A n \in DOMAIN entries :
          /\ entries[n].claim \in Due(image, k)
          /\ entries[n] = AttestationEntry(image, entries[n].claim, at)
    /\ \A c \in Due(image, k) :
          \E n \in DOMAIN entries :
              \A m \in DOMAIN entries : entries[m].claim = c <=> m = n

LEMMA AttestationFacts ==
    ASSUME NEW image, Shaped(image), NEW k, NEW at
    PROVE  AttestationsFit(AttestationsDue(image, k, at), image, k, at)
<1> DEFINE entries == AttestationsDue(image, k, at)
           due == Due(image, k)
           order == SetToSeq(due)
<1>1. IsFiniteSet(due)
  <2>1. IsFiniteSet(Existing(image)) /\ due \subseteq Existing(image)
    BY DEF Shaped, Due
  <2> QED
    BY <2>1, FS_Subset
<1>2. entries = [i \in DOMAIN order |-> AttestationEntry(image, order[i], at)]
  BY DEF AttestationsDue, Due
<1> HIDE DEF due
<1>3. /\ IsLedger(order)
      /\ \A i \in DOMAIN order : order[i] \in due
      /\ \A x \in due : \E i \in DOMAIN order : order[i] = x
      /\ \A i, j \in DOMAIN order : order[i] = order[j] => i = j
  BY <1>1, SequenceOfSet
<1> HIDE DEF order, entries
<1>4. DOMAIN entries = DOMAIN order /\ IsLedger(entries)
  BY <1>2, <1>3 DEF IsLedger
<1>5. \A i \in DOMAIN order :
          /\ entries[i] = AttestationEntry(image, order[i], at)
          /\ entries[i].claim = order[i]
  BY <1>2 DEF AttestationEntry
<1>6. ASSUME NEW c \in due
      PROVE  \E n \in DOMAIN entries :
                 \A m \in DOMAIN entries : entries[m].claim = c <=> m = n
  BY <1>3, <1>4, <1>5
<1>7. \A n \in DOMAIN entries :
          entries[n].claim \in due
            /\ entries[n] = AttestationEntry(image, entries[n].claim, at)
  BY <1>3, <1>4, <1>5
<1> QED
  BY <1>4, <1>6, <1>7 DEF AttestationsFit, entries, due
-----------------------------------------------------------------------------
(* A ledger that has grown. *)

(* The ledger of new is that of old and what was added to it. *)
Grown(old, new, added) == IsJoin(new.ledger, old.ledger, added)

LedgersMeet(old, new, added) ==
    /\ Len(old.ledger) \in Nat /\ Len(added) \in Nat
    /\ DOMAIN old.ledger = 1 .. Len(old.ledger)
    /\ DOMAIN added = 1 .. Len(added)
    /\ Len(new.ledger) = Len(old.ledger) + Len(added)
    /\ DOMAIN new.ledger = 1 .. Len(old.ledger) + Len(added)
    /\ \A n \in 1 .. Len(old.ledger) : new.ledger[n] = old.ledger[n]
    /\ \A n \in 1 .. Len(added) : new.ledger[Len(old.ledger) + n] = added[n]

LEMMA GrownFacts ==
    ASSUME NEW old, IsLedger(old.ledger), NEW added, IsLedger(added), NEW new,
           Grown(old, new, added)
    PROVE  LedgersMeet(old, new, added)
  BY LedgerFacts DEF Grown, IsJoin, LedgersMeet

AddedAbout(added, c, event) ==
    {n \in DOMAIN added : added[n].claim = c /\ added[n].event = event}

EntriesMeet(old, new, added, c, event) ==
    \A n : n \in EntriesOf(new, c, event) <=>
        \/ n \in EntriesOf(old, c, event)
        \/ \E m \in AddedAbout(added, c, event) : n = Len(old.ledger) + m

LEMMA GrownEntries ==
    ASSUME NEW old, IsLedger(old.ledger), NEW added, IsLedger(added), NEW new,
           Grown(old, new, added), NEW c, NEW event
    PROVE  EntriesMeet(old, new, added, c, event)
<1> DEFINE L == Len(old.ledger)
<1>1. /\ L \in Nat /\ Len(added) \in Nat
      /\ DOMAIN old.ledger = 1 .. L
      /\ DOMAIN added = 1 .. Len(added)
      /\ DOMAIN new.ledger = 1 .. L + Len(added)
      /\ \A n \in 1 .. L : new.ledger[n] = old.ledger[n]
      /\ \A n \in 1 .. Len(added) : new.ledger[L + n] = added[n]
  <2>1. LedgersMeet(old, new, added)
    BY GrownFacts
  <2> QED
    BY <2>1 DEF LedgersMeet
<1> HIDE DEF L
<1>2. ASSUME NEW n \in EntriesOf(new, c, event)
      PROVE  \/ n \in EntriesOf(old, c, event)
             \/ \E m \in AddedAbout(added, c, event) : n = L + m
  <2>1. n \in 1 .. L + Len(added)
    BY <1>1 DEF EntriesOf
  <2>2. CASE n \in 1 .. L
    BY <1>1, <2>2 DEF EntriesOf
  <2>3. CASE n \notin 1 .. L
    <3>1. n - L \in 1 .. Len(added) /\ n = L + (n - L)
      BY <1>1, <2>1, <2>3
    <3>2. n - L \in AddedAbout(added, c, event)
      BY <1>1, <3>1 DEF EntriesOf, AddedAbout
    <3> QED
      BY <3>1, <3>2
  <2> QED
    BY <2>2, <2>3
<1>3. \A n \in EntriesOf(old, c, event) : n \in EntriesOf(new, c, event)
  BY <1>1 DEF EntriesOf
<1>4. ASSUME NEW m \in AddedAbout(added, c, event)
      PROVE  L + m \in EntriesOf(new, c, event)
  BY <1>1 DEF EntriesOf, AddedAbout
<1> QED
  BY <1>2, <1>3, <1>4 DEF L, EntriesMeet

LEMMA GrownQuietly ==
    ASSUME NEW old, IsLedger(old.ledger), NEW added, IsLedger(added), NEW new,
           Grown(old, new, added), NEW c, NEW event,
           AddedAbout(added, c, event) = {}
    PROVE  EntriesOf(new, c, event) = EntriesOf(old, c, event)
<1>1. EntriesMeet(old, new, added, c, event)
  BY GrownEntries
<1> QED
  BY <1>1 DEF EntriesMeet

LEMMA OldEntriesStay ==
    ASSUME NEW old, IsLedger(old.ledger), NEW added, IsLedger(added), NEW new,
           Grown(old, new, added), NEW c, NEW event,
           NEW n \in EntriesOf(old, c, event)
    PROVE  new.ledger[n] = old.ledger[n] /\ n \in 1 .. Len(old.ledger)
<1>1. LedgersMeet(old, new, added)
  BY GrownFacts
<1> QED
  BY <1>1 DEF EntriesOf, LedgersMeet
-----------------------------------------------------------------------------
(* What a claim's history is made of, in two repositories the same. *)

SameRows(old, new, c) ==
    /\ DecisionsOf(new, c) = DecisionsOf(old, c)
    /\ \A i \in DecisionsOf(old, c) : new.decisions[i] = old.decisions[i]
    /\ new.claims[c] = old.claims[c]
    /\ EvidenceIn(new, c) = EvidenceIn(old, c)

SameEntries(old, new, c) ==
    /\ Proposals(new, c) = Proposals(old, c)
    /\ Additions(new, c) = Additions(old, c)
    /\ DecidedEntries(new, c) = DecidedEntries(old, c)
    /\ \A n \in Proposals(old, c) \cup Additions(old, c) \cup DecidedEntries(old, c) :
          new.ledger[n] = old.ledger[n]
    /\ Len(old.ledger) <= Len(new.ledger)

LEMMA SameNaming ==
    ASSUME NEW old, NEW new, NEW c, SameEntries(old, new, c), NEW i
    PROVE  EntriesNaming(new, c, i) = EntriesNaming(old, c, i)
  BY DEF SameEntries, EntriesNaming

LEMMA SameDecisionEntries ==
    ASSUME NEW old, Shaped(old), NEW new, Shaped(new), NEW c,
           SameEntries(old, new, c), SameRows(old, new, c),
           DecisionEntriesHold(old, c)
    PROVE  /\ DecisionEntriesHold(new, c)
           /\ \A i \in DecisionsOf(old, c) :
                 ReplayKey(new, c, i) = ReplayKey(old, c, i)
<1>1. \A i : EntriesNaming(new, c, i) = EntriesNaming(old, c, i)
  BY SameNaming
<1>2. \A i \in DecisionsOf(old, c) :
          /\ EntriesNaming(old, c, i) = {ReplayKey(old, c, i)}
          /\ ReplayKey(old, c, i) \in DecidedEntries(old, c)
  BY LedgeredKeys DEF DecisionEntriesHold
<1>3. ASSUME NEW i \in DecisionsOf(old, c)
      PROVE  ReplayKey(new, c, i) = ReplayKey(old, c, i)
  <2>1. EntriesNaming(new, c, i) = {ReplayKey(old, c, i)}
    BY <1>1, <1>2
  <2> QED
    BY <2>1, NamedKey, Zenon
<1>4. OneProposal(new, c) /\ ProposalComesFirst(new, c)
  BY DEF DecisionEntriesHold, OneProposal, ProposalComesFirst, SameEntries
<1>5. DecisionsAreLedgered(new, c)
  <2> SUFFICES ASSUME NEW i \in DecisionsOf(old, c)
               PROVE  \E n \in DOMAIN new.ledger :
                          /\ EntriesNaming(new, c, i) = {n}
                          /\ new.ledger[n].from = new.decisions[i].from
                          /\ new.ledger[n].to = new.decisions[i].to
                          /\ new.ledger[n].at = new.decisions[i].at
    BY DEF DecisionsAreLedgered, SameRows
  <2>1. PICK n \in DOMAIN old.ledger :
            /\ EntriesNaming(old, c, i) = {n}
            /\ old.ledger[n].from = old.decisions[i].from
            /\ old.ledger[n].to = old.decisions[i].to
            /\ old.ledger[n].at = old.decisions[i].at
    BY DEF DecisionEntriesHold, DecisionsAreLedgered
  <2>2. n \in DecidedEntries(old, c) /\ n \in DecidedEntries(new, c)
    BY <2>1 DEF EntriesNaming, SameEntries
  <2>3. n \in DOMAIN new.ledger
    BY <2>2 DEF DecidedEntries, EntriesOf
  <2>4. new.ledger[n] = old.ledger[n] /\ new.decisions[i] = old.decisions[i]
    BY <2>2 DEF SameEntries, SameRows
  <2> QED
    BY <1>1, <2>1, <2>3, <2>4
<1>6. NoOrphanEntry(new, c)
  BY DEF DecisionEntriesHold, NoOrphanEntry, SameEntries, SameRows
<1>7. \A i, j \in DecisionsOf(new, c) :
          i < j => ReplayKey(new, c, i) < ReplayKey(new, c, j)
  BY <1>3 DEF DecisionEntriesHold, SameRows
<1> QED
  BY <1>3, <1>4, <1>5, <1>6, <1>7 DEF DecisionEntriesHold

LEMMA RowsMaximum ==
    ASSUME NEW image, Shaped(image), NEW c,
           NEW rows \in SUBSET DecisionsOf(image, c), rows # {}
    PROVE  Max(rows) \in rows /\ \A i \in rows : i <= Max(rows)
<1>1. rows \in SUBSET (0 .. Len(image.decisions)) /\ Len(image.decisions) \in Nat
  BY Positions
<1> QED
  BY <1>1, MaxFacts

LEMMA SameDecisions ==
    ASSUME NEW old, Shaped(old), NEW new, NEW c, SameRows(old, new, c),
           DecisionsHold(old, c)
    PROVE  DecisionsHold(new, c)
<1>1. ASSUME NEW rows \in SUBSET DecisionsOf(old, c)
      PROVE  StatusByRows(new, rows) = StatusByRows(old, rows)
  BY RowsMaximum DEF StatusByRows, SameRows
<1>2. ASSUME NEW i \in DecisionsOf(new, c)
      PROVE  LET current == StatusByRows(new, {j \in DecisionsOf(new, c) : j < i})
             IN  /\ new.decisions[i].from = current
                 /\ new.decisions[i].to \in AllowedTransitions(current)
  <2> DEFINE earlier == {j \in DecisionsOf(old, c) : j < i}
  <2>1. {j \in DecisionsOf(new, c) : j < i} = earlier
    BY DEF SameRows
  <2>2. StatusByRows(new, earlier) = StatusByRows(old, earlier)
    BY <1>1
  <2>3. /\ old.decisions[i].from = StatusByRows(old, earlier)
        /\ old.decisions[i].to \in AllowedTransitions(StatusByRows(old, earlier))
    BY DEF DecisionsHold, SameRows
  <2>4. new.decisions[i] = old.decisions[i]
    BY DEF SameRows
  <2> QED
    BY <2>1, <2>2, <2>3, <2>4
<1>3. StatusIn(new, c) = StatusByRows(new, DecisionsOf(new, c))
  BY <1>1 DEF DecisionsHold, SameRows, StatusIn
<1> QED
  BY <1>2, <1>3 DEF DecisionsHold

LEMMA SameStatusBefore ==
    ASSUME NEW old, Shaped(old), NEW new, NEW c, SameEntries(old, new, c),
           SameRows(old, new, c), NEW n
    PROVE  StatusBefore(new, c, n) = StatusBefore(old, c, n)
<1> DEFINE earlier == {m \in DecidedEntries(old, c) :
                          /\ m < n
                          /\ old.ledger[m].decision \in DecisionsOf(old, c)}
<1>1. earlier = {m \in DecidedEntries(new, c) :
                    /\ m < n
                    /\ new.ledger[m].decision \in DecisionsOf(new, c)}
  BY DEF SameEntries, SameRows
<1>2. earlier \in SUBSET (0 .. Len(old.ledger)) /\ Len(old.ledger) \in Nat
  BY Positions
<1>3. earlier # {} => Max(earlier) \in earlier
  <2> HIDE DEF earlier
  <2> QED
    BY <1>2, MaxFacts
<1>4. /\ StatusBefore(new, c, n) =
            IF earlier = {} THEN "PROPOSED"
            ELSE new.decisions[new.ledger[Max(earlier)].decision].to
      /\ StatusBefore(old, c, n) =
            IF earlier = {} THEN "PROPOSED"
            ELSE old.decisions[old.ledger[Max(earlier)].decision].to
  BY <1>1, Zenon DEF StatusBefore
<1>5. \A m \in earlier :
          new.decisions[new.ledger[m].decision] = old.decisions[old.ledger[m].decision]
  BY DEF SameEntries, SameRows
<1> HIDE DEF earlier
<1> QED
  BY <1>3, <1>4, <1>5

LEMMA AccumulatedIs ==
    ASSUME NEW image, NEW c, NEW n, NEW e
    PROVE  e \in AccumulatedAt(image, c, n) <=>
             \/ \E m \in Proposals(image, c) : e \in image.ledger[m].refs
             \/ \E m \in Additions(image, c) : m <= n /\ e \in image.ledger[m].refs
  BY DEF AccumulatedAt

LEMMA SameAccumulated ==
    ASSUME NEW old, NEW new, NEW c, SameEntries(old, new, c), NEW n
    PROVE  AccumulatedAt(new, c, n) = AccumulatedAt(old, c, n)
<1>1. /\ Proposals(new, c) = Proposals(old, c)
      /\ Additions(new, c) = Additions(old, c)
      /\ \A m \in Proposals(old, c) \cup Additions(old, c) :
            new.ledger[m].refs = old.ledger[m].refs
  BY DEF SameEntries
<1>2. ASSUME NEW e
      PROVE  e \in AccumulatedAt(new, c, n) <=> e \in AccumulatedAt(old, c, n)
  BY <1>1, AccumulatedIs
<1> QED
  BY <1>2

(* Every addition is among the entries up to a place behind them all. *)
LEMMA AllAccumulated ==
    ASSUME NEW image, Shaped(image), NEW c, NEW n,
           \A a \in Additions(image, c) : a <= n
    PROVE  AccumulatedAt(image, c, n) = AccumulatedAt(image, c, Len(image.ledger))
<1>1. \A a \in Additions(image, c) : a <= Len(image.ledger)
  BY Positions
<1>2. ASSUME NEW e
      PROVE  e \in AccumulatedAt(image, c, n)
               <=> e \in AccumulatedAt(image, c, Len(image.ledger))
  BY <1>1, AccumulatedIs
<1> QED
  BY <1>2

LEMMA SameEvidenceEntries ==
    ASSUME NEW old, Shaped(old), NEW new, Shaped(new), NEW c,
           SameEntries(old, new, c), SameRows(old, new, c),
           EvidenceEntriesHold(old, c)
    PROVE  EvidenceEntriesHold(new, c)
<1>1. AdditionsWhileReviewable(new, c)
  <2>1. \A n : StatusBefore(new, c, n) = StatusBefore(old, c, n)
    BY SameStatusBefore
  <2> QED
    BY <2>1 DEF EvidenceEntriesHold, AdditionsWhileReviewable, SameEntries
<1>2. NoDuplicateEvidence(new, c)
  BY DEF EvidenceEntriesHold, NoDuplicateEvidence, SameEntries
<1>3. EvidenceIsLedgered(new, c)
  <2>1. AccumulatedAt(new, c, Len(new.ledger)) = AccumulatedAt(old, c, Len(new.ledger))
    BY SameAccumulated
  <2>2. \A a \in Additions(old, c) : a <= Len(new.ledger)
    <3>1. /\ Additions(old, c) \subseteq 1 .. Len(old.ledger)
          /\ Len(old.ledger) \in Nat /\ Len(new.ledger) \in Nat
          /\ Len(old.ledger) <= Len(new.ledger)
      BY Positions DEF SameEntries
    <3> QED
      BY <3>1
  <2>3. AccumulatedAt(old, c, Len(new.ledger)) = AccumulatedAt(old, c, Len(old.ledger))
    BY <2>2, AllAccumulated
  <2> QED
    BY <2>1, <2>3 DEF EvidenceEntriesHold, EvidenceIsLedgered, SameRows
<1> QED
  BY <1>1, <1>2, <1>3 DEF EvidenceEntriesHold

LEMMA SameUpdated ==
    ASSUME NEW old, Shaped(old), NEW new, Shaped(new), NEW c,
           SameRows(old, new, c), UpdatedAtReplays(old, c),
           KeysAreNumbers(old, c), InRowOrder(old, c),
           KeysAreNumbers(new, c), InRowOrder(new, c)
    PROVE  UpdatedAtReplays(new, c)
<1> DEFINE rows == DecisionsOf(old, c)
<1>1. DecisionsOf(new, c) = rows /\ new.claims[c] = old.claims[c]
  BY DEF SameRows
<1>2. CASE rows = {}
  BY <1>1, <1>2 DEF UpdatedAtReplays
<1>3. CASE rows # {}
  <2>1. LastOf(old, c, rows) = Max(rows) /\ LastOf(new, c, rows) = Max(rows)
    BY <1>1, <1>3, RowOrder
  <2>2. Max(rows) \in rows
    BY <1>3, RowsMaximum
  <2>3. new.decisions[Max(rows)] = old.decisions[Max(rows)]
    BY <2>2 DEF SameRows
  <2> QED
    BY <1>1, <1>3, <2>1, <2>3 DEF UpdatedAtReplays
<1> QED
  BY <1>2, <1>3

SameAttestations(old, new, c) ==
    /\ Attestations(new, c) = Attestations(old, c)
    /\ \A n \in Attestations(old, c) : new.ledger[n] = old.ledger[n]

LEMMA TheProposal ==
    ASSUME NEW image, Shaped(image), NEW c, OneProposal(image, c)
    PROVE  \E p \in 1 .. Len(image.ledger) :
               Proposals(image, c) = {p} /\ Max(Proposals(image, c)) = p
<1>1. /\ Proposals(image, c) \in SUBSET (0 .. Len(image.ledger))
      /\ Proposals(image, c) \subseteq 1 .. Len(image.ledger)
      /\ Len(image.ledger) \in Nat
  BY Positions
<1>2. IsFiniteSet(Proposals(image, c))
  <2>1. 0 \in Int /\ Len(image.ledger) \in Int
    BY <1>1
  <2>2. IsFiniteSet(0 .. Len(image.ledger))
    BY <2>1, FS_Interval
  <2> QED
    BY <1>1, <2>2, FS_Subset
<1>3. PICK p : Proposals(image, c) = {p}
  BY <1>2, FS_Singleton DEF OneProposal
<1>4. p \in 1 .. Len(image.ledger) /\ {p} \in SUBSET (0 .. Len(image.ledger))
  BY <1>1, <1>3
<1>5. Max({p}) \in {p}
  BY <1>1, <1>4, MaxFacts
<1> QED
  BY <1>3, <1>4, <1>5

(* What the digests of a claim are about, in two repositories the same. *)
SameBasis(old, new, c) ==
    /\ Proposals(new, c) = Proposals(old, c)
    /\ Additions(new, c) = Additions(old, c)
    /\ SameAttestations(old, new, c)
    /\ \A n \in Proposals(old, c) \cup Additions(old, c) :
          new.ledger[n] = old.ledger[n]
    /\ new.claims[c].created = old.claims[c].created
    /\ EvidenceIn(new, c) = EvidenceIn(old, c)

LEMMA BasisAccumulated ==
    ASSUME NEW old, NEW new, NEW c, SameBasis(old, new, c), NEW n
    PROVE  AccumulatedAt(new, c, n) = AccumulatedAt(old, c, n)
<1>1. /\ Proposals(new, c) = Proposals(old, c)
      /\ Additions(new, c) = Additions(old, c)
      /\ \A m \in Proposals(old, c) \cup Additions(old, c) :
            new.ledger[m].refs = old.ledger[m].refs
  BY DEF SameBasis
<1>2. ASSUME NEW e
      PROVE  e \in AccumulatedAt(new, c, n) <=> e \in AccumulatedAt(old, c, n)
  BY <1>1, AccumulatedIs
<1> QED
  BY <1>2

LEMMA SameMaterial ==
    ASSUME NEW old, Shaped(old), NEW new, NEW c, SameBasis(old, new, c),
           OneProposal(old, c), MaterialHolds(old, c), Checkpoints(old, c) # {}
    PROVE  MaterialHolds(new, c) /\ Checkpoints(new, c) # {}
<1>1. PICK p : Proposals(old, c) = {p} /\ Max(Proposals(old, c)) = p
  BY TheProposal
<1>2. /\ Proposals(new, c) = Proposals(old, c)
      /\ Additions(new, c) = Additions(old, c)
      /\ Attestations(new, c) = Attestations(old, c)
      /\ \A n \in Proposals(old, c) \cup Additions(old, c) \cup Attestations(old, c) :
            new.ledger[n] = old.ledger[n]
  BY DEF SameBasis, SameAttestations
<1>3. \A n \in Proposals(old, c) \cup Additions(old, c) \cup Attestations(old, c) :
          Carries(new, n) <=> Carries(old, n)
  BY <1>2 DEF Carries
<1>4. BoundOnce(new, c)
  BY <1>1, <1>2, <1>3 DEF MaterialHolds, BoundOnce
<1>5. OldAdditionsAreAttested(new, c)
  BY <1>2, <1>3 DEF MaterialHolds, OldAdditionsAreAttested
<1>6. Checkpoints(new, c) = Checkpoints(old, c)
  BY <1>2, <1>3 DEF Checkpoints
<1>7. \A n : AccumulatedAt(new, c, n) = AccumulatedAt(old, c, n)
  BY BasisAccumulated
<1>8. /\ new.claims[c].created = old.claims[c].created
      /\ EvidenceIn(new, c) = EvidenceIn(old, c)
      /\ MaterialOf(new, c) = MaterialOf(old, c)
  BY DEF SameBasis, MaterialOf
<1>9. \A n \in Checkpoints(old, c) : new.ledger[n] = old.ledger[n]
  BY <1>2 DEF Checkpoints
<1>10. Max(Checkpoints(old, c)) \in Checkpoints(old, c)
  <2>1. /\ Checkpoints(old, c) \in SUBSET (0 .. Len(old.ledger))
        /\ Len(old.ledger) \in Nat
    BY Positions DEF Checkpoints
  <2> QED
    BY <2>1, MaxFacts
<1>11. \A n \in Checkpoints(new, c) :
           /\ new.ledger[n].material =
                 [created |-> new.claims[c].created,
                  refs    |-> AccumulatedAt(new, c, n)]
           /\ AccumulatedAt(new, c, n) \subseteq EvidenceIn(new, c)
  BY <1>6, <1>7, <1>8, <1>9 DEF MaterialHolds
<1>12. new.ledger[Max(Checkpoints(new, c))].material = MaterialOf(new, c)
  BY <1>6, <1>8, <1>9, <1>10 DEF MaterialHolds
<1> QED
  BY <1>4, <1>5, <1>6, <1>11, <1>12 DEF MaterialHolds

(* A claim that nothing was done about. *)
LEMMA SameStaysTold ==
    ASSUME NEW old, Shaped(old), NEW new, Shaped(new), NEW c,
           SameEntries(old, new, c), SameRows(old, new, c), Told(old, c)
    PROVE  Told(new, c)
<1>1. DecisionEntriesHold(new, c)
  BY SameDecisionEntries DEF Told
<1>2. EvidenceEntriesHold(new, c) /\ DecisionsHold(new, c)
  BY SameEvidenceEntries, SameDecisions DEF Told
<1>3. UpdatedAtReplays(new, c)
  <2>1. /\ KeysAreNumbers(old, c) /\ InRowOrder(old, c)
        /\ KeysAreNumbers(new, c) /\ InRowOrder(new, c)
    BY <1>1, WholeInOrder DEF Told
  <2> QED
    BY <2>1, SameUpdated DEF Told
<1> QED
  BY <1>1, <1>2, <1>3 DEF Told

LEMMA SameStaysWhole ==
    ASSUME NEW old, Shaped(old), NEW new, Shaped(new), NEW c,
           SameEntries(old, new, c), SameRows(old, new, c),
           SameAttestations(old, new, c), Whole(old, c)
    PROVE  Whole(new, c)
<1>1. Told(new, c)
  BY SameStaysTold DEF Whole
<1>2. SameBasis(old, new, c)
  BY DEF SameEntries, SameRows, SameBasis
<1>3. MaterialHolds(new, c) /\ Checkpoints(new, c) # {}
  BY <1>2, SameMaterial DEF Whole, Told, DecisionEntriesHold
<1> QED
  BY <1>1, <1>3 DEF Whole
-----------------------------------------------------------------------------
(* The migrated repository. *)

MigrationAdds(image, k, at) == Backfills(image, k) \o AttestationsDue(image, k, at)

AddsFit(added, image, k, at) ==
    /\ IsLedger(added)
    /\ \A n \in DOMAIN added :
          \/ added[n].claim \in Streamless(image, k)
          \/ /\ added[n].claim \in Due(image, k)
             /\ added[n] = AttestationEntry(image, added[n].claim, at)
    /\ \A c \in Due(image, k) :
          \E n \in DOMAIN added :
              \A m \in DOMAIN added : added[m].claim = c <=> m = n
    /\ \A c \in Streamless(image, k) :
          \E p, place : StreamAt(added, image, c, p, place)

LEMMA DueIsTold ==
    ASSUME NEW image, NEW k, NEW c \in Due(image, k)
    PROVE  HasHistory(image, c) /\ c \notin Streamless(image, k)
<1>1. Proposals(image, c) # {}
  <2>1. Cardinality({}) = 0
    BY FS_EmptySet
  <2> QED
    BY <2>1 DEF Due, MaterialAction
<1> QED
  BY <1>1 DEF HasHistory, Streamless

LEMMA AddedEntries ==
    ASSUME NEW image, Shaped(image), NEW k, NEW at
    PROVE  AddsFit(MigrationAdds(image, k, at), image, k, at)
<1> DEFINE B == Backfills(image, k)
           A == AttestationsDue(image, k, at)
           added == MigrationAdds(image, k, at)
<1>1. BackfillsFit(B, image, k) /\ AttestationsFit(A, image, k, at)
  BY BackfillFacts, AttestationFacts
<1>2. added = B \o A
  BY DEF MigrationAdds
<1> HIDE DEF B, A, added
<1>3. IsLedger(B) /\ IsLedger(A)
  BY <1>1 DEF BackfillsFit, AttestationsFit
<1>4. IsJoin(added, B, A)
  BY <1>2, <1>3, JoinedLedger
<1>5. /\ Len(B) \in Nat /\ DOMAIN B = 1 .. Len(B)
      /\ Len(A) \in Nat /\ DOMAIN A = 1 .. Len(A)
  BY <1>3, LedgerFacts
<1>6. /\ IsLedger(added) /\ DOMAIN added = 1 .. Len(B) + Len(A)
      /\ \A n \in DOMAIN B : added[n] = B[n]
      /\ \A n \in DOMAIN A : added[Len(B) + n] = A[n]
  BY <1>4, LedgerFacts DEF IsJoin
<1>7. ASSUME NEW n \in DOMAIN added
      PROVE  \/ n \in DOMAIN B /\ added[n] = B[n]
             \/ \E m \in DOMAIN A : n = Len(B) + m /\ added[n] = A[m]
  <2>1. CASE n \in 1 .. Len(B)
    BY <1>5, <1>6, <2>1
  <2>2. CASE n \notin 1 .. Len(B)
    <3>1. n - Len(B) \in DOMAIN A /\ n = Len(B) + (n - Len(B))
      BY <1>5, <1>6, <2>2
    <3> QED
      BY <1>6, <3>1
  <2> QED
    BY <2>1, <2>2
<1>8. /\ \A n \in DOMAIN B : B[n].claim \in Streamless(image, k)
      /\ \A n \in DOMAIN A : /\ A[n].claim \in Due(image, k)
                             /\ A[n] = AttestationEntry(image, A[n].claim, at)
  BY <1>1 DEF BackfillsFit, AttestationsFit
<1>9. \A c \in Due(image, k) : c \notin Streamless(image, k)
  BY DueIsTold
<1>10. \A n \in DOMAIN B : n \in DOMAIN added
  BY <1>5, <1>6
<1>11. \A n \in DOMAIN A : Len(B) + n \in DOMAIN added /\ Len(B) + n \notin DOMAIN B
  BY <1>5, <1>6
<1>12. ASSUME NEW c \in Due(image, k)
       PROVE  \E n \in DOMAIN added :
                 \A m \in DOMAIN added : added[m].claim = c <=> m = n
  <2>1. PICK n \in DOMAIN A : \A m \in DOMAIN A : A[m].claim = c <=> m = n
    BY <1>1 DEF AttestationsFit
  <2>2. Len(B) + n \in DOMAIN added /\ added[Len(B) + n].claim = c
    BY <1>6, <1>11, <2>1
  <2>3. ASSUME NEW m \in DOMAIN added, added[m].claim = c
        PROVE  m = Len(B) + n
    BY <1>7, <1>8, <1>9, <2>1, <2>3
  <2> QED
    BY <2>2, <2>3
<1>13. ASSUME NEW c \in Streamless(image, k)
       PROVE  \E p, place : StreamAt(added, image, c, p, place)
  <2>1. PICK p, place : StreamAt(B, image, c, p, place)
    BY <1>1 DEF BackfillsFit
  <2>2. /\ p \in DOMAIN added /\ added[p] = ProposalEntry(image, c)
        /\ \A i \in DecisionsOf(image, c) :
              /\ place[i] \in DOMAIN added
              /\ added[place[i]] = DecisionEntry(image, i)
              /\ p < place[i]
        /\ \A i, j \in DecisionsOf(image, c) : i < j => place[i] < place[j]
    BY <1>6, <1>10, <2>1 DEF StreamAt
  <2>3. ASSUME NEW n \in DOMAIN added, added[n].claim = c
        PROVE  n = p \/ \E i \in DecisionsOf(image, c) : n = place[i]
    <3>1. n \in DOMAIN B /\ B[n].claim = c
      BY <1>7, <1>8, <1>9, <2>3
    <3> QED
      BY <2>1, <3>1 DEF StreamAt
  <2>4. StreamAt(added, image, c, p, place)
    BY <2>2, <2>3 DEF StreamAt
  <2> QED
    BY <2>4
<1>14. \A n \in DOMAIN added :
           \/ added[n].claim \in Streamless(image, k)
           \/ /\ added[n].claim \in Due(image, k)
              /\ added[n] = AttestationEntry(image, added[n].claim, at)
  BY <1>7, <1>8
<1> QED
  BY <1>6, <1>12, <1>13, <1>14 DEF AddsFit, added

SameTables(old, new) ==
    /\ new.claims = old.claims
    /\ new.evidence = old.evidence
    /\ new.decisions = old.decisions

LEMMA MigratedFacts ==
    ASSUME NEW image, Shaped(image), NEW k, NEW at, NEW new,
           new = Migrated(image, k, at)
    PROVE  /\ Shaped(new)
           /\ SameTables(image, new)
           /\ Grown(image, new, MigrationAdds(image, k, at))
<1> DEFINE L == image.ledger
           B == Backfills(image, k)
           A == AttestationsDue(image, k, at)
<1>1. new = [image EXCEPT !.ledger = L \o B \o A]
  BY DEF Migrated
<1>2. IsImage(new) /\ SameTables(image, new) /\ new.ledger = L \o B \o A
  BY <1>1 DEF Shaped, IsImage, SameTables
<1>3. IsLedger(L) /\ IsLedger(B) /\ IsLedger(A)
  <2>1. BackfillsFit(B, image, k) /\ AttestationsFit(A, image, k, at)
    BY BackfillFacts, AttestationFacts
  <2> QED
    BY <2>1 DEF Shaped, BackfillsFit, AttestationsFit
<1>4. MigrationAdds(image, k, at) = B \o A
  BY DEF MigrationAdds
<1> HIDE DEF L, B, A
<1>5. PICK S, T, U : L \in Seq(S) /\ B \in Seq(T) /\ A \in Seq(U)
  <2>1. /\ \E S : L \in Seq(S)
        /\ \E S : B \in Seq(S)
        /\ \E S : A \in Seq(S)
    BY <1>3, LedgerFacts
  <2> QED
    BY <2>1
<1>6. PICK V : V = S \cup T \cup U
  OBVIOUS
<1>7. L \in Seq(V) /\ B \in Seq(V) /\ A \in Seq(V)
  BY <1>5, <1>6, SeqMonotonic
<1>8. L \o B \o A = L \o (B \o A)
  BY <1>7, ConcatAssociative
<1>9. B \o A \in Seq(V)
  BY <1>7
<1> DEFINE added == B \o A
           joined == L \o added
<1>10. IsLedger(added)
  BY <1>9, SequencesAreLedgers
<1>11. new.ledger = joined
  BY <1>2, <1>8
<1>12. IsJoin(joined, L, added)
  <2>1. joined = L \o added
    OBVIOUS
  <2> HIDE DEF joined, added
  <2> QED
    BY <1>3, <1>10, <2>1, JoinedLedger
<1> HIDE DEF joined
<1>13. Grown(image, new, MigrationAdds(image, k, at))
  BY <1>4, <1>11, <1>12 DEF Grown, L
<1>14. IsLedger(new.ledger)
  BY <1>11, <1>12 DEF IsJoin
<1>15. Existing(new) = Existing(image) /\ IsLedger(new.decisions)
  BY <1>2 DEF Existing, HasRow, SameTables, Shaped
<1> QED
  BY <1>2, <1>13, <1>14, <1>15 DEF Shaped

LEMMA MaterialIsThere ==
    ASSUME NEW image, NEW c
    PROVE  MaterialOf(image, c) # NoMaterial
<1>1. "created" \in DOMAIN MaterialOf(image, c) /\ "created" \notin DOMAIN NoMaterial
  BY DEF MaterialOf, NoMaterial
<1> QED
  BY <1>1

(* A ledger that has grown by nothing that counts for c. *)
LEMMA QuietEntries ==
    ASSUME NEW old, Shaped(old), NEW added, IsLedger(added), NEW new,
           Grown(old, new, added), NEW c,
           AddedAbout(added, c, "claim.proposed") = {},
           AddedAbout(added, c, "claim.evidence_added") = {},
           AddedAbout(added, c, "claim.governance_decided") = {}
    PROVE  SameEntries(old, new, c)
<1>0. IsLedger(old.ledger)
  BY DEF Shaped
<1>1. /\ Proposals(new, c) = Proposals(old, c)
      /\ Additions(new, c) = Additions(old, c)
      /\ DecidedEntries(new, c) = DecidedEntries(old, c)
  <2>1. ASSUME NEW event, AddedAbout(added, c, event) = {}
        PROVE  EntriesOf(new, c, event) = EntriesOf(old, c, event)
    BY <1>0, <2>1, GrownQuietly
  <2> QED
    BY <2>1 DEF Proposals, Additions, DecidedEntries
<1>2. \A n \in Proposals(old, c) \cup Additions(old, c) \cup DecidedEntries(old, c) :
          new.ledger[n] = old.ledger[n]
  BY <1>0, OldEntriesStay DEF Proposals, Additions, DecidedEntries
<1>3. Len(old.ledger) <= Len(new.ledger)
  <2>1. LedgersMeet(old, new, added)
    BY <1>0, GrownFacts
  <2> QED
    BY <2>1 DEF LedgersMeet
<1> QED
  BY <1>1, <1>2, <1>3 DEF SameEntries

LEMMA QuietAttestations ==
    ASSUME NEW old, Shaped(old), NEW added, IsLedger(added), NEW new,
           Grown(old, new, added), NEW c,
           AddedAbout(added, c, "claim.material_attested") = {}
    PROVE  SameAttestations(old, new, c)
<1>0. IsLedger(old.ledger)
  BY DEF Shaped
<1>1. Attestations(new, c) = Attestations(old, c)
  <2>1. ASSUME NEW event, AddedAbout(added, c, event) = {}
        PROVE  EntriesOf(new, c, event) = EntriesOf(old, c, event)
    BY <1>0, <2>1, GrownQuietly
  <2> QED
    BY <2>1 DEF Attestations
<1>2. \A n \in Attestations(old, c) : new.ledger[n] = old.ledger[n]
  BY <1>0, OldEntriesStay DEF Attestations
<1> QED
  BY <1>1, <1>2 DEF SameAttestations

LEMMA TablesGiveRows ==
    ASSUME NEW old, NEW new, SameTables(old, new), NEW c
    PROVE  SameRows(old, new, c)
  BY DEF SameTables, SameRows, DecisionsOf, EvidenceIn

(* Digests since the proposal: what preflight calls v2 has its material. *)
LEMMA BoundByProposal ==
    ASSUME NEW image, Shaped(image), NEW c, OneProposal(image, c),
           EvidenceEntriesHold(image, c), CheckpointsHold(image, c, TRUE),
           Attestations(image, c) = {}
    PROVE  MaterialHolds(image, c) /\ Checkpoints(image, c) # {}
<1>1. PICK p : Proposals(image, c) = {p} /\ Max(Proposals(image, c)) = p
  BY TheProposal
<1>2. \A n \in Proposals(image, c) \cup Additions(image, c) :
          /\ AccumulatedAt(image, c, n) \subseteq EvidenceIn(image, c)
          /\ Carries(image, n)
          /\ image.ledger[n].material =
                 [created |-> image.claims[c].created,
                  refs    |-> AccumulatedAt(image, c, n)]
  BY DEF CheckpointsHold
<1>3. Checkpoints(image, c) = {p} \cup Additions(image, c)
  BY <1>1, <1>2 DEF Checkpoints
<1>4. /\ Checkpoints(image, c) \in SUBSET (0 .. Len(image.ledger))
      /\ Len(image.ledger) \in Nat
  BY Positions DEF Checkpoints
<1> DEFINE last == Max(Checkpoints(image, c))
<1>5. last \in Checkpoints(image, c) /\ \A n \in Checkpoints(image, c) : n <= last
  BY <1>3, <1>4, MaxFacts
<1>6. AccumulatedAt(image, c, last) = EvidenceIn(image, c)
  <2>1. \A a \in Additions(image, c) : a <= last
    BY <1>3, <1>5
  <2> HIDE DEF last
  <2> QED
    BY <2>1, AllAccumulated DEF EvidenceEntriesHold, EvidenceIsLedgered
<1>7. image.ledger[last].material = MaterialOf(image, c)
  BY <1>1, <1>2, <1>3, <1>5, <1>6 DEF MaterialOf
<1>8. BoundOnce(image, c) /\ OldAdditionsAreAttested(image, c)
  BY <1>1, <1>2 DEF BoundOnce, OldAdditionsAreAttested
<1>9. \A n \in Checkpoints(image, c) :
          /\ image.ledger[n].material =
                 [created |-> image.claims[c].created,
                  refs    |-> AccumulatedAt(image, c, n)]
          /\ AccumulatedAt(image, c, n) \subseteq EvidenceIn(image, c)
  BY <1>1, <1>2, <1>3
<1> QED
  BY <1>3, <1>7, <1>8, <1>9 DEF MaterialHolds

(* Digests in an attestation behind everything else. *)
LEMMA BoundByAttestation ==
    ASSUME NEW image, Shaped(image), NEW c, OneProposal(image, c),
           EvidenceEntriesHold(image, c), CheckpointsHold(image, c, FALSE),
           NEW a, Attestations(image, c) = {a},
           image.ledger[a].material = MaterialOf(image, c),
           \A n \in Proposals(image, c) \cup Additions(image, c) : n < a,
           ~Carries(image, Max(Proposals(image, c)))
    PROVE  MaterialHolds(image, c) /\ Checkpoints(image, c) # {}
<1>1. PICK p : Proposals(image, c) = {p} /\ Max(Proposals(image, c)) = p
  BY TheProposal
<1>2. a \in Checkpoints(image, c)
  BY MaterialIsThere DEF Checkpoints, Carries
<1>3. /\ Checkpoints(image, c) \in SUBSET (0 .. Len(image.ledger))
      /\ Len(image.ledger) \in Nat
  BY Positions DEF Checkpoints
<1>4. \A n \in Checkpoints(image, c) : n = a \/ n < a
  BY DEF Checkpoints
<1>5. Max(Checkpoints(image, c)) = a
  <2>1. \A n \in Checkpoints(image, c) : n <= a
    BY <1>2, <1>3, <1>4
  <2> QED
    BY <1>2, <1>3, <2>1, GreatestIsMax
<1>6. AccumulatedAt(image, c, a) = EvidenceIn(image, c)
  <2>1. \A n \in Additions(image, c) : n <= a
    <3>1. Additions(image, c) \subseteq 1 .. Len(image.ledger) /\ a \in Nat
      BY <1>2, <1>3, Positions
    <3> QED
      BY <3>1
  <2> QED
    BY <2>1, AllAccumulated DEF EvidenceEntriesHold, EvidenceIsLedgered
<1>7. ASSUME NEW n \in Checkpoints(image, c)
      PROVE  /\ image.ledger[n].material =
                    [created |-> image.claims[c].created,
                     refs    |-> AccumulatedAt(image, c, n)]
             /\ AccumulatedAt(image, c, n) \subseteq EvidenceIn(image, c)
  <2>1. CASE n = a
    BY <1>6, <2>1 DEF MaterialOf
  <2>2. CASE n # a
    <3>1. n \in Proposals(image, c) \cup Additions(image, c) /\ Carries(image, n)
      BY <2>2 DEF Checkpoints
    <3> QED
      BY <3>1 DEF CheckpointsHold
  <2> QED
    BY <2>1, <2>2
<1>8. BoundOnce(image, c)
  BY <1>1 DEF BoundOnce
<1>9. OldAdditionsAreAttested(image, c)
  BY DEF OldAdditionsAreAttested
<1> QED
  BY <1>2, <1>5, <1>7, <1>8, <1>9 DEF MaterialHolds

(* What preflight asks of the decisions, the stream and the material of c. *)
ReadyClaim(image, k, c) ==
    /\ DecisionsHold(image, c)
    /\ StreamHolds(image, c)
    /\ MaterialIsBindable(image, k, c)

LEMMA SameCheckpoints ==
    ASSUME NEW old, NEW new, NEW c, SameEntries(old, new, c),
           SameRows(old, new, c), EvidenceEntriesHold(new, c),
           CheckpointsHold(old, c, FALSE)
    PROVE  CheckpointsHold(new, c, FALSE)
<1>1. \A n : AccumulatedAt(new, c, n) = AccumulatedAt(old, c, n)
  BY SameAccumulated
<1>2. /\ Proposals(new, c) = Proposals(old, c)
      /\ Additions(new, c) = Additions(old, c)
      /\ \A n \in Proposals(old, c) \cup Additions(old, c) :
            new.ledger[n] = old.ledger[n]
      /\ new.claims[c] = old.claims[c]
      /\ EvidenceIn(new, c) = EvidenceIn(old, c)
  BY DEF SameEntries, SameRows
<1> QED
  BY <1>1, <1>2 DEF CheckpointsHold, Carries, EvidenceEntriesHold

(* A claim with a history. *)
LEMMA ToldReplays ==
    ASSUME NEW image, Shaped(image), NEW k, NEW at, NEW c \in Existing(image),
           HasHistory(image, c), ReadyClaim(image, k, c), NEW new,
           new = Migrated(image, k, at)
    PROVE  Whole(new, c)
<1> DEFINE added == MigrationAdds(image, k, at)
           L == Len(image.ledger)
<1>1. Shaped(new) /\ SameTables(image, new) /\ Grown(image, new, added)
  BY MigratedFacts
<1>2. AddsFit(added, image, k, at)
  BY AddedEntries
<1> HIDE DEF added
<1>3. IsLedger(added) /\ IsLedger(image.ledger)
  BY <1>2 DEF AddsFit, Shaped
<1>4. \A n \in DOMAIN added :
          added[n].claim = c => /\ c \in Due(image, k)
                                /\ added[n].event = "claim.material_attested"
                                /\ added[n].material = MaterialOf(image, c)
  BY <1>2 DEF AddsFit, Streamless, AttestationEntry
<1>5. SameEntries(image, new, c)
  <2>1. /\ AddedAbout(added, c, "claim.proposed") = {}
        /\ AddedAbout(added, c, "claim.evidence_added") = {}
        /\ AddedAbout(added, c, "claim.governance_decided") = {}
    BY <1>4 DEF AddedAbout
  <2> QED
    BY <1>1, <1>3, <2>1, QuietEntries
<1>6. SameRows(image, new, c)
  BY <1>1, TablesGiveRows
<1>7. /\ DecisionEntriesHold(image, c) /\ EvidenceEntriesHold(image, c)
      /\ DecisionsHold(image, c) /\ UpdatedAtReplays(image, c)
  BY DEF ReadyClaim, StreamHolds
<1>8. DecisionEntriesHold(new, c)
  BY <1>1, <1>5, <1>6, <1>7, SameDecisionEntries
<1>9. EvidenceEntriesHold(new, c) /\ DecisionsHold(new, c)
  BY <1>1, <1>5, <1>6, <1>7, SameEvidenceEntries, SameDecisions
<1>10. UpdatedAtReplays(new, c)
  <2>1. /\ KeysAreNumbers(image, c) /\ InRowOrder(image, c)
        /\ KeysAreNumbers(new, c) /\ InRowOrder(new, c)
    BY <1>1, <1>7, <1>8, WholeInOrder
  <2> QED
    BY <1>1, <1>6, <1>7, <2>1, SameUpdated
<1>11. OneProposal(image, c) /\ OneProposal(new, c)
  BY <1>7, <1>8 DEF DecisionEntriesHold
<1>12. MaterialAction(image, k, c) \in {"v2", "attest"}
  <2>1. Cardinality(Proposals(image, c)) = 1 /\ Cardinality({}) = 0
    BY <1>11, FS_EmptySet DEF OneProposal
  <2> QED
    BY <2>1 DEF ReadyClaim, MaterialIsBindable, MaterialAction
<1>13. Attestations(image, c) = {}
  <2>1. Cardinality(Proposals(image, c)) = 1 /\ Cardinality({}) = 0
    BY <1>11, FS_EmptySet DEF OneProposal
  <2> QED
    BY <1>12, <2>1 DEF MaterialAction
<1>14. CASE MaterialAction(image, k, c) = "v2"
  <2>1. CheckpointsHold(image, c, TRUE)
    BY <1>14 DEF ReadyClaim, MaterialIsBindable
  <2>2. MaterialHolds(image, c) /\ Checkpoints(image, c) # {}
    BY <1>7, <1>11, <1>13, <2>1, BoundByProposal
  <2>3. AddedAbout(added, c, "claim.material_attested") = {}
    BY <1>4, <1>14 DEF AddedAbout, Due
  <2>4. SameAttestations(image, new, c)
    BY <1>1, <1>3, <2>3, QuietAttestations
  <2>5. MaterialHolds(new, c) /\ Checkpoints(new, c) # {}
    <3>1. SameBasis(image, new, c)
      BY <1>5, <1>6, <2>4 DEF SameEntries, SameRows, SameBasis
    <3> QED
      BY <1>11, <2>2, <3>1, SameMaterial
  <2> QED
    BY <1>8, <1>9, <1>10, <2>5 DEF Whole, Told
<1>15. CASE MaterialAction(image, k, c) = "attest"
  <2>1. CheckpointsHold(image, c, FALSE)
    BY <1>15 DEF ReadyClaim, MaterialIsBindable
  <2>2. CheckpointsHold(new, c, FALSE)
    BY <1>5, <1>6, <1>9, <2>1, SameCheckpoints
  <2>3. c \in Due(image, k)
    BY <1>15 DEF Due
  <2>4. PICK n \in DOMAIN added : \A m \in DOMAIN added : added[m].claim = c <=> m = n
    BY <1>2, <2>3 DEF AddsFit
  <2>5. AddedAbout(added, c, "claim.material_attested") = {n}
    BY <1>4, <2>4 DEF AddedAbout
  <2>6. Attestations(new, c) = {L + n}
    <3>1. EntriesOf(new, c, "claim.material_attested")
            = EntriesOf(image, c, "claim.material_attested") \cup {L + n}
      <4>1. ASSUME NEW event, AddedAbout(added, c, event) = {n}
            PROVE  EntriesOf(new, c, event)
                     = EntriesOf(image, c, event) \cup {L + n}
        <5>1. EntriesMeet(image, new, added, c, event)
          BY <1>1, <1>3, GrownEntries
        <5> QED
          BY <4>1, <5>1 DEF EntriesMeet
      <4> QED
        BY <2>5, <4>1
    <3> QED
      BY <1>13, <3>1 DEF Attestations
  <2>7. LedgersMeet(image, new, added)
    BY <1>1, <1>3, GrownFacts
  <2>8. new.ledger[L + n] = added[n] /\ n \in 1 .. Len(added) /\ L \in Nat
        /\ Len(added) \in Nat
    BY <2>7 DEF LedgersMeet
  <2>9. new.ledger[L + n].material = MaterialOf(new, c)
    <3>1. added[n].material = MaterialOf(image, c)
      BY <1>4, <2>4
    <3>2. MaterialOf(new, c) = MaterialOf(image, c)
      BY <1>6 DEF SameRows, MaterialOf
    <3> QED
      BY <2>8, <3>1, <3>2
  <2>10. \A m \in Proposals(new, c) \cup Additions(new, c) : m < L + n
    <3>1. Proposals(image, c) \cup Additions(image, c) \subseteq 1 .. L
      BY Positions
    <3>2. Proposals(new, c) \cup Additions(new, c) \subseteq 1 .. L
      BY <1>5, <3>1 DEF SameEntries
    <3> QED
      BY <2>8, <3>2
  <2>11. ~Carries(new, Max(Proposals(new, c)))
    <3>1. PICK p : Proposals(image, c) = {p} /\ Max(Proposals(image, c)) = p
      BY <1>11, TheProposal
    <3>2. ~Carries(image, p)
      BY <1>15, <3>1 DEF MaterialAction
    <3>3. Max(Proposals(new, c)) = p /\ new.ledger[p] = image.ledger[p]
      BY <1>5, <3>1 DEF SameEntries
    <3> QED
      BY <3>2, <3>3 DEF Carries
  <2>12. MaterialHolds(new, c) /\ Checkpoints(new, c) # {}
    <3> HIDE DEF L
    <3> QED
      BY <1>1, <1>9, <1>11, <2>2, <2>6, <2>9, <2>10, <2>11, BoundByAttestation
  <2> QED
    BY <1>8, <1>9, <1>10, <2>12 DEF Whole, Told
<1> QED
  BY <1>12, <1>14, <1>15

(* The entries about c when it had none before. *)
StreamIs(old, new, c, p, place) ==
    /\ p \in 1 .. Len(new.ledger)
    /\ Proposals(new, c) = {p}
    /\ Additions(new, c) = {} /\ Attestations(new, c) = {}
    /\ new.ledger[p] = ProposalEntry(old, c)
    /\ \A n : n \in DecidedEntries(new, c) <=>
                 \E i \in DecisionsOf(old, c) : n = place[i]
    /\ \A i \in DecisionsOf(old, c) :
          /\ place[i] \in 1 .. Len(new.ledger)
          /\ new.ledger[place[i]] = DecisionEntry(old, i)
          /\ p < place[i]
    /\ \A i, j \in DecisionsOf(old, c) : i < j => place[i] < place[j]

LEMMA StreamEntries ==
    ASSUME NEW old, Shaped(old), NEW added, IsLedger(added), NEW new,
           Grown(old, new, added), NEW c, StreamOf(old, c) = {},
           NEW p, NEW place, StreamAt(added, old, c, p, place)
    PROVE  \E q, there : StreamIs(old, new, c, q, there)
<1> DEFINE L == Len(old.ledger)
           rows == DecisionsOf(old, c)
           q == L + p
           there == [i \in rows |-> L + place[i]]
<1>1. LedgersMeet(old, new, added)
  BY GrownFacts DEF Shaped
<1>2. L \in Nat /\ Len(added) \in Nat /\ DOMAIN added = 1 .. Len(added)
      /\ Len(new.ledger) = L + Len(added)
  BY <1>1 DEF LedgersMeet
<1>3. p \in 1 .. Len(added) /\ \A i \in rows : place[i] \in 1 .. Len(added)
  BY <1>2 DEF StreamAt
<1>4. /\ new.ledger[L + p] = ProposalEntry(old, c)
      /\ \A i \in rows : new.ledger[L + place[i]] = DecisionEntry(old, i)
  <2>1. \A n \in 1 .. Len(added) : new.ledger[L + n] = added[n]
    BY <1>1 DEF LedgersMeet
  <2> QED
    BY <1>3, <2>1 DEF StreamAt
<1>5. ASSUME NEW event
      PROVE  \A n : n \in EntriesOf(new, c, event) <=>
                \/ n = L + p /\ event = "claim.proposed"
                \/ event = "claim.governance_decided" /\ \E i \in rows : n = L + place[i]
  <2>1. EntriesOf(old, c, event) = {}
    BY DEF EntriesOf, StreamOf
  <2>2. EntriesMeet(old, new, added, c, event)
    BY GrownEntries DEF Shaped
  <2>3. \A m : m \in AddedAbout(added, c, event) <=>
                \/ m = p /\ event = "claim.proposed"
                \/ event = "claim.governance_decided" /\ \E i \in rows : m = place[i]
    <3>1. \A i \in rows : old.decisions[i].claim = c
      BY DEF DecisionsOf
    <3>2. added[p].claim = c /\ added[p].event = "claim.proposed"
      BY DEF StreamAt, ProposalEntry
    <3>3. \A i \in rows : /\ added[place[i]].claim = c
                          /\ added[place[i]].event = "claim.governance_decided"
      <4>1. \A i \in rows : added[place[i]] = DecisionEntry(old, i)
        BY DEF StreamAt
      <4>2. \A i \in rows :
                /\ DecisionEntry(old, i).claim = old.decisions[i].claim
                /\ DecisionEntry(old, i).event = "claim.governance_decided"
        BY DEF DecisionEntry
      <4> HIDE DEF rows
      <4> QED
        BY <3>1, <4>1, <4>2
    <3>4. \A m \in DOMAIN added :
              added[m].claim = c => m = p \/ \E i \in rows : m = place[i]
      BY DEF StreamAt
    <3>5. p \in DOMAIN added /\ \A i \in rows : place[i] \in DOMAIN added
      BY DEF StreamAt
    <3> HIDE DEF rows
    <3> QED
      BY <3>2, <3>3, <3>4, <3>5 DEF AddedAbout
  <2> HIDE DEF rows, L
  <2> QED
    BY <2>1, <2>2, <2>3 DEF EntriesMeet, L
<1>6. Proposals(new, c) = {q}
  BY <1>5 DEF Proposals
<1>7. Additions(new, c) = {} /\ Attestations(new, c) = {}
  BY <1>5 DEF Additions, Attestations
<1>8. \A n : n \in DecidedEntries(new, c) <=> \E i \in rows : n = there[i]
  BY <1>5 DEF DecidedEntries
<1>9. q \in 1 .. Len(new.ledger)
      /\ \A i \in rows : there[i] \in 1 .. Len(new.ledger) /\ q < there[i]
  BY <1>2, <1>3 DEF StreamAt
<1>10. \A i, j \in rows : i < j => there[i] < there[j]
  BY <1>2, <1>3 DEF StreamAt
<1>11. new.ledger[q] = ProposalEntry(old, c)
       /\ \A i \in rows : new.ledger[there[i]] = DecisionEntry(old, i)
  BY <1>4
<1>12. StreamIs(old, new, c, q, there)
  <2> HIDE DEF q, there
  <2> QED
    BY <1>6, <1>7, <1>8, <1>9, <1>10, <1>11 DEF StreamIs
<1> QED
  BY <1>12

StreamRows(new, c, p, place) ==
    /\ p \in 1 .. Len(new.ledger)
    /\ Proposals(new, c) = {p}
    /\ \A i \in DecisionsOf(new, c) :
          /\ EntriesNaming(new, c, i) = {place[i]}
          /\ ReplayKey(new, c, i) = place[i]
          /\ new.ledger[place[i]] = DecisionEntry(new, i)
          /\ place[i] \in 1 .. Len(new.ledger)

LEMMA StreamReplays ==
    ASSUME NEW old, NEW new, Shaped(new), SameTables(old, new), NEW c,
           NEW p, NEW place, StreamIs(old, new, c, p, place)
    PROVE  DecisionEntriesHold(new, c) /\ StreamRows(new, c, p, place)
<1> DEFINE rows == DecisionsOf(new, c)
<1>1. DecisionsOf(old, c) = rows /\ new.decisions = old.decisions
  BY DEF SameTables, DecisionsOf
<1>2. /\ Proposals(new, c) = {p} /\ p \in 1 .. Len(new.ledger)
      /\ \A n : n \in DecidedEntries(new, c) <=> \E i \in rows : n = place[i]
      /\ \A i \in rows : place[i] \in 1 .. Len(new.ledger) /\ p < place[i]
      /\ \A i, j \in rows : i < j => place[i] < place[j]
  BY <1>1 DEF StreamIs
<1>3. \A i \in rows : new.ledger[place[i]] = DecisionEntry(new, i)
  BY <1>1 DEF StreamIs, DecisionEntry
<1>4. \A i \in rows : /\ new.ledger[place[i]].decision = i
                      /\ new.ledger[place[i]].from = new.decisions[i].from
                      /\ new.ledger[place[i]].to = new.decisions[i].to
                      /\ new.ledger[place[i]].at = new.decisions[i].at
  <2>1. \A i \in rows : /\ DecisionEntry(new, i).decision = i
                        /\ DecisionEntry(new, i).from = new.decisions[i].from
                        /\ DecisionEntry(new, i).to = new.decisions[i].to
                        /\ DecisionEntry(new, i).at = new.decisions[i].at
    BY DEF DecisionEntry
  <2> HIDE DEF rows
  <2> QED
    BY <1>3, <2>1
<1> HIDE DEF rows
<1>5. \A i \in rows : EntriesNaming(new, c, i) = {place[i]}
  BY <1>2, <1>4 DEF EntriesNaming
<1>6. \A i \in rows : ReplayKey(new, c, i) = place[i]
  <2>1. ASSUME NEW i \in rows, NEW n, n = place[i]
        PROVE  ReplayKey(new, c, i) = n
    <3>1. EntriesNaming(new, c, i) = {n}
      BY <1>5, <2>1
    <3> QED
      BY <3>1, NamedKey
  <2> QED
    BY <2>1
<1>7. OneProposal(new, c)
  BY <1>2, FS_Singleton DEF OneProposal
<1>8. ProposalComesFirst(new, c)
  BY <1>2 DEF ProposalComesFirst
<1>9. DecisionsAreLedgered(new, c)
  <2>1. DOMAIN new.ledger = 1 .. Len(new.ledger)
    BY Positions
  <2> QED
    BY <1>2, <1>4, <1>5, <2>1 DEF DecisionsAreLedgered, rows
<1>10. NoOrphanEntry(new, c)
  BY <1>2, <1>4 DEF NoOrphanEntry, rows
<1>11. \A i, j \in rows : i < j => ReplayKey(new, c, i) < ReplayKey(new, c, j)
  BY <1>2, <1>6
<1>12. DecisionEntriesHold(new, c)
  BY <1>7, <1>8, <1>9, <1>10, <1>11 DEF DecisionEntriesHold, rows
<1>13. StreamRows(new, c, p, place)
  BY <1>2, <1>3, <1>5, <1>6 DEF StreamRows, rows
<1> QED
  BY <1>12, <1>13

(* A claim that gets its history. *)
LEMMA BackfilledReplays ==
    ASSUME NEW image, Shaped(image), NEW k, NEW at, NEW c \in Existing(image),
           k = "V02", ~HasHistory(image, c), ReadyClaim(image, k, c), NEW new,
           new = Migrated(image, k, at)
    PROVE  Whole(new, c)
<1> DEFINE added == MigrationAdds(image, k, at)
<1>1. Shaped(new) /\ SameTables(image, new) /\ Grown(image, new, added)
  BY MigratedFacts
<1>2. AddsFit(added, image, k, at)
  BY AddedEntries
<1> HIDE DEF added
<1>3. IsLedger(added)
  BY <1>2 DEF AddsFit
<1>4. StreamOf(image, c) = {} /\ UpdatedAtReplays(image, c) /\ DecisionsHold(image, c)
  BY DEF ReadyClaim, StreamHolds
<1>5. c \in Streamless(image, k)
  BY DEF Streamless
<1>6. \E p, place : StreamAt(added, image, c, p, place)
  BY <1>2, <1>5 DEF AddsFit
<1>7. PICK p, place : StreamIs(image, new, c, p, place)
  BY <1>1, <1>3, <1>4, <1>6, StreamEntries
<1>8. DecisionEntriesHold(new, c)
  BY <1>1, <1>7, StreamReplays
<1>9. SameRows(image, new, c)
  BY <1>1, TablesGiveRows
<1>10. /\ Proposals(new, c) = {p} /\ Additions(new, c) = {}
       /\ Attestations(new, c) = {} /\ new.ledger[p] = ProposalEntry(image, c)
  BY <1>7 DEF StreamIs
<1>11. /\ new.ledger[p].refs = EvidenceIn(new, c)
       /\ new.ledger[p].material = MaterialOf(new, c)
  <2>1. /\ ProposalEntry(image, c).refs = EvidenceIn(image, c)
        /\ ProposalEntry(image, c).material = MaterialOf(image, c)
    BY DEF ProposalEntry
  <2>2. EvidenceIn(new, c) = EvidenceIn(image, c)
        /\ MaterialOf(new, c) = MaterialOf(image, c)
    BY <1>9 DEF SameRows, MaterialOf
  <2> QED
    BY <1>10, <2>1, <2>2
<1>12. \A n : AccumulatedAt(new, c, n) = EvidenceIn(new, c)
  <2> TAKE n
  <2>1. \A e : e \in AccumulatedAt(new, c, n) <=> e \in EvidenceIn(new, c)
    BY <1>10, <1>11, AccumulatedIs
  <2> QED
    BY <2>1
<1>13. NoDuplicateEvidence(new, c) /\ EvidenceIsLedgered(new, c)
  BY <1>10, <1>12 DEF NoDuplicateEvidence, EvidenceIsLedgered
<1>14. EvidenceEntriesHold(new, c)
  BY <1>10, <1>13 DEF EvidenceEntriesHold, AdditionsWhileReviewable
<1>15. DecisionsHold(new, c)
  BY <1>4, <1>9, SameDecisions
<1>16. UpdatedAtReplays(new, c)
  <2>1. KeysAreNumbers(new, c) /\ InRowOrder(new, c)
    BY <1>1, <1>8, WholeInOrder
  <2>2. \A i : EntriesNaming(image, c, i) = {}
    BY <1>4 DEF EntriesNaming, DecidedEntries, EntriesOf, StreamOf
  <2>3. \A i : ReplayKey(image, c, i) = Len(image.ledger) + i
    BY <2>2, UnnamedKey
  <2>4. /\ Len(image.ledger) \in Nat /\ Len(image.decisions) \in Nat
        /\ DecisionsOf(image, c) \subseteq 1 .. Len(image.decisions)
    BY Positions
  <2>5. KeysAreNumbers(image, c) /\ InRowOrder(image, c)
    BY <2>3, <2>4 DEF KeysAreNumbers, InRowOrder
  <2> QED
    BY <1>1, <1>4, <1>9, <2>1, <2>5, SameUpdated
<1>17. CheckpointsHold(new, c, TRUE)
  <2>1. Carries(new, p)
    BY <1>11, MaterialIsThere DEF Carries
  <2>2. MaterialOf(new, c) = [created |-> new.claims[c].created, refs |-> EvidenceIn(new, c)]
    BY DEF MaterialOf
  <2> QED
    BY <1>10, <1>11, <1>12, <1>13, <2>1, <2>2 DEF CheckpointsHold
<1>18. MaterialHolds(new, c) /\ Checkpoints(new, c) # {}
  <2>1. OneProposal(new, c)
    BY <1>8 DEF DecisionEntriesHold
  <2> QED
    BY <1>1, <1>10, <1>14, <1>17, <2>1, BoundByProposal
<1> QED
  BY <1>8, <1>14, <1>15, <1>16, <1>18 DEF Whole, Told

(* What preflight admits of the claims has its whole history behind the
   migration, whoever wrote the repository.                                  *)
LEMMA ReadyClaimsAreWhole ==
    ASSUME NEW image, Shaped(image), NEW k, NEW at, Ready(image, k), NEW new,
           new = Migrated(image, k, at), NEW c \in Existing(image)
    PROVE  Whole(new, c)
<1>1. ReadyClaim(image, k, c)
  BY DEF Ready, ReadyClaim
<1>2. CASE HasHistory(image, c)
  BY <1>1, <1>2, ToldReplays
<1>3. CASE ~HasHistory(image, c)
  <2>1. Proposals(image, c) = {} /\ Cardinality({}) = 0
    BY <1>3, FS_EmptySet DEF HasHistory
  <2>2. k = "V02"
    BY <1>1, <2>1 DEF ReadyClaim, MaterialIsBindable, MaterialAction
  <2> QED
    BY <1>1, <1>3, <2>2, BackfilledReplays
<1> QED
  BY <1>2, <1>3

(* What preflight admits of the claims, whoever wrote the repository and
   whatever the tables hold, the audit accepts behind the migration: postflight
   finds nothing.                                                            *)
THEOREM ReadyClaimsReplay ==
    ASSUME NEW image, Shaped(image), NEW k, NEW at, Ready(image, k)
    PROVE  AllValid(Migrated(image, k, at))
<1> DEFINE new == Migrated(image, k, at)
<1>1. Shaped(new) /\ SameTables(image, new)
  BY MigratedFacts
<1>2. \A c \in Existing(image) : Whole(new, c)
  BY ReadyClaimsAreWhole
<1> HIDE DEF new
<1>3. ASSUME NEW c \in ClaimIds, HasRow(new, c)
      PROVE  AuthorityValid(new, c)
  <2>1. c \in Existing(image)
    BY <1>1, <1>3 DEF SameTables, HasRow, Existing
  <2> QED
    BY <1>1, <1>2, <2>1, WholeIsValid
<1> QED
  BY <1>3 DEF AllValid, new
-----------------------------------------------------------------------------
(* One entry more. *)

EntryAdded(old, new, entry) ==
    /\ Len(old.ledger) \in Nat
    /\ DOMAIN old.ledger = 1 .. Len(old.ledger)
    /\ Len(new.ledger) = Len(old.ledger) + 1
    /\ DOMAIN new.ledger = 1 .. Len(old.ledger) + 1
    /\ \A n \in 1 .. Len(old.ledger) : new.ledger[n] = old.ledger[n]
    /\ new.ledger[Len(old.ledger) + 1] = entry

LEMMA AppendAddsEntry ==
    ASSUME NEW old, IsLedger(old.ledger), NEW new, NEW entry,
           new.ledger = Append(old.ledger, entry)
    PROVE  EntryAdded(old, new, entry) /\ IsLedger(new.ledger)
<1>1. /\ IsLedger(new.ledger)
      /\ DOMAIN new.ledger = DOMAIN old.ledger \cup {Len(old.ledger) + 1}
      /\ \A n \in DOMAIN old.ledger : new.ledger[n] = old.ledger[n]
      /\ new.ledger[Len(old.ledger) + 1] = entry
  BY AppendedLedger
<1>2. /\ Len(old.ledger) \in Nat /\ DOMAIN old.ledger = 1 .. Len(old.ledger)
      /\ Len(new.ledger) \in Nat /\ DOMAIN new.ledger = 1 .. Len(new.ledger)
  BY <1>1, LedgerFacts
<1>3. DOMAIN new.ledger = 1 .. Len(old.ledger) + 1
  BY <1>1, <1>2
<1>4. Len(new.ledger) = Len(old.ledger) + 1
  <2>1. \A n : n \in 1 .. Len(new.ledger) <=> n \in 1 .. Len(old.ledger) + 1
    BY <1>2, <1>3
  <2>2. Len(old.ledger) + 1 \in 1 .. Len(new.ledger)
    BY <1>2, <2>1
  <2>3. Len(new.ledger) # 0 => Len(new.ledger) \in 1 .. Len(old.ledger) + 1
    BY <1>2, <2>1
  <2> QED
    BY <1>2, <2>2, <2>3
<1> QED
  BY <1>1, <1>2, <1>3, <1>4 DEF EntryAdded

(* The entries of one kind about c, with one more or as they were. *)
Joins(entry, c, event) == entry.claim = c /\ entry.event = event

LEMMA EntriesJoin ==
    ASSUME NEW old, NEW new, NEW entry, EntryAdded(old, new, entry), NEW c,
           NEW event
    PROVE  EntriesOf(new, c, event) =
               IF Joins(entry, c, event)
               THEN EntriesOf(old, c, event) \cup {Len(old.ledger) + 1}
               ELSE EntriesOf(old, c, event)
<1> DEFINE L == Len(old.ledger)
<1>1. /\ L \in Nat /\ DOMAIN old.ledger = 1 .. L /\ DOMAIN new.ledger = 1 .. L + 1
      /\ \A n \in 1 .. L : new.ledger[n] = old.ledger[n]
      /\ new.ledger[L + 1] = entry
  BY DEF EntryAdded
<1> HIDE DEF L
<1>2. \A n : n \in EntriesOf(new, c, event) <=>
                \/ n \in EntriesOf(old, c, event)
                \/ n = L + 1 /\ Joins(entry, c, event)
  <2>1. \A n : n \in 1 .. L + 1 <=> n \in 1 .. L \/ n = L + 1
    BY <1>1
  <2>2. L + 1 \notin 1 .. L
    BY <1>1
  <2> QED
    BY <1>1, <2>1, <2>2 DEF EntriesOf, Joins
<1> QED
  BY <1>2 DEF L

(* The events the audit of claims looks at. *)
ClaimEvents ==
    {"claim.proposed", "claim.evidence_added", "claim.governance_decided",
     "claim.material_attested"}

EntriesGrow(old, new, entry, c) ==
    LET more(event) ==
            IF Joins(entry, c, event) THEN {Len(old.ledger) + 1} ELSE {}
    IN  /\ Proposals(new, c) = Proposals(old, c) \cup more("claim.proposed")
        /\ Additions(new, c) = Additions(old, c) \cup more("claim.evidence_added")
        /\ DecidedEntries(new, c)
               = DecidedEntries(old, c) \cup more("claim.governance_decided")
        /\ Attestations(new, c)
               = Attestations(old, c) \cup more("claim.material_attested")
        /\ Len(new.ledger) = Len(old.ledger) + 1
        /\ new.ledger[Len(old.ledger) + 1] = entry
        /\ \A n \in Proposals(old, c) \cup Additions(old, c)
                      \cup DecidedEntries(old, c) \cup Attestations(old, c) :
               n \in 1 .. Len(old.ledger) /\ new.ledger[n] = old.ledger[n]

LEMMA EntriesGrowByOne ==
    ASSUME NEW old, NEW new, NEW entry, EntryAdded(old, new, entry), NEW c
    PROVE  EntriesGrow(old, new, entry, c)
<1>1. ASSUME NEW event
      PROVE  EntriesOf(new, c, event) =
                 EntriesOf(old, c, event) \cup
                     IF Joins(entry, c, event) THEN {Len(old.ledger) + 1} ELSE {}
  BY EntriesJoin
<1>2. ASSUME NEW event, NEW n \in EntriesOf(old, c, event)
      PROVE  n \in 1 .. Len(old.ledger) /\ new.ledger[n] = old.ledger[n]
  BY DEF EntryAdded, EntriesOf
<1>3. /\ Proposals(new, c) = Proposals(old, c) \cup
             IF Joins(entry, c, "claim.proposed") THEN {Len(old.ledger) + 1} ELSE {}
      /\ Additions(new, c) = Additions(old, c) \cup
             IF Joins(entry, c, "claim.evidence_added") THEN {Len(old.ledger) + 1} ELSE {}
  BY <1>1 DEF Proposals, Additions
<1>4. /\ DecidedEntries(new, c) = DecidedEntries(old, c) \cup
             IF Joins(entry, c, "claim.governance_decided") THEN {Len(old.ledger) + 1} ELSE {}
      /\ Attestations(new, c) = Attestations(old, c) \cup
             IF Joins(entry, c, "claim.material_attested") THEN {Len(old.ledger) + 1} ELSE {}
  BY <1>1 DEF DecidedEntries, Attestations
<1>5. \A n \in Proposals(old, c) \cup Additions(old, c)
                 \cup DecidedEntries(old, c) \cup Attestations(old, c) :
          n \in 1 .. Len(old.ledger) /\ new.ledger[n] = old.ledger[n]
  BY <1>2 DEF Proposals, Additions, DecidedEntries, Attestations
<1>6. Len(new.ledger) = Len(old.ledger) + 1
      /\ new.ledger[Len(old.ledger) + 1] = entry
  BY DEF EntryAdded
<1> QED
  BY <1>3, <1>4, <1>5, <1>6, Zenon DEF EntriesGrow

(* An entry that is not about c, or not of its audit. *)
LEMMA QuietEntry ==
    ASSUME NEW old, NEW new, NEW entry, EntryAdded(old, new, entry), NEW c,
           entry.claim = c => entry.event \notin ClaimEvents
    PROVE  SameEntries(old, new, c) /\ SameAttestations(old, new, c)
<1>1. EntriesGrow(old, new, entry, c)
  BY EntriesGrowByOne
<1>2. \A event \in ClaimEvents : ~Joins(entry, c, event)
  BY DEF Joins
<1>3. Len(old.ledger) \in Nat
  BY DEF EntryAdded
<1> QED
  BY <1>1, <1>2, <1>3
     DEF EntriesGrow, ClaimEvents, SameEntries, SameAttestations
-----------------------------------------------------------------------------
(* A claim that is proposed. *)

(* No row, entry or reference is about c. *)
Unheard(image, c) ==
    /\ DecisionsOf(image, c) = {}
    /\ EvidenceIn(image, c) = {}
    /\ Proposals(image, c) = {} /\ Additions(image, c) = {}
    /\ DecidedEntries(image, c) = {} /\ Attestations(image, c) = {}

IsNew(image, c) ==
    /\ DecisionsOf(image, c) = {}
    /\ StatusIn(image, c) = "PROPOSED"
    /\ image.claims[c].updated = image.claims[c].created

LEMMA NewRowReplays ==
    ASSUME NEW image, NEW c, IsNew(image, c)
    PROVE  DecisionsHold(image, c) /\ UpdatedAtReplays(image, c)
  BY DEF IsNew, DecisionsHold, UpdatedAtReplays, StatusByRows

LEMMA ProposedReplays ==
    ASSUME NEW old, NEW new, Shaped(new), NEW c, Unheard(old, c), IsNew(new, c),
           NEW entry, EntryAdded(old, new, entry),
           Joins(entry, c, "claim.proposed"), entry.refs = EvidenceIn(new, c)
    PROVE  /\ Told(new, c)
           /\ Proposals(new, c) = {Len(old.ledger) + 1}
           /\ Additions(new, c) = {} /\ Attestations(new, c) = {}
           /\ new.ledger[Len(old.ledger) + 1] = entry
           /\ \A n : AccumulatedAt(new, c, n) = EvidenceIn(new, c)
<1> DEFINE p == Len(old.ledger) + 1
<1>1. EntriesGrow(old, new, entry, c)
  BY EntriesGrowByOne
<1>2. /\ ~Joins(entry, c, "claim.evidence_added")
      /\ ~Joins(entry, c, "claim.governance_decided")
      /\ ~Joins(entry, c, "claim.material_attested")
  BY DEF Joins
<1>3. /\ Proposals(new, c) = {p} /\ Additions(new, c) = {}
      /\ DecidedEntries(new, c) = {} /\ Attestations(new, c) = {}
      /\ new.ledger[p] = entry
  BY <1>1, <1>2 DEF EntriesGrow, Unheard
<1> HIDE DEF p
<1>4. DecisionEntriesHold(new, c)
  <2>1. OneProposal(new, c)
    BY <1>3, FS_Singleton DEF OneProposal
  <2> QED
    BY <1>3, <2>1
       DEF DecisionEntriesHold, ProposalComesFirst, DecisionsAreLedgered,
           NoOrphanEntry, IsNew
<1>5. \A n : AccumulatedAt(new, c, n) = EvidenceIn(new, c)
  <2> TAKE n
  <2>1. \A e : e \in AccumulatedAt(new, c, n) <=> e \in EvidenceIn(new, c)
    BY <1>3, AccumulatedIs
  <2> QED
    BY <2>1
<1>6. EvidenceEntriesHold(new, c)
  BY <1>3, <1>5
     DEF EvidenceEntriesHold, AdditionsWhileReviewable, NoDuplicateEvidence,
         EvidenceIsLedgered
<1>7. Told(new, c)
  BY <1>4, <1>6, NewRowReplays DEF Told
<1> QED
  BY <1>3, <1>5, <1>7 DEF p

(* A proposal whose entry has digests, or has none. *)
LEMMA ProposedCheckpoints ==
    ASSUME NEW image, NEW c, NEW p, Proposals(image, c) = {p},
           Additions(image, c) = {},
           \A n : AccumulatedAt(image, c, n) = EvidenceIn(image, c)
    PROVE  /\ ~Carries(image, p) => CheckpointsHold(image, c, FALSE)
           /\ image.ledger[p].material = MaterialOf(image, c) =>
                 Carries(image, p) /\ CheckpointsHold(image, c, TRUE)
<1>1. NoDuplicateEvidence(image, c) /\ EvidenceIsLedgered(image, c)
  BY DEF NoDuplicateEvidence, EvidenceIsLedgered
<1>2. ~Carries(image, p) => CheckpointsHold(image, c, FALSE)
  BY <1>1 DEF CheckpointsHold
<1>3. ASSUME image.ledger[p].material = MaterialOf(image, c)
      PROVE  Carries(image, p) /\ CheckpointsHold(image, c, TRUE)
  <2>1. Carries(image, p)
    BY <1>3, MaterialIsThere DEF Carries
  <2> QED
    BY <1>1, <1>3, <2>1 DEF CheckpointsHold, MaterialOf
<1> QED
  BY <1>2, <1>3

LEMMA ProposedIsWhole ==
    ASSUME NEW old, NEW new, Shaped(new), NEW c, Unheard(old, c), IsNew(new, c),
           NEW entry, EntryAdded(old, new, entry),
           Joins(entry, c, "claim.proposed"), entry.refs = EvidenceIn(new, c),
           entry.material = MaterialOf(new, c)
    PROVE  Whole(new, c)
<1> DEFINE p == Len(old.ledger) + 1
<1>1. /\ Told(new, c) /\ Proposals(new, c) = {p} /\ Additions(new, c) = {}
      /\ Attestations(new, c) = {} /\ new.ledger[p] = entry
      /\ \A n : AccumulatedAt(new, c, n) = EvidenceIn(new, c)
  BY ProposedReplays
<1> HIDE DEF p
<1>2. CheckpointsHold(new, c, TRUE)
  BY <1>1, ProposedCheckpoints
<1>3. OneProposal(new, c) /\ EvidenceEntriesHold(new, c)
  BY <1>1 DEF Told, DecisionEntriesHold
<1>4. MaterialHolds(new, c) /\ Checkpoints(new, c) # {}
  BY <1>1, <1>2, <1>3, BoundByProposal
<1> QED
  BY <1>1, <1>4 DEF Whole
-----------------------------------------------------------------------------
(* A claim that is decided. *)

(* Decision row, status and update time of c, as one step writes them. *)
RowDecided(old, new, c, row) ==
    /\ new.decisions = Append(old.decisions, row)
    /\ row.claim = c
    /\ row.from = StatusIn(old, c)
    /\ row.to \in AllowedTransitions(StatusIn(old, c))
    /\ StatusIn(new, c) = row.to
    /\ new.claims[c].updated = row.at
    /\ new.claims[c].created = old.claims[c].created
    /\ EvidenceIn(new, c) = EvidenceIn(old, c)

RowsGrow(old, new, c) ==
    LET last == Len(old.decisions) + 1
    IN  /\ Len(old.decisions) \in Nat
        /\ DecisionsOf(old, c) \subseteq 1 .. Len(old.decisions)
        /\ DecisionsOf(new, c) = DecisionsOf(old, c) \cup {last}
        /\ \A i \in DecisionsOf(old, c) : new.decisions[i] = old.decisions[i]
        /\ Max(DecisionsOf(new, c)) = last

LEMMA RowsGrowByOne ==
    ASSUME NEW old, Shaped(old), NEW new, NEW c, NEW row, RowDecided(old, new, c, row)
    PROVE  RowsGrow(old, new, c) /\ new.decisions[Len(old.decisions) + 1] = row
<1> DEFINE N == Len(old.decisions)
<1>1. /\ DOMAIN new.decisions = DOMAIN old.decisions \cup {N + 1}
      /\ N + 1 \notin DOMAIN old.decisions
      /\ \A n \in DOMAIN old.decisions : new.decisions[n] = old.decisions[n]
      /\ new.decisions[N + 1] = row
  BY AppendedLedger DEF Shaped, RowDecided
<1>2. /\ N \in Nat /\ DecisionsOf(old, c) \subseteq 1 .. N
  BY Positions
<1> HIDE DEF N
<1>3. DecisionsOf(new, c) = DecisionsOf(old, c) \cup {N + 1}
  <2>1. row.claim = c
    BY DEF RowDecided
  <2>2. \A i : i \in DecisionsOf(new, c) <=> i \in DecisionsOf(old, c) \/ i = N + 1
    BY <1>1, <2>1 DEF DecisionsOf
  <2> QED
    BY <2>2
<1>4. \A i \in DecisionsOf(old, c) : new.decisions[i] = old.decisions[i]
  BY <1>1 DEF DecisionsOf
<1>5. Max(DecisionsOf(new, c)) = N + 1
  <2>1. /\ DecisionsOf(new, c) \in SUBSET (0 .. N + 1) /\ N + 1 \in Nat
        /\ N + 1 \in DecisionsOf(new, c)
        /\ \A i \in DecisionsOf(new, c) : i <= N + 1
    BY <1>2, <1>3
  <2> QED
    BY <2>1, GreatestIsMax
<1> QED
  BY <1>1, <1>2, <1>3, <1>4, <1>5 DEF RowsGrow, N

LEMMA DecidedRowsHold ==
    ASSUME NEW old, Shaped(old), NEW new, NEW c, NEW row,
           RowDecided(old, new, c, row), DecisionsHold(old, c)
    PROVE  DecisionsHold(new, c)
<1> DEFINE rows == DecisionsOf(old, c)
           N == Len(old.decisions)
<1>1. /\ N \in Nat /\ rows \subseteq 1 .. N
      /\ DecisionsOf(new, c) = rows \cup {N + 1}
      /\ \A i \in rows : new.decisions[i] = old.decisions[i]
      /\ Max(DecisionsOf(new, c)) = N + 1
      /\ new.decisions[N + 1] = row
  BY RowsGrowByOne DEF RowsGrow
<1> HIDE DEF N
<1>2. ASSUME NEW some \in SUBSET rows
      PROVE  StatusByRows(new, some) = StatusByRows(old, some)
  BY <1>1, RowsMaximum DEF StatusByRows
<1>3. \A i \in rows :
          /\ old.decisions[i].from = StatusByRows(old, {j \in rows : j < i})
          /\ old.decisions[i].to \in
                 AllowedTransitions(StatusByRows(old, {j \in rows : j < i}))
  BY DEF DecisionsHold
<1>4. StatusIn(old, c) = StatusByRows(old, rows)
  BY DEF DecisionsHold
<1> HIDE DEF rows
<1>5. ASSUME NEW i \in DecisionsOf(new, c)
      PROVE  LET current == StatusByRows(new, {j \in DecisionsOf(new, c) : j < i})
             IN  /\ new.decisions[i].from = current
                 /\ new.decisions[i].to \in AllowedTransitions(current)
  <2>1. CASE i \in rows
    <3> DEFINE earlier == {j \in rows : j < i}
    <3>1. {j \in DecisionsOf(new, c) : j < i} = earlier
      BY <1>1, <2>1
    <3>2. StatusByRows(new, earlier) = StatusByRows(old, earlier)
      BY <1>2
    <3>3. /\ old.decisions[i].from = StatusByRows(old, earlier)
          /\ old.decisions[i].to \in AllowedTransitions(StatusByRows(old, earlier))
      BY <1>3, <2>1
    <3> QED
      BY <1>1, <2>1, <3>1, <3>2, <3>3
  <2>2. CASE i = N + 1
    <3>1. {j \in DecisionsOf(new, c) : j < i} = rows
      BY <1>1, <2>2
    <3>2. StatusByRows(new, rows) = StatusIn(old, c)
      BY <1>2, <1>4
    <3> QED
      BY <1>1, <2>2, <3>1, <3>2 DEF RowDecided
  <2> QED
    BY <1>1, <2>1, <2>2
<1>6. StatusIn(new, c) = StatusByRows(new, DecisionsOf(new, c))
  BY <1>1 DEF StatusByRows, RowDecided
<1> QED
  BY <1>5, <1>6 DEF DecisionsHold

RowLedgered(entry, c, row, i) ==
    /\ Joins(entry, c, "claim.governance_decided")
    /\ entry.decision = i
    /\ entry.from = row.from
    /\ entry.to = row.to
    /\ entry.at = row.at

LEMMA DecidedEntriesHold ==
    ASSUME NEW old, Shaped(old), NEW new, Shaped(new), NEW c, NEW row,
           RowDecided(old, new, c, row), NEW entry, EntryAdded(old, new, entry),
           RowLedgered(entry, c, row, Len(old.decisions) + 1),
           DecisionEntriesHold(old, c)
    PROVE  DecisionEntriesHold(new, c)
<1> DEFINE rows == DecisionsOf(old, c)
           N == Len(old.decisions)
           p == Len(old.ledger) + 1
<1>1. /\ N \in Nat /\ rows \subseteq 1 .. N
      /\ DecisionsOf(new, c) = rows \cup {N + 1}
      /\ \A i \in rows : new.decisions[i] = old.decisions[i]
      /\ new.decisions[N + 1] = row
  BY RowsGrowByOne DEF RowsGrow
<1>2. EntriesGrow(old, new, entry, c)
  BY EntriesGrowByOne
<1>3. /\ Joins(entry, c, "claim.governance_decided")
      /\ ~Joins(entry, c, "claim.proposed")
  BY DEF Joins, RowLedgered
<1>4. /\ Proposals(new, c) = Proposals(old, c)
      /\ DecidedEntries(new, c) = DecidedEntries(old, c) \cup {p}
      /\ new.ledger[p] = entry
      /\ \A n \in DecidedEntries(old, c) : new.ledger[n] = old.ledger[n]
  BY <1>2, <1>3 DEF EntriesGrow
<1>5. /\ Len(old.ledger) \in Nat /\ p \in 1 .. Len(new.ledger)
      /\ DOMAIN new.ledger = 1 .. Len(new.ledger)
      /\ \A n \in DecidedEntries(old, c) \cup Proposals(old, c) : n < p
      /\ \A n \in DecidedEntries(old, c) : n \in DOMAIN new.ledger
  <2>1. Len(old.ledger) \in Nat /\ DOMAIN new.ledger = 1 .. p /\ Len(new.ledger) = p
    BY DEF EntryAdded
  <2>2. /\ DecidedEntries(old, c) \subseteq 1 .. Len(old.ledger)
        /\ Proposals(old, c) \subseteq 1 .. Len(old.ledger)
    BY Positions
  <2> QED
    BY <2>1, <2>2
<1>6. /\ entry.decision = N + 1 /\ entry.from = row.from /\ entry.to = row.to
      /\ entry.at = row.at
  BY DEF RowLedgered
<1> HIDE DEF N, p
<1>7. \A i \in rows : EntriesNaming(new, c, i) = EntriesNaming(old, c, i)
  BY <1>1, <1>4, <1>6 DEF EntriesNaming
<1>8. EntriesNaming(new, c, N + 1) = {p}
  <2>1. \A n \in DecidedEntries(old, c) : old.ledger[n].decision \in rows
    BY DEF DecisionEntriesHold, NoOrphanEntry
  <2>2. N + 1 \notin rows
    BY <1>1
  <2> HIDE DEF rows
  <2> QED
    BY <1>4, <1>6, <2>1, <2>2 DEF EntriesNaming
<1>9. \A i \in rows : /\ EntriesNaming(old, c, i) = {ReplayKey(old, c, i)}
                      /\ ReplayKey(old, c, i) \in DecidedEntries(old, c)
  BY LedgeredKeys DEF DecisionEntriesHold
<1>10. \A i, j \in rows : i < j => ReplayKey(old, c, i) < ReplayKey(old, c, j)
  BY DEF DecisionEntriesHold
<1>11. OneProposal(new, c) /\ ProposalComesFirst(new, c)
  BY <1>4, <1>5 DEF DecisionEntriesHold, OneProposal, ProposalComesFirst
<1>12. DecisionsAreLedgered(new, c)
  <2> SUFFICES ASSUME NEW i \in DecisionsOf(new, c)
               PROVE  \E n \in DOMAIN new.ledger :
                          /\ EntriesNaming(new, c, i) = {n}
                          /\ new.ledger[n].from = new.decisions[i].from
                          /\ new.ledger[n].to = new.decisions[i].to
                          /\ new.ledger[n].at = new.decisions[i].at
    BY DEF DecisionsAreLedgered
  <2>1. CASE i \in rows
    <3>1. PICK n \in DOMAIN old.ledger :
              /\ EntriesNaming(old, c, i) = {n}
              /\ old.ledger[n].from = old.decisions[i].from
              /\ old.ledger[n].to = old.decisions[i].to
              /\ old.ledger[n].at = old.decisions[i].at
      BY <2>1 DEF DecisionEntriesHold, DecisionsAreLedgered
    <3>2. n \in DecidedEntries(old, c)
      BY <3>1 DEF EntriesNaming
    <3>3. /\ n \in DOMAIN new.ledger /\ new.ledger[n] = old.ledger[n]
          /\ new.decisions[i] = old.decisions[i]
          /\ EntriesNaming(new, c, i) = {n}
      BY <1>1, <1>4, <1>5, <1>7, <2>1, <3>1, <3>2
    <3> QED
      BY <3>1, <3>3
  <2>2. CASE i = N + 1
    BY <1>1, <1>4, <1>5, <1>6, <1>8, <2>2
  <2> QED
    BY <1>1, <2>1, <2>2
<1>13. NoOrphanEntry(new, c)
  <2>1. \A n \in DecidedEntries(old, c) : old.ledger[n].decision \in rows
    BY DEF DecisionEntriesHold, NoOrphanEntry
  <2> HIDE DEF rows
  <2> QED
    BY <1>1, <1>4, <1>6, <2>1 DEF NoOrphanEntry
<1>14. /\ \A i \in rows : ReplayKey(new, c, i) = ReplayKey(old, c, i)
       /\ ReplayKey(new, c, N + 1) = p
  <2>1. ASSUME NEW i \in rows PROVE ReplayKey(new, c, i) = ReplayKey(old, c, i)
    <3>1. EntriesNaming(new, c, i) = {ReplayKey(old, c, i)}
      BY <1>7, <1>9
    <3> QED
      BY <3>1, NamedKey, Zenon
  <2>2. ReplayKey(new, c, N + 1) = p
    BY <1>8, NamedKey, Zenon
  <2> QED
    BY <2>1, <2>2
<1>15. \A i, j \in DecisionsOf(new, c) :
           i < j => ReplayKey(new, c, i) < ReplayKey(new, c, j)
  <2>1. \A i \in rows : ReplayKey(old, c, i) < p
    BY <1>5, <1>9
  <2> HIDE DEF rows
  <2> SUFFICES ASSUME NEW i \in rows \cup {N + 1}, NEW j \in rows \cup {N + 1}, i < j
               PROVE  ReplayKey(new, c, i) < ReplayKey(new, c, j)
    BY <1>1
  <2>2. i \in rows
    BY <1>1
  <2>3. CASE j \in rows
    BY <1>10, <1>14, <2>2, <2>3
  <2>4. CASE j = N + 1
    BY <1>14, <2>1, <2>2, <2>4
  <2> QED
    BY <2>3, <2>4
<1> QED
  BY <1>11, <1>12, <1>13, <1>15 DEF DecisionEntriesHold

(* A decision says nothing about the evidence before it. *)
LEMMA DecidedEvidenceHolds ==
    ASSUME NEW old, Shaped(old), NEW new, Shaped(new), NEW c, NEW row,
           RowDecided(old, new, c, row), NEW entry, EntryAdded(old, new, entry),
           RowLedgered(entry, c, row, Len(old.decisions) + 1),
           DecisionEntriesHold(old, c), EvidenceEntriesHold(old, c)
    PROVE  /\ EvidenceEntriesHold(new, c)
           /\ Proposals(new, c) = Proposals(old, c)
           /\ Additions(new, c) = Additions(old, c)
           /\ SameAttestations(old, new, c)
           /\ \A n \in Proposals(old, c) \cup Additions(old, c) :
                 new.ledger[n] = old.ledger[n]
           /\ \A n : AccumulatedAt(new, c, n) = AccumulatedAt(old, c, n)
<1> DEFINE rows == DecisionsOf(old, c)
           N == Len(old.decisions)
           p == Len(old.ledger) + 1
<1>1. /\ N \in Nat /\ rows \subseteq 1 .. N
      /\ DecisionsOf(new, c) = rows \cup {N + 1}
      /\ \A i \in rows : new.decisions[i] = old.decisions[i]
  BY RowsGrowByOne DEF RowsGrow
<1>2. EntriesGrow(old, new, entry, c)
  BY EntriesGrowByOne
<1>3. /\ Joins(entry, c, "claim.governance_decided")
      /\ ~Joins(entry, c, "claim.proposed")
      /\ ~Joins(entry, c, "claim.evidence_added")
      /\ ~Joins(entry, c, "claim.material_attested")
  BY DEF Joins, RowLedgered
<1>4. /\ Proposals(new, c) = Proposals(old, c)
      /\ Additions(new, c) = Additions(old, c)
      /\ DecidedEntries(new, c) = DecidedEntries(old, c) \cup {p}
      /\ SameAttestations(old, new, c)
      /\ \A n \in Proposals(old, c) \cup Additions(old, c) \cup DecidedEntries(old, c) :
            new.ledger[n] = old.ledger[n]
      /\ Len(new.ledger) = p
  BY <1>2, <1>3 DEF EntriesGrow, SameAttestations
<1>5. /\ Len(old.ledger) \in Nat
      /\ Additions(old, c) \subseteq 1 .. Len(old.ledger)
      /\ DecidedEntries(old, c) \subseteq 1 .. Len(old.ledger)
  BY Positions
<1>6. ASSUME NEW n
      PROVE  AccumulatedAt(new, c, n) = AccumulatedAt(old, c, n)
  <2>1. \A e : e \in AccumulatedAt(new, c, n) <=> e \in AccumulatedAt(old, c, n)
    BY <1>4, AccumulatedIs
  <2> QED
    BY <2>1
<1>7. ASSUME NEW n \in Additions(old, c)
      PROVE  StatusBefore(new, c, n) = StatusBefore(old, c, n)
  <2> DEFINE earlier == {m \in DecidedEntries(old, c) :
                            m < n /\ old.ledger[m].decision \in rows}
  <2>1. {m \in DecidedEntries(new, c) :
             m < n /\ new.ledger[m].decision \in DecisionsOf(new, c)} = earlier
    <3>1. \A m \in DecidedEntries(old, c) :
              old.ledger[m].decision \in rows /\ new.ledger[m] = old.ledger[m]
      BY <1>4 DEF DecisionEntriesHold, NoOrphanEntry
    <3>2. ~(p < n)
      BY <1>5
    <3> HIDE DEF rows, p
    <3> QED
      BY <1>1, <1>4, <3>1, <3>2
  <2>2. earlier # {} => Max(earlier) \in earlier
    <3>1. earlier \in SUBSET (0 .. Len(old.ledger))
      BY <1>5
    <3> HIDE DEF earlier
    <3> QED
      BY <1>5, <3>1, MaxFacts
  <2>3. \A m \in earlier :
            new.decisions[new.ledger[m].decision] = old.decisions[old.ledger[m].decision]
    BY <1>1, <1>4
  <2>4. /\ StatusBefore(new, c, n) =
              IF earlier = {} THEN "PROPOSED"
              ELSE new.decisions[new.ledger[Max(earlier)].decision].to
        /\ StatusBefore(old, c, n) =
              IF earlier = {} THEN "PROPOSED"
              ELSE old.decisions[old.ledger[Max(earlier)].decision].to
    BY <2>1, Zenon DEF StatusBefore
  <2> HIDE DEF earlier
  <2> QED
    BY <2>2, <2>3, <2>4
<1>8. AdditionsWhileReviewable(new, c)
  BY <1>4, <1>7 DEF EvidenceEntriesHold, AdditionsWhileReviewable
<1>9. NoDuplicateEvidence(new, c)
  BY <1>4 DEF EvidenceEntriesHold, NoDuplicateEvidence
<1>10. EvidenceIsLedgered(new, c)
  <2>1. \A a \in Additions(old, c) : a <= Len(new.ledger)
    BY <1>4, <1>5
  <2>2. AccumulatedAt(new, c, Len(new.ledger)) = AccumulatedAt(old, c, Len(old.ledger))
    BY <1>6, <2>1, AllAccumulated
  <2> QED
    BY <2>2 DEF EvidenceEntriesHold, EvidenceIsLedgered, RowDecided
<1> QED
  BY <1>4, <1>6, <1>8, <1>9, <1>10 DEF EvidenceEntriesHold

LEMMA DecidedReplays ==
    ASSUME NEW old, Shaped(old), NEW new, Shaped(new), NEW c, NEW row,
           RowDecided(old, new, c, row), NEW entry, EntryAdded(old, new, entry),
           RowLedgered(entry, c, row, Len(old.decisions) + 1), Told(old, c)
    PROVE  Told(new, c)
<1>1. DecisionEntriesHold(new, c) /\ EvidenceEntriesHold(new, c)
  BY DecidedEntriesHold, DecidedEvidenceHolds DEF Told
<1>2. DecisionsHold(new, c)
  BY DecidedRowsHold DEF Told
<1>3. UpdatedAtReplays(new, c)
  <2>1. KeysAreNumbers(new, c) /\ InRowOrder(new, c)
    BY <1>1, WholeInOrder
  <2>2. /\ RowsGrow(old, new, c)
        /\ new.decisions[Len(old.decisions) + 1] = row
    BY RowsGrowByOne
  <2>3. DecisionsOf(new, c) # {} /\ Max(DecisionsOf(new, c)) = Len(old.decisions) + 1
    BY <2>2 DEF RowsGrow
  <2>4. LastOf(new, c, DecisionsOf(new, c)) = Len(old.decisions) + 1
    BY <2>1, <2>3, RowOrder
  <2> QED
    BY <2>2, <2>3, <2>4 DEF UpdatedAtReplays, RowDecided
<1> QED
  BY <1>1, <1>2, <1>3 DEF Told

LEMMA DecidedKeepsBasis ==
    ASSUME NEW old, Shaped(old), NEW new, Shaped(new), NEW c, NEW row,
           RowDecided(old, new, c, row), NEW entry, EntryAdded(old, new, entry),
           RowLedgered(entry, c, row, Len(old.decisions) + 1), Told(old, c)
    PROVE  SameBasis(old, new, c)
<1>1. /\ Proposals(new, c) = Proposals(old, c)
      /\ Additions(new, c) = Additions(old, c)
      /\ SameAttestations(old, new, c)
      /\ \A n \in Proposals(old, c) \cup Additions(old, c) :
            new.ledger[n] = old.ledger[n]
  BY DecidedEvidenceHolds DEF Told
<1> QED
  BY <1>1 DEF SameBasis, RowDecided

LEMMA DecidedIsWhole ==
    ASSUME NEW old, Shaped(old), NEW new, Shaped(new), NEW c, NEW row,
           RowDecided(old, new, c, row), NEW entry, EntryAdded(old, new, entry),
           RowLedgered(entry, c, row, Len(old.decisions) + 1), Whole(old, c)
    PROVE  Whole(new, c)
<1>1. Told(new, c)
  BY DecidedReplays DEF Whole
<1>2. SameBasis(old, new, c)
  BY DecidedKeepsBasis DEF Whole
<1>3. MaterialHolds(new, c) /\ Checkpoints(new, c) # {}
  BY <1>2, SameMaterial DEF Whole, Told, DecisionEntriesHold
<1> QED
  BY <1>1, <1>3 DEF Whole
-----------------------------------------------------------------------------
(* A claim that is given evidence. *)

(* The ledger's last word on c is the stored status. *)
LEMMA StatusAtEnd ==
    ASSUME NEW image, Shaped(image), NEW c, DecisionEntriesHold(image, c),
           DecisionsHold(image, c), NEW n, \A m \in DecidedEntries(image, c) : m < n
    PROVE  StatusBefore(image, c, n) = StatusIn(image, c)
<1> DEFINE entries == DecidedEntries(image, c)
           rows == DecisionsOf(image, c)
           key(i) == ReplayKey(image, c, i)
<1>1. \A m \in entries : image.ledger[m].decision \in rows
  BY DEF DecisionEntriesHold, NoOrphanEntry
<1>2. {m \in entries : m < n /\ image.ledger[m].decision \in rows} = entries
  BY <1>1
<1>3. StatusBefore(image, c, n) =
          IF entries = {} THEN "PROPOSED"
          ELSE image.decisions[image.ledger[Max(entries)].decision].to
  BY <1>2, Zenon DEF StatusBefore
<1>4. \A i \in rows : /\ EntriesNaming(image, c, i) = {key(i)}
                      /\ key(i) \in entries
                      /\ image.ledger[key(i)].decision = i
  BY LedgeredKeys DEF DecisionEntriesHold
<1>5. \A i, j \in rows : i < j => key(i) < key(j)
  BY DEF DecisionEntriesHold
<1>6. StatusIn(image, c) = IF rows = {} THEN "PROPOSED"
                           ELSE image.decisions[Max(rows)].to
  BY DEF DecisionsHold, StatusByRows
<1>7. \A m \in entries : m = key(image.ledger[m].decision)
  BY <1>1, <1>4 DEF EntriesNaming
<1>8. rows = {} <=> entries = {}
  BY <1>1, <1>4
<1>9. ASSUME rows # {}
      PROVE  image.ledger[Max(entries)].decision = Max(rows)
  <2>1. Max(rows) \in rows /\ \A i \in rows : i <= Max(rows)
    BY <1>9, RowsMaximum
  <2>2. /\ entries \in SUBSET (0 .. Len(image.ledger)) /\ Len(image.ledger) \in Nat
        /\ rows \subseteq 1 .. Len(image.decisions) /\ Len(image.decisions) \in Nat
    BY Positions
  <2>3. \A m \in entries : m <= key(Max(rows))
    <3>1. ASSUME NEW m \in entries PROVE m <= key(Max(rows))
      <4> DEFINE i == image.ledger[m].decision
      <4>1. i \in rows /\ m = key(i) /\ i <= Max(rows)
        BY <1>1, <1>7, <2>1
      <4>2. key(Max(rows)) \in entries
        BY <1>4, <2>1
      <4>3. i = Max(rows) \/ i < Max(rows)
        BY <2>1, <2>2, <4>1
      <4>4. i < Max(rows) => key(i) < key(Max(rows))
        BY <1>5, <2>1, <4>1
      <4>5. m \in Nat /\ key(Max(rows)) \in Nat
        BY <2>2, <4>2
      <4> HIDE DEF i, rows, key
      <4> QED
        BY <4>1, <4>3, <4>4, <4>5
    <3> QED
      BY <3>1
  <2>4. key(Max(rows)) \in entries /\ image.ledger[key(Max(rows))].decision = Max(rows)
    BY <1>4, <2>1
  <2> HIDE DEF entries, rows, key
  <2>5. Max(entries) = key(Max(rows))
    BY <2>2, <2>3, <2>4, GreatestIsMax
  <2> QED
    BY <2>4, <2>5
<1> HIDE DEF entries, rows
<1> QED
  BY <1>3, <1>6, <1>8, <1>9

EvidenceGiven(old, new, c, refs) ==
    /\ DecisionsOf(new, c) = DecisionsOf(old, c)
    /\ \A i \in DecisionsOf(old, c) : new.decisions[i] = old.decisions[i]
    /\ new.claims[c] = old.claims[c]
    /\ StatusIn(old, c) \in Reviewable
    /\ EvidenceIn(new, c) = EvidenceIn(old, c) \cup refs
    /\ EvidenceIn(old, c) \cap refs = {}

(* The entries about c behind an addition, and what they name. *)
AdditionJoins(old, new, c, refs) ==
    LET p == Len(old.ledger) + 1
    IN  /\ Proposals(new, c) = Proposals(old, c)
        /\ Additions(new, c) = Additions(old, c) \cup {p}
        /\ DecidedEntries(new, c) = DecidedEntries(old, c)
        /\ SameAttestations(old, new, c)
        /\ \A n \in Proposals(old, c) \cup Additions(old, c) \cup DecidedEntries(old, c) :
              new.ledger[n] = old.ledger[n] /\ n < p /\ n \in DOMAIN new.ledger
        /\ new.ledger[p].refs = refs
        /\ Len(old.ledger) \in Nat /\ Len(new.ledger) = p

LEMMA AdditionIsJoined ==
    ASSUME NEW old, Shaped(old), NEW new, NEW c, NEW refs, NEW entry,
           EntryAdded(old, new, entry), Joins(entry, c, "claim.evidence_added"),
           entry.refs = refs
    PROVE  AdditionJoins(old, new, c, refs)
<1>1. EntriesGrow(old, new, entry, c)
  BY EntriesGrowByOne
<1>2. /\ ~Joins(entry, c, "claim.governance_decided")
      /\ ~Joins(entry, c, "claim.proposed")
      /\ ~Joins(entry, c, "claim.material_attested")
  BY DEF Joins
<1>3. \A n \in Proposals(old, c) \cup Additions(old, c) \cup DecidedEntries(old, c) :
          n < Len(old.ledger) + 1 /\ n \in DOMAIN new.ledger
  <2>1. /\ Len(old.ledger) \in Nat
        /\ Proposals(old, c) \subseteq 1 .. Len(old.ledger)
        /\ Additions(old, c) \subseteq 1 .. Len(old.ledger)
        /\ DecidedEntries(old, c) \subseteq 1 .. Len(old.ledger)
    BY Positions
  <2>2. DOMAIN new.ledger = 1 .. Len(old.ledger) + 1
    BY DEF EntryAdded
  <2> QED
    BY <2>1, <2>2
<1>4. Len(old.ledger) \in Nat
  BY DEF EntryAdded
<1> QED
  BY <1>1, <1>2, <1>3, <1>4 DEF EntriesGrow, SameAttestations, AdditionJoins

(* Up to the addition as before, from it on with what it names. *)
LEMMA AdditionAccumulates ==
    ASSUME NEW old, NEW new, NEW c, NEW refs, AdditionJoins(old, new, c, refs),
           NEW n \in Nat
    PROVE  AccumulatedAt(new, c, n) =
               IF n <= Len(old.ledger) THEN AccumulatedAt(old, c, n)
               ELSE AccumulatedAt(old, c, n) \cup refs
<1> DEFINE p == Len(old.ledger) + 1
<1>1. /\ Proposals(new, c) = Proposals(old, c)
      /\ Additions(new, c) = Additions(old, c) \cup {p}
      /\ \A m \in Proposals(old, c) \cup Additions(old, c) :
            new.ledger[m].refs = old.ledger[m].refs
      /\ new.ledger[p].refs = refs
      /\ p <= n <=> ~(n <= Len(old.ledger))
  BY DEF AdditionJoins
<1> HIDE DEF p
<1>2. \A e : e \in AccumulatedAt(new, c, n) <=>
                \/ e \in AccumulatedAt(old, c, n)
                \/ p <= n /\ e \in refs
  BY <1>1, AccumulatedIs
<1> QED
  BY <1>1, <1>2

LEMMA AdditionReplays ==
    ASSUME NEW old, Shaped(old), NEW new, Shaped(new), NEW c, NEW refs,
           EvidenceGiven(old, new, c, refs), AdditionJoins(old, new, c, refs),
           Told(old, c)
    PROVE  Told(new, c)
<1> DEFINE p == Len(old.ledger) + 1
           rows == DecisionsOf(old, c)
<1>1. /\ Proposals(new, c) = Proposals(old, c)
      /\ Additions(new, c) = Additions(old, c) \cup {p}
      /\ DecidedEntries(new, c) = DecidedEntries(old, c)
      /\ \A n \in Proposals(old, c) \cup Additions(old, c) \cup DecidedEntries(old, c) :
            new.ledger[n] = old.ledger[n] /\ n < p /\ n \in DOMAIN new.ledger
      /\ new.ledger[p].refs = refs
      /\ Len(old.ledger) \in Nat /\ Len(new.ledger) = p
  BY DEF AdditionJoins
<1>2. /\ DecisionsOf(new, c) = rows
      /\ \A i \in rows : new.decisions[i] = old.decisions[i]
      /\ new.claims[c] = old.claims[c]
  BY DEF EvidenceGiven
<1>3. DecisionEntriesHold(old, c) /\ EvidenceEntriesHold(old, c)
      /\ DecisionsHold(old, c) /\ UpdatedAtReplays(old, c)
  BY DEF Told
<1>4. \A i : EntriesNaming(new, c, i) = EntriesNaming(old, c, i)
  BY <1>1 DEF EntriesNaming
<1>5. \A i \in rows : EntriesNaming(old, c, i) = {ReplayKey(old, c, i)}
  BY <1>3, LedgeredKeys DEF DecisionEntriesHold
<1>6. ASSUME NEW i \in rows PROVE ReplayKey(new, c, i) = ReplayKey(old, c, i)
  <2>1. EntriesNaming(new, c, i) = {ReplayKey(old, c, i)}
    BY <1>4, <1>5
  <2> QED
    BY <2>1, NamedKey, Zenon
<1> HIDE DEF p
<1>7. DecisionsAreLedgered(new, c)
  <2> SUFFICES ASSUME NEW i \in rows
               PROVE  \E n \in DOMAIN new.ledger :
                          /\ EntriesNaming(new, c, i) = {n}
                          /\ new.ledger[n].from = new.decisions[i].from
                          /\ new.ledger[n].to = new.decisions[i].to
                          /\ new.ledger[n].at = new.decisions[i].at
    BY <1>2 DEF DecisionsAreLedgered
  <2>1. PICK n \in DOMAIN old.ledger :
            /\ EntriesNaming(old, c, i) = {n}
            /\ old.ledger[n].from = old.decisions[i].from
            /\ old.ledger[n].to = old.decisions[i].to
            /\ old.ledger[n].at = old.decisions[i].at
    BY <1>3 DEF DecisionEntriesHold, DecisionsAreLedgered
  <2>2. n \in DecidedEntries(old, c)
    BY <2>1 DEF EntriesNaming
  <2>3. /\ n \in DOMAIN new.ledger /\ new.ledger[n] = old.ledger[n]
        /\ new.decisions[i] = old.decisions[i] /\ EntriesNaming(new, c, i) = {n}
    BY <1>1, <1>2, <1>4, <2>1, <2>2
  <2> QED
    BY <2>1, <2>3
<1>8. DecisionEntriesHold(new, c)
  <2>1. OneProposal(new, c) /\ ProposalComesFirst(new, c)
    BY <1>1, <1>3 DEF DecisionEntriesHold, OneProposal, ProposalComesFirst
  <2>2. NoOrphanEntry(new, c)
    BY <1>1, <1>2, <1>3 DEF DecisionEntriesHold, NoOrphanEntry
  <2>3. \A i, j \in DecisionsOf(new, c) :
            i < j => ReplayKey(new, c, i) < ReplayKey(new, c, j)
    BY <1>2, <1>3, <1>6 DEF DecisionEntriesHold
  <2> QED
    BY <1>7, <2>1, <2>2, <2>3 DEF DecisionEntriesHold
<1>9. DecisionsHold(new, c)
  <2>1. ASSUME NEW some \in SUBSET rows
        PROVE  StatusByRows(new, some) = StatusByRows(old, some)
    BY <1>2, RowsMaximum DEF StatusByRows
  <2>2. ASSUME NEW i \in rows
        PROVE  LET current == StatusByRows(new, {j \in rows : j < i})
               IN  /\ new.decisions[i].from = current
                   /\ new.decisions[i].to \in AllowedTransitions(current)
    <3> DEFINE earlier == {j \in rows : j < i}
    <3>1. StatusByRows(new, earlier) = StatusByRows(old, earlier)
      BY <2>1
    <3>2. /\ old.decisions[i].from = StatusByRows(old, earlier)
          /\ old.decisions[i].to \in AllowedTransitions(StatusByRows(old, earlier))
      BY <1>3 DEF DecisionsHold
    <3> QED
      BY <1>2, <3>1, <3>2
  <2>3. StatusIn(new, c) = StatusByRows(new, rows)
    BY <1>2, <1>3, <2>1 DEF DecisionsHold, StatusIn
  <2> QED
    BY <1>2, <2>2, <2>3 DEF DecisionsHold
<1>10. AdditionsWhileReviewable(new, c)
  <2>1. ASSUME NEW n \in Additions(old, c)
        PROVE  StatusBefore(new, c, n) = StatusBefore(old, c, n)
    <3> DEFINE earlier == {m \in DecidedEntries(old, c) :
                              m < n /\ old.ledger[m].decision \in rows}
    <3>1. {m \in DecidedEntries(new, c) :
               m < n /\ new.ledger[m].decision \in DecisionsOf(new, c)} = earlier
      BY <1>1, <1>2
    <3>2. earlier # {} => Max(earlier) \in earlier
      <4>1. earlier \in SUBSET (0 .. Len(old.ledger)) /\ Len(old.ledger) \in Nat
        BY Positions
      <4> HIDE DEF earlier
      <4> QED
        BY <4>1, MaxFacts
    <3>3. \A m \in earlier :
              new.decisions[new.ledger[m].decision] = old.decisions[old.ledger[m].decision]
      BY <1>1, <1>2
    <3>4. /\ StatusBefore(new, c, n) =
                IF earlier = {} THEN "PROPOSED"
                ELSE new.decisions[new.ledger[Max(earlier)].decision].to
          /\ StatusBefore(old, c, n) =
                IF earlier = {} THEN "PROPOSED"
                ELSE old.decisions[old.ledger[Max(earlier)].decision].to
      BY <3>1, Zenon DEF StatusBefore
    <3> HIDE DEF earlier
    <3> QED
      BY <3>2, <3>3, <3>4
  <2>2. StatusBefore(new, c, p) \in Reviewable
    <3>1. StatusBefore(new, c, p) = StatusIn(new, c)
      BY <1>1, <1>8, <1>9, StatusAtEnd
    <3> QED
      BY <1>2, <3>1 DEF EvidenceGiven, StatusIn
  <2> QED
    BY <1>1, <1>3, <2>1, <2>2 DEF EvidenceEntriesHold, AdditionsWhileReviewable
<1>11. EvidenceIn(old, c) = AccumulatedAt(old, c, Len(old.ledger))
  BY <1>3 DEF EvidenceEntriesHold, EvidenceIsLedgered
<1>12. EvidenceIn(new, c) = EvidenceIn(old, c) \cup refs
       /\ EvidenceIn(old, c) \cap refs = {}
  BY DEF EvidenceGiven
<1>13. NoDuplicateEvidence(new, c)
  <2>1. \A m \in Proposals(old, c) \cup Additions(old, c) :
            old.ledger[m].refs \subseteq EvidenceIn(old, c)
    <3>1. Additions(old, c) \subseteq 1 .. Len(old.ledger) /\ Len(old.ledger) \in Nat
      BY Positions
    <3>2. \A m \in Additions(old, c) : m <= Len(old.ledger)
      BY <3>1
    <3>3. ASSUME NEW m \in Proposals(old, c) \cup Additions(old, c),
                 NEW e \in old.ledger[m].refs
          PROVE  e \in EvidenceIn(old, c)
      BY <1>11, <3>2, AccumulatedIs
    <3> QED
      BY <3>3
  <2>2. \A m, n \in Proposals(old, c) \cup Additions(old, c) :
            m # n => old.ledger[m].refs \cap old.ledger[n].refs = {}
    BY <1>3 DEF EvidenceEntriesHold, NoDuplicateEvidence
  <2>3. \A m \in Proposals(old, c) \cup Additions(old, c) :
            new.ledger[m].refs = old.ledger[m].refs
    BY <1>1
  <2>4. \A m \in Proposals(old, c) \cup Additions(old, c) :
            new.ledger[m].refs \cap new.ledger[p].refs = {}
    BY <1>1, <1>12, <2>1, <2>3
  <2> QED
    BY <1>1, <2>2, <2>3, <2>4 DEF NoDuplicateEvidence
<1>14. EvidenceIsLedgered(new, c)
  <2>1. /\ AccumulatedAt(new, c, p) = AccumulatedAt(old, c, p) \cup refs
        /\ p \in Nat
    <3>1. p \in Nat /\ ~(p <= Len(old.ledger))
      BY <1>1 DEF p
    <3> QED
      BY <3>1, AdditionAccumulates
  <2>2. AccumulatedAt(old, c, p) = AccumulatedAt(old, c, Len(old.ledger))
    <3>1. \A a \in Additions(old, c) : a <= p
      <4>1. Additions(old, c) \subseteq 1 .. Len(old.ledger)
        BY Positions
      <4> QED
        BY <1>1, <4>1 DEF p
    <3> QED
      BY <3>1, AllAccumulated
  <2> QED
    BY <1>1, <1>11, <1>12, <2>1, <2>2 DEF EvidenceIsLedgered
<1>15. UpdatedAtReplays(new, c)
  <2>1. KeysAreNumbers(new, c) /\ InRowOrder(new, c)
        /\ KeysAreNumbers(old, c) /\ InRowOrder(old, c)
    BY <1>3, <1>8, WholeInOrder
  <2>2. CASE rows = {}
    BY <1>2, <1>3, <2>2 DEF UpdatedAtReplays
  <2>3. CASE rows # {}
    <3>1. LastOf(old, c, rows) = Max(rows) /\ LastOf(new, c, rows) = Max(rows)
      BY <1>2, <2>1, <2>3, RowOrder
    <3>2. Max(rows) \in rows
      BY <2>3, RowsMaximum
    <3> QED
      BY <1>2, <1>3, <2>3, <3>1, <3>2 DEF UpdatedAtReplays
  <2> QED
    BY <2>2, <2>3
<1> QED
  BY <1>8, <1>9, <1>10, <1>13, <1>14, <1>15 DEF Told, EvidenceEntriesHold

LEMMA AdditionsKeepWhatWasNamed ==
    ASSUME NEW old, Shaped(old), NEW new, NEW c, NEW refs,
           EvidenceGiven(old, new, c, refs), AdditionJoins(old, new, c, refs),
           EvidenceEntriesHold(old, c)
    PROVE  /\ \A n \in 1 .. Len(old.ledger) :
                 AccumulatedAt(new, c, n) = AccumulatedAt(old, c, n)
           /\ AccumulatedAt(new, c, Len(old.ledger) + 1) = EvidenceIn(new, c)
           /\ EvidenceIn(old, c) \subseteq EvidenceIn(new, c)
<1> DEFINE L == Len(old.ledger)
<1>1. L \in Nat
  BY Positions
<1> HIDE DEF L
<1>2. ASSUME NEW n \in 1 .. L
      PROVE  AccumulatedAt(new, c, n) = AccumulatedAt(old, c, n)
  <2>1. n \in Nat /\ n <= L
    BY <1>1
  <2> QED
    BY <2>1, AdditionAccumulates DEF L
<1>3. AccumulatedAt(new, c, L + 1) = AccumulatedAt(old, c, L + 1) \cup refs
  <2>1. L + 1 \in Nat /\ ~(L + 1 <= L)
    BY <1>1
  <2> QED
    BY <2>1, AdditionAccumulates DEF L
<1>4. AccumulatedAt(old, c, L + 1) = EvidenceIn(old, c)
  <2>1. \A a \in Additions(old, c) : a <= L + 1
    <3>1. Additions(old, c) \subseteq 1 .. L
      BY Positions DEF L
    <3> QED
      BY <1>1, <3>1
  <2>2. AccumulatedAt(old, c, L + 1) = AccumulatedAt(old, c, L)
    BY <2>1, AllAccumulated DEF L
  <2> QED
    BY <2>2 DEF EvidenceEntriesHold, EvidenceIsLedgered, L
<1> QED
  BY <1>2, <1>3, <1>4 DEF EvidenceGiven, L

LEMMA AdditionIsBound ==
    ASSUME NEW old, Shaped(old), NEW new, Shaped(new), NEW c, NEW refs,
           EvidenceGiven(old, new, c, refs), AdditionJoins(old, new, c, refs),
           new.ledger[Len(old.ledger) + 1].material = MaterialOf(new, c),
           OneProposal(old, c), EvidenceEntriesHold(old, c), MaterialHolds(old, c)
    PROVE  MaterialHolds(new, c) /\ Checkpoints(new, c) # {}
<1> DEFINE p == Len(old.ledger) + 1
<1>1. /\ Proposals(new, c) = Proposals(old, c)
      /\ Additions(new, c) = Additions(old, c) \cup {p}
      /\ Attestations(new, c) = Attestations(old, c)
      /\ \A n \in Proposals(old, c) \cup Additions(old, c) \cup Attestations(old, c) :
            new.ledger[n] = old.ledger[n]
      /\ Len(new.ledger) = p
  BY DEF AdditionJoins, SameAttestations
<1>2. /\ Proposals(old, c) \subseteq 1 .. Len(old.ledger)
      /\ Additions(old, c) \subseteq 1 .. Len(old.ledger)
      /\ Attestations(old, c) \subseteq 1 .. Len(old.ledger)
      /\ Len(old.ledger) \in Nat
  BY Positions
<1>3. Carries(new, p) /\ new.ledger[p].material = MaterialOf(new, c)
  BY MaterialIsThere DEF Carries
<1>4. \A n \in Proposals(old, c) \cup Additions(old, c) \cup Attestations(old, c) :
          Carries(new, n) <=> Carries(old, n)
  BY <1>1 DEF Carries
<1>5. BoundOnce(new, c)
  <2>1. PICK m : Proposals(old, c) = {m} /\ Max(Proposals(old, c)) = m
    BY TheProposal
  <2> QED
    BY <1>1, <1>4, <2>1 DEF MaterialHolds, BoundOnce
<1>6. OldAdditionsAreAttested(new, c)
  <2> HIDE DEF p
  <2> QED
    BY <1>1, <1>3, <1>4 DEF MaterialHolds, OldAdditionsAreAttested
<1>7. Checkpoints(new, c) = Checkpoints(old, c) \cup {p}
  <2> HIDE DEF p
  <2>1. \A n : n \in Checkpoints(new, c) <=> n \in Checkpoints(old, c) \/ n = p
    BY <1>1, <1>3, <1>4 DEF Checkpoints
  <2> QED
    BY <2>1
<1>8. /\ \A n \in 1 .. Len(old.ledger) :
            AccumulatedAt(new, c, n) = AccumulatedAt(old, c, n)
      /\ AccumulatedAt(new, c, p) = EvidenceIn(new, c)
      /\ EvidenceIn(old, c) \subseteq EvidenceIn(new, c)
  BY AdditionsKeepWhatWasNamed
<1>9. Checkpoints(old, c) \subseteq 1 .. Len(old.ledger)
  BY <1>2 DEF Checkpoints
<1>10. new.claims[c] = old.claims[c]
  BY DEF EvidenceGiven
<1>11. ASSUME NEW n \in Checkpoints(new, c)
       PROVE  /\ new.ledger[n].material =
                    [created |-> new.claims[c].created,
                     refs    |-> AccumulatedAt(new, c, n)]
              /\ AccumulatedAt(new, c, n) \subseteq EvidenceIn(new, c)
  <2>1. CASE n = p
    BY <1>3, <1>8, <2>1 DEF MaterialOf
  <2>2. CASE n \in Checkpoints(old, c)
    <3>1. new.ledger[n] = old.ledger[n]
      BY <1>1, <2>2 DEF Checkpoints
    <3>2. AccumulatedAt(new, c, n) = AccumulatedAt(old, c, n)
      BY <1>8, <1>9, <2>2
    <3>3. /\ old.ledger[n].material =
                [created |-> old.claims[c].created,
                 refs    |-> AccumulatedAt(old, c, n)]
          /\ AccumulatedAt(old, c, n) \subseteq EvidenceIn(old, c)
      BY <2>2 DEF MaterialHolds
    <3> QED
      BY <1>8, <1>10, <3>1, <3>2, <3>3
  <2> QED
    BY <1>7, <2>1, <2>2
<1>12. Max(Checkpoints(new, c)) = p
  <2>1. /\ Checkpoints(new, c) \in SUBSET (0 .. p) /\ p \in Nat
        /\ p \in Checkpoints(new, c) /\ \A n \in Checkpoints(new, c) : n <= p
    BY <1>2, <1>7, <1>9
  <2> QED
    BY <2>1, GreatestIsMax
<1> HIDE DEF p
<1> QED
  BY <1>3, <1>5, <1>6, <1>7, <1>11, <1>12 DEF MaterialHolds

LEMMA AdditionIsWhole ==
    ASSUME NEW old, Shaped(old), NEW new, Shaped(new), NEW c, NEW refs,
           EvidenceGiven(old, new, c, refs), AdditionJoins(old, new, c, refs),
           new.ledger[Len(old.ledger) + 1].material = MaterialOf(new, c),
           Whole(old, c)
    PROVE  Whole(new, c)
<1>1. Told(new, c)
  BY AdditionReplays DEF Whole
<1>2. MaterialHolds(new, c) /\ Checkpoints(new, c) # {}
  BY AdditionIsBound DEF Whole, Told, DecisionEntriesHold
<1> QED
  BY <1>1, <1>2 DEF Whole

(* As far as preflight goes. *)
LEMMA AdditionKeepsCheckpoints ==
    ASSUME NEW old, Shaped(old), NEW new, Shaped(new), NEW c, NEW refs,
           EvidenceGiven(old, new, c, refs), AdditionJoins(old, new, c, refs),
           NEW required,
           LET p == Len(old.ledger) + 1
           IN  \/ new.ledger[p].material = MaterialOf(new, c)
               \/ ~Carries(new, p) /\ ~required,
           EvidenceEntriesHold(old, c), CheckpointsHold(old, c, required),
           EvidenceEntriesHold(new, c)
    PROVE  CheckpointsHold(new, c, required)
<1> DEFINE p == Len(old.ledger) + 1
           some == Proposals(old, c) \cup Additions(old, c)
<1>1. /\ Proposals(new, c) \cup Additions(new, c) = some \cup {p}
      /\ \A n \in some : new.ledger[n] = old.ledger[n]
  BY DEF AdditionJoins
<1>2. some \subseteq 1 .. Len(old.ledger)
  BY Positions
<1>3. /\ \A n \in 1 .. Len(old.ledger) :
            AccumulatedAt(new, c, n) = AccumulatedAt(old, c, n)
      /\ AccumulatedAt(new, c, p) = EvidenceIn(new, c)
      /\ EvidenceIn(old, c) \subseteq EvidenceIn(new, c)
  BY AdditionsKeepWhatWasNamed
<1>4. new.claims[c] = old.claims[c]
  BY DEF EvidenceGiven
<1>5. \A n \in some : /\ AccumulatedAt(old, c, n) \subseteq EvidenceIn(old, c)
                      /\ ~Carries(old, n) => ~required
                      /\ Carries(old, n) =>
                            old.ledger[n].material =
                                [created |-> old.claims[c].created,
                                 refs    |-> AccumulatedAt(old, c, n)]
  BY DEF CheckpointsHold
<1>6. /\ Carries(new, p) => new.ledger[p].material =
            [created |-> new.claims[c].created, refs |-> EvidenceIn(new, c)]
      /\ ~Carries(new, p) => ~required
  BY MaterialIsThere DEF MaterialOf, Carries
<1> HIDE DEF p, some
<1>7. \A n \in some \cup {p} :
          /\ AccumulatedAt(new, c, n) \subseteq EvidenceIn(new, c)
          /\ ~Carries(new, n) => ~required
          /\ Carries(new, n) =>
                new.ledger[n].material =
                    [created |-> new.claims[c].created,
                     refs    |-> AccumulatedAt(new, c, n)]
  BY <1>1, <1>2, <1>3, <1>4, <1>5, <1>6 DEF Carries
<1> QED
  BY <1>1, <1>7 DEF CheckpointsHold, EvidenceEntriesHold
-----------------------------------------------------------------------------
(* Repositories the program and its older releases write. *)

(* Rows, references and the entries the audit looks at belong to claims. *)
Anchored(image) ==
    /\ \A e \in EvidenceIds : image.evidence[e] \in Existing(image) \cup {NoClaim}
    /\ \A i \in DOMAIN image.decisions :
          image.decisions[i].claim \in Existing(image)
    /\ \A n \in DOMAIN image.ledger :
          image.ledger[n].event \in ClaimEvents =>
              image.ledger[n].claim \in Existing(image)

Sane(image) ==
    /\ image \in Image
    /\ IsFiniteSet(Existing(image))
    /\ Anchored(image)

LEMMA SaneIsShaped ==
    ASSUME NEW image, Sane(image)
    PROVE  Shaped(image) /\ Existing(image) \subseteq ClaimIds
<1>1. /\ IsImage(image) /\ image.decisions \in Seq(DecisionRow)
      /\ image.ledger \in Seq(LedgerEntry)
  BY DEF Sane, Image, IsImage
<1>2. IsLedger(image.decisions) /\ IsLedger(image.ledger)
  BY <1>1, SequencesAreLedgers
<1> QED
  BY <1>1, <1>2 DEF Shaped, Sane, Existing

LEMMA UnknownIsUnheard ==
    ASSUME NEW image, Sane(image), NEW c \in ClaimIds \ Existing(image)
    PROVE  Unheard(image, c)
<1>1. DecisionsOf(image, c) = {}
  BY DEF Sane, Anchored, DecisionsOf
<1>2. EvidenceIn(image, c) = {}
  BY NoClaimAssumption DEF Sane, Anchored, EvidenceIn
<1>3. ASSUME NEW event \in ClaimEvents PROVE EntriesOf(image, c, event) = {}
  BY DEF Sane, Anchored, EntriesOf
<1> QED
  BY <1>1, <1>2, <1>3
     DEF Unheard, ClaimEvents, Proposals, Additions, DecidedEntries, Attestations

(* One entry, in other respects the same tables. *)
LEMMA EntryWritten ==
    ASSUME NEW base \in Image, NEW event, NEW c, NEW refs, NEW material,
           NEW decision, NEW from, NEW to, NEW at, NEW new,
           new = WithEntry(base, event, c, refs, material, decision, from, to, at)
    PROVE  /\ SameTables(base, new)
           /\ new.ledger = Append(base.ledger,
                  [event |-> event, claim |-> c, refs |-> refs,
                   material |-> material, decision |-> decision,
                   from |-> from, to |-> to, at |-> at])
  BY DEF WithEntry, SameTables, Image

LEMMA DecisionEntryWritten ==
    ASSUME NEW base \in Image, NEW c, NEW last, NEW from, NEW to, NEW at, NEW new,
           new = WithEntry(base, "claim.governance_decided", c, {}, NoMaterial,
                           last, from, to, at)
    PROVE  /\ SameTables(base, new)
           /\ new.ledger = Append(base.ledger,
                  [event |-> "claim.governance_decided", claim |-> c, refs |-> {},
                   material |-> NoMaterial, decision |-> last,
                   from |-> from, to |-> to, at |-> at])
  BY DEF WithEntry, SameTables, Image

(* The tables of a proposal. *)
RowsProposed(old, new, c, refs) ==
    /\ c \in ClaimIds \ Existing(old)
    /\ Existing(new) = Existing(old) \cup {c}
    /\ new.decisions = old.decisions
    /\ StatusIn(new, c) = "PROPOSED"
    /\ new.claims[c].updated = new.claims[c].created
    /\ \A e \in EvidenceIds : new.evidence[e] =
                                  IF e \in refs THEN c ELSE old.evidence[e]
    /\ \A e \in refs : old.evidence[e] = NoClaim
    /\ \A d \in ClaimIds \ {c} : new.claims[d] = old.claims[d]

LEMMA ProposalWritesRows ==
    ASSUME NEW old \in Image, NEW k \in CallType, CanInsertClaim(old, k),
           CanAttach(WithClaim(old, k), k), NEW new,
           new = WithEvidence(WithClaim(old, k), k)
    PROVE  /\ new \in Image /\ new.ledger = old.ledger
           /\ RowsProposed(old, new, k.claim, k.refs)
<1> DEFINE base == WithClaim(old, k)
           row == [status |-> "PROPOSED", created |-> k.at, updated |-> k.at]
<1>1. /\ base \in Image /\ StatusIn(base, k.claim) = "PROPOSED"
      /\ base.claims = [old.claims EXCEPT ![k.claim] = row]
      /\ base.evidence = old.evidence
      /\ base.decisions = old.decisions
      /\ base.ledger = old.ledger
  BY WithClaimTyped
<1>2. /\ \A e \in k.refs : base.evidence[e] = NoClaim
      /\ old.claims[k.claim] = NoRow
  BY DEF CanAttach, CanInsertClaim
<1>3. k.claim \in ClaimIds /\ old.claims \in [ClaimIds -> ClaimRow \cup {NoRow}]
  BY DEF CallType, Image
<1>4. row # NoRow /\ row.created = row.updated /\ row.status = "PROPOSED"
  <2>1. row.status = "PROPOSED" /\ NoRow.status = Absent /\ Absent # "PROPOSED"
    BY DEF NoRow, Absent
  <2> QED
    BY <2>1
<1> HIDE DEF base, row
<1>5. /\ new \in Image /\ new.claims = base.claims
      /\ new.evidence = [e \in EvidenceIds |->
                            IF e \in k.refs THEN k.claim ELSE base.evidence[e]]
      /\ new.decisions = base.decisions
      /\ new.ledger = base.ledger
  BY <1>1, WithEvidenceTyped DEF base
<1>6. new.claims[k.claim] = row
      /\ \A d \in ClaimIds \ {k.claim} : new.claims[d] = old.claims[d]
  BY <1>1, <1>3, <1>5
<1>7. k.claim \notin Existing(old) /\ Existing(new) = Existing(old) \cup {k.claim}
  BY <1>2, <1>3, <1>4, <1>6 DEF Existing, HasRow
<1>8. \A e \in EvidenceIds : new.evidence[e] =
                                 IF e \in k.refs THEN k.claim ELSE old.evidence[e]
  BY <1>1, <1>5
<1>9. \A e \in k.refs : old.evidence[e] = NoClaim
  BY <1>1, <1>2
<1>10. StatusIn(new, k.claim) = "PROPOSED"
       /\ new.claims[k.claim].updated = new.claims[k.claim].created
  BY <1>4, <1>6 DEF StatusIn
<1> QED
  BY <1>1, <1>3, <1>5, <1>6, <1>7, <1>8, <1>9, <1>10 DEF RowsProposed

(* The tables of a decision. *)
RowsDecided(old, new, c, row) ==
    /\ c \in Existing(old)
    /\ RowDecided(old, new, c, row)
    /\ Existing(new) = Existing(old)
    /\ new.evidence = old.evidence
    /\ \A d \in ClaimIds \ {c} : new.claims[d] = old.claims[d]

DecidedRow(image, k) ==
    [claim |-> k.claim, from |-> StatusIn(image, k.claim), to |-> k.to,
     at |-> k.decided]

LEMMA DecisionWritesRows ==
    ASSUME NEW old \in Image, NEW k \in CallType, GateOpen(old, k), NEW new,
           new = WithStatus(WithDecision(old, k), k)
    PROVE  /\ new \in Image /\ new.ledger = old.ledger
           /\ RowsDecided(old, new, k.claim, DecidedRow(old, k))
<1> DEFINE c == k.claim
           row == DecidedRow(old, k)
           base == WithDecision(old, k)
<1>1. /\ k.to \in AllowedTransitions(StatusIn(old, c))
      /\ StatusIn(old, c) \in Statuses /\ k.to \in Targets
      /\ c \in ClaimIds /\ k.decided \in Times
  BY StatusFacts DEF GateOpen, CallType
<1>2. /\ base \in Image /\ base.claims = old.claims
      /\ base.evidence = old.evidence /\ base.ledger = old.ledger
  BY <1>1, WithDecisionTyped
<1>3. base.decisions = Append(old.decisions, row)
  BY DEF WithDecision, DecidedRow, Image
<1>4. row.claim = c /\ row.from = StatusIn(old, c) /\ row.to = k.to /\ row.at = k.decided
  BY DEF DecidedRow
<1> HIDE DEF base, row
<1>5. StatusIn(base, c) \in Statuses
  BY <1>1, <1>2 DEF StatusIn
<1>6. /\ new \in Image /\ new.evidence = base.evidence
      /\ new.decisions = base.decisions /\ new.ledger = base.ledger
  BY <1>1, <1>2, <1>5, WithStatusTyped DEF base
<1>7. /\ old.claims[c] \in ClaimRow /\ base.claims \in [ClaimIds -> ClaimRow \cup {NoRow}]
  BY <1>1, <1>2, RowFacts DEF Image
<1>8. /\ new.claims[c].status = k.to /\ new.claims[c].updated = k.decided
      /\ new.claims[c].created = old.claims[c].created
      /\ \A d \in ClaimIds \ {c} : new.claims[d] = old.claims[d]
      /\ new.claims[c] \in ClaimRow
  <2> DEFINE changed == [base.claims[c] EXCEPT !.status = k.to, !.updated = k.decided]
  <2>1. new.claims = [base.claims EXCEPT ![c] = changed]
    BY <1>1, <1>2, <1>7 DEF WithStatus, Image, ClaimRow, base
  <2>2. /\ changed.status = k.to /\ changed.updated = k.decided
        /\ changed.created = old.claims[c].created /\ changed \in ClaimRow
    BY <1>1, <1>2, <1>7, StatusFacts DEF ClaimRow
  <2> HIDE DEF changed
  <2> QED
    BY <1>1, <1>2, <1>7, <2>1, <2>2
<1>9. /\ c \in Existing(old) /\ Existing(new) = Existing(old)
  <2>1. \A r \in ClaimRow : r # NoRow
    <3>1. \A r \in ClaimRow : r.status \in Statuses
      BY DEF ClaimRow
    <3>2. NoRow.status = Absent /\ Absent \notin Statuses
      BY StatusFacts DEF NoRow
    <3> QED
      BY <3>1, <3>2
  <2> QED
    BY <1>1, <1>7, <1>8, <2>1 DEF Existing, HasRow
<1>10. EvidenceIn(new, c) = EvidenceIn(old, c)
  BY <1>2, <1>6 DEF EvidenceIn
<1>11. RowDecided(old, new, c, row)
  BY <1>1, <1>2, <1>3, <1>4, <1>6, <1>8, <1>10 DEF RowDecided, StatusIn
<1> QED
  BY <1>2, <1>6, <1>8, <1>9, <1>11 DEF RowsDecided, row

(* The tables of an addition. *)
RowsAdded(old, new, c, refs) ==
    /\ c \in Existing(old)
    /\ StatusIn(old, c) \in Reviewable
    /\ new.claims = old.claims
    /\ new.decisions = old.decisions
    /\ \A e \in EvidenceIds : new.evidence[e] =
                                  IF e \in refs THEN c ELSE old.evidence[e]
    /\ refs \subseteq EvidenceIds /\ \A e \in refs : old.evidence[e] = NoClaim

LEMMA AdditionWritesRows ==
    ASSUME NEW old \in Image, NEW k \in CallType, CanAttach(old, k), NEW new,
           new = WithEvidence(old, k)
    PROVE  /\ new \in Image /\ new.ledger = old.ledger
           /\ RowsAdded(old, new, k.claim, k.refs)
<1>1. /\ new \in Image /\ new.claims = old.claims
      /\ new.evidence = [e \in EvidenceIds |->
                            IF e \in k.refs THEN k.claim ELSE old.evidence[e]]
      /\ new.decisions = old.decisions /\ new.ledger = old.ledger
  BY WithEvidenceTyped
<1>2. /\ StatusIn(old, k.claim) \in Reviewable
      /\ \A e \in k.refs : old.evidence[e] = NoClaim
      /\ k.refs \subseteq EvidenceIds /\ k.claim \in ClaimIds
  BY DEF CanAttach, CallType
<1>3. k.claim \in Existing(old)
  BY <1>2, RowFacts, StatusFacts DEF Existing, HasRow
<1> QED
  BY <1>1, <1>2, <1>3 DEF RowsAdded
-----------------------------------------------------------------------------
(* What a step leaves of the claims it is not about. *)

OthersKept(old, new, c) == \A d \in ClaimIds \ {c} : SameRows(old, new, d)

LEMMA ProposalsKeepOthers ==
    ASSUME NEW old, NEW new, NEW c, NEW refs, RowsProposed(old, new, c, refs)
    PROVE  OthersKept(old, new, c)
<1> SUFFICES ASSUME NEW d \in ClaimIds \ {c} PROVE SameRows(old, new, d)
  BY DEF OthersKept
<1>1. DecisionsOf(new, d) = DecisionsOf(old, d) /\ new.decisions = old.decisions
      /\ new.claims[d] = old.claims[d]
  BY DEF RowsProposed, DecisionsOf
<1>2. EvidenceIn(new, d) = EvidenceIn(old, d)
  <2>1. \A e \in EvidenceIds : new.evidence[e] = d <=> old.evidence[e] = d
    BY NoClaimAssumption DEF RowsProposed
  <2> QED
    BY <2>1 DEF EvidenceIn
<1> QED
  BY <1>1, <1>2 DEF SameRows

LEMMA ProposalIsNew ==
    ASSUME NEW old, Sane(old), NEW new, NEW c, NEW refs \in SUBSET EvidenceIds,
           RowsProposed(old, new, c, refs)
    PROVE  IsNew(new, c) /\ Unheard(old, c) /\ EvidenceIn(new, c) = refs
<1>1. Unheard(old, c) /\ c \in ClaimIds
  BY UnknownIsUnheard DEF RowsProposed
<1>2. DecisionsOf(new, c) = {}
  BY <1>1 DEF RowsProposed, DecisionsOf, Unheard
<1>3. EvidenceIn(new, c) = refs
  <2>1. \A e \in EvidenceIds : old.evidence[e] # c
    BY <1>1 DEF Unheard, EvidenceIn
  <2>2. \A e \in EvidenceIds : new.evidence[e] = c <=> e \in refs
    BY <2>1 DEF RowsProposed
  <2> QED
    BY <2>2 DEF EvidenceIn
<1> QED
  BY <1>1, <1>2, <1>3 DEF IsNew, RowsProposed

LEMMA DecisionsKeepOthers ==
    ASSUME NEW old, Shaped(old), NEW new, NEW c, NEW row,
           RowsDecided(old, new, c, row)
    PROVE  OthersKept(old, new, c)
<1> SUFFICES ASSUME NEW d \in ClaimIds \ {c} PROVE SameRows(old, new, d)
  BY DEF OthersKept
<1>1. /\ DOMAIN new.decisions = DOMAIN old.decisions \cup {Len(old.decisions) + 1}
      /\ Len(old.decisions) + 1 \notin DOMAIN old.decisions
      /\ \A n \in DOMAIN old.decisions : new.decisions[n] = old.decisions[n]
      /\ new.decisions[Len(old.decisions) + 1] = row
  BY AppendedLedger DEF Shaped, RowsDecided, RowDecided
<1>2. row.claim # d
  BY DEF RowsDecided, RowDecided
<1>3. \A i : i \in DecisionsOf(new, d) <=> i \in DecisionsOf(old, d)
  BY <1>1, <1>2 DEF DecisionsOf
<1>4. \A i \in DecisionsOf(old, d) : new.decisions[i] = old.decisions[i]
  BY <1>1 DEF DecisionsOf
<1>5. new.claims[d] = old.claims[d] /\ EvidenceIn(new, d) = EvidenceIn(old, d)
  BY DEF RowsDecided, EvidenceIn
<1>6. DecisionsOf(new, d) = DecisionsOf(old, d)
  BY <1>3
<1> QED
  BY <1>4, <1>5, <1>6 DEF SameRows

LEMMA AdditionsKeepOthers ==
    ASSUME NEW old, NEW new, NEW c, NEW refs, RowsAdded(old, new, c, refs)
    PROVE  OthersKept(old, new, c) /\ Existing(new) = Existing(old)
<1>1. ASSUME NEW d \in ClaimIds \ {c} PROVE SameRows(old, new, d)
  <2>1. DecisionsOf(new, d) = DecisionsOf(old, d) /\ new.decisions = old.decisions
        /\ new.claims[d] = old.claims[d]
    BY DEF RowsAdded, DecisionsOf
  <2>2. \A e \in EvidenceIds : new.evidence[e] = d <=> old.evidence[e] = d
    BY NoClaimAssumption DEF RowsAdded
  <2>3. EvidenceIn(new, d) = EvidenceIn(old, d)
    BY <2>2 DEF EvidenceIn
  <2> QED
    BY <2>1, <2>3 DEF SameRows
<1> QED
  BY <1>1 DEF OthersKept, RowsAdded, Existing, HasRow

LEMMA AdditionIsGiven ==
    ASSUME NEW old, NEW new, NEW c, NEW refs, RowsAdded(old, new, c, refs)
    PROVE  EvidenceGiven(old, new, c, refs)
<1>1. c # NoClaim
  BY NoClaimAssumption DEF RowsAdded, Existing
<1>2. EvidenceIn(new, c) = EvidenceIn(old, c) \cup refs
  BY DEF RowsAdded, EvidenceIn
<1>3. EvidenceIn(old, c) \cap refs = {}
  BY <1>1 DEF RowsAdded, EvidenceIn
<1> QED
  BY <1>2, <1>3 DEF EvidenceGiven, RowsAdded, DecisionsOf

(* Anchors. *)
LedgerKept(old, new) ==
    \/ new.ledger = old.ledger
    \/ \E entry : /\ EntryAdded(old, new, entry)
                  /\ entry.event \in ClaimEvents => entry.claim \in Existing(new)

LEMMA LedgerStaysAnchored ==
    ASSUME NEW old, Sane(old), NEW new, LedgerKept(old, new),
           Existing(old) \subseteq Existing(new)
    PROVE  \A n \in DOMAIN new.ledger :
               new.ledger[n].event \in ClaimEvents =>
                   new.ledger[n].claim \in Existing(new)
<1>1. \A n \in DOMAIN old.ledger :
          old.ledger[n].event \in ClaimEvents =>
              old.ledger[n].claim \in Existing(new)
  BY DEF Sane, Anchored
<1>2. CASE new.ledger = old.ledger
  BY <1>1, <1>2
<1>3. ASSUME NEW entry, EntryAdded(old, new, entry),
             entry.event \in ClaimEvents => entry.claim \in Existing(new),
             NEW n \in DOMAIN new.ledger, new.ledger[n].event \in ClaimEvents
      PROVE  new.ledger[n].claim \in Existing(new)
  <2>1. n \in DOMAIN old.ledger \/ n = Len(old.ledger) + 1
    BY <1>3 DEF EntryAdded
  <2>2. n \in DOMAIN old.ledger => new.ledger[n] = old.ledger[n]
    BY <1>3 DEF EntryAdded
  <2> QED
    BY <1>1, <1>3, <2>1, <2>2 DEF EntryAdded
<1> QED
  BY <1>2, <1>3 DEF LedgerKept

LEMMA ProposalIsSane ==
    ASSUME NEW old, Sane(old), NEW new \in Image, NEW c, NEW refs,
           RowsProposed(old, new, c, refs), LedgerKept(old, new)
    PROVE  Sane(new)
<1>1. Existing(new) = Existing(old) \cup {c} /\ new.decisions = old.decisions
  BY DEF RowsProposed
<1>2. IsFiniteSet(Existing(new))
  BY <1>1, FS_AddElement DEF Sane
<1>3. \A e \in EvidenceIds : new.evidence[e] \in Existing(new) \cup {NoClaim}
  BY <1>1 DEF RowsProposed, Sane, Anchored
<1>4. \A i \in DOMAIN new.decisions : new.decisions[i].claim \in Existing(new)
  BY <1>1 DEF Sane, Anchored
<1> QED
  BY <1>1, <1>2, <1>3, <1>4, LedgerStaysAnchored DEF Sane, Anchored

LEMMA DecisionIsSane ==
    ASSUME NEW old, Sane(old), NEW new \in Image, NEW c, NEW row,
           RowsDecided(old, new, c, row), LedgerKept(old, new)
    PROVE  Sane(new)
<1>1. /\ Existing(new) = Existing(old) /\ new.evidence = old.evidence
      /\ row.claim \in Existing(old)
  BY DEF RowsDecided, RowDecided
<1>2. /\ DOMAIN new.decisions = DOMAIN old.decisions \cup {Len(old.decisions) + 1}
      /\ \A n \in DOMAIN old.decisions : new.decisions[n] = old.decisions[n]
      /\ new.decisions[Len(old.decisions) + 1] = row
  BY SaneIsShaped, AppendedLedger DEF Shaped, RowsDecided, RowDecided
<1>3. \A i \in DOMAIN new.decisions : new.decisions[i].claim \in Existing(new)
  BY <1>1, <1>2 DEF Sane, Anchored
<1> QED
  BY <1>1, <1>3, LedgerStaysAnchored DEF Sane, Anchored

LEMMA AdditionIsSane ==
    ASSUME NEW old, Sane(old), NEW new \in Image, NEW c, NEW refs,
           RowsAdded(old, new, c, refs), LedgerKept(old, new)
    PROVE  Sane(new)
<1>1. Existing(new) = Existing(old)
  BY AdditionsKeepOthers
<1>2. \A e \in EvidenceIds : new.evidence[e] \in Existing(new) \cup {NoClaim}
  BY <1>1 DEF RowsAdded, Sane, Anchored
<1>3. \A i \in DOMAIN new.decisions : new.decisions[i].claim \in Existing(new)
  BY <1>1 DEF RowsAdded, Sane, Anchored
<1> QED
  BY <1>1, <1>2, <1>3, LedgerStaysAnchored DEF Sane, Anchored

LEMMA SameTablesAreSane ==
    ASSUME NEW old, Sane(old), NEW new \in Image, SameTables(old, new),
           LedgerKept(old, new)
    PROVE  Sane(new)
<1>1. Existing(new) = Existing(old)
  BY DEF SameTables, Existing, HasRow
<1> QED
  BY <1>1, LedgerStaysAnchored DEF Sane, Anchored, SameTables
-----------------------------------------------------------------------------
(* What the calls commit is sound again. *)

Sound(image) ==
    /\ Sane(image)
    /\ \A c \in Existing(image) : Whole(image, c)

(* A step about c that writes one entry leaves the others whole. *)
LEMMA OthersStayWhole ==
    ASSUME NEW old, Sound(old), NEW new, Sane(new), NEW c, OthersKept(old, new, c),
           NEW entry, EntryAdded(old, new, entry), entry.claim = c,
           NEW d \in Existing(old), d # c
    PROVE  Whole(new, d)
<1>1. Shaped(old) /\ Shaped(new) /\ Whole(old, d) /\ d \in ClaimIds
  BY SaneIsShaped DEF Sound
<1>2. SameRows(old, new, d)
  BY <1>1 DEF OthersKept
<1>3. SameEntries(old, new, d) /\ SameAttestations(old, new, d)
  BY QuietEntry
<1> QED
  BY <1>1, <1>2, <1>3, SameStaysWhole

(* The same step, its entry written. *)
LEMMA EntryKeepsTables ==
    ASSUME NEW old, IsLedger(old.ledger), NEW base \in Image,
           base.ledger = old.ledger, NEW new, NEW entry, SameTables(base, new),
           new.ledger = Append(base.ledger, entry)
    PROVE  /\ EntryAdded(old, new, entry)
           /\ \A c, refs : RowsProposed(old, base, c, refs) => RowsProposed(old, new, c, refs)
           /\ \A c, row : RowsDecided(old, base, c, row) => RowsDecided(old, new, c, row)
           /\ \A c, refs : RowsAdded(old, base, c, refs) => RowsAdded(old, new, c, refs)
           /\ \A c : MaterialOf(new, c) = MaterialOf(base, c)
           /\ Existing(new) = Existing(base)
<1>1. EntryAdded(old, new, entry)
  BY AppendAddsEntry
<1>2. Existing(new) = Existing(base) /\ \A c : EvidenceIn(new, c) = EvidenceIn(base, c)
  BY DEF SameTables, Existing, HasRow, EvidenceIn
<1>3. \A c, refs : RowsProposed(old, base, c, refs) => RowsProposed(old, new, c, refs)
  BY <1>2 DEF RowsProposed, SameTables, StatusIn
<1>4. \A c, row : RowsDecided(old, base, c, row) => RowsDecided(old, new, c, row)
  BY <1>2 DEF RowsDecided, RowDecided, SameTables, StatusIn
<1>5. \A c, refs : RowsAdded(old, base, c, refs) => RowsAdded(old, new, c, refs)
  BY DEF RowsAdded, SameTables
<1>6. \A c : MaterialOf(new, c) = MaterialOf(base, c)
  BY <1>2 DEF MaterialOf, SameTables
<1> QED
  BY <1>1, <1>2, <1>3, <1>4, <1>5, <1>6

LEMMA ProposedIsSound ==
    ASSUME NEW old, Sound(old), NEW k \in CallType, Proposable(old, k), NEW new,
           new = Proposed(old, k)
    PROVE  Sound(new)
<1> DEFINE c == k.claim
           base == WithEvidence(WithClaim(old, k), k)
           entry == [event |-> "claim.proposed", claim |-> c, refs |-> k.refs,
                     material |-> MaterialOf(base, c), decision |-> 0,
                     from |-> Absent, to |-> Absent, at |-> k.at]
<1>1. old \in Image /\ Sane(old) /\ Shaped(old) /\ IsLedger(old.ledger)
  BY SaneIsShaped DEF Sound, Sane, Shaped
<1>2. base \in Image /\ base.ledger = old.ledger /\ RowsProposed(old, base, c, k.refs)
  BY <1>1, ProposalWritesRows DEF Proposable
<1>3. new \in Image
  BY <1>1, ProposalTyped
<1>4. new = WithEntry(base, "claim.proposed", c, k.refs, MaterialOf(base, c),
                      0, Absent, Absent, k.at)
  BY DEF Proposed, WithMaterialEntry
<1> HIDE DEF base
<1>5. SameTables(base, new) /\ new.ledger = Append(base.ledger, entry)
  BY <1>2, <1>4, EntryWritten
<1>6. /\ entry.claim = c /\ entry.event = "claim.proposed" /\ entry.refs = k.refs
      /\ entry.material = MaterialOf(base, c)
  OBVIOUS
<1> HIDE DEF entry
<1>7. /\ EntryAdded(old, new, entry) /\ RowsProposed(old, new, c, k.refs)
      /\ MaterialOf(new, c) = MaterialOf(base, c)
  BY <1>1, <1>2, <1>5, EntryKeepsTables
<1> HIDE DEF c
<1>8. c \in ClaimIds /\ Existing(new) = Existing(old) \cup {c}
  BY <1>7 DEF RowsProposed
<1>9. LedgerKept(old, new)
  BY <1>6, <1>7, <1>8 DEF LedgerKept
<1>10. Sane(new) /\ Shaped(new)
  BY <1>1, <1>3, <1>7, <1>9, ProposalIsSane, SaneIsShaped
<1>11. k.refs \in SUBSET EvidenceIds
  BY DEF CallType
<1>12. IsNew(new, c) /\ Unheard(old, c) /\ EvidenceIn(new, c) = k.refs
  BY <1>1, <1>7, <1>11, ProposalIsNew
<1>13. Whole(new, c)
  BY <1>6, <1>7, <1>10, <1>12, ProposedIsWhole DEF Joins
<1>14. OthersKept(old, new, c)
  BY <1>7, ProposalsKeepOthers
<1>15. \A d \in Existing(old) : d # c => Whole(new, d)
  BY <1>6, <1>7, <1>10, <1>14, OthersStayWhole
<1> QED
  BY <1>8, <1>10, <1>13, <1>15 DEF Sound

(* The entry of a decision names the row just written. *)
LEMMA DecidedEntryNames ==
    ASSUME NEW old, Shaped(old), NEW base, NEW c, NEW row,
           RowsDecided(old, base, c, row)
    PROVE  /\ Len(base.decisions) = Len(old.decisions) + 1
           /\ base.decisions[Len(base.decisions)] = row
<1>1. /\ IsLedger(base.decisions)
      /\ DOMAIN base.decisions = DOMAIN old.decisions \cup {Len(old.decisions) + 1}
      /\ base.decisions[Len(old.decisions) + 1] = row
  BY AppendedLedger DEF Shaped, RowsDecided, RowDecided
<1>2. /\ Len(old.decisions) \in Nat /\ DOMAIN old.decisions = 1 .. Len(old.decisions)
      /\ Len(base.decisions) \in Nat /\ DOMAIN base.decisions = 1 .. Len(base.decisions)
  BY <1>1, LedgerFacts DEF Shaped
<1>3. Len(base.decisions) = Len(old.decisions) + 1
  <2>1. \A n : n \in 1 .. Len(base.decisions) <=> n \in 1 .. Len(old.decisions) + 1
    BY <1>1, <1>2
  <2>2. Len(old.decisions) + 1 \in 1 .. Len(base.decisions)
    BY <1>2, <2>1
  <2>3. Len(base.decisions) # 0 => Len(base.decisions) \in 1 .. Len(old.decisions) + 1
    BY <1>2, <2>1
  <2> QED
    BY <1>2, <2>2, <2>3
<1> QED
  BY <1>1, <1>3

LEMMA DecidedIsSound ==
    ASSUME NEW old, Sound(old), NEW k \in CallType, GateOpen(old, k), NEW new,
           new = Decided(old, k)
    PROVE  Sound(new)
<1> DEFINE c == k.claim
           row == DecidedRow(old, k)
           base == WithStatus(WithDecision(old, k), k)
           last == Len(base.decisions)
           status == base.decisions[last].from
           entry == [event |-> "claim.governance_decided", claim |-> c, refs |-> {},
                     material |-> NoMaterial, decision |-> last,
                     from |-> status, to |-> k.to, at |-> k.decided]
<1>1. old \in Image /\ Sane(old) /\ Shaped(old) /\ IsLedger(old.ledger)
  BY SaneIsShaped DEF Sound, Sane, Shaped
<1>2. base \in Image /\ base.ledger = old.ledger /\ RowsDecided(old, base, c, row)
  BY <1>1, DecisionWritesRows
<1>3. new \in Image
  <2>1. StatusIn(old, k.claim) \in Statuses /\ k.to \in Targets
    BY StatusFacts DEF GateOpen
  <2> QED
    BY <1>1, <2>1, DecisionTyped
<1>4. new = WithEntry(base, "claim.governance_decided", c, {}, NoMaterial, last,
                      status, k.to, k.decided)
  BY DEF Decided, WithDecidedEntry
<1>5. last = Len(old.decisions) + 1 /\ base.decisions[last] = row
  BY <1>1, <1>2, DecidedEntryNames
<1> HIDE DEF base, status, last
<1>6. SameTables(base, new) /\ new.ledger = Append(base.ledger, entry)
  BY <1>2, <1>4, DecisionEntryWritten
<1>7. /\ entry.claim = c /\ entry.event = "claim.governance_decided"
      /\ entry.decision = last /\ entry.from = row.from /\ entry.to = row.to
      /\ entry.at = row.at
  <2>1. row.to = k.to /\ row.at = k.decided
    BY DEF DecidedRow
  <2> HIDE DEF row
  <2> QED
    BY <1>5, <2>1 DEF status
<1> HIDE DEF entry, row
<1>8. EntryAdded(old, new, entry) /\ RowsDecided(old, new, c, row)
  BY <1>1, <1>2, <1>6, EntryKeepsTables
<1> HIDE DEF c
<1>9. c \in Existing(old) /\ Existing(new) = Existing(old) /\ RowDecided(old, new, c, row)
  BY <1>8 DEF RowsDecided
<1>10. LedgerKept(old, new)
  BY <1>7, <1>8, <1>9 DEF LedgerKept
<1>11. Sane(new) /\ Shaped(new)
  BY <1>1, <1>3, <1>8, <1>10, DecisionIsSane, SaneIsShaped
<1>12. RowLedgered(entry, c, row, Len(old.decisions) + 1)
  BY <1>5, <1>7 DEF RowLedgered, Joins
<1>13. Whole(old, c)
  BY <1>9 DEF Sound
<1>14. Whole(new, c)
  BY <1>1, <1>8, <1>9, <1>11, <1>12, <1>13, DecidedIsWhole
<1>15. OthersKept(old, new, c)
  BY <1>1, <1>8, DecisionsKeepOthers
<1>16. \A d \in Existing(old) : d # c => Whole(new, d)
  BY <1>7, <1>8, <1>11, <1>15, OthersStayWhole
<1> QED
  BY <1>9, <1>11, <1>14, <1>16 DEF Sound

LEMMA AddedIsSound ==
    ASSUME NEW old, Sound(old), NEW k \in CallType, CanAttach(old, k), NEW new,
           new = Added(old, k)
    PROVE  Sound(new)
<1> DEFINE c == k.claim
           base == WithEvidence(old, k)
           entry == [event |-> "claim.evidence_added", claim |-> c,
                     refs |-> k.refs, material |-> MaterialOf(base, c),
                     decision |-> 0, from |-> Absent, to |-> Absent, at |-> k.at]
<1>1. old \in Image /\ Sane(old) /\ Shaped(old) /\ IsLedger(old.ledger)
  BY SaneIsShaped DEF Sound, Sane, Shaped
<1>2. base \in Image /\ base.ledger = old.ledger /\ RowsAdded(old, base, c, k.refs)
  BY <1>1, AdditionWritesRows
<1>3. new \in Image
  BY <1>1, AdditionTyped
<1>4. new = WithEntry(base, "claim.evidence_added", c, k.refs, MaterialOf(base, c),
                      0, Absent, Absent, k.at)
  BY DEF Added, WithMaterialEntry
<1> HIDE DEF base
<1>5. SameTables(base, new) /\ new.ledger = Append(base.ledger, entry)
  BY <1>2, <1>4, EntryWritten
<1>6. /\ entry.claim = c /\ entry.event = "claim.evidence_added"
      /\ entry.refs = k.refs /\ entry.material = MaterialOf(base, c)
  OBVIOUS
<1> HIDE DEF entry
<1>7. /\ EntryAdded(old, new, entry) /\ RowsAdded(old, new, c, k.refs)
      /\ MaterialOf(new, c) = MaterialOf(base, c)
  BY <1>1, <1>2, <1>5, EntryKeepsTables
<1> HIDE DEF c
<1>8. /\ c \in Existing(old) /\ Existing(new) = Existing(old)
      /\ OthersKept(old, new, c)
  BY <1>7, AdditionsKeepOthers DEF RowsAdded
<1>9. LedgerKept(old, new)
  BY <1>6, <1>7, <1>8 DEF LedgerKept
<1>10. Sane(new) /\ Shaped(new)
  BY <1>1, <1>3, <1>7, <1>9, AdditionIsSane, SaneIsShaped
<1>11. EvidenceGiven(old, new, c, k.refs)
  BY <1>7, AdditionIsGiven
<1>12. AdditionJoins(old, new, c, k.refs)
  BY <1>1, <1>6, <1>7, AdditionIsJoined DEF Joins
<1>13. new.ledger[Len(old.ledger) + 1].material = MaterialOf(new, c)
  BY <1>6, <1>7 DEF EntryAdded
<1>14. Whole(new, c)
  BY <1>1, <1>8, <1>10, <1>11, <1>12, <1>13, AdditionIsWhole DEF Sound
<1>15. \A d \in Existing(old) : d # c => Whole(new, d)
  BY <1>6, <1>7, <1>8, <1>10, OthersStayWhole
<1> QED
  BY <1>8, <1>10, <1>14, <1>15 DEF Sound

(* An entry of a caller's own. *)
LEMMA CustomEntryWritten ==
    ASSUME NEW old \in Image, NEW event, NEW c, NEW at, NEW new,
           new = WithEntry(old, event, c, {}, NoMaterial, 0, Absent, Absent, at)
    PROVE  /\ SameTables(old, new)
           /\ new.ledger = Append(old.ledger,
                  [event |-> event, claim |-> c, refs |-> {},
                   material |-> NoMaterial, decision |-> 0,
                   from |-> Absent, to |-> Absent, at |-> at])
  BY DEF WithEntry, SameTables, Image

LEMMA RecordedIsSound ==
    ASSUME NEW old, Sound(old), NEW k \in CallType,
           k.event \in CallerEvents \ ReservedEvents,
           "claim.governance_decided" \notin CallerEvents, NEW new,
           new = WithCustomEntry(old, k)
    PROVE  Sound(new)
<1> DEFINE entry == [event |-> k.event, claim |-> k.claim, refs |-> {},
                     material |-> NoMaterial, decision |-> 0,
                     from |-> Absent, to |-> Absent, at |-> k.at]
<1>1. old \in Image /\ Sane(old) /\ Shaped(old) /\ IsLedger(old.ledger)
  BY SaneIsShaped DEF Sound, Sane, Shaped
<1>2. new \in Image
  BY <1>1, WithCustomEntryTyped
<1>3. SameTables(old, new) /\ new.ledger = Append(old.ledger, entry)
  BY <1>1, CustomEntryWritten DEF WithCustomEntry
<1>4. entry.event \notin ClaimEvents
  BY DEF ClaimEvents, ReservedEvents
<1> HIDE DEF entry
<1>5. EntryAdded(old, new, entry)
  BY <1>1, <1>3, AppendAddsEntry
<1>6. Sane(new) /\ Shaped(new)
  <2>1. LedgerKept(old, new)
    BY <1>4, <1>5 DEF LedgerKept
  <2> QED
    BY <1>1, <1>2, <1>3, <2>1, SameTablesAreSane, SaneIsShaped
<1>7. ASSUME NEW c \in Existing(old) PROVE Whole(new, c)
  <2>1. SameEntries(old, new, c) /\ SameAttestations(old, new, c)
    BY <1>4, <1>5, QuietEntry
  <2>2. SameRows(old, new, c)
    BY <1>3, TablesGiveRows
  <2> QED
    BY <1>1, <1>6, <2>1, <2>2, SameStaysWhole DEF Sound
<1>8. Existing(new) = Existing(old)
  BY <1>3 DEF SameTables, Existing, HasRow
<1> QED
  BY <1>6, <1>7, <1>8 DEF Sound
-----------------------------------------------------------------------------
(* Edits of one row of a sound repository. *)

SameLedger(old, new, c) ==
    /\ new.ledger = old.ledger
    /\ Proposals(new, c) = Proposals(old, c)
    /\ Additions(new, c) = Additions(old, c)
    /\ DecidedEntries(new, c) = DecidedEntries(old, c)
    /\ Attestations(new, c) = Attestations(old, c)
    /\ \A i : EntriesNaming(new, c, i) = EntriesNaming(old, c, i)
    /\ \A n : AccumulatedAt(new, c, n) = AccumulatedAt(old, c, n)
    /\ Checkpoints(new, c) = Checkpoints(old, c)

LEMMA EditsLeaveLedger ==
    ASSUME NEW old, NEW new, new.ledger = old.ledger, NEW c
    PROVE  SameLedger(old, new, c)
<1>1. /\ Proposals(new, c) = Proposals(old, c)
      /\ Additions(new, c) = Additions(old, c)
      /\ DecidedEntries(new, c) = DecidedEntries(old, c)
      /\ Attestations(new, c) = Attestations(old, c)
  BY DEF Proposals, Additions, DecidedEntries, Attestations, EntriesOf
<1>2. \A i : EntriesNaming(new, c, i) = EntriesNaming(old, c, i)
  BY <1>1 DEF EntriesNaming
<1>3. \A n : AccumulatedAt(new, c, n) = AccumulatedAt(old, c, n)
  BY <1>1 DEF AccumulatedAt
<1>4. Checkpoints(new, c) = Checkpoints(old, c)
  BY <1>1 DEF Checkpoints, Carries
<1> QED
  BY <1>1, <1>2, <1>3, <1>4 DEF SameLedger

(* What the digests say of the creation time. *)
LEMMA CreationIsBound ==
    ASSUME NEW image, Shaped(image), NEW c, Whole(image, c), NEW edited,
           edited.ledger = image.ledger, AuthorityValid(edited, c)
    PROVE  edited.claims[c].created = image.claims[c].created
<1>1. PICK n : n \in Checkpoints(image, c)
  BY DEF Whole
<1>2. n \in Checkpoints(edited, c)
  BY <1>1, EditsLeaveLedger DEF SameLedger
<1>3. image.ledger[n].material =
          [created |-> image.claims[c].created, refs |-> AccumulatedAt(image, c, n)]
  BY <1>1 DEF Whole, MaterialHolds
<1>4. edited.ledger[n].material =
          [created |-> edited.claims[c].created, refs |-> AccumulatedAt(edited, c, n)]
  <2>1. MaterialHolds(edited, c)
    BY DEF AuthorityValid
  <2> QED
    BY <1>2, <2>1 DEF MaterialHolds
<1> QED
  BY <1>3, <1>4

(* Whole and valid, with the same decisions: the rows are the same. *)
LEMMA RowIsBound ==
    ASSUME NEW image, Shaped(image), NEW c, Whole(image, c), NEW edited,
           edited.ledger = image.ledger, edited.decisions = image.decisions,
           AuthorityValid(edited, c)
    PROVE  /\ edited.claims[c].created = image.claims[c].created
           /\ edited.claims[c].updated = image.claims[c].updated
           /\ edited.claims[c].status = image.claims[c].status
<1>1. AuthorityValid(image, c) /\ edited.claims[c].created = image.claims[c].created
  BY WholeIsValid, CreationIsBound
<1>2. /\ DecisionsOf(edited, c) = DecisionsOf(image, c)
      /\ \A i : EntriesNaming(edited, c, i) = EntriesNaming(image, c, i)
  BY EditsLeaveLedger DEF DecisionsOf, SameLedger
<1>3. ASSUME NEW i PROVE ReplayKey(edited, c, i) = ReplayKey(image, c, i)
  <2> DEFINE key(entries) == IF Cardinality(entries) = 1
                             THEN CHOOSE n \in entries : TRUE
                             ELSE Len(image.ledger) + i
  <2>1. ReplayKey(image, c, i) = key(EntriesNaming(image, c, i))
    BY Zenon DEF ReplayKey
  <2>2. ReplayKey(edited, c, i) = key(EntriesNaming(edited, c, i))
    BY DEF ReplayKey
  <2> HIDE DEF key
  <2>3. EntriesNaming(edited, c, i) = EntriesNaming(image, c, i)
    BY <1>2
  <2> QED
    BY <2>1, <2>2, <2>3
<1>4. \A rows : LastOf(edited, c, rows) = LastOf(image, c, rows)
  BY <1>3 DEF LastOf
<1>5. edited.claims[c].updated = image.claims[c].updated
  BY <1>1, <1>2, <1>4 DEF AuthorityValid, UpdatedAtReplays
<1>6. edited.claims[c].status = image.claims[c].status
  BY <1>1, <1>2, <1>4 DEF AuthorityValid, StatusReplays, StatusAfter, StatusIn
<1> QED
  BY <1>1, <1>5, <1>6

LEMMA EditedClaimIsNoticed ==
    ASSUME NEW image, Sound(image), NEW edited \in EditedClaims(image),
           AllValid(edited)
    PROVE  edited = image
<1>1. PICK c \in ClaimIds, row \in ClaimRow :
          edited = [image EXCEPT !.claims[c] = row]
  BY DEF EditedClaims
<1>2. /\ image \in Image /\ Shaped(image)
      /\ \A d \in Existing(image) : Whole(image, d)
  BY SaneIsShaped DEF Sound, Sane
<1>3. /\ edited.claims = [image.claims EXCEPT ![c] = row]
      /\ edited.decisions = image.decisions /\ edited.ledger = image.ledger
      /\ edited = [image EXCEPT !.claims = edited.claims]
  BY <1>1, <1>2 DEF Image
<1>4. edited.claims[c] = row /\ HasRow(edited, c)
  <2>1. edited.claims[c] = row /\ row.status \in Statuses
    BY <1>2, <1>3 DEF Image, ClaimRow
  <2> QED
    BY <2>1, StatusFacts DEF HasRow, NoRow
<1>5. AuthorityValid(edited, c)
  BY <1>4 DEF AllValid
<1>6. c \in Existing(image)
  <2>1. ASSUME c \notin Existing(image) PROVE FALSE
    <3>1. Proposals(image, c) = {}
      BY <2>1, UnknownIsUnheard DEF Sound, Unheard
    <3>2. Proposals(edited, c) = {} /\ Cardinality({}) = 0
      BY <1>3, <3>1, EditsLeaveLedger, FS_EmptySet DEF SameLedger
    <3> QED
      BY <1>5, <3>2 DEF AuthorityValid, OneProposal
  <2> QED
    BY <2>1
<1>7. /\ row.created = image.claims[c].created
      /\ row.updated = image.claims[c].updated
      /\ row.status = image.claims[c].status
  BY <1>2, <1>3, <1>4, <1>5, <1>6, RowIsBound
<1>8. image.claims[c] \in ClaimRow
  BY <1>2, <1>6 DEF Image, Existing, HasRow
<1>9. row = image.claims[c]
  BY <1>7, <1>8 DEF ClaimRow
<1>10. edited.claims = image.claims
  BY <1>2, <1>3, <1>9 DEF Image
<1> QED
  BY <1>2, <1>3, <1>10 DEF Image

LEMMA EditedEvidenceIsNoticed ==
    ASSUME NEW image, Sound(image), NEW edited \in EditedEvidence(image),
           AllValid(edited)
    PROVE  edited = image
<1>1. PICK e \in EvidenceIds, c \in Existing(image) \cup {NoClaim} :
          edited = [image EXCEPT !.evidence[e] = c]
  BY DEF EditedEvidence
<1>2. /\ image \in Image /\ Shaped(image)
      /\ \A d \in Existing(image) : Whole(image, d)
      /\ image.evidence[e] \in Existing(image) \cup {NoClaim}
  BY SaneIsShaped DEF Sound, Sane, Anchored
<1>3. /\ edited.evidence = [image.evidence EXCEPT ![e] = c]
      /\ edited.claims = image.claims /\ edited.ledger = image.ledger
      /\ edited = [image EXCEPT !.evidence = edited.evidence]
  BY <1>1, <1>2 DEF Image
<1>4. edited.evidence[e] = c
  BY <1>2, <1>3 DEF Image
<1>5. ASSUME NEW d \in Existing(image)
      PROVE  EvidenceIn(edited, d) = EvidenceIn(image, d)
  <2>1. AuthorityValid(image, d)
    BY <1>2, WholeIsValid
  <2>2. AuthorityValid(edited, d)
    BY <1>3 DEF AllValid, Existing, HasRow
  <2>3. SameLedger(image, edited, d)
    BY <1>3, EditsLeaveLedger
  <2>4. EvidenceIn(image, d) = AccumulatedAt(image, d, Len(image.ledger))
    BY <2>1 DEF AuthorityValid, EvidenceIsLedgered
  <2>5. EvidenceIn(edited, d) = AccumulatedAt(edited, d, Len(edited.ledger))
    BY <2>2 DEF AuthorityValid, EvidenceIsLedgered
  <2> QED
    BY <2>3, <2>4, <2>5 DEF SameLedger
<1>6. image.evidence[e] = c
  <2>1. ASSUME NEW d \in Existing(image)
        PROVE  image.evidence[e] = d <=> edited.evidence[e] = d
    BY <1>5, <2>1 DEF EvidenceIn
  <2> QED
    BY <1>1, <1>2, <1>4, <2>1
<1>7. edited.evidence = image.evidence
  BY <1>2, <1>3, <1>6 DEF Image
<1> QED
  BY <1>2, <1>3, <1>7 DEF Image

(* Both decision rows and entries name each other. *)
LEMMA EditedDecisionIsNoticed ==
    ASSUME NEW image, Sound(image), NEW edited \in EditedDecisions(image),
           AllValid(edited)
    PROVE  edited = image
<1>1. PICK i \in DOMAIN image.decisions, row \in DecisionRows(image) :
          edited = [image EXCEPT !.decisions[i] = row]
  BY DEF EditedDecisions
<1> DEFINE stored == image.decisions[i]
           c == stored.claim
<1>2. /\ image \in Image /\ Shaped(image) /\ c \in Existing(image)
      /\ Whole(image, c)
  BY SaneIsShaped DEF Sound, Sane, Anchored
<1>3. /\ edited.decisions = [image.decisions EXCEPT ![i] = row]
      /\ edited.claims = image.claims /\ edited.ledger = image.ledger
      /\ edited = [image EXCEPT !.decisions = edited.decisions]
  BY <1>1, <1>2 DEF Image
<1>4. edited.decisions[i] = row
  BY <1>3
<1>5. AuthorityValid(image, c) /\ AuthorityValid(edited, c)
  BY <1>2, <1>3, WholeIsValid DEF AllValid, Existing, HasRow
<1>6. SameLedger(image, edited, c)
  BY <1>3, EditsLeaveLedger
<1>7. i \in DecisionsOf(image, c)
  BY DEF DecisionsOf
<1>8. PICK n \in DOMAIN image.ledger :
          /\ EntriesNaming(image, c, i) = {n}
          /\ image.ledger[n].from = stored.from
          /\ image.ledger[n].to = stored.to
          /\ image.ledger[n].at = stored.at
  BY <1>5, <1>7 DEF AuthorityValid, DecisionsAreLedgered
<1>9. EntriesNaming(edited, c, i) = {n} /\ edited.ledger = image.ledger
  BY <1>3, <1>6, <1>8 DEF SameLedger
<1>10. i \in DecisionsOf(edited, c)
  <2>1. n \in DecidedEntries(edited, c) /\ edited.ledger[n].decision = i
    BY <1>9 DEF EntriesNaming
  <2> QED
    BY <1>5, <2>1 DEF AuthorityValid, NoOrphanEntry
<1>11. /\ row.claim = c
       /\ image.ledger[n].from = row.from
       /\ image.ledger[n].to = row.to
       /\ image.ledger[n].at = row.at
  <2>1. PICK m \in DOMAIN edited.ledger :
            /\ EntriesNaming(edited, c, i) = {m}
            /\ edited.ledger[m].from = edited.decisions[i].from
            /\ edited.ledger[m].to = edited.decisions[i].to
            /\ edited.ledger[m].at = edited.decisions[i].at
    BY <1>5, <1>10 DEF AuthorityValid, DecisionsAreLedgered
  <2> QED
    BY <1>4, <1>9, <1>10, <2>1 DEF DecisionsOf
<1>12. stored \in DecisionRow /\ row \in DecisionRow
  BY <1>2 DEF Image, DecisionRows
<1>13. row = stored
  <2>1. row.claim = stored.claim
    BY <1>11
  <2> HIDE DEF c, stored
  <2>2. row.from = stored.from /\ row.to = stored.to /\ row.at = stored.at
    BY <1>8, <1>11
  <2> QED
    BY <1>12, <2>1, <2>2 DEF DecisionRow
<1>14. edited.decisions = image.decisions
  BY <1>2, <1>3, <1>13 DEF Image
<1> QED
  BY <1>2, <1>3, <1>14 DEF Image

LEMMA AddedDecisionIsNoticed ==
    ASSUME NEW image, Sound(image), NEW edited \in DecisionAdded(image)
    PROVE  ~AllValid(edited)
<1>1. PICK row \in DecisionRows(image) :
          edited = [image EXCEPT !.decisions = Append(@, row)]
  BY DEF DecisionAdded
<1> DEFINE c == row.claim
           i == Len(image.decisions) + 1
<1>2. /\ image \in Image /\ Shaped(image) /\ c \in Existing(image)
      /\ Whole(image, c)
  BY SaneIsShaped DEF Sound, Sane, DecisionRows
<1>3. /\ edited.decisions = Append(image.decisions, row)
      /\ edited.claims = image.claims /\ edited.ledger = image.ledger
  BY <1>1, <1>2 DEF Image
<1>4. i \in DecisionsOf(edited, c) /\ i \notin DecisionsOf(image, c)
  <2>1. /\ DOMAIN edited.decisions = DOMAIN image.decisions \cup {i}
        /\ i \notin DOMAIN image.decisions
        /\ edited.decisions[i] = row
    BY <1>2, <1>3, AppendedLedger DEF Shaped
  <2> HIDE DEF i
  <2> QED
    BY <2>1 DEF DecisionsOf
<1> HIDE DEF i
<1> SUFFICES ASSUME AllValid(edited) PROVE FALSE
  OBVIOUS
<1>5. AuthorityValid(image, c) /\ AuthorityValid(edited, c)
  BY <1>2, <1>3, WholeIsValid DEF AllValid, Existing, HasRow
<1>6. PICK n : EntriesNaming(edited, c, i) = {n}
  BY <1>4, <1>5 DEF AuthorityValid, DecisionsAreLedgered
<1>7. EntriesNaming(image, c, i) = {n}
  <2>1. SameLedger(image, edited, c)
    BY <1>3, EditsLeaveLedger
  <2> QED
    BY <1>6, <2>1 DEF SameLedger
<1>8. n \in DecidedEntries(image, c) /\ image.ledger[n].decision = i
  BY <1>7 DEF EntriesNaming
<1> QED
  BY <1>4, <1>5, <1>8 DEF AuthorityValid, NoOrphanEntry

LEMMA EditIsNoticed ==
    ASSUME NEW image, Sound(image), NEW edited \in Edits(image)
    PROVE  ~AllValid(edited)
<1>1. /\ edited # image
      /\ \/ edited \in EditedClaims(image) \/ edited \in EditedEvidence(image)
         \/ edited \in EditedDecisions(image) \/ edited \in DecisionAdded(image)
  BY DEF Edits
<1> QED
  BY <1>1, EditedClaimIsNoticed, EditedEvidenceIsNoticed,
     EditedDecisionIsNoticed, AddedDecisionIsNoticed
-----------------------------------------------------------------------------
(* What the program commits. *)

Committed(image, k, new) ==
    \/ Proposable(image, k) /\ new = Proposed(image, k)
    \/ GateOpen(image, k) /\ new = Decided(image, k)
    \/ /\ Proposable(image, k) /\ GateOpen(Proposed(image, k), k)
       /\ new = Decided(Proposed(image, k), k)
    \/ CanAttach(image, k) /\ new = Added(image, k)
    \/ /\ k.event \in CallerEvents \ ReservedEvents
       /\ new = WithCustomEntry(image, k)

LEMMA CallsAreCommitted ==
    ASSUME IInv, [Next]_vars, db' # db
    PROVE  \E k \in CallType : Committed(db, k, db')
<1>1. PICK s \in Sessions : Exit(s) /\ depth[s] = 1 /\ db' = work
  BY OnlyCommitsChange
<1> DEFINE k == call[s]
<1>2. /\ pc[s] \in ExitLabels /\ lock = s
      /\ WellFormed(k) /\ k \in CallType /\ k.op \in Operations
      /\ pc[s] \in LabelsOf(k.op)
      /\ depth[s] = DepthAt(pc[s], k.op)
  BY <1>1, HolderFacts
     DEF Exit, ExitTransaction, IInv, ImageInv, Discipline, SessionOK,
         WellFormed, CallType
<1>3. ImageAt(pc[s], k)
  BY <1>2 DEF IInv, ImageInv
<1>4. \/ pc[s] = "exit_propose" /\ k.op = "propose"
      \/ pc[s] = "exit_review" /\ k.op = "review"
      \/ pc[s] = "exit_human" /\ k.op = "human"
      \/ pc[s] = "exit_evidence" /\ k.op = "evidence"
      \/ pc[s] = "exit_append" /\ k.op = "append"
  BY <1>1, <1>2 DEF ExitLabels, LabelsOf, ProposeLabels, ReviewLabels,
                    Operations, DepthAt, Resting, Outer
<1> HIDE DEF k
<1>5. CASE pc[s] = "exit_propose" /\ k.op = "propose"
  BY <1>1, <1>2, <1>3, <1>5 DEF ImageAt, Committed
<1>6. CASE pc[s] = "exit_review" /\ k.op = "review"
  BY <1>1, <1>2, <1>3, <1>6 DEF ImageAt, Decidable, Reviewed, Committed
<1>7. CASE pc[s] = "exit_human" /\ k.op = "human"
  BY <1>1, <1>2, <1>3, <1>7 DEF ImageAt, Decidable, Reviewed, Committed
<1>8. CASE pc[s] = "exit_evidence" /\ k.op = "evidence"
  BY <1>1, <1>2, <1>3, <1>8 DEF ImageAt, Committed
<1>9. CASE pc[s] = "exit_append" /\ k.op = "append"
  BY <1>1, <1>2, <1>3, <1>9 DEF ImageAt, WellFormed, Committed
<1> QED
  BY <1>4, <1>5, <1>6, <1>7, <1>8, <1>9

LEMMA CommittedIsSound ==
    ASSUME NEW old, Sound(old), NEW k \in CallType, NEW new,
           Committed(old, k, new), "claim.governance_decided" \notin CallerEvents
    PROVE  Sound(new)
<1>1. CASE Proposable(old, k) /\ new = Proposed(old, k)
  BY <1>1, ProposedIsSound
<1>2. CASE GateOpen(old, k) /\ new = Decided(old, k)
  BY <1>2, DecidedIsSound
<1>3. CASE /\ Proposable(old, k) /\ GateOpen(Proposed(old, k), k)
           /\ new = Decided(Proposed(old, k), k)
  <2>1. Sound(Proposed(old, k))
    BY <1>3, ProposedIsSound
  <2> QED
    BY <1>3, <2>1, DecidedIsSound
<1>4. CASE CanAttach(old, k) /\ new = Added(old, k)
  BY <1>4, AddedIsSound
<1>5. CASE /\ k.event \in CallerEvents \ ReservedEvents
           /\ new = WithCustomEntry(old, k)
  BY <1>5, RecordedIsSound
<1> QED
  BY <1>1, <1>2, <1>3, <1>4, <1>5 DEF Committed

(* The migration leaves a repository of the program's own. *)
LEMMA MigratedEntriesTyped ==
    ASSUME NEW image, Sane(image), NEW k, NEW at \in Times,
           NEW n \in DOMAIN MigrationAdds(image, k, at)
    PROVE  /\ MigrationAdds(image, k, at)[n] \in LedgerEntry
           /\ MigrationAdds(image, k, at)[n].claim \in Existing(image)
<1> DEFINE added == MigrationAdds(image, k, at)
           c == added[n].claim
<1>1. /\ Shaped(image) /\ image \in Image /\ Existing(image) \subseteq ClaimIds
      /\ image.decisions \in Seq(DecisionRow)
  BY SaneIsShaped DEF Sane, Image
<1>2. AddsFit(added, image, k, at)
  BY <1>1, AddedEntries
<1> HIDE DEF added
<1>3. /\ \/ c \in Streamless(image, k)
         \/ c \in Due(image, k) /\ added[n] = AttestationEntry(image, c, at)
      /\ n \in DOMAIN added
  BY <1>2 DEF AddsFit, added
<1>4. c \in Existing(image) /\ c \in ClaimIds
  BY <1>1, <1>3 DEF Streamless, Due
<1> HIDE DEF c
<1>5. MaterialOf(image, c) \in MaterialType /\ image.claims[c].created \in Times
  <2>1. image.claims[c] \in ClaimRow
    BY <1>1, <1>4 DEF Image, Existing, HasRow
  <2> QED
    BY <2>1 DEF MaterialOf, MaterialType, EvidenceIn, ClaimRow
<1>6. AttestationEntry(image, c, at) \in LedgerEntry
  BY <1>4, <1>5 DEF AttestationEntry, LedgerEntry, EventTypes
<1>7. ProposalEntry(image, c) \in LedgerEntry
  BY <1>4, <1>5 DEF ProposalEntry, LedgerEntry, EventTypes, EvidenceIn
<1>8. ASSUME NEW i \in DecisionsOf(image, c)
      PROVE  DecisionEntry(image, i) \in LedgerEntry
  <2>1. image.decisions[i] \in DecisionRow /\ i \in Nat
    BY <1>1 DEF DecisionsOf
  <2> QED
    BY <2>1 DEF DecisionEntry, LedgerEntry, EventTypes, DecisionRow
<1>9. ASSUME c \in Streamless(image, k)
      PROVE  added[n] \in LedgerEntry
  <2>1. PICK p, place : StreamAt(added, image, c, p, place)
    BY <1>2, <1>9 DEF AddsFit
  <2>2. n = p \/ \E i \in DecisionsOf(image, c) : n = place[i]
    BY <1>3, <2>1 DEF StreamAt, c
  <2>3. \/ added[n] = ProposalEntry(image, c)
        \/ \E i \in DecisionsOf(image, c) : added[n] = DecisionEntry(image, i)
    BY <2>1, <2>2 DEF StreamAt
  <2> QED
    BY <1>7, <1>8, <2>3
<1>10. added[n] \in LedgerEntry
  BY <1>3, <1>6, <1>9
<1> QED
  BY <1>4, <1>10 DEF c, added

LEMMA MigratedIsSane ==
    ASSUME NEW image, Sane(image), NEW k, NEW at \in Times, NEW new,
           new = Migrated(image, k, at)
    PROVE  Sane(new)
<1> DEFINE added == MigrationAdds(image, k, at)
<1>1. Shaped(image) /\ image \in Image /\ image.ledger \in Seq(LedgerEntry)
  BY SaneIsShaped DEF Sane, Image
<1>2. Shaped(new) /\ SameTables(image, new) /\ Grown(image, new, added)
  BY <1>1, MigratedFacts
<1>3. IsLedger(added) /\ IsLedger(image.ledger)
  BY <1>1, AddedEntries DEF AddsFit, Shaped
<1>4. \A n \in DOMAIN added :
          added[n] \in LedgerEntry /\ added[n].claim \in Existing(image)
  BY MigratedEntriesTyped
<1> HIDE DEF added
<1>5. LedgersMeet(image, new, added)
  BY <1>2, <1>3, GrownFacts
<1>6. Existing(new) = Existing(image)
  BY <1>2 DEF SameTables, Existing, HasRow
<1>7. ASSUME NEW n \in DOMAIN new.ledger
      PROVE  \/ n \in DOMAIN image.ledger /\ new.ledger[n] = image.ledger[n]
             \/ \E m \in DOMAIN added : new.ledger[n] = added[m]
  <2>1. CASE n \in 1 .. Len(image.ledger)
    BY <1>5, <2>1 DEF LedgersMeet
  <2>2. CASE n \notin 1 .. Len(image.ledger)
    <3>1. /\ n - Len(image.ledger) \in 1 .. Len(added)
          /\ n = Len(image.ledger) + (n - Len(image.ledger))
      BY <1>5, <2>2 DEF LedgersMeet
    <3> QED
      BY <1>5, <3>1 DEF LedgersMeet
  <2> QED
    BY <2>1, <2>2
<1>8. \A n \in DOMAIN new.ledger : new.ledger[n] \in LedgerEntry
  <2>1. \A n \in DOMAIN image.ledger : image.ledger[n] \in LedgerEntry
    BY <1>1
  <2> QED
    BY <1>4, <1>7, <2>1
<1>9. new.ledger \in Seq(LedgerEntry)
  <2>1. Len(new.ledger) \in Nat /\ DOMAIN new.ledger = 1 .. Len(new.ledger)
    BY <1>2, LedgerFacts DEF Shaped
  <2>2. new.ledger \in [1 .. Len(new.ledger) -> LedgerEntry]
    <3>1. PICK m \in Nat : new.ledger = [i \in 1 .. m |-> new.ledger[i]]
      BY <1>2 DEF Shaped, IsLedger
    <3>2. new.ledger = [i \in DOMAIN new.ledger |-> new.ledger[i]]
      BY <3>1
    <3> QED
      BY <1>8, <2>1, <3>2
  <2> QED
    BY <2>1, <2>2, SeqDef
<1>10. new \in Image
  <2>1. new = [claims |-> new.claims, evidence |-> new.evidence,
               decisions |-> new.decisions, ledger |-> new.ledger]
    BY <1>2 DEF Shaped, IsImage
  <2>2. /\ new.claims \in [ClaimIds -> ClaimRow \cup {NoRow}]
        /\ new.evidence \in [EvidenceIds -> ClaimIds \cup {NoClaim}]
        /\ new.decisions \in Seq(DecisionRow)
    BY <1>1, <1>2 DEF SameTables, Image
  <2> QED
    BY <1>9, <2>1, <2>2 DEF Image
<1>11. \A n \in DOMAIN new.ledger :
           new.ledger[n].event \in ClaimEvents => new.ledger[n].claim \in Existing(new)
  BY <1>4, <1>6, <1>7 DEF Sane, Anchored
<1> QED
  BY <1>2, <1>6, <1>10, <1>11 DEF Sane, Anchored, SameTables

LEMMA MigratedIsSound ==
    ASSUME NEW image, Sane(image), NEW k, Ready(image, k), NEW at \in Times,
           NEW new, new = Migrated(image, k, at)
    PROVE  Sound(new)
<1>1. Sane(new)
  BY MigratedIsSane
<1>2. Shaped(image) /\ SameTables(image, new)
  BY SaneIsShaped, MigratedFacts
<1>3. Existing(new) = Existing(image)
  BY <1>2 DEF SameTables, Existing, HasRow
<1>4. \A c \in Existing(image) : Whole(new, c)
  BY <1>2, ReadyClaimsAreWhole
<1> QED
  BY <1>1, <1>3, <1>4 DEF Sound
-----------------------------------------------------------------------------
(* What older releases write, as rows and entries. *)

EntryFollows(old, base, new, c, event, refs, material) ==
    /\ new \in Image
    /\ SameTables(base, new)
    /\ \E entry : /\ EntryAdded(old, new, entry)
                  /\ new.ledger = Append(base.ledger, entry)
                  /\ Joins(entry, c, event)
                  /\ entry.refs = refs
                  /\ entry.material = material

LEMMA MaterialTyped ==
    ASSUME NEW image \in Image, NEW c \in Existing(image)
    PROVE  MaterialOf(image, c) \in MaterialType /\ c \in ClaimIds
<1>1. c \in ClaimIds /\ image.claims[c] \in ClaimRow
  BY DEF Image, Existing, HasRow
<1> QED
  BY <1>1 DEF MaterialOf, MaterialType, EvidenceIn, ClaimRow

LEMMA OlderEntryFollows ==
    ASSUME NEW old, IsLedger(old.ledger), NEW base \in Image,
           base.ledger = old.ledger, NEW c \in Existing(base),
           NEW event \in {"claim.proposed", "claim.evidence_added"},
           NEW refs \in SUBSET EvidenceIds, NEW at \in Times,
           NEW material \in {NoMaterial, MaterialOf(base, c)}, NEW new,
           new = WithEntry(base, event, c, refs, material, 0, Absent, Absent, at)
    PROVE  EntryFollows(old, base, new, c, event, refs, material)
<1> DEFINE entry == [event |-> event, claim |-> c, refs |-> refs,
                     material |-> material, decision |-> 0,
                     from |-> Absent, to |-> Absent, at |-> at]
<1>1. SameTables(base, new) /\ new.ledger = Append(base.ledger, entry)
  BY EntryWritten
<1>2. /\ Joins(entry, c, event) /\ entry.refs = refs
      /\ entry.material = material
  BY DEF Joins
<1> HIDE DEF entry
<1>3. EntryAdded(old, new, entry)
  BY <1>1, AppendAddsEntry
<1>4. new \in Image
  <2>1. /\ c \in ClaimIds /\ event \in EventTypes /\ 0 \in Nat
        /\ Absent \in Statuses \cup {Absent}
        /\ material \in MaterialType \cup {NoMaterial}
    BY MaterialTyped DEF EventTypes
  <2> QED
    BY <2>1, WithEntryTyped
<1> QED
  BY <1>1, <1>2, <1>3, <1>4 DEF EntryFollows

Supported(c, refs) == \A e \in refs : EvidenceInsertable(c, e)

(* A decision of review(). *)
Reasoned(old, c, row) == row.to = "AUTHORIZED" => EvidenceIn(old, c) # {}

ProposalWritten(old, new, c) ==
    \E refs \in SUBSET EvidenceIds : \E entry :
        /\ RowsProposed(old, new, c, refs)
        /\ SubmittedShapeValid(c) /\ Supported(c, refs)
        /\ EntryAdded(old, new, entry)
        /\ Joins(entry, c, "claim.proposed") /\ entry.refs = refs
        /\ entry.material \in {NoMaterial, MaterialOf(new, c)}

AdditionWritten(old, new, c) ==
    \E refs \in SUBSET EvidenceIds : \E entry :
        /\ RowsAdded(old, new, c, refs)
        /\ Supported(c, refs)
        /\ HasHistory(old, c)
        /\ EntryAdded(old, new, entry)
        /\ Joins(entry, c, "claim.evidence_added") /\ entry.refs = refs
        /\ \/ entry.material = MaterialOf(new, c)
           \/ /\ entry.material = NoMaterial
              /\ ~Carries(old, Max(Proposals(old, c)))

ReviewWritten(old, new, c) ==
    \E row, entry :
        /\ RowsDecided(old, new, c, row)
        /\ Reasoned(old, c, row)
        /\ HasHistory(old, c)
        /\ EntryAdded(old, new, entry)
        /\ RowLedgered(entry, c, row, Len(old.decisions) + 1)

ProposalImported(old, new, c) ==
    \E refs \in SUBSET EvidenceIds :
        /\ RowsProposed(old, new, c, refs)
        /\ SubmittedShapeValid(c) /\ Supported(c, refs)
        /\ new.ledger = old.ledger

DecisionImported(old, new, c) ==
    \E row :
        /\ RowsDecided(old, new, c, row)
        /\ Reasoned(old, c, row)
        /\ ~HasHistory(old, c)
        /\ new.ledger = old.ledger

OlderWrites(old, new, c) ==
    \/ ProposalWritten(old, new, c)
    \/ AdditionWritten(old, new, c)
    \/ ReviewWritten(old, new, c)
    \/ kind = "V02" /\ ProposalImported(old, new, c)
    \/ kind = "V02" /\ DecisionImported(old, new, c)

(* The arguments of older calls, as those of the program's own. *)
OfProposal(c, refs, at) ==
    [op |-> "propose", claim |-> c, refs |-> refs, to |-> Absent,
     event |-> NoEvent, at |-> at, decided |-> at]

OfDecision(c, to, at) ==
    [op |-> "review", claim |-> c, refs |-> {}, to |-> to,
     event |-> NoEvent, at |-> at, decided |-> at]

LEMMA OfProposalTyped ==
    ASSUME NEW c \in ClaimIds, NEW refs \in SUBSET EvidenceIds, NEW at \in Times,
           NEW k, k = OfProposal(c, refs, at)
    PROVE  /\ k \in CallType
           /\ k.claim = c /\ k.refs = refs /\ k.at = at
  BY DEF OfProposal, CallType, Operations

LEMMA OfDecisionTyped ==
    ASSUME NEW c \in ClaimIds, NEW to \in Targets, NEW at \in Times,
           NEW k, k = OfDecision(c, to, at)
    PROVE  /\ k \in CallType
           /\ k.claim = c /\ k.to = to /\ k.decided = at
  BY DEF OfDecision, CallType, Operations

(* The calls look at these arguments only. *)
LEMMA SameProposal ==
    ASSUME NEW image, NEW k, NEW older, older.claim = k.claim, older.refs = k.refs,
           older.at = k.at
    PROVE  /\ CanInsertClaim(image, older) = CanInsertClaim(image, k)
           /\ WithClaim(image, older) = WithClaim(image, k)
           /\ CanAttach(image, older) = CanAttach(image, k)
           /\ WithEvidence(image, older) = WithEvidence(image, k)
  BY DEF CanInsertClaim, WithClaim, CanAttach, WithEvidence

LEMMA SameDecision ==
    ASSUME NEW image, NEW k, NEW older, older.claim = k.claim, older.to = k.to,
           older.decided = k.decided
    PROVE  /\ GateOpen(image, older) = GateOpen(image, k)
           /\ WithDecision(image, older) = WithDecision(image, k)
           /\ WithStatus(image, older) = WithStatus(image, k)
           /\ WithDecidedEntry(image, older) = WithDecidedEntry(image, k)
  BY DEF GateOpen, WithDecision, WithStatus, WithDecidedEntry

LEMMA ProposableRows ==
    ASSUME Sane(db), NEW k, k.claim \in ClaimIds, k.refs \in SUBSET EvidenceIds,
           k.at \in Times, CanPropose(k)
    PROVE  /\ ProposedRows(k) \in Image /\ ProposedRows(k).ledger = db.ledger
           /\ RowsProposed(db, ProposedRows(k), k.claim, k.refs)
           /\ SubmittedShapeValid(k.claim) /\ Supported(k.claim, k.refs)
<1>1. PICK full : full = OfProposal(k.claim, k.refs, k.at)
  OBVIOUS
<1>2. /\ full \in CallType
      /\ full.claim = k.claim /\ full.refs = k.refs /\ full.at = k.at
  BY <1>1, OfProposalTyped
<1>3. /\ CanInsertClaim(db, k) = CanInsertClaim(db, full)
      /\ WithClaim(db, k) = WithClaim(db, full)
  BY <1>2, SameProposal
<1>4. /\ CanAttach(WithClaim(db, full), k) = CanAttach(WithClaim(db, full), full)
      /\ WithEvidence(WithClaim(db, full), k) = WithEvidence(WithClaim(db, full), full)
  BY <1>2, SameProposal
<1>5. /\ CanInsertClaim(db, full) /\ CanAttach(WithClaim(db, full), full)
      /\ ProposedRows(k) = WithEvidence(WithClaim(db, full), full)
  BY <1>3, <1>4 DEF CanPropose, ProposedRows
<1>6. SubmittedShapeValid(full.claim) /\ Supported(full.claim, full.refs)
  BY <1>5 DEF CanInsertClaim, CanAttach, Supported
<1>7. /\ ProposedRows(k) \in Image /\ ProposedRows(k).ledger = db.ledger
      /\ RowsProposed(db, ProposedRows(k), full.claim, full.refs)
  BY <1>2, <1>5, ProposalWritesRows DEF Sane
<1> QED
  BY <1>2, <1>6, <1>7

LEMMA OlderProposalWrites ==
    ASSUME Sane(db), NEW k, k.claim \in ClaimIds, k.refs \in SUBSET EvidenceIds,
           k.at \in Times, CanPropose(k), NEW new,
           \/ new = WithPlainEntry(ProposedRows(k), k, "claim.proposed")
           \/ new = WithMaterialEntry(ProposedRows(k), k, "claim.proposed")
    PROVE  new \in Image /\ ProposalWritten(db, new, k.claim)
<1> DEFINE base == ProposedRows(k)
           c == k.claim
           refs == k.refs
           event == "claim.proposed"
<1>1. /\ base \in Image /\ base.ledger = db.ledger
      /\ RowsProposed(db, base, c, refs)
      /\ SubmittedShapeValid(c) /\ Supported(c, refs)
  BY ProposableRows
<1>2. c \in Existing(base) /\ IsLedger(db.ledger)
  BY <1>1, SaneIsShaped DEF RowsProposed, Shaped
<1>3. PICK material \in {NoMaterial, MaterialOf(base, c)} :
          new = WithEntry(base, event, c, refs, material, 0, Absent, Absent, k.at)
  BY DEF WithPlainEntry, WithMaterialEntry
<1>4. event \in {"claim.proposed", "claim.evidence_added"}
  OBVIOUS
<1> HIDE DEF base, c, refs
<1>5. EntryFollows(db, base, new, c, event, refs, material)
  <2>1. refs \in SUBSET EvidenceIds
    BY DEF refs
  <2> HIDE DEF event
  <2> QED
    BY <1>1, <1>2, <1>3, <1>4, <2>1, OlderEntryFollows
<1>6. PICK entry : /\ EntryAdded(db, new, entry)
                   /\ new.ledger = Append(base.ledger, entry)
                   /\ Joins(entry, c, event)
                   /\ entry.refs = refs /\ entry.material = material
  BY <1>5 DEF EntryFollows
<1>7. SameTables(base, new) /\ new \in Image
  BY <1>5 DEF EntryFollows
<1>8. RowsProposed(db, new, c, refs) /\ MaterialOf(new, c) = MaterialOf(base, c)
  BY <1>1, <1>2, <1>6, <1>7, EntryKeepsTables
<1> QED
  BY <1>1, <1>3, <1>6, <1>7, <1>8 DEF ProposalWritten, c, refs

LEMMA AddableRows ==
    ASSUME Sane(db), NEW k, k.claim \in ClaimIds, k.refs \in SUBSET EvidenceIds,
           k.at \in Times, CanAttach(db, k)
    PROVE  /\ WithEvidence(db, k) \in Image
           /\ WithEvidence(db, k).ledger = db.ledger
           /\ RowsAdded(db, WithEvidence(db, k), k.claim, k.refs)
           /\ Supported(k.claim, k.refs)
<1>1. PICK full : full = OfProposal(k.claim, k.refs, k.at)
  OBVIOUS
<1>2. /\ full \in CallType
      /\ full.claim = k.claim /\ full.refs = k.refs /\ full.at = k.at
  BY <1>1, OfProposalTyped
<1>3. /\ CanAttach(db, k) = CanAttach(db, full)
      /\ WithEvidence(db, k) = WithEvidence(db, full)
  BY <1>2, SameProposal
<1>4. /\ WithEvidence(db, full) \in Image
      /\ WithEvidence(db, full).ledger = db.ledger
      /\ RowsAdded(db, WithEvidence(db, full), full.claim, full.refs)
  BY <1>2, <1>3, AdditionWritesRows DEF Sane
<1>5. Supported(k.claim, k.refs)
  BY DEF CanAttach, Supported
<1> QED
  BY <1>2, <1>3, <1>4, <1>5

LEMMA OlderAdditionWrites ==
    ASSUME Sane(db), NEW k, k.claim \in ClaimIds, k.refs \in SUBSET EvidenceIds,
           k.at \in Times, CanAttach(db, k), HasHistory(db, k.claim), NEW new,
           \/ /\ ~Carries(db, Max(Proposals(db, k.claim)))
              /\ new = WithPlainEntry(WithEvidence(db, k), k, "claim.evidence_added")
           \/ new = WithMaterialEntry(WithEvidence(db, k), k, "claim.evidence_added")
    PROVE  new \in Image /\ AdditionWritten(db, new, k.claim)
<1> DEFINE base == WithEvidence(db, k)
           c == k.claim
           refs == k.refs
           event == "claim.evidence_added"
<1>1. /\ base \in Image /\ base.ledger = db.ledger
      /\ RowsAdded(db, base, c, refs) /\ Supported(c, refs)
  BY AddableRows
<1>2. c \in Existing(base) /\ IsLedger(db.ledger)
  <2>1. c \in Existing(db) /\ Existing(base) = Existing(db)
    BY <1>1 DEF RowsAdded, Existing, HasRow
  <2> QED
    BY <2>1, SaneIsShaped DEF Shaped
<1>3. PICK material \in {NoMaterial, MaterialOf(base, c)} :
          /\ new = WithEntry(base, event, c, refs, material, 0, Absent, Absent, k.at)
          /\ \/ material = MaterialOf(base, c)
             \/ /\ material = NoMaterial
                /\ ~Carries(db, Max(Proposals(db, c)))
  BY DEF WithPlainEntry, WithMaterialEntry
<1>4. event \in {"claim.proposed", "claim.evidence_added"}
  OBVIOUS
<1> HIDE DEF base, c, refs
<1>5. EntryFollows(db, base, new, c, event, refs, material)
  <2>1. refs \in SUBSET EvidenceIds
    BY DEF refs
  <2> HIDE DEF event
  <2> QED
    BY <1>1, <1>2, <1>3, <1>4, <2>1, OlderEntryFollows
<1>6. PICK entry : /\ EntryAdded(db, new, entry)
                   /\ new.ledger = Append(base.ledger, entry)
                   /\ Joins(entry, c, event)
                   /\ entry.refs = refs /\ entry.material = material
  BY <1>5 DEF EntryFollows
<1>7. SameTables(base, new) /\ new \in Image
  BY <1>5 DEF EntryFollows
<1>8. RowsAdded(db, new, c, refs) /\ MaterialOf(new, c) = MaterialOf(base, c)
  BY <1>1, <1>2, <1>6, <1>7, EntryKeepsTables
<1>9. \/ entry.material = MaterialOf(new, c)
      \/ entry.material = NoMaterial /\ ~Carries(db, Max(Proposals(db, c)))
  BY <1>3, <1>6, <1>8
<1>10. HasHistory(db, c) /\ refs \in SUBSET EvidenceIds
  BY DEF c, refs
<1>11. AdditionWritten(db, new, c)
  BY <1>1, <1>6, <1>8, <1>9, <1>10 DEF AdditionWritten
<1> QED
  BY <1>7, <1>11 DEF c

LEMMA DecidableRows ==
    ASSUME Sane(db), NEW k, k.claim \in ClaimIds, k.to \in Targets,
           k.decided \in Times, GateOpen(db, k), NEW base,
           base = WithStatus(WithDecision(db, k), k)
    PROVE  /\ base \in Image /\ base.ledger = db.ledger
           /\ RowsDecided(db, base, k.claim, DecidedRow(db, k))
           /\ Reasoned(db, k.claim, DecidedRow(db, k))
           /\ WithDecidedEntry(base, k) \in Image
<1>1. PICK full : full = OfDecision(k.claim, k.to, k.decided)
  OBVIOUS
<1>2. /\ full \in CallType
      /\ full.claim = k.claim /\ full.to = k.to /\ full.decided = k.decided
  BY <1>1, OfDecisionTyped
<1>3. /\ GateOpen(db, k) = GateOpen(db, full)
      /\ WithDecision(db, k) = WithDecision(db, full)
  BY <1>2, SameDecision
<1>4. WithStatus(WithDecision(db, full), k) = WithStatus(WithDecision(db, full), full)
  BY <1>2, SameDecision
<1>5. WithDecidedEntry(base, k) = WithDecidedEntry(base, full)
  BY <1>2, SameDecision
<1>6. base = WithStatus(WithDecision(db, full), full)
  BY <1>3, <1>4
<1>7. /\ base \in Image /\ base.ledger = db.ledger
      /\ RowsDecided(db, base, full.claim, DecidedRow(db, full))
  BY <1>2, <1>3, <1>6, DecisionWritesRows DEF Sane
<1>8. DecidedRow(db, full) = DecidedRow(db, k)
  BY <1>2 DEF DecidedRow
<1>9. Decided(db, full) \in Image
  <2>1. StatusIn(db, full.claim) \in Statuses /\ full.to \in Targets
    BY <1>2, <1>3, StatusFacts DEF GateOpen
  <2> QED
    BY <1>2, <2>1, DecisionTyped DEF Sane
<1>10. Decided(db, full) = WithDecidedEntry(base, full)
  BY <1>6 DEF Decided
<1>11. Reasoned(db, k.claim, DecidedRow(db, k))
  BY DEF GateOpen, EvidenceAdmissible, Reasoned, DecidedRow
<1> QED
  BY <1>2, <1>5, <1>7, <1>8, <1>9, <1>10, <1>11

LEMMA OlderReviewWrites ==
    ASSUME Sane(db), NEW k, k.claim \in ClaimIds, k.to \in Targets,
           k.decided \in Times, GateOpen(db, k), HasHistory(db, k.claim), NEW new,
           new = WithDecidedEntry(WithStatus(WithDecision(db, k), k), k)
    PROVE  new \in Image /\ ReviewWritten(db, new, k.claim)
<1> DEFINE base == WithStatus(WithDecision(db, k), k)
           c == k.claim
           row == DecidedRow(db, k)
           last == Len(base.decisions)
           status == base.decisions[last].from
           entry == [event |-> "claim.governance_decided", claim |-> c, refs |-> {},
                     material |-> NoMaterial, decision |-> last,
                     from |-> status, to |-> k.to, at |-> k.decided]
<1>1. /\ base \in Image /\ base.ledger = db.ledger
      /\ RowsDecided(db, base, c, row) /\ Reasoned(db, c, row)
      /\ new \in Image
  BY DecidableRows
<1>2. new = WithEntry(base, "claim.governance_decided", c, {}, NoMaterial, last,
                      status, k.to, k.decided)
  BY DEF WithDecidedEntry
<1>3. Shaped(db) /\ IsLedger(db.ledger)
  BY SaneIsShaped DEF Shaped
<1>4. last = Len(db.decisions) + 1 /\ base.decisions[last] = row
  BY <1>1, <1>3, DecidedEntryNames
<1> HIDE DEF base, status, last, c
<1>5. SameTables(base, new) /\ new.ledger = Append(base.ledger, entry)
  <2>1. base \in Image
    BY <1>1
  <2> QED
    BY <1>2, <2>1, DecisionEntryWritten
<1>6. RowLedgered(entry, c, row, Len(db.decisions) + 1)
  <2>1. row.to = k.to /\ row.at = k.decided /\ row.from = status
    BY <1>4 DEF DecidedRow, status
  <2> HIDE DEF row
  <2> QED
    BY <1>4, <2>1 DEF RowLedgered, Joins
<1> HIDE DEF entry, row
<1>7. EntryAdded(db, new, entry) /\ RowsDecided(db, new, c, row)
  BY <1>1, <1>3, <1>5, EntryKeepsTables
<1>8. ReviewWritten(db, new, c)
  <2>1. HasHistory(db, c)
    BY DEF c
  <2> QED
    BY <1>1, <1>6, <1>7, <2>1 DEF ReviewWritten
<1> QED
  BY <1>1, <1>8 DEF c

(* An older call writes one of these. *)
LEMMA OlderCallsWrite ==
    ASSUME Sane(db), OlderRelease
    PROVE  /\ \E c \in ClaimIds : OlderWrites(db, db', c)
           /\ db' \in Image /\ work' = db'
           /\ UNCHANGED <<lock, depth, pc, call, kind>>
<1>1. ASSUME NEW c \in ClaimIds, NEW at \in Times, NEW refs \in SUBSET EvidenceIds,
             NEW k, k = [claim |-> c, refs |-> refs, at |-> at],
             OlderPropose(k) \/ OlderAddEvidence(k) \/ OlderImport(k)
      PROVE  /\ OlderWrites(db, db', c) /\ db' \in Image /\ work' = db'
             /\ UNCHANGED <<lock, depth, pc, call, kind>>
  <2>1. /\ k.claim = c /\ k.claim \in ClaimIds /\ k.refs \in SUBSET EvidenceIds
        /\ k.at \in Times
    BY <1>1
  <2>2. work' = db' /\ UNCHANGED <<lock, depth, pc, call, kind>>
    BY <1>1 DEF OlderPropose, OlderAddEvidence, OlderImport, OlderCommit
  <2>3. CASE OlderPropose(k)
    <3>1. /\ CanPropose(k)
          /\ \/ db' = WithPlainEntry(ProposedRows(k), k, "claim.proposed")
             \/ db' = WithMaterialEntry(ProposedRows(k), k, "claim.proposed")
      BY <2>3 DEF OlderPropose, OlderCommit
    <3>2. db' \in Image /\ ProposalWritten(db, db', c)
      BY <2>1, <3>1, OlderProposalWrites
    <3> QED
      BY <2>2, <3>2 DEF OlderWrites
  <2>4. CASE OlderAddEvidence(k)
    <3>1. /\ CanAttach(db, k) /\ HasHistory(db, k.claim)
          /\ \/ /\ ~Carries(db, Max(Proposals(db, k.claim)))
                /\ db' = WithPlainEntry(WithEvidence(db, k), k, "claim.evidence_added")
             \/ db' = WithMaterialEntry(WithEvidence(db, k), k, "claim.evidence_added")
      BY <2>4 DEF OlderAddEvidence, OlderCommit
    <3>2. db' \in Image /\ AdditionWritten(db, db', c)
      BY <2>1, <3>1, OlderAdditionWrites
    <3> QED
      BY <2>2, <3>2 DEF OlderWrites
  <2>5. CASE OlderImport(k)
    <3>1. kind = "V02" /\ CanPropose(k) /\ db' = ProposedRows(k)
      BY <2>5 DEF OlderImport, OlderCommit
    <3>2. /\ db' \in Image /\ db'.ledger = db.ledger
          /\ RowsProposed(db, db', c, k.refs)
          /\ SubmittedShapeValid(c) /\ Supported(c, k.refs)
      BY <2>1, <3>1, ProposableRows
    <3>3. ProposalImported(db, db', c)
      BY <2>1, <3>2 DEF ProposalImported
    <3> QED
      BY <2>2, <3>1, <3>2, <3>3 DEF OlderWrites
  <2> QED
    BY <1>1, <2>3, <2>4, <2>5
<1>2. ASSUME NEW c \in ClaimIds, NEW at \in Times, NEW to \in Targets,
             NEW k, k = [claim |-> c, to |-> to, decided |-> at],
             OlderReview(k) \/ OlderImportDecision(k)
      PROVE  /\ OlderWrites(db, db', c) /\ db' \in Image /\ work' = db'
             /\ UNCHANGED <<lock, depth, pc, call, kind>>
  <2>1. /\ k.claim = c /\ k.claim \in ClaimIds /\ k.to \in Targets
        /\ k.decided \in Times
    BY <1>2
  <2>2. work' = db' /\ UNCHANGED <<lock, depth, pc, call, kind>>
    BY <1>2 DEF OlderReview, OlderImportDecision, OlderCommit
  <2>3. CASE OlderReview(k)
    <3>1. /\ GateOpen(db, k) /\ HasHistory(db, k.claim)
          /\ db' = WithDecidedEntry(WithStatus(WithDecision(db, k), k), k)
      BY <2>3 DEF OlderReview, OlderCommit
    <3>2. db' \in Image /\ ReviewWritten(db, db', c)
      BY <2>1, <3>1, OlderReviewWrites
    <3> QED
      BY <2>2, <3>2 DEF OlderWrites
  <2>4. CASE OlderImportDecision(k)
    <3>1. /\ kind = "V02" /\ GateOpen(db, k) /\ ~HasHistory(db, k.claim)
          /\ db' = WithStatus(WithDecision(db, k), k)
      BY <2>4 DEF OlderImportDecision, OlderCommit
    <3>2. /\ db' \in Image /\ db'.ledger = db.ledger
          /\ RowsDecided(db, db', c, DecidedRow(db, k))
          /\ Reasoned(db, c, DecidedRow(db, k))
      BY <2>1, <3>1, DecidableRows
    <3>3. DecisionImported(db, db', c)
      BY <2>1, <3>1, <3>2 DEF DecisionImported
    <3> QED
      BY <2>2, <3>1, <3>2, <3>3 DEF OlderWrites
  <2> QED
    BY <1>2, <2>3, <2>4
<1>3. PICK c \in ClaimIds, at \in Times :
          \/ \E refs \in SUBSET EvidenceIds :
                 LET k == [claim |-> c, refs |-> refs, at |-> at]
                 IN  OlderPropose(k) \/ OlderAddEvidence(k) \/ OlderImport(k)
          \/ \E to \in Targets :
                 LET k == [claim |-> c, to |-> to, decided |-> at]
                 IN  OlderReview(k) \/ OlderImportDecision(k)
  BY DEF OlderRelease
<1>4. CASE \E refs \in SUBSET EvidenceIds :
               LET k == [claim |-> c, refs |-> refs, at |-> at]
               IN  OlderPropose(k) \/ OlderAddEvidence(k) \/ OlderImport(k)
  <2>1. PICK refs \in SUBSET EvidenceIds :
            LET k == [claim |-> c, refs |-> refs, at |-> at]
            IN  OlderPropose(k) \/ OlderAddEvidence(k) \/ OlderImport(k)
    BY <1>4
  <2>2. PICK k : k = [claim |-> c, refs |-> refs, at |-> at]
    OBVIOUS
  <2>3. OlderPropose(k) \/ OlderAddEvidence(k) \/ OlderImport(k)
    BY <2>1, <2>2
  <2> QED
    BY <1>1, <2>2, <2>3
<1>5. CASE \E to \in Targets :
               LET k == [claim |-> c, to |-> to, decided |-> at]
               IN  OlderReview(k) \/ OlderImportDecision(k)
  <2>1. PICK to \in Targets :
            LET k == [claim |-> c, to |-> to, decided |-> at]
            IN  OlderReview(k) \/ OlderImportDecision(k)
    BY <1>5
  <2>2. PICK k : k = [claim |-> c, to |-> to, decided |-> at]
    OBVIOUS
  <2>3. OlderReview(k) \/ OlderImportDecision(k)
    BY <2>1, <2>2
  <2> QED
    BY <1>2, <2>2, <2>3
<1> QED
  BY <1>3, <1>4, <1>5

LEMMA OlderCallsAreSane ==
    ASSUME NEW old, Sane(old), NEW new \in Image, NEW c, OlderWrites(old, new, c)
    PROVE  Sane(new)
<1>1. CASE ProposalWritten(old, new, c)
  <2> PICK refs \in SUBSET EvidenceIds : \E entry :
          /\ RowsProposed(old, new, c, refs)
          /\ EntryAdded(old, new, entry) /\ Joins(entry, c, "claim.proposed")
    BY <1>1 DEF ProposalWritten
  <2>1. PICK entry :
            /\ RowsProposed(old, new, c, refs)
            /\ EntryAdded(old, new, entry) /\ Joins(entry, c, "claim.proposed")
    OBVIOUS
  <2>2. c \in Existing(new)
    BY <2>1 DEF RowsProposed
  <2>3. LedgerKept(old, new)
    BY <2>1, <2>2 DEF LedgerKept, Joins
  <2> QED
    BY <2>1, <2>3, ProposalIsSane
<1>2. CASE AdditionWritten(old, new, c)
  <2> PICK refs \in SUBSET EvidenceIds : \E entry :
          /\ RowsAdded(old, new, c, refs)
          /\ EntryAdded(old, new, entry) /\ Joins(entry, c, "claim.evidence_added")
    BY <1>2 DEF AdditionWritten
  <2>1. PICK entry :
            /\ RowsAdded(old, new, c, refs)
            /\ EntryAdded(old, new, entry) /\ Joins(entry, c, "claim.evidence_added")
    OBVIOUS
  <2>2. c \in Existing(new)
    BY <2>1, AdditionsKeepOthers DEF RowsAdded
  <2>3. LedgerKept(old, new)
    BY <2>1, <2>2 DEF LedgerKept, Joins
  <2> QED
    BY <2>1, <2>3, AdditionIsSane
<1>3. CASE ReviewWritten(old, new, c)
  <2>1. PICK row, entry :
            /\ RowsDecided(old, new, c, row)
            /\ EntryAdded(old, new, entry)
            /\ RowLedgered(entry, c, row, Len(old.decisions) + 1)
    BY <1>3 DEF ReviewWritten
  <2>2. c \in Existing(new)
    BY <2>1 DEF RowsDecided
  <2>3. LedgerKept(old, new)
    BY <2>1, <2>2 DEF LedgerKept, Joins, RowLedgered
  <2> QED
    BY <2>1, <2>3, DecisionIsSane
<1>4. CASE ProposalImported(old, new, c)
  <2>1. PICK refs \in SUBSET EvidenceIds :
            RowsProposed(old, new, c, refs) /\ new.ledger = old.ledger
    BY <1>4 DEF ProposalImported
  <2>2. LedgerKept(old, new)
    BY <2>1 DEF LedgerKept
  <2> QED
    BY <2>1, <2>2, ProposalIsSane
<1>5. CASE DecisionImported(old, new, c)
  <2>1. PICK row : RowsDecided(old, new, c, row) /\ new.ledger = old.ledger
    BY <1>5 DEF DecisionImported
  <2>2. LedgerKept(old, new)
    BY <2>1 DEF LedgerKept
  <2> QED
    BY <2>1, <2>2, DecisionIsSane
<1> QED
  BY <1>1, <1>2, <1>3, <1>4, <1>5 DEF OlderWrites

-----------------------------------------------------------------------------
(* The invariant: an old repository rests between calls, and what it holds
   belongs together. *)
KindInv == kind \in OlderKinds \cup {"V03"}

OlderInv == Older => lock = NoSession /\ Sane(db)

LegacyInv == IInv /\ KindInv /\ OlderInv

LEMMA EmptyIsSane == Sane(EmptyImage) /\ Existing(EmptyImage) = {}
<1>1. Existing(EmptyImage) = {}
  BY DEF EmptyImage, Existing, HasRow
<1>2. Anchored(EmptyImage)
  <2>1. DOMAIN EmptyImage.decisions = {} /\ DOMAIN EmptyImage.ledger = {}
    <3>1. EmptyImage.decisions = <<>> /\ EmptyImage.ledger = <<>>
      BY DEF EmptyImage
    <3> QED
      BY <3>1
  <2>2. \A e \in EvidenceIds : EmptyImage.evidence[e] = NoClaim
    BY DEF EmptyImage
  <2> QED
    BY <2>1, <2>2 DEF Anchored
<1> QED
  BY <1>1, <1>2, EmptyImageTyped, FS_EmptySet DEF Sane

(* Nothing but the repository changes. *)
LEMMA RestingKeepsInvariant ==
    ASSUME IInv, lock = NoSession, db' \in Image, work' = db',
           UNCHANGED <<lock, depth, pc, call>>
    PROVE  IInv'
<1>1. Discipline'
  BY DEF IInv, Discipline, SessionOK
<1>2. ImageInv'
  BY SessionsAssumption DEF ImageInv
<1> QED
  BY <1>1, <1>2 DEF IInv

LEMMA LegacyInvariantAtStart == LegacyInit => LegacyInv
<1> SUFFICES ASSUME LegacyInit PROVE LegacyInv
  OBVIOUS
<1>1. IInv
  BY InvariantAtStart DEF LegacyInit
<1>2. db = EmptyImage /\ lock = NoSession
  BY DEF LegacyInit, Init, StartIn
<1> QED
  BY <1>1, <1>2, EmptyIsSane DEF LegacyInv, LegacyInit, KindInv, OlderInv

LEMMA LegacyInvariantIsKept == LegacyInv /\ [LegacyNext]_legacyVars => LegacyInv'
<1> SUFFICES ASSUME LegacyInv, [LegacyNext]_legacyVars PROVE LegacyInv'
  OBVIOUS
<1>1. IInv /\ KindInv /\ OlderInv
  BY DEF LegacyInv
<1>2. "V03" \notin OlderKinds
  BY DEF OlderKinds
<1>3. CASE Older /\ OlderRelease
  <2>1. lock = NoSession /\ Sane(db)
    BY <1>1, <1>3 DEF OlderInv
  <2>2. /\ \E c \in ClaimIds : OlderWrites(db, db', c)
        /\ db' \in Image /\ work' = db'
        /\ UNCHANGED <<lock, depth, pc, call, kind>>
    BY <1>3, <2>1, OlderCallsWrite
  <2>3. Sane(db')
    BY <2>1, <2>2, OlderCallsAreSane
  <2>4. IInv'
    BY <1>1, <2>1, <2>2, RestingKeepsInvariant
  <2>5. OlderInv'
    BY <2>1, <2>2, <2>3 DEF OlderInv
  <2> QED
    BY <1>1, <2>2, <2>4, <2>5 DEF LegacyInv, KindInv
<1>4. CASE Migrate
  <2>1. PICK at \in Times : db' = Migrated(db, kind, at) /\ work' = db'
    BY <1>4 DEF Migrate
  <2>2. /\ lock = NoSession /\ Sane(db) /\ kind' = "V03"
        /\ UNCHANGED <<lock, depth, pc, call>>
    BY <1>1, <1>4 DEF Migrate, OlderInv
  <2>3. Sane(db')
    BY <2>1, <2>2, MigratedIsSane
  <2>4. IInv'
    BY <1>1, <2>1, <2>2, <2>3, RestingKeepsInvariant DEF Sane
  <2> QED
    BY <1>2, <2>2, <2>4 DEF LegacyInv, KindInv, OlderInv, Older
<1>5. CASE ~Older /\ Next /\ UNCHANGED kind
  <2>1. IInv'
    BY <1>1, <1>5, InvariantIsKept
  <2> QED
    BY <1>1, <1>5, <2>1 DEF LegacyInv, KindInv, OlderInv, Older
<1>6. CASE UNCHANGED legacyVars
  <2>1. UNCHANGED vars /\ kind' = kind /\ db' = db /\ lock' = lock
    BY <1>6 DEF legacyVars, vars
  <2>2. IInv'
    BY <1>1, <2>1, InvariantIsKept
  <2> QED
    BY <1>1, <2>1, <2>2 DEF LegacyInv, KindInv, OlderInv, Older
<1> QED
  BY <1>3, <1>4, <1>5, <1>6 DEF LegacyNext

LEMMA LegacyInvariantHolds == LegacySpec => []LegacyInv
  BY LegacyInvariantAtStart, LegacyInvariantIsKept, PTL DEF LegacySpec

(* Behind the migration every claim is whole.  The event type of decisions is
   not reserved (ledger.py): a caller who writes it himself is the exception. *)
SoundInv == ~Older => Sound(db)

LEMMA SoundAtStart == LegacyInit => SoundInv
  BY EmptyIsSane DEF LegacyInit, Init, StartIn, SoundInv, Sound

LEMMA SoundIsKept ==
    ASSUME "claim.governance_decided" \notin CallerEvents
    PROVE  LegacyInv /\ SoundInv /\ [LegacyNext]_legacyVars => SoundInv'
<1> SUFFICES ASSUME LegacyInv, SoundInv, [LegacyNext]_legacyVars, (~Older)'
             PROVE  Sound(db')
  BY DEF SoundInv
<1>1. IInv /\ KindInv /\ OlderInv
  BY DEF LegacyInv
<1>2. CASE Older /\ OlderRelease
  <2>1. lock = NoSession /\ Sane(db)
    BY <1>1, <1>2 DEF OlderInv
  <2>2. kind' = kind
    BY <1>2, <2>1, OlderCallsWrite
  <2> QED
    BY <1>2, <2>2 DEF Older
<1>3. CASE Migrate
  <2>1. PICK at \in Times : db' = Migrated(db, kind, at)
    BY <1>3 DEF Migrate
  <2>2. Sane(db) /\ Ready(db, kind)
    BY <1>1, <1>3 DEF Migrate, OlderInv
  <2> QED
    BY <2>1, <2>2, MigratedIsSound
<1>4. CASE ~Older /\ Next /\ UNCHANGED kind
  <2>1. CASE db' = db
    BY <1>4, <2>1 DEF SoundInv
  <2>2. CASE db' # db
    <3>1. PICK k \in CallType : Committed(db, k, db')
      BY <1>1, <1>4, <2>2, CallsAreCommitted
    <3>2. Sound(db)
      BY <1>4 DEF SoundInv
    <3> QED
      BY <3>1, <3>2, CommittedIsSound
  <2> QED
    BY <2>1, <2>2
<1>5. CASE UNCHANGED legacyVars
  BY <1>5 DEF legacyVars, vars, SoundInv, Older
<1> QED
  BY <1>2, <1>3, <1>4, <1>5 DEF LegacyNext

LEMMA SoundHolds ==
    ASSUME "claim.governance_decided" \notin CallerEvents
    PROVE  LegacySpec => []SoundInv
<1>1. LegacyInv /\ SoundInv /\ [LegacyNext]_legacyVars => SoundInv'
  BY SoundIsKept
<1> QED
  BY <1>1, SoundAtStart, LegacyInvariantHolds, PTL DEF LegacySpec

(* No false alarm: whatever the calls, failures and clock readings, and
   whether the claim came with a migration, the audit accepts every committed
   claim, as long as no caller writes decision entries of his own
   (replay_claim_authority, governance_integrity.py). *)
THEOREM CurrentClaimsReplayed ==
    ASSUME "claim.governance_decided" \notin CallerEvents
    PROVE  LegacySpec => []CurrentClaimsReplay
<1>1. SoundInv => CurrentClaimsReplay
  <2> SUFFICES ASSUME Sound(db) PROVE AllValid(db)
    BY DEF SoundInv, CurrentClaimsReplay, CommittedClaimsReplay
  <2>1. Shaped(db)
    BY SaneIsShaped DEF Sound
  <2>2. ASSUME NEW c \in ClaimIds, HasRow(db, c) PROVE AuthorityValid(db, c)
    <3>1. c \in Existing(db)
      BY <2>2 DEF Existing
    <3>2. Whole(db, c)
      BY <3>1 DEF Sound
    <3> QED
      BY <2>1, <3>1, <3>2, WholeIsValid
  <2> QED
    BY <2>2 DEF AllValid
<1> QED
  BY <1>1, SoundHolds, PTL

(* No row of a committed repository can be edited behind the program's back
   without a claim the audit then refuses, under the same condition. *)
THEOREM CurrentEditsAreNoticed ==
    ASSUME "claim.governance_decided" \notin CallerEvents
    PROVE  LegacySpec => []CurrentEditIsNoticed
<1>1. SoundInv => CurrentEditIsNoticed
  BY EditIsNoticed DEF SoundInv, CurrentEditIsNoticed, SingleEditIsNoticed
<1> QED
  BY <1>1, SoundHolds, PTL
-----------------------------------------------------------------------------
(* Everything preflight may be handed here has the shape of a repository. *)

LEMMA OtherLedgerIsShaped ==
    ASSUME NEW image, Shaped(image), NEW l, IsLedger(l), NEW other,
           other = [image EXCEPT !.ledger = l]
    PROVE  Shaped(other)
<1>1. /\ other.claims = image.claims /\ other.ledger = l
      /\ other.decisions = image.decisions /\ IsImage(other)
  BY DEF Shaped, IsImage
<1> QED
  BY <1>1 DEF Shaped, Existing, HasRow

LEMMA OtherDecisionsAreShaped ==
    ASSUME NEW image, Shaped(image), NEW l, IsLedger(l), NEW other,
           other = [image EXCEPT !.decisions = l]
    PROVE  Shaped(other)
<1>1. /\ other.claims = image.claims /\ other.decisions = l
      /\ other.ledger = image.ledger /\ IsImage(other)
  BY DEF Shaped, IsImage
<1> QED
  BY <1>1 DEF Shaped, Existing, HasRow

LEMMA OtherEvidenceIsShaped ==
    ASSUME NEW image, Shaped(image), NEW e, NEW c, NEW other,
           other = [image EXCEPT !.evidence[e] = c]
    PROVE  Shaped(other)
<1>1. /\ other.claims = image.claims /\ other.decisions = image.decisions
      /\ other.ledger = image.ledger /\ IsImage(other)
  BY DEF Shaped, IsImage
<1> QED
  BY <1>1 DEF Shaped, Existing, HasRow

LEMMA OtherClaimIsShaped ==
    ASSUME NEW image, Shaped(image), NEW c, NEW row, NEW other,
           other = [image EXCEPT !.claims[c] = row]
    PROVE  Shaped(other)
<1>1. /\ other.claims = [image.claims EXCEPT ![c] = row]
      /\ other.decisions = image.decisions
      /\ other.ledger = image.ledger /\ IsImage(other)
  BY DEF Shaped, IsImage
<1>2. Existing(other) \subseteq Existing(image) \cup {c}
  <2>1. \A d : d # c => other.claims[d] = image.claims[d]
    BY <1>1
  <2> QED
    BY <2>1 DEF Existing, HasRow
<1>3. IsFiniteSet(Existing(image) \cup {c})
  BY FS_AddElement DEF Shaped
<1>4. IsFiniteSet(Existing(other))
  BY <1>2, <1>3, FS_Subset
<1> QED
  BY <1>1, <1>4 DEF Shaped

LEMMA EditsAreShaped ==
    ASSUME NEW image, Shaped(image), NEW other \in Edits(image)
    PROVE  Shaped(other)
<1>1. CASE other \in EditedClaims(image)
  <2>1. \E c \in ClaimIds, row \in ClaimRow : other = [image EXCEPT !.claims[c] = row]
    BY <1>1 DEF EditedClaims
  <2> QED
    BY <2>1, OtherClaimIsShaped
<1>2. CASE other \in EditedEvidence(image)
  <2>1. \E e \in EvidenceIds, c \in Existing(image) \cup {NoClaim} :
            other = [image EXCEPT !.evidence[e] = c]
    BY <1>2 DEF EditedEvidence
  <2> QED
    BY <2>1, OtherEvidenceIsShaped
<1>3. CASE other \in EditedDecisions(image)
  <2>1. PICK i \in DOMAIN image.decisions, row \in DecisionRows(image) :
            other = [image EXCEPT !.decisions[i] = row]
    BY <1>3 DEF EditedDecisions
  <2> DEFINE l == [image.decisions EXCEPT ![i] = row]
  <2>2. IsLedger(l)
    BY ChangedLedger DEF Shaped
  <2>3. other = [image EXCEPT !.decisions = l]
    BY <2>1
  <2> HIDE DEF l
  <2> QED
    BY <2>2, <2>3, OtherDecisionsAreShaped
<1>4. CASE other \in DecisionAdded(image)
  <2>1. PICK row \in DecisionRows(image) :
            other = [image EXCEPT !.decisions = Append(@, row)]
    BY <1>4 DEF DecisionAdded
  <2> DEFINE l == Append(image.decisions, row)
  <2>2. IsLedger(l)
    BY AppendedLedger DEF Shaped
  <2>3. other = [image EXCEPT !.decisions = l]
    BY <2>1
  <2> HIDE DEF l
  <2> QED
    BY <2>2, <2>3, OtherDecisionsAreShaped
<1> QED
  BY <1>1, <1>2, <1>3, <1>4 DEF Edits

LEMMA DeparturesAreShaped ==
    ASSUME NEW image, Shaped(image), NEW other \in Departures(image) \cup {image}
    PROVE  Shaped(other)
<1>0. IsLedger(image.ledger)
  BY DEF Shaped
<1>1. CASE other = image
  BY <1>1
<1>2. CASE other \in Edits(image)
  BY <1>2, EditsAreShaped
<1>3. CASE other \in EntryLost(image)
  <2>1. PICK n \in DOMAIN image.ledger :
            other = [image EXCEPT !.ledger = RemoveAt(@, n)]
    BY <1>3 DEF EntryLost
  <2> DEFINE l == RemoveAt(image.ledger, n)
  <2>2. IsLedger(l)
    BY <1>0, ShortenedLedger
  <2>3. other = [image EXCEPT !.ledger = l]
    BY <2>1
  <2> HIDE DEF l
  <2> QED
    BY <2>2, <2>3, OtherLedgerIsShaped
<1>4. CASE other \in EntryMoved(image)
  <2>1. PICK n \in DOMAIN image.ledger, m \in DOMAIN image.ledger :
            other = [image EXCEPT !.ledger = InsertAt(RemoveAt(@, n), m, @[n])]
    BY <1>4 DEF EntryMoved
  <2> DEFINE l == InsertAt(RemoveAt(image.ledger, n), m, image.ledger[n])
  <2>2. IsLedger(l)
    BY <1>0, MovedLedger
  <2>3. other = [image EXCEPT !.ledger = l]
    BY <2>1
  <2> HIDE DEF l
  <2> QED
    BY <2>2, <2>3, OtherLedgerIsShaped
<1>5. CASE other \in EntryRepeated(image)
  <2>1. PICK n \in DOMAIN image.ledger :
            other = [image EXCEPT !.ledger = Append(@, @[n])]
    BY <1>5 DEF EntryRepeated
  <2> DEFINE l == Append(image.ledger, image.ledger[n])
  <2>2. IsLedger(l)
    BY <1>0, AppendedLedger
  <2>3. other = [image EXCEPT !.ledger = l]
    BY <2>1
  <2> HIDE DEF l
  <2> QED
    BY <2>2, <2>3, OtherLedgerIsShaped
<1>6. CASE other \in DigestsForged(image)
  <2>1. PICK n \in DOMAIN image.ledger, material \in MaterialType \cup {NoMaterial} :
            other = [image EXCEPT !.ledger[n].material = material]
    BY <1>6 DEF DigestsForged
  <2> DEFINE l == [image.ledger EXCEPT ![n].material = material]
  <2>2. IsLedger(l)
    BY <1>0, ChangedLedger
  <2>3. other = [image EXCEPT !.ledger = l]
    BY <2>1
  <2> HIDE DEF l
  <2> QED
    BY <2>2, <2>3, OtherLedgerIsShaped
<1>7. CASE other \in AttestationForged(image)
  <2>1. PICK c \in Existing(image), at \in Times :
            other = [image EXCEPT !.ledger = Append(@, AttestationEntry(image, c, at))]
    BY <1>7 DEF AttestationForged
  <2> DEFINE l == Append(image.ledger, AttestationEntry(image, c, at))
  <2>2. IsLedger(l)
    BY <1>0, AppendedLedger
  <2>3. other = [image EXCEPT !.ledger = l]
    BY <2>1
  <2> HIDE DEF l
  <2> QED
    BY <2>2, <2>3, OtherLedgerIsShaped
<1> QED
  BY <1>1, <1>2, <1>3, <1>4, <1>5, <1>6, <1>7 DEF Departures

(* What preflight lets through, of what an older release left and of
   everything one step away from it, the audit accepts behind the migration:
   "postflight cannot discover a mismatch only after migration work has
   started" (migrations.py:2673). *)
THEOREM AdmittedClaimsReplayed == LegacySpec => []AdmittedClaimsReplay
<1>1. LegacyInv => AdmittedClaimsReplay
  <2> SUFFICES ASSUME LegacyInv, Older,
                      NEW image \in Departures(db) \cup {db},
                      Ready(image, kind), NEW at \in Times
               PROVE  AllValid(Migrated(image, kind, at))
    BY DEF AdmittedClaimsReplay
  <2>1. Shaped(db)
    BY SaneIsShaped DEF LegacyInv, OlderInv
  <2>2. Shaped(image)
    BY <2>1, DeparturesAreShaped
  <2> QED
    BY <2>2, ReadyClaimsReplay
<1> QED
  BY <1>1, LegacyInvariantHolds, PTL
-----------------------------------------------------------------------------
(* What older releases leave is what preflight asks for. *)

RowsFit(image, c) ==
    /\ SubmittedShapeValid(c)
    /\ Supported(c, EvidenceIn(image, c))
    /\ StatusIn(image, c) = "AUTHORIZED" => EvidenceIn(image, c) # {}

(* A claim with its history, its digests there from the start or not. *)
StreamFits(image, c) ==
    /\ Told(image, c)
    /\ Attestations(image, c) = {}
    /\ CheckpointsHold(image, c, Carries(image, Max(Proposals(image, c))))

(* A claim that the ledger knows nothing of. *)
Unwritten(image, c) ==
    /\ StreamOf(image, c) = {}
    /\ DecisionsHold(image, c)
    /\ UpdatedAtReplays(image, c)

Fits(image, k, c) ==
    /\ RowsFit(image, c)
    /\ StreamFits(image, c) \/ (k = "V02" /\ Unwritten(image, c))

Released(image, k) ==
    /\ Sane(image)
    /\ EntriesHaveClaims(image)
    /\ \A c \in Existing(image) : Fits(image, k, c)

LEMMA FittingHasHistory ==
    ASSUME NEW image, Shaped(image), NEW c, StreamFits(image, c)
    PROVE  /\ HasHistory(image, c)
           /\ \E p \in 1 .. Len(image.ledger) :
                 Proposals(image, c) = {p} /\ Max(Proposals(image, c)) = p
<1>1. OneProposal(image, c)
  BY DEF StreamFits, Told, DecisionEntriesHold
<1>2. \E p \in 1 .. Len(image.ledger) :
          Proposals(image, c) = {p} /\ Max(Proposals(image, c)) = p
  BY <1>1, TheProposal
<1> QED
  BY <1>2 DEF HasHistory

LEMMA UnwrittenIsSilent ==
    ASSUME NEW image, NEW c, StreamOf(image, c) = {}
    PROVE  /\ ~HasHistory(image, c) /\ Proposals(image, c) = {}
           /\ Additions(image, c) = {} /\ DecidedEntries(image, c) = {}
           /\ Attestations(image, c) = {}
  BY DEF StreamOf, HasHistory, Proposals, Additions, DecidedEntries,
         Attestations, EntriesOf

(* Without entries decisions replay in the order of their rows. *)
LEMMA SilentInOrder ==
    ASSUME NEW image, Shaped(image), NEW c, StreamOf(image, c) = {}
    PROVE  KeysAreNumbers(image, c) /\ InRowOrder(image, c)
<1>1. ASSUME NEW i \in DecisionsOf(image, c)
      PROVE  ReplayKey(image, c, i) = Len(image.ledger) + i
  <2>1. EntriesNaming(image, c, i) = {}
    BY UnwrittenIsSilent DEF EntriesNaming
  <2> QED
    BY <2>1, UnnamedKey
<1>2. /\ Len(image.ledger) \in Nat /\ Len(image.decisions) \in Nat
      /\ DecisionsOf(image, c) \subseteq 1 .. Len(image.decisions)
  BY Positions
<1>3. KeysAreNumbers(image, c)
  BY <1>1, <1>2 DEF KeysAreNumbers
<1>4. InRowOrder(image, c)
  <2> SUFFICES ASSUME NEW i \in DecisionsOf(image, c),
                      NEW j \in DecisionsOf(image, c), i < j
               PROVE  ReplayKey(image, c, i) < ReplayKey(image, c, j)
    BY DEF InRowOrder
  <2>1. /\ ReplayKey(image, c, i) = Len(image.ledger) + i
        /\ ReplayKey(image, c, j) = Len(image.ledger) + j
    BY <1>1
  <2>2. i \in Nat /\ j \in Nat
    BY <1>2
  <2> QED
    BY <1>2, <2>1, <2>2
<1> QED
  BY <1>3, <1>4

(* A claim that nothing was done about. *)
LEMMA BasisKeepsCheckpoints ==
    ASSUME NEW old, NEW new, NEW c, SameBasis(old, new, c), NEW required,
           EvidenceEntriesHold(new, c), CheckpointsHold(old, c, required)
    PROVE  CheckpointsHold(new, c, required)
<1>1. \A n : AccumulatedAt(new, c, n) = AccumulatedAt(old, c, n)
  BY BasisAccumulated
<1>2. /\ Proposals(new, c) = Proposals(old, c)
      /\ Additions(new, c) = Additions(old, c)
      /\ \A n \in Proposals(old, c) \cup Additions(old, c) :
            new.ledger[n] = old.ledger[n]
      /\ new.claims[c].created = old.claims[c].created
      /\ EvidenceIn(new, c) = EvidenceIn(old, c)
  BY DEF SameBasis
<1> QED
  BY <1>1, <1>2 DEF CheckpointsHold, Carries, EvidenceEntriesHold

LEMMA BasisKeepsFitting ==
    ASSUME NEW old, Shaped(old), NEW new, NEW c, StreamFits(old, c),
           SameBasis(old, new, c), Told(new, c)
    PROVE  StreamFits(new, c)
<1>1. PICK p : Proposals(old, c) = {p} /\ Max(Proposals(old, c)) = p
  BY FittingHasHistory
<1>2. /\ Proposals(new, c) = {p} /\ new.ledger[p] = old.ledger[p]
      /\ Proposals(new, c) = Proposals(old, c)
      /\ Attestations(new, c) = Attestations(old, c)
  BY <1>1 DEF SameBasis, SameAttestations
<1>3. Max(Proposals(new, c)) = p
  BY <1>1, <1>2
<1>4. CheckpointsHold(old, c, Carries(old, p)) /\ Carries(new, p) = Carries(old, p)
  BY <1>1, <1>2 DEF StreamFits, Carries
<1>5. EvidenceEntriesHold(new, c)
  BY DEF Told
<1> DEFINE required == Carries(old, p)
<1> HIDE DEF required
<1>6. CheckpointsHold(new, c, required)
  BY <1>4, <1>5, BasisKeepsCheckpoints DEF required
<1> QED
  BY <1>2, <1>3, <1>4, <1>6 DEF StreamFits, required

LEMMA SameStaysFitting ==
    ASSUME NEW old, Shaped(old), NEW new, Shaped(new), NEW k, NEW c,
           SameEntries(old, new, c), SameRows(old, new, c),
           SameAttestations(old, new, c), StreamOf(new, c) = StreamOf(old, c),
           Fits(old, k, c)
    PROVE  Fits(new, k, c)
<1>1. RowsFit(new, c)
  BY DEF Fits, RowsFit, SameRows, StatusIn
<1>2. CASE StreamFits(old, c)
  <2>1. Told(new, c)
    BY <1>2, SameStaysTold DEF StreamFits
  <2>2. SameBasis(old, new, c)
    BY DEF SameEntries, SameRows, SameBasis
  <2>3. StreamFits(new, c)
    BY <1>2, <2>1, <2>2, BasisKeepsFitting
  <2> QED
    BY <1>1, <2>3 DEF Fits
<1>3. CASE k = "V02" /\ Unwritten(old, c)
  <2>1. StreamOf(old, c) = {} /\ StreamOf(new, c) = {}
    BY <1>3 DEF Unwritten
  <2>2. DecisionsHold(new, c)
    BY <1>3, SameDecisions DEF Unwritten
  <2>3. /\ KeysAreNumbers(old, c) /\ InRowOrder(old, c)
        /\ KeysAreNumbers(new, c) /\ InRowOrder(new, c)
    BY <2>1, SilentInOrder
  <2>4. UpdatedAtReplays(new, c)
    BY <1>3, <2>3, SameUpdated DEF Unwritten
  <2>5. Unwritten(new, c)
    BY <2>1, <2>2, <2>4 DEF Unwritten
  <2> QED
    BY <1>1, <1>3, <2>5 DEF Fits
<1> QED
  BY <1>2, <1>3 DEF Fits

(* A ledger that says as much of d as before. *)
WrittenAbout(old, new, c) ==
    \/ new.ledger = old.ledger
    \/ \E entry : EntryAdded(old, new, entry) /\ entry.claim = c

LEMMA OthersStayFitting ==
    ASSUME NEW old, Shaped(old), NEW new, Shaped(new), NEW k, NEW c,
           WrittenAbout(old, new, c), OthersKept(old, new, c),
           NEW d \in ClaimIds, d # c, Fits(old, k, d)
    PROVE  Fits(new, k, d)
<1>1. SameRows(old, new, d)
  BY DEF OthersKept
<1>2. /\ SameEntries(old, new, d) /\ SameAttestations(old, new, d)
      /\ StreamOf(new, d) = StreamOf(old, d)
  <2>1. CASE new.ledger = old.ledger
    <3>1. Len(old.ledger) \in Nat
      BY Positions
    <3>2. SameEntries(old, new, d)
      BY <2>1, <3>1 DEF SameEntries, Proposals, Additions, DecidedEntries, EntriesOf
    <3>3. SameAttestations(old, new, d)
      BY <2>1 DEF SameAttestations, Attestations, EntriesOf
    <3> QED
      BY <2>1, <3>2, <3>3 DEF StreamOf
  <2>2. CASE \E entry : EntryAdded(old, new, entry) /\ entry.claim = c
    <3>1. PICK entry : EntryAdded(old, new, entry) /\ entry.claim = c
      BY <2>2
    <3>2. SameEntries(old, new, d) /\ SameAttestations(old, new, d)
      BY <3>1, QuietEntry
    <3>3. \A n : n \in StreamOf(new, d) <=> n \in StreamOf(old, d)
      BY <3>1 DEF StreamOf, EntryAdded
    <3> QED
      BY <3>2, <3>3
  <2> QED
    BY <2>1, <2>2 DEF WrittenAbout
<1> QED
  BY <1>1, <1>2, SameStaysFitting

(* The claim the step is about. *)
LEMMA ProposalFits ==
    ASSUME NEW old, Sane(old), NEW new, Shaped(new), NEW k, NEW c,
           ProposalWritten(old, new, c)
    PROVE  Fits(new, k, c) /\ WrittenAbout(old, new, c)
<1> PICK refs \in SUBSET EvidenceIds : \E entry :
        /\ RowsProposed(old, new, c, refs)
        /\ SubmittedShapeValid(c) /\ Supported(c, refs)
        /\ EntryAdded(old, new, entry)
        /\ Joins(entry, c, "claim.proposed") /\ entry.refs = refs
        /\ entry.material \in {NoMaterial, MaterialOf(new, c)}
  BY DEF ProposalWritten
<1>1. PICK entry :
          /\ RowsProposed(old, new, c, refs)
          /\ SubmittedShapeValid(c) /\ Supported(c, refs)
          /\ EntryAdded(old, new, entry)
          /\ Joins(entry, c, "claim.proposed") /\ entry.refs = refs
          /\ entry.material \in {NoMaterial, MaterialOf(new, c)}
  OBVIOUS
<1> DEFINE p == Len(old.ledger) + 1
<1>2. IsNew(new, c) /\ Unheard(old, c) /\ EvidenceIn(new, c) = refs
  BY <1>1, ProposalIsNew
<1>3. /\ Told(new, c)
      /\ Proposals(new, c) = {p}
      /\ Additions(new, c) = {} /\ Attestations(new, c) = {}
      /\ new.ledger[p] = entry
      /\ \A n : AccumulatedAt(new, c, n) = EvidenceIn(new, c)
  BY <1>1, <1>2, ProposedReplays
<1> HIDE DEF p
<1>4. /\ ~Carries(new, p) => CheckpointsHold(new, c, FALSE)
      /\ new.ledger[p].material = MaterialOf(new, c) =>
            Carries(new, p) /\ CheckpointsHold(new, c, TRUE)
  BY <1>3, ProposedCheckpoints
<1>5. Carries(new, p) \in BOOLEAN /\ (~Carries(new, p) <=> entry.material = NoMaterial)
  BY <1>3 DEF Carries
<1>6. CheckpointsHold(new, c, Carries(new, p))
  <2>1. CASE entry.material = NoMaterial
    <3>1. ~Carries(new, p) /\ Carries(new, p) = FALSE
      BY <1>5, <2>1
    <3> QED
      BY <1>4, <3>1
  <2>2. CASE entry.material = MaterialOf(new, c)
    <3>1. Carries(new, p) = TRUE /\ CheckpointsHold(new, c, TRUE)
      BY <1>3, <1>4, <1>5, <2>2
    <3> QED
      BY <3>1
  <2> QED
    BY <1>1, <2>1, <2>2
<1>7. Max(Proposals(new, c)) = p
  <2>1. OneProposal(new, c)
    BY <1>3 DEF Told, DecisionEntriesHold
  <2>2. PICK q : Proposals(new, c) = {q} /\ Max(Proposals(new, c)) = q
    BY <2>1, TheProposal
  <2> QED
    BY <1>3, <2>2
<1>8. StreamFits(new, c)
  BY <1>3, <1>6, <1>7 DEF StreamFits
<1>9. RowsFit(new, c)
  BY <1>1, <1>2 DEF RowsFit, IsNew
<1>10. WrittenAbout(old, new, c)
  BY <1>1 DEF WrittenAbout, Joins
<1> QED
  BY <1>8, <1>9, <1>10 DEF Fits

LEMMA ImportFits ==
    ASSUME NEW old, Sane(old), EntriesHaveClaims(old), NEW new, Shaped(new),
           NEW c, ProposalImported(old, new, c)
    PROVE  Fits(new, "V02", c) /\ WrittenAbout(old, new, c)
<1>1. PICK refs \in SUBSET EvidenceIds :
          /\ RowsProposed(old, new, c, refs)
          /\ SubmittedShapeValid(c) /\ Supported(c, refs)
          /\ new.ledger = old.ledger
  BY DEF ProposalImported
<1>2. IsNew(new, c) /\ EvidenceIn(new, c) = refs
  BY <1>1, ProposalIsNew
<1>3. DecisionsHold(new, c) /\ UpdatedAtReplays(new, c)
  BY <1>2, NewRowReplays
<1>4. StreamOf(new, c) = {}
  BY <1>1 DEF StreamOf, EntriesHaveClaims, RowsProposed
<1>5. RowsFit(new, c)
  BY <1>1, <1>2 DEF RowsFit, IsNew
<1> QED
  BY <1>1, <1>3, <1>4, <1>5 DEF Fits, Unwritten, WrittenAbout

LEMMA AdditionFits ==
    ASSUME NEW old, Shaped(old), NEW new, Shaped(new), NEW k, NEW c,
           Fits(old, k, c), AdditionWritten(old, new, c)
    PROVE  Fits(new, k, c) /\ WrittenAbout(old, new, c)
<1> DEFINE p == Len(old.ledger) + 1
<1> PICK refs \in SUBSET EvidenceIds : \E entry :
        /\ RowsAdded(old, new, c, refs)
        /\ Supported(c, refs)
        /\ HasHistory(old, c)
        /\ EntryAdded(old, new, entry)
        /\ Joins(entry, c, "claim.evidence_added") /\ entry.refs = refs
        /\ \/ entry.material = MaterialOf(new, c)
           \/ /\ entry.material = NoMaterial
              /\ ~Carries(old, Max(Proposals(old, c)))
  BY DEF AdditionWritten
<1>1. PICK entry :
          /\ RowsAdded(old, new, c, refs)
          /\ Supported(c, refs)
          /\ HasHistory(old, c)
          /\ EntryAdded(old, new, entry)
          /\ Joins(entry, c, "claim.evidence_added") /\ entry.refs = refs
          /\ \/ entry.material = MaterialOf(new, c)
             \/ /\ entry.material = NoMaterial
                /\ ~Carries(old, Max(Proposals(old, c)))
  OBVIOUS
<1>2. StreamFits(old, c) /\ RowsFit(old, c)
  BY <1>1, UnwrittenIsSilent DEF Fits, Unwritten
<1>3. EvidenceGiven(old, new, c, refs)
  BY <1>1, AdditionIsGiven
<1>4. AdditionJoins(old, new, c, refs) /\ new.ledger[p] = entry
  BY <1>1, AdditionIsJoined DEF EntryAdded
<1>5. Told(new, c) /\ Told(old, c)
  BY <1>2, <1>3, <1>4, AdditionReplays DEF StreamFits
<1>6. PICK q : Proposals(old, c) = {q} /\ Max(Proposals(old, c)) = q
  BY <1>2, FittingHasHistory
<1>7. /\ Proposals(new, c) = Proposals(old, c)
      /\ Attestations(new, c) = Attestations(old, c)
      /\ new.ledger[q] = old.ledger[q]
  BY <1>4, <1>6 DEF AdditionJoins, SameAttestations
<1> DEFINE required == Carries(old, q)
<1>8. /\ CheckpointsHold(old, c, required) /\ Carries(new, q) = required
      /\ Attestations(new, c) = {}
  BY <1>2, <1>6, <1>7 DEF StreamFits, Carries
<1>9. \/ new.ledger[p].material = MaterialOf(new, c)
      \/ ~Carries(new, p) /\ ~required
  BY <1>1, <1>4, <1>6 DEF Carries
<1> HIDE DEF required
<1>10. CheckpointsHold(new, c, required)
  <2>1. EvidenceEntriesHold(old, c) /\ EvidenceEntriesHold(new, c)
    BY <1>5 DEF Told
  <2> QED
    BY <1>3, <1>4, <1>8, <1>9, <2>1, AdditionKeepsCheckpoints
<1>11. StreamFits(new, c)
  BY <1>5, <1>6, <1>7, <1>8, <1>10 DEF StreamFits
<1>12. RowsFit(new, c)
  BY <1>1, <1>2, <1>3 DEF RowsFit, EvidenceGiven, Supported, StatusIn
<1>13. WrittenAbout(old, new, c)
  BY <1>1 DEF WrittenAbout, Joins
<1> QED
  BY <1>11, <1>12, <1>13 DEF Fits

LEMMA DecidedRowsFit ==
    ASSUME NEW old, NEW new, NEW c, NEW row, RowsFit(old, c),
           RowsDecided(old, new, c, row), Reasoned(old, c, row)
    PROVE  RowsFit(new, c)
  BY DEF RowsFit, RowsDecided, RowDecided, Reasoned

LEMMA ReviewFits ==
    ASSUME NEW old, Shaped(old), NEW new, Shaped(new), NEW k, NEW c,
           Fits(old, k, c), ReviewWritten(old, new, c)
    PROVE  Fits(new, k, c) /\ WrittenAbout(old, new, c)
<1>1. PICK row, entry :
          /\ RowsDecided(old, new, c, row)
          /\ Reasoned(old, c, row)
          /\ HasHistory(old, c)
          /\ EntryAdded(old, new, entry)
          /\ RowLedgered(entry, c, row, Len(old.decisions) + 1)
  BY DEF ReviewWritten
<1>2. StreamFits(old, c) /\ RowsFit(old, c)
  BY <1>1, UnwrittenIsSilent DEF Fits, Unwritten
<1>3. RowDecided(old, new, c, row) /\ Told(old, c)
  BY <1>1, <1>2 DEF RowsDecided, StreamFits
<1>4. Told(new, c) /\ SameBasis(old, new, c)
  BY <1>1, <1>3, DecidedReplays, DecidedKeepsBasis
<1>5. StreamFits(new, c)
  BY <1>2, <1>4, BasisKeepsFitting
<1>6. RowsFit(new, c)
  BY <1>1, <1>2, DecidedRowsFit
<1>7. WrittenAbout(old, new, c)
  BY <1>1 DEF WrittenAbout, RowLedgered, Joins
<1> QED
  BY <1>5, <1>6, <1>7 DEF Fits

LEMMA ImportedDecisionFits ==
    ASSUME NEW old, Shaped(old), NEW new, Shaped(new), NEW k, NEW c,
           Fits(old, k, c), DecisionImported(old, new, c)
    PROVE  Fits(new, k, c) /\ WrittenAbout(old, new, c)
<1>1. PICK row :
          /\ RowsDecided(old, new, c, row)
          /\ Reasoned(old, c, row)
          /\ ~HasHistory(old, c)
          /\ new.ledger = old.ledger
  BY DEF DecisionImported
<1>2. k = "V02" /\ Unwritten(old, c) /\ RowsFit(old, c)
  BY <1>1, FittingHasHistory DEF Fits
<1>3. RowDecided(old, new, c, row)
  BY <1>1 DEF RowsDecided
<1>4. DecisionsHold(new, c)
  BY <1>2, <1>3, DecidedRowsHold DEF Unwritten
<1>5. StreamOf(new, c) = {}
  BY <1>1, <1>2 DEF StreamOf, Unwritten
<1>6. UpdatedAtReplays(new, c)
  <2> DEFINE rows == DecisionsOf(new, c)
             last == Len(old.decisions) + 1
  <2>1. RowsGrow(old, new, c) /\ new.decisions[last] = row
    BY <1>3, RowsGrowByOne
  <2>2. rows # {} /\ Max(rows) = last
    BY <2>1 DEF RowsGrow
  <2>3. KeysAreNumbers(new, c) /\ InRowOrder(new, c)
    BY <1>5, SilentInOrder
  <2>4. LastOf(new, c, rows) = Max(rows)
    BY <2>2, <2>3, RowOrder
  <2>5. new.claims[c].updated = new.decisions[LastOf(new, c, rows)].at
    BY <1>3, <2>1, <2>2, <2>4 DEF RowDecided
  <2> QED
    BY <2>2, <2>5 DEF UpdatedAtReplays
<1>7. RowsFit(new, c)
  BY <1>1, <1>2, DecidedRowsFit
<1>8. WrittenAbout(old, new, c)
  BY <1>1 DEF WrittenAbout
<1> QED
  BY <1>2, <1>4, <1>5, <1>6, <1>7, <1>8 DEF Fits, Unwritten

(* The rows an older call writes. *)
RowsWritten(old, new, c) ==
    \/ \E refs : RowsProposed(old, new, c, refs)
    \/ \E refs : RowsAdded(old, new, c, refs)
    \/ \E row : RowsDecided(old, new, c, row)

LEMMA RowsAreWritten ==
    ASSUME NEW old, NEW new, NEW c, OlderWrites(old, new, c)
    PROVE  RowsWritten(old, new, c)
  BY DEF OlderWrites, RowsWritten, ProposalWritten, AdditionWritten,
         ReviewWritten, ProposalImported, DecisionImported

LEMMA WritingKeepsOthers ==
    ASSUME NEW old, Shaped(old), NEW new, NEW c, RowsWritten(old, new, c)
    PROVE  /\ OthersKept(old, new, c)
           /\ Existing(new) = Existing(old) \cup {c}
<1>1. ASSUME NEW refs, RowsProposed(old, new, c, refs)
      PROVE  OthersKept(old, new, c) /\ Existing(new) = Existing(old) \cup {c}
  BY <1>1, ProposalsKeepOthers DEF RowsProposed
<1>2. ASSUME NEW refs, RowsAdded(old, new, c, refs)
      PROVE  OthersKept(old, new, c) /\ Existing(new) = Existing(old) \cup {c}
  BY <1>2, AdditionsKeepOthers DEF RowsAdded
<1>3. ASSUME NEW row, RowsDecided(old, new, c, row)
      PROVE  OthersKept(old, new, c) /\ Existing(new) = Existing(old) \cup {c}
  BY <1>3, DecisionsKeepOthers DEF RowsDecided
<1> QED
  BY <1>1, <1>2, <1>3 DEF RowsWritten

LEMMA WrittenClaimFits ==
    ASSUME NEW old, Released(old, kind), NEW new, Shaped(new), NEW c,
           OlderWrites(old, new, c)
    PROVE  Fits(new, kind, c) /\ WrittenAbout(old, new, c)
<1>1. Sane(old) /\ Shaped(old) /\ EntriesHaveClaims(old)
  BY SaneIsShaped DEF Released
<1>2. c \in Existing(old) => Fits(old, kind, c)
  BY DEF Released
<1>3. CASE ProposalWritten(old, new, c)
  BY <1>1, <1>3, ProposalFits
<1>4. CASE AdditionWritten(old, new, c)
  <2>1. Fits(old, kind, c)
    BY <1>2, <1>4 DEF AdditionWritten, RowsAdded
  <2> QED
    BY <1>1, <1>4, <2>1, AdditionFits
<1>5. CASE ReviewWritten(old, new, c)
  <2>1. Fits(old, kind, c)
    BY <1>2, <1>5 DEF ReviewWritten, RowsDecided
  <2> QED
    BY <1>1, <1>5, <2>1, ReviewFits
<1>6. CASE kind = "V02" /\ ProposalImported(old, new, c)
  BY <1>1, <1>6, ImportFits
<1>7. CASE kind = "V02" /\ DecisionImported(old, new, c)
  <2>1. Fits(old, kind, c)
    BY <1>2, <1>7 DEF DecisionImported, RowsDecided
  <2> QED
    BY <1>1, <1>7, <2>1, ImportedDecisionFits
<1> QED
  BY <1>3, <1>4, <1>5, <1>6, <1>7 DEF OlderWrites

LEMMA OlderCallsFit ==
    ASSUME NEW old, Released(old, kind), NEW new \in Image, NEW c,
           OlderWrites(old, new, c)
    PROVE  Released(new, kind)
<1>1. Sane(old) /\ Shaped(old) /\ Sane(new) /\ Shaped(new)
      /\ Existing(new) \subseteq ClaimIds
  BY OlderCallsAreSane, SaneIsShaped DEF Released
<1>2. OthersKept(old, new, c) /\ Existing(new) = Existing(old) \cup {c}
  BY <1>1, RowsAreWritten, WritingKeepsOthers
<1>3. Fits(new, kind, c) /\ WrittenAbout(old, new, c)
  BY <1>1, WrittenClaimFits
<1>4. ASSUME NEW d \in Existing(new) PROVE Fits(new, kind, d)
  <2>1. CASE d = c
    BY <1>3, <2>1
  <2>2. CASE d # c
    <3>1. d \in ClaimIds /\ Fits(old, kind, d)
      BY <1>1, <1>2, <2>2 DEF Released
    <3> QED
      BY <1>1, <1>2, <1>3, <2>2, <3>1, OthersStayFitting
  <2> QED
    BY <2>1, <2>2
<1>5. EntriesHaveClaims(new)
  <2>1. \A n \in DOMAIN old.ledger : old.ledger[n].claim \in Existing(new)
    BY <1>2 DEF Released, EntriesHaveClaims
  <2>2. CASE new.ledger = old.ledger
    BY <2>1, <2>2 DEF EntriesHaveClaims
  <2>3. CASE \E entry : EntryAdded(old, new, entry) /\ entry.claim = c
    BY <1>2, <2>1, <2>3 DEF EntriesHaveClaims, EntryAdded
  <2> QED
    BY <1>3, <2>2, <2>3 DEF WrittenAbout
<1> QED
  BY <1>1, <1>4, <1>5 DEF Released

(* Preflight finds nothing to complain about. *)
LEMMA FittingIsReady ==
    ASSUME NEW image, Shaped(image), NEW k, NEW c, Fits(image, k, c),
           SubmittedShapeValid(c) => StoredShapeValid(c),
           \A e \in EvidenceIn(image, c) : Span[e].faithful
    PROVE  /\ ClaimRowHolds(c) /\ EvidenceHolds(image, c)
           /\ DecisionsHold(image, c) /\ StreamHolds(image, c)
           /\ MaterialIsBindable(image, k, c)
<1>1. ClaimRowHolds(c)
  BY DEF ClaimRowHolds, Fits, RowsFit
<1>2. EvidenceHolds(image, c)
  BY DEF EvidenceHolds, EvidenceAdmissible, Fits, RowsFit, Supported
<1>3. CASE StreamFits(image, c)
  <2>1. HasHistory(image, c)
    BY <1>3, FittingHasHistory
  <2>2. PICK p : Proposals(image, c) = {p} /\ Max(Proposals(image, c)) = p
    BY <1>3, FittingHasHistory
  <2>3. /\ DecisionEntriesHold(image, c) /\ EvidenceEntriesHold(image, c)
        /\ DecisionsHold(image, c) /\ UpdatedAtReplays(image, c)
        /\ Attestations(image, c) = {}
        /\ Cardinality(Proposals(image, c)) = 1
    BY <1>3 DEF StreamFits, Told, DecisionEntriesHold, OneProposal
  <2>4. StreamHolds(image, c)
    BY <2>1, <2>3 DEF StreamHolds
  <2>5. MaterialAction(image, k, c) = IF Carries(image, p) THEN "v2" ELSE "attest"
    BY <2>2, <2>3 DEF MaterialAction
  <2>6. CheckpointsHold(image, c, Carries(image, p))
    BY <1>3, <2>2 DEF StreamFits
  <2>7. MaterialIsBindable(image, k, c)
    <3> DEFINE action == MaterialAction(image, k, c)
    <3>1. Carries(image, p) \in BOOLEAN
      BY DEF Carries
    <3>2. action \in {"v2", "attest"} /\ (action = "v2") = Carries(image, p)
      BY <2>5, <3>1
    <3> HIDE DEF action
    <3>3. CheckpointsHold(image, c, action = "v2")
      BY <2>6, <3>2
    <3>4. action # "invalid"
      BY <3>2
    <3> QED
      BY <3>3, <3>4 DEF MaterialIsBindable, action
  <2> QED
    BY <1>1, <1>2, <2>3, <2>4, <2>7
<1>4. CASE k = "V02" /\ Unwritten(image, c)
  <2>1. StreamOf(image, c) = {} /\ DecisionsHold(image, c) /\ UpdatedAtReplays(image, c)
    BY <1>4 DEF Unwritten
  <2>2. /\ ~HasHistory(image, c) /\ Proposals(image, c) = {}
        /\ Attestations(image, c) = {}
    BY <2>1, UnwrittenIsSilent
  <2>3. StreamHolds(image, c)
    BY <2>1, <2>2 DEF StreamHolds
  <2>4. MaterialAction(image, k, c) = "backfill"
    BY <1>4, <2>2 DEF MaterialAction
  <2>5. MaterialIsBindable(image, k, c)
    BY <2>4 DEF MaterialIsBindable
  <2> QED
    BY <1>1, <1>2, <2>1, <2>3, <2>5
<1> QED
  BY <1>3, <1>4 DEF Fits

ReleasedInv == Older => Released(db, kind)

LEMMA EmptyIsReleased == \A k : Released(EmptyImage, k)
<1>1. EntriesHaveClaims(EmptyImage)
  <2>1. EmptyImage.ledger = <<>>
    BY DEF EmptyImage
  <2> QED
    BY <2>1 DEF EntriesHaveClaims
<1> QED
  BY <1>1, EmptyIsSane DEF Released

LEMMA ReleasedAtStart == LegacyInit => ReleasedInv
  BY EmptyIsReleased DEF LegacyInit, Init, StartIn, ReleasedInv

LEMMA ReleasedIsKept ==
    LegacyInv /\ ReleasedInv /\ [LegacyNext]_legacyVars => ReleasedInv'
<1> SUFFICES ASSUME LegacyInv, ReleasedInv, [LegacyNext]_legacyVars, Older'
             PROVE  Released(db', kind')
  BY DEF ReleasedInv
<1>1. CASE Older /\ OlderRelease
  <2>1. Sane(db) /\ Released(db, kind)
    BY <1>1 DEF LegacyInv, OlderInv, ReleasedInv
  <2>2. PICK c \in ClaimIds : OlderWrites(db, db', c)
    BY <1>1, <2>1, OlderCallsWrite
  <2>3. db' \in Image /\ kind' = kind
    BY <1>1, <2>1, OlderCallsWrite
  <2>4. Released(db', kind)
    BY <2>1, <2>2, <2>3, OlderCallsFit
  <2> QED
    BY <2>3, <2>4
<1>2. CASE Migrate
  BY <1>2 DEF Migrate, Older, OlderKinds
<1>3. CASE ~Older /\ Next /\ UNCHANGED kind
  BY <1>3 DEF Older
<1>4. CASE UNCHANGED legacyVars
  BY <1>4 DEF legacyVars, vars, ReleasedInv, Older
<1> QED
  BY <1>1, <1>2, <1>3, <1>4 DEF LegacyNext

LEMMA ReleasedHolds == LegacySpec => []ReleasedInv
  BY ReleasedAtStart, ReleasedIsKept, LegacyInvariantHolds, PTL DEF LegacySpec

(* A repository that older releases alone have written migrates, whatever the
   clock, as long as its references quote what they cite and no interval
   collapses when its bounds are cut to seconds: proposals are checked as they
   are submitted (governance.py), preflight checks them as they are stored
   (_validate_v02, migrations.py). *)
THEOREM ReleasesAreAdmittedAlways ==
    ASSUME \A c \in ClaimIds : SubmittedShapeValid(c) => StoredShapeValid(c)
    PROVE  LegacySpec => []ReleasesAreAdmitted
<1>1. ReleasedInv => ReleasesAreAdmitted
  <2> SUFFICES ASSUME Released(db, kind),
                      \A e \in EvidenceIds : db.evidence[e] # NoClaim => Span[e].faithful
               PROVE  Ready(db, kind)
    BY DEF ReleasedInv, ReleasesAreAdmitted
  <2>1. Shaped(db) /\ EntriesHaveClaims(db) /\ Existing(db) \subseteq ClaimIds
    BY SaneIsShaped DEF Released
  <2>2. ASSUME NEW c \in Existing(db)
        PROVE  /\ ClaimRowHolds(c) /\ EvidenceHolds(db, c)
               /\ DecisionsHold(db, c) /\ StreamHolds(db, c)
               /\ MaterialIsBindable(db, kind, c)
    <3>1. c \in ClaimIds /\ c # NoClaim /\ Fits(db, kind, c)
      BY <2>1, NoClaimAssumption DEF Released
    <3>2. \A e \in EvidenceIn(db, c) : Span[e].faithful
      BY <3>1 DEF EvidenceIn
    <3> QED
      BY <2>1, <3>1, <3>2, FittingIsReady
  <2> QED
    BY <2>1, <2>2 DEF Ready
<1> QED
  BY <1>1, ReleasedHolds, PTL
===============================================================================
