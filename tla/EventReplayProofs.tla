--------------------------- MODULE EventReplayProofs ---------------------------
(***************************************************************************)
(* Narrative events and their audit for any number of sessions, events,    *)
(* references and ledger entries: what preflight admits of an old          *)
(* repository replays behind the migration, a reader beside the sessions   *)
(* blames no event, and no edited row goes unnoticed.                      *)
(***************************************************************************)
EXTENDS LegacyEvents, SequenceTheorems, FiniteSetTheorems, TLAPS

IsLedger(l) == \E n \in Nat : l = [i \in 1 .. n |-> l[i]]

IsImage(image) ==
    image = [events |-> image.events, evidence |-> image.evidence,
             ledger |-> image.ledger]

(* An identifier names one of finitely many rows. *)
Keyed(rows) ==
    /\ IsFiniteSet(rows)
    /\ \A r, q \in rows : r.id = q.id => r = q

(* A repository's tables as anybody may have left them. *)
Shaped(image) ==
    /\ IsImage(image)
    /\ Keyed(image.events)
    /\ IsLedger(image.ledger)

(* What the writers see to, of whatever release: foreign keys hold, and there
   are no entries but notes about events that are not there. *)
Sane(image) ==
    /\ Shaped(image)
    /\ \A ref \in image.evidence : ref.event \in EventsIn(image)
    /\ EntriesHaveEvents(image)
-----------------------------------------------------------------------------
(* Ledgers. *)

LEMMA LedgerFacts ==
    ASSUME NEW l, IsLedger(l)
    PROVE  /\ Len(l) \in Nat /\ DOMAIN l = 1 .. Len(l)
           /\ \E S : l \in Seq(S)
<1>1. PICK n \in Nat : l = [i \in 1 .. n |-> l[i]]
  BY DEF IsLedger
<1>2. PICK S : S = {l[i] : i \in 1 .. n}
  OBVIOUS
<1>3. l \in [1 .. n -> S]
  BY <1>1, <1>2
<1>4. l \in Seq(S)
  BY <1>3, SeqDef
<1> QED
  BY <1>4, LenProperties

LEMMA SequencesAreLedgers ==
    ASSUME NEW S, NEW l \in Seq(S)
    PROVE  IsLedger(l)
  BY LenProperties DEF IsLedger

LEMMA AppendedLedger ==
    ASSUME NEW l, IsLedger(l), NEW entry
    PROVE  /\ IsLedger(Append(l, entry))
           /\ DOMAIN Append(l, entry) = DOMAIN l \cup {Len(l) + 1}
           /\ Len(l) + 1 \notin DOMAIN l
           /\ \A n \in DOMAIN l : Append(l, entry)[n] = l[n]
           /\ Append(l, entry)[Len(l) + 1] = entry
<1>1. PICK S : l \in Seq(S)
  BY LedgerFacts
<1>2. l \in Seq(S \cup {entry})
  BY <1>1, SeqMonotonic
<1>3. /\ Append(l, entry) \in Seq(S \cup {entry})
      /\ Len(Append(l, entry)) = Len(l) + 1
      /\ \A i \in 1 .. Len(l) : Append(l, entry)[i] = l[i]
      /\ Append(l, entry)[Len(l) + 1] = entry
  BY <1>2, AppendProperties
<1>4. IsLedger(Append(l, entry))
  BY <1>3, SequencesAreLedgers
<1> QED
  BY <1>3, <1>4, LedgerFacts

IsJoin(joined, l, m) ==
    /\ IsLedger(joined)
    /\ Len(joined) = Len(l) + Len(m)
    /\ \A n \in DOMAIN l : joined[n] = l[n]
    /\ \A n \in DOMAIN m : joined[Len(l) + n] = m[n]

LEMMA JoinedLedger ==
    ASSUME NEW l, IsLedger(l), NEW m, IsLedger(m), NEW joined, joined = l \o m
    PROVE  IsJoin(joined, l, m)
<1>1. PICK S : l \in Seq(S)
  BY LedgerFacts
<1>2. PICK T : m \in Seq(T)
  BY LedgerFacts
<1>3. l \in Seq(S \cup T) /\ m \in Seq(S \cup T)
  BY <1>1, <1>2, SeqMonotonic
<1>4. joined \in Seq(S \cup T)
  BY <1>3
<1>5. /\ Len(joined) = Len(l) + Len(m)
      /\ \A i \in 1 .. Len(l) + Len(m) :
            joined[i] = IF i <= Len(l) THEN l[i] ELSE m[i - Len(l)]
  BY <1>3, ConcatProperties
<1>6. /\ Len(l) \in Nat /\ DOMAIN l = 1 .. Len(l)
      /\ Len(m) \in Nat /\ DOMAIN m = 1 .. Len(m)
  BY LedgerFacts
<1>7. \A n \in DOMAIN l : joined[n] = l[n]
  BY <1>5, <1>6
<1>8. \A n \in DOMAIN m : joined[Len(l) + n] = m[n]
  <2> SUFFICES ASSUME NEW n \in 1 .. Len(m) PROVE joined[Len(l) + n] = m[n]
    BY <1>6
  <2>1. Len(l) + n \in 1 .. Len(l) + Len(m) /\ ~(Len(l) + n <= Len(l))
        /\ Len(l) + n - Len(l) = n
    BY <1>6
  <2> QED
    BY <1>5, <2>1
<1> QED
  BY <1>4, <1>5, <1>7, <1>8, SequencesAreLedgers DEF IsJoin

(* SetToSeq: each element of a finite set is at one place. *)
LEMMA SequenceOfSet ==
    ASSUME NEW S, IsFiniteSet(S)
    PROVE  /\ IsLedger(SetToSeq(S))
           /\ \A i \in DOMAIN SetToSeq(S) : SetToSeq(S)[i] \in S
           /\ \A x \in S : \E i \in DOMAIN SetToSeq(S) : SetToSeq(S)[i] = x
           /\ \A i, j \in DOMAIN SetToSeq(S) :
                 SetToSeq(S)[i] = SetToSeq(S)[j] => i = j
<1> DEFINE f == SetToSeq(S)
           D == 1 .. Cardinality(S)
<1>1. Cardinality(S) \in Nat
  BY FS_CardinalityType
<1>2. \E g \in [D -> S] : IsInjective(g)
  <2>1. ExistsBijection(D, S)
    BY FS_CardinalityType
  <2> QED
    BY <2>1 DEF ExistsBijection, Bijection, Injection
<1>3. f \in [D -> S] /\ IsInjective(f)
  BY <1>2 DEF SetToSeq
<1>4. IsFiniteSet(D) /\ Cardinality(D) = Cardinality(S)
  <2>1. 1 \in Int /\ Cardinality(S) \in Int
    BY <1>1
  <2> QED
    BY <1>1, <2>1, FS_Interval
<1>5. f \in Injection(D, S)
  BY <1>3 DEF Injection
<1> HIDE DEF f, D
<1>6. f \in Surjection(D, S)
  BY <1>4, <1>5, FS_Injection
<1>7. IsLedger(f)
  BY <1>1, <1>3 DEF IsLedger, D
<1> QED
  BY <1>3, <1>6, <1>7 DEF f, Surjection, IsInjective
-----------------------------------------------------------------------------
(* What a migration appends. *)

LEMMA TheRow ==
    ASSUME NEW image, Keyed(image.events), NEW row \in image.events
    PROVE  RowOf(image, row.id) = row
  BY DEF RowOf, Keyed

Absent(image, k) ==
    {row \in image.events : k = "V02" /\ StreamIsEmpty(image, row.id)}

LEMMA BackfillFacts ==
    ASSUME NEW image, Shaped(image), NEW k
    PROVE  LET entries == Backfills(image, k)
               absent == Absent(image, k)
           IN  /\ IsLedger(entries)
               /\ \A i \in DOMAIN entries :
                     /\ entries[i].type = "created"
                     /\ \E row \in absent : entries[i].event = row.id
               /\ \A row \in absent :
                     \E i \in DOMAIN entries :
                         /\ entries[i] = CreationEntry(image, row.id,
                                                       EventMaterial(image, row))
                         /\ \A j \in DOMAIN entries :
                               entries[j].event = row.id => j = i
<1> DEFINE entries == Backfills(image, k)
           absent == Absent(image, k)
           order == SetToSeq(absent)
<1>1. IsFiniteSet(absent) /\ absent \subseteq image.events
  <2>1. IsFiniteSet(image.events) /\ absent \subseteq image.events
    BY DEF Shaped, Keyed, Absent
  <2> QED
    BY <2>1, FS_Subset
<1> HIDE DEF absent
<1>2. /\ IsLedger(order)
      /\ \A i \in DOMAIN order : order[i] \in absent
      /\ \A x \in absent : \E i \in DOMAIN order : order[i] = x
      /\ \A i, j \in DOMAIN order : order[i] = order[j] => i = j
  BY <1>1, SequenceOfSet
<1>3. entries = [i \in DOMAIN order |->
                    CreationEntry(image, order[i].id, EventMaterial(image, order[i]))]
  BY DEF Backfills, Absent, absent
<1> HIDE DEF order, entries
<1>4. DOMAIN entries = DOMAIN order /\ IsLedger(entries)
  BY <1>2, <1>3 DEF IsLedger
<1>5. \A i \in DOMAIN order :
          /\ entries[i] = CreationEntry(image, order[i].id, EventMaterial(image, order[i]))
          /\ entries[i].type = "created" /\ entries[i].event = order[i].id
  BY <1>3 DEF CreationEntry, Entry
<1>6. \A r, q \in absent : r.id = q.id => r = q
  BY <1>1 DEF Shaped, Keyed
<1>7. ASSUME NEW row \in absent
      PROVE  \E i \in DOMAIN entries :
                 /\ entries[i] = CreationEntry(image, row.id, EventMaterial(image, row))
                 /\ \A j \in DOMAIN entries : entries[j].event = row.id => j = i
  <2>1. PICK i \in DOMAIN order : order[i] = row
    BY <1>2
  <2>2. \A j \in DOMAIN order : order[j].id = row.id => j = i
    BY <1>2, <1>6, <2>1
  <2> QED
    BY <1>4, <1>5, <2>1, <2>2
<1>8. \A i \in DOMAIN entries :
          entries[i].type = "created" /\ \E row \in absent : entries[i].event = row.id
  BY <1>2, <1>4, <1>5
<1> QED
  BY <1>4, <1>7, <1>8 DEF entries, absent

Due(image, k) == {row \in image.events : MaterialAction(image, k, row) = "attest"}

LEMMA AttestationFacts ==
    ASSUME NEW image, Shaped(image), NEW k, NEW at
    PROVE  LET entries == AttestationsDue(image, k, at)
               due == Due(image, k)
           IN  /\ IsLedger(entries)
               /\ \A i \in DOMAIN entries :
                     /\ entries[i].type = "attested"
                     /\ \E row \in due : entries[i].event = row.id
               /\ \A row \in due :
                     \E i \in DOMAIN entries :
                         /\ entries[i] = AttestationEntry(image, row, at)
                         /\ \A j \in DOMAIN entries :
                               entries[j].event = row.id => j = i
<1> DEFINE entries == AttestationsDue(image, k, at)
           due == Due(image, k)
           order == SetToSeq(due)
<1>1. IsFiniteSet(due) /\ due \subseteq image.events
  <2>1. IsFiniteSet(image.events) /\ due \subseteq image.events
    BY DEF Shaped, Keyed, Due
  <2> QED
    BY <2>1, FS_Subset
<1> HIDE DEF due
<1>2. /\ IsLedger(order)
      /\ \A i \in DOMAIN order : order[i] \in due
      /\ \A x \in due : \E i \in DOMAIN order : order[i] = x
      /\ \A i, j \in DOMAIN order : order[i] = order[j] => i = j
  BY <1>1, SequenceOfSet
<1>3. entries = [i \in DOMAIN order |-> AttestationEntry(image, order[i], at)]
  BY DEF AttestationsDue, Due, due
<1> HIDE DEF order, entries
<1>4. DOMAIN entries = DOMAIN order /\ IsLedger(entries)
  BY <1>2, <1>3 DEF IsLedger
<1>5. \A i \in DOMAIN order :
          /\ entries[i] = AttestationEntry(image, order[i], at)
          /\ entries[i].type = "attested" /\ entries[i].event = order[i].id
  BY <1>3 DEF AttestationEntry, Entry
<1>6. \A r, q \in due : r.id = q.id => r = q
  BY <1>1 DEF Shaped, Keyed
<1>7. ASSUME NEW row \in due
      PROVE  \E i \in DOMAIN entries :
                 /\ entries[i] = AttestationEntry(image, row, at)
                 /\ \A j \in DOMAIN entries : entries[j].event = row.id => j = i
  <2>1. PICK i \in DOMAIN order : order[i] = row
    BY <1>2
  <2>2. \A j \in DOMAIN order : order[j].id = row.id => j = i
    BY <1>2, <1>6, <2>1
  <2> QED
    BY <1>4, <1>5, <2>1, <2>2
<1>8. \A i \in DOMAIN entries :
          entries[i].type = "attested" /\ \E row \in due : entries[i].event = row.id
  BY <1>2, <1>4, <1>5
<1> QED
  BY <1>4, <1>7, <1>8 DEF entries, due

(* The migrated ledger: the old one, the backfills, the attestations. *)
LEMMA MigratedLedger ==
    ASSUME NEW image, Shaped(image), NEW k, NEW at
    PROVE  LET m == Migrated(image, k, at)
               l == Len(image.ledger)
               b == Len(Backfills(image, k))
           IN  /\ IsImage(m) /\ m.events = image.events
               /\ m.evidence = image.evidence /\ IsLedger(m.ledger)
               /\ l \in Nat /\ b \in Nat
               /\ DOMAIN image.ledger = 1 .. l
               /\ DOMAIN Backfills(image, k) = 1 .. b
               /\ DOMAIN m.ledger
                    = 1 .. l \cup {l + i : i \in 1 .. b}
                        \cup {l + b + j : j \in DOMAIN AttestationsDue(image, k, at)}
               /\ \A n \in 1 .. l : m.ledger[n] = image.ledger[n]
               /\ \A i \in 1 .. b : m.ledger[l + i] = Backfills(image, k)[i]
               /\ \A j \in DOMAIN AttestationsDue(image, k, at) :
                     /\ j \in Nat \ {0}
                     /\ m.ledger[l + b + j] = AttestationsDue(image, k, at)[j]
<1> DEFINE m == Migrated(image, k, at)
           L == image.ledger
           B == Backfills(image, k)
           A == AttestationsDue(image, k, at)
<1>1. m = [image EXCEPT !.ledger = L \o B \o A]
  BY DEF Migrated
<1>2. /\ IsImage(m) /\ m.events = image.events /\ m.evidence = image.evidence
      /\ m.ledger = L \o B \o A
  BY <1>1 DEF Shaped, IsImage
<1>3. IsLedger(L) /\ IsLedger(B) /\ IsLedger(A)
  BY BackfillFacts, AttestationFacts DEF Shaped
<1> HIDE DEF m, L, B, A
<1>4. /\ Len(L) \in Nat /\ DOMAIN L = 1 .. Len(L)
      /\ Len(B) \in Nat /\ DOMAIN B = 1 .. Len(B)
      /\ Len(A) \in Nat /\ DOMAIN A = 1 .. Len(A)
  BY <1>3, LedgerFacts
<1> DEFINE LB == L \o B
           LBA == LB \o A
<1>5. /\ IsLedger(LB) /\ Len(LB) = Len(L) + Len(B)
      /\ \A n \in DOMAIN L : LB[n] = L[n]
      /\ \A i \in DOMAIN B : LB[Len(L) + i] = B[i]
  <2>1. LB = L \o B
    OBVIOUS
  <2> HIDE DEF LB
  <2>2. IsJoin(LB, L, B)
    BY <1>3, <2>1, JoinedLedger, Zenon
  <2> QED
    BY <2>2 DEF IsJoin
<1> HIDE DEF LB
<1>6. DOMAIN LB = 1 .. Len(L) + Len(B)
  BY <1>5, LedgerFacts
<1>7. /\ IsLedger(LBA)
      /\ Len(LBA) = Len(LB) + Len(A)
      /\ \A n \in DOMAIN LB : LBA[n] = LB[n]
      /\ \A i \in DOMAIN A : LBA[Len(LB) + i] = A[i]
  <2>1. LBA = LB \o A
    OBVIOUS
  <2> HIDE DEF LBA
  <2>2. IsJoin(LBA, LB, A)
    BY <1>3, <1>5, <2>1, JoinedLedger, Zenon
  <2> QED
    BY <2>2 DEF IsJoin
<1>8. m.ledger = LBA
  BY <1>2 DEF LB
<1> HIDE DEF LBA
<1>14. DOMAIN LBA = 1 .. Len(L) + Len(B) + Len(A)
  BY <1>5, <1>7, LedgerFacts
<1>9. 1 .. Len(L) + Len(B) + Len(A)
        = 1 .. Len(L) \cup {Len(L) + i : i \in 1 .. Len(B)}
            \cup {Len(L) + Len(B) + j : j \in DOMAIN A}
  <2>1. ASSUME NEW n \in 1 .. Len(L) + Len(B) + Len(A)
        PROVE  \/ n \in 1 .. Len(L)
               \/ n - Len(L) \in 1 .. Len(B) /\ n = Len(L) + (n - Len(L))
               \/ /\ n - (Len(L) + Len(B)) \in 1 .. Len(A)
                  /\ n = Len(L) + Len(B) + (n - (Len(L) + Len(B)))
    BY <1>4
  <2>2. \A i \in 1 .. Len(B) : Len(L) + i \in 1 .. Len(L) + Len(B) + Len(A)
    BY <1>4
  <2>3. \A j \in 1 .. Len(A) : Len(L) + Len(B) + j \in 1 .. Len(L) + Len(B) + Len(A)
    BY <1>4
  <2>4. 1 .. Len(L) \subseteq 1 .. Len(L) + Len(B) + Len(A)
    BY <1>4
  <2> QED
    BY <1>4, <2>1, <2>2, <2>3, <2>4
<1>10. \A n \in 1 .. Len(L) : LBA[n] = L[n]
  BY <1>4, <1>5, <1>6, <1>7
<1>11. \A i \in 1 .. Len(B) : LBA[Len(L) + i] = B[i]
  <2> SUFFICES ASSUME NEW i \in 1 .. Len(B) PROVE LBA[Len(L) + i] = B[i]
    OBVIOUS
  <2>1. Len(L) + i \in DOMAIN LB
    BY <1>4, <1>6
  <2> QED
    BY <1>4, <1>5, <1>7, <2>1
<1>12. \A j \in DOMAIN A : j \in Nat \ {0} /\ LBA[Len(L) + Len(B) + j] = A[j]
  BY <1>4, <1>5, <1>7
<1>13. DOMAIN m.ledger
         = 1 .. Len(L) \cup {Len(L) + i : i \in 1 .. Len(B)}
             \cup {Len(L) + Len(B) + j : j \in DOMAIN A}
  BY <1>8, <1>9, <1>14
<1> QED
  BY <1>2, <1>4, <1>7, <1>8, <1>10, <1>11, <1>12, <1>13 DEF m, L, B, A
-----------------------------------------------------------------------------
(* Who is told what: the entries about an event behind the migration. *)

About(entries, e) == {i \in DOMAIN entries : entries[i].event = e}

Shifted(by, places) == {by + i : i \in places}

LEMMA ShiftedFacts ==
    ASSUME NEW by
    PROVE  /\ Shifted(by, {}) = {}
           /\ \A i : Shifted(by, {i}) = {by + i}
  BY DEF Shifted

LEMMA MigratedEntries ==
    ASSUME NEW image, Shaped(image), NEW k, NEW at, NEW row \in image.events
    PROVE  LET m == Migrated(image, k, at)
               l == Len(image.ledger)
               b == Len(Backfills(image, k))
               B == Backfills(image, k)
               A == AttestationsDue(image, k, at)
           IN  /\ Creations(m, row.id)
                    = Creations(image, row.id)
                        \cup Shifted(l, About(B, row.id))
               /\ Attestations(m, row.id)
                    = Attestations(image, row.id)
                        \cup Shifted(l + b, About(A, row.id))
               /\ EvidenceOf(m, row.id) = EvidenceOf(image, row.id)
               /\ EventMaterial(m, row) = EventMaterial(image, row)
<1> DEFINE m == Migrated(image, k, at)
           l == Len(image.ledger)
           b == Len(Backfills(image, k))
           B == Backfills(image, k)
           A == AttestationsDue(image, k, at)
<1>1. /\ m.evidence = image.evidence
      /\ l \in Nat /\ b \in Nat
      /\ DOMAIN image.ledger = 1 .. l
      /\ DOMAIN B = 1 .. b
      /\ DOMAIN m.ledger = 1 .. l \cup {l + i : i \in 1 .. b}
                             \cup {l + b + j : j \in DOMAIN A}
      /\ \A n \in 1 .. l : m.ledger[n] = image.ledger[n]
      /\ \A i \in 1 .. b : m.ledger[l + i] = B[i]
      /\ \A j \in DOMAIN A : j \in Nat \ {0} /\ m.ledger[l + b + j] = A[j]
  BY MigratedLedger
<1>2. \A i \in DOMAIN B : B[i].type = "created"
  BY BackfillFacts
<1>3. \A i \in DOMAIN A : A[i].type = "attested"
  BY AttestationFacts
<1> HIDE DEF m, l, b, B, A
<1>4. EvidenceOf(m, row.id) = EvidenceOf(image, row.id)
  BY <1>1 DEF EvidenceOf
<1>5. Creations(m, row.id)
        = Creations(image, row.id)
            \cup Shifted(l, About(B, row.id))
  <2>1. ASSUME NEW n \in Creations(m, row.id)
        PROVE  n \in Creations(image, row.id)
                       \cup Shifted(l, About(B, row.id))
    <3>1. /\ n \in DOMAIN m.ledger
          /\ m.ledger[n].event = row.id /\ m.ledger[n].type = "created"
      BY DEF Creations, EntriesOf
    <3>2. CASE n \in 1 .. l
      BY <1>1, <3>1, <3>2 DEF Creations, EntriesOf
    <3>3. ASSUME NEW i \in 1 .. b, n = l + i
          PROVE  n \in Shifted(l, About(B, row.id))
      BY <1>1, <3>1, <3>3 DEF Shifted, About
    <3>4. ASSUME NEW j \in DOMAIN A, n = l + b + j PROVE FALSE
      BY <1>1, <1>3, <3>1, <3>4
    <3>5. \/ n \in 1 .. l
          \/ \E i \in 1 .. b : n = l + i
          \/ \E j \in DOMAIN A : n = l + b + j
      BY <1>1, <3>1
    <3> QED
      BY <3>2, <3>3, <3>4, <3>5
  <2>2. Creations(image, row.id) \subseteq Creations(m, row.id)
    BY <1>1 DEF Creations, EntriesOf
  <2>3. ASSUME NEW i \in DOMAIN B, B[i].event = row.id
        PROVE  l + i \in Creations(m, row.id)
    <3>1. l + i \in DOMAIN m.ledger /\ m.ledger[l + i] = B[i]
      BY <1>1
    <3> QED
      BY <1>2, <2>3, <3>1 DEF Creations, EntriesOf
  <2> QED
    BY <2>1, <2>2, <2>3 DEF Shifted, About
<1>6. Attestations(m, row.id)
        = Attestations(image, row.id)
            \cup Shifted(l + b, About(A, row.id))
  <2>1. ASSUME NEW n \in Attestations(m, row.id)
        PROVE  n \in Attestations(image, row.id)
                       \cup Shifted(l + b, About(A, row.id))
    <3>1. /\ n \in DOMAIN m.ledger
          /\ m.ledger[n].event = row.id /\ m.ledger[n].type = "attested"
      BY DEF Attestations, EntriesOf
    <3>2. CASE n \in 1 .. l
      BY <1>1, <3>1, <3>2 DEF Attestations, EntriesOf
    <3>3. ASSUME NEW i \in 1 .. b, n = l + i PROVE FALSE
      BY <1>1, <1>2, <3>1, <3>3
    <3>4. ASSUME NEW j \in DOMAIN A, n = l + b + j
          PROVE  n \in Shifted(l + b, About(A, row.id))
      BY <1>1, <3>1, <3>4 DEF Shifted, About
    <3>5. \/ n \in 1 .. l
          \/ \E i \in 1 .. b : n = l + i
          \/ \E j \in DOMAIN A : n = l + b + j
      BY <1>1, <3>1
    <3> QED
      BY <3>2, <3>3, <3>4, <3>5
  <2>2. Attestations(image, row.id) \subseteq Attestations(m, row.id)
    BY <1>1 DEF Attestations, EntriesOf
  <2>3. ASSUME NEW i \in DOMAIN A, A[i].event = row.id
        PROVE  l + b + i \in Attestations(m, row.id)
    <3>1. l + b + i \in DOMAIN m.ledger /\ m.ledger[l + b + i] = A[i]
      BY <1>1
    <3> QED
      BY <1>3, <2>3, <3>1 DEF Attestations, EntriesOf
  <2> QED
    BY <2>1, <2>2, <2>3 DEF Shifted, About
<1> QED
  BY <1>4, <1>5, <1>6 DEF EventMaterial, m, l, b, B, A

(* The same where one of the appended entries, or none, is about the event. *)
OneMore(image, k, at, row) ==
    LET m == Migrated(image, k, at)
        l == Len(image.ledger)
        b == Len(Backfills(image, k))
        made == About(Backfills(image, k), row.id)
        attested == About(AttestationsDue(image, k, at), row.id)
    IN  /\ made = {} => Creations(m, row.id) = Creations(image, row.id)
        /\ \A i : made = {i} =>
              Creations(m, row.id) = Creations(image, row.id) \cup {l + i}
        /\ attested = {} => Attestations(m, row.id) = Attestations(image, row.id)
        /\ \A i : attested = {i} =>
              Attestations(m, row.id) = Attestations(image, row.id) \cup {l + b + i}
        /\ EvidenceOf(m, row.id) = EvidenceOf(image, row.id)
        /\ EventMaterial(m, row) = EventMaterial(image, row)

LEMMA OneEntryMore ==
    ASSUME NEW image, Shaped(image), NEW k, NEW at, NEW row \in image.events
    PROVE  OneMore(image, k, at, row)
<1> DEFINE m == Migrated(image, k, at)
           l == Len(image.ledger)
           b == Len(Backfills(image, k))
           made == About(Backfills(image, k), row.id)
           attested == About(AttestationsDue(image, k, at), row.id)
<1>1. /\ Creations(m, row.id) = Creations(image, row.id) \cup Shifted(l, made)
      /\ Attestations(m, row.id)
           = Attestations(image, row.id) \cup Shifted(l + b, attested)
      /\ EvidenceOf(m, row.id) = EvidenceOf(image, row.id)
      /\ EventMaterial(m, row) = EventMaterial(image, row)
  BY MigratedEntries
<1> HIDE DEF m, l, b, made, attested
<1>2. /\ Shifted(l, {}) = {} /\ Shifted(l + b, {}) = {}
      /\ \A i : Shifted(l, {i}) = {l + i}
      /\ \A i : Shifted(l + b, {i}) = {l + b + i}
  BY ShiftedFacts
<1>3. /\ made = {} => Creations(m, row.id) = Creations(image, row.id)
      /\ \A i : made = {i} =>
             Creations(m, row.id) = Creations(image, row.id) \cup {l + i}
  BY <1>1, <1>2
<1>4. /\ attested = {} => Attestations(m, row.id) = Attestations(image, row.id)
      /\ \A i : attested = {i} =>
             Attestations(m, row.id) = Attestations(image, row.id) \cup {l + b + i}
  BY <1>1, <1>2
<1> QED
  BY <1>1, <1>3, <1>4 DEF OneMore, m, l, b, made, attested

LEMMA MaterialIsThere ==
    ASSUME NEW image, NEW row
    PROVE  EventMaterial(image, row) # NoMaterial
<1>1. "event" \in DOMAIN EventMaterial(image, row) /\ "event" \notin DOMAIN NoMaterial
  BY DEF EventMaterial, NoMaterial
<1> QED
  BY <1>1

(* Only the rows that a migration appends for an event are about it. *)
LEMMA AppendedAbout ==
    ASSUME NEW image, Shaped(image), NEW k, NEW at, NEW row \in image.events
    PROVE  LET B == Backfills(image, k)
               A == AttestationsDue(image, k, at)
           IN  /\ row \notin Absent(image, k)
                      => About(B, row.id) = {}
               /\ row \notin Due(image, k)
                      => About(A, row.id) = {}
<1>1. \A r \in image.events : r.id = row.id => r = row
  BY DEF Shaped, Keyed
<1>2. Absent(image, k) \subseteq image.events /\ Due(image, k) \subseteq image.events
  BY DEF Absent, Due
<1>3. \A i \in DOMAIN Backfills(image, k) :
          \E r \in Absent(image, k) : Backfills(image, k)[i].event = r.id
  BY BackfillFacts
<1>4. \A i \in DOMAIN AttestationsDue(image, k, at) :
          \E r \in Due(image, k) : AttestationsDue(image, k, at)[i].event = r.id
  BY AttestationFacts
<1> QED
  BY <1>1, <1>2, <1>3, <1>4 DEF About

(* A stream that was absent is written whole. *)
LEMMA BackfilledReplays ==
    ASSUME NEW image, Shaped(image), NEW k, NEW at, NEW row \in image.events,
           StreamIsEmpty(image, row.id), MaterialAction(image, k, row) # "invalid"
    PROVE  EventValid(Migrated(image, k, at), row)
<1> DEFINE m == Migrated(image, k, at)
           l == Len(image.ledger)
           B == Backfills(image, k)
           A == AttestationsDue(image, k, at)
<1>0. OneMore(image, k, at, row)
  BY OneEntryMore
<1>1. Creations(image, row.id) = {} /\ Attestations(image, row.id) = {}
  BY DEF StreamIsEmpty, Creations, Attestations, EntriesOf
<1>2. k = "V02" /\ MaterialAction(image, k, row) = "backfill"
  <2>1. Cardinality({}) # 1
    BY FS_EmptySet
  <2> QED
    BY <1>1, <2>1 DEF MaterialAction
<1>3. row \in Absent(image, k) /\ row \notin Due(image, k)
  BY <1>2 DEF Absent, Due
<1>4. PICK i \in DOMAIN B :
          /\ B[i] = CreationEntry(image, row.id, EventMaterial(image, row))
          /\ \A j \in DOMAIN B : B[j].event = row.id => j = i
  BY <1>3, BackfillFacts
<1>5. B[i].event = row.id /\ B[i].core = row.core /\ B[i].at = row.created
      /\ B[i].refs = Cited(EvidenceOf(image, row.id))
      /\ B[i].material = EventMaterial(image, row)
  BY <1>4, TheRow DEF CreationEntry, Entry, Shaped
<1>6. /\ Creations(m, row.id) = {l + i} /\ Attestations(m, row.id) = {}
      /\ EvidenceOf(m, row.id) = EvidenceOf(image, row.id)
      /\ EventMaterial(m, row) = EventMaterial(image, row)
  <2>1. About(B, row.id) = {i}
    BY <1>4, <1>5 DEF About
  <2>2. About(A, row.id) = {}
    BY <1>3, AppendedAbout
  <2> QED
    BY <1>0, <1>1, <2>1, <2>2 DEF OneMore
<1>7. m.ledger[l + i] = B[i]
  BY MigratedLedger
<1> HIDE DEF m, l, B, A
<1> QED
  BY <1>5, <1>6, <1>7, MaterialIsThere
     DEF EventValid, EntryTellsRow, EntryTellsEvidence, MaterialHolds, m

(* A stream that tells its rows goes on to, attested where it has to be. *)
LEMMA ToldReplays ==
    ASSUME NEW image, Shaped(image), NEW k, NEW at, NEW row \in image.events,
           StreamTells(image, row), MaterialAction(image, k, row) # "invalid"
    PROVE  EventValid(Migrated(image, k, at), row)
<1> DEFINE m == Migrated(image, k, at)
           l == Len(image.ledger)
           b == Len(Backfills(image, k))
           B == Backfills(image, k)
           A == AttestationsDue(image, k, at)
<1>0. OneMore(image, k, at, row)
  BY OneEntryMore
<1>1. PICK n \in Creations(image, row.id) :
          /\ Creations(image, row.id) = {n}
          /\ EntryTellsRow(image.ledger[n], row)
          /\ EntryTellsEvidence(image, image.ledger[n], row)
  BY DEF StreamTells
<1>2. /\ l \in Nat /\ b \in Nat /\ DOMAIN image.ledger = 1 .. l
      /\ n \in 1 .. l /\ image.ledger[n].event = row.id
      /\ m.ledger[n] = image.ledger[n]
  <2>1. n \in DOMAIN image.ledger /\ image.ledger[n].event = row.id
    BY DEF Creations, EntriesOf
  <2> QED
    BY <2>1, MigratedLedger
<1>3. Max({n}) = n
  BY <1>2 DEF Max
<1>4. /\ Attestations(image, row.id) = {}
      /\ \/ image.ledger[n].material = EventMaterial(image, row)
         \/ /\ image.ledger[n].material = NoMaterial
            /\ MaterialAction(image, k, row) = "attest"
      /\ image.ledger[n].material = EventMaterial(image, row)
             => MaterialAction(image, k, row) # "attest"
  BY <1>1, <1>3 DEF MaterialAction
<1>5. row \notin Absent(image, k)
  BY <1>2 DEF Absent, StreamIsEmpty
<1>6. /\ Creations(m, row.id) = {n}
      /\ EvidenceOf(m, row.id) = EvidenceOf(image, row.id)
      /\ EventMaterial(m, row) = EventMaterial(image, row)
  BY <1>0, <1>1, <1>5, AppendedAbout DEF OneMore
<1>7. /\ EntryTellsRow(m.ledger[n], row)
      /\ EntryTellsEvidence(m, m.ledger[n], row)
  BY <1>1, <1>2, <1>6 DEF EntryTellsEvidence
<1>8. MaterialHolds(m, n, row)
  <2>1. CASE image.ledger[n].material = EventMaterial(image, row)
    <3>1. Attestations(m, row.id) = {}
      <4>1. About(A, row.id) = {}
        BY <1>4, <2>1, AppendedAbout DEF Due
      <4> QED
        BY <1>0, <1>4, <4>1 DEF OneMore
    <3> HIDE DEF m
    <3> QED
      BY <1>2, <1>6, <2>1, <3>1, MaterialIsThere DEF MaterialHolds
  <2>2. CASE /\ image.ledger[n].material = NoMaterial
             /\ MaterialAction(image, k, row) = "attest"
    <3>1. PICK i \in DOMAIN A :
              /\ A[i] = AttestationEntry(image, row, at)
              /\ \A j \in DOMAIN A : A[j].event = row.id => j = i
      BY <2>2, AttestationFacts DEF Due
    <3>2. A[i].event = row.id /\ A[i].material = EventMaterial(image, row)
      BY <3>1 DEF AttestationEntry, Entry
    <3>3. Attestations(m, row.id) = {l + b + i}
      <4>1. About(A, row.id) = {i}
        BY <3>1, <3>2 DEF About
      <4> QED
        BY <1>0, <1>4, <4>1 DEF OneMore
    <3>4. m.ledger[l + b + i] = A[i] /\ i \in Nat \ {0}
      BY MigratedLedger
    <3>5. n < l + b + i
      BY <1>2, <3>4
    <3> HIDE DEF m, l, b, A
    <3> QED
      BY <1>2, <1>6, <2>2, <3>2, <3>3, <3>4, <3>5 DEF MaterialHolds
  <2> QED
    BY <1>4, <2>1, <2>2
<1> HIDE DEF m
<1> QED
  BY <1>6, <1>7, <1>8 DEF EventValid, m

(* What preflight lets through replays behind the migration, whatever tables
   it was handed: _validate_v02 and plan_legacy_material_checkpoints ask for
   all that replay_event_audit will ask for. *)
THEOREM ReadyEventsReplay ==
    ASSUME NEW image, Shaped(image), NEW k, Ready(image, k), NEW at
    PROVE  EventsValid(Migrated(image, k, at))
<1>1. Migrated(image, k, at).events = image.events
  BY MigratedLedger
<1>2. ASSUME NEW row \in image.events
      PROVE  EventValid(Migrated(image, k, at), row)
  <2>1. /\ StreamIsEmpty(image, row.id) \/ StreamTells(image, row)
        /\ MaterialAction(image, k, row) # "invalid"
    BY DEF Ready
  <2> QED
    BY <2>1, BackfilledReplays, ToldReplays
<1> QED
  BY <1>1, <1>2 DEF EventsValid
-----------------------------------------------------------------------------
(* What writers do to an image. *)

LEMMA MigratedIsSane ==
    ASSUME NEW image, Sane(image), NEW k, NEW at
    PROVE  Sane(Migrated(image, k, at))
<1> DEFINE m == Migrated(image, k, at)
           B == Backfills(image, k)
           A == AttestationsDue(image, k, at)
           l == Len(image.ledger)
           b == Len(Backfills(image, k))
<1>0. Shaped(image)
  BY DEF Sane
<1>1. /\ IsImage(m) /\ m.events = image.events
      /\ m.evidence = image.evidence /\ IsLedger(m.ledger)
      /\ DOMAIN image.ledger = 1 .. l /\ DOMAIN B = 1 .. b
      /\ DOMAIN m.ledger
           = 1 .. l \cup {l + i : i \in 1 .. b} \cup {l + b + j : j \in DOMAIN A}
      /\ \A n \in 1 .. l : m.ledger[n] = image.ledger[n]
      /\ \A i \in 1 .. b : m.ledger[l + i] = B[i]
      /\ \A j \in DOMAIN A : m.ledger[l + b + j] = A[j]
  BY <1>0, MigratedLedger
<1>2. \A i \in DOMAIN B : \E row \in Absent(image, k) : B[i].event = row.id
  BY <1>0, BackfillFacts
<1>3. \A i \in DOMAIN A : \E row \in Due(image, k) : A[i].event = row.id
  BY <1>0, AttestationFacts
<1>4. EventsIn(m) = EventsIn(image)
  BY <1>1 DEF EventsIn
<1> HIDE DEF m, B, A, l, b
<1>5. \A i \in DOMAIN B : B[i].event \in EventsIn(image)
  BY <1>2 DEF EventsIn, Absent
<1>6. \A i \in DOMAIN A : A[i].event \in EventsIn(image)
  BY <1>3 DEF EventsIn, Due
<1>7. EntriesHaveEvents(m)
  <2> SUFFICES ASSUME NEW n \in DOMAIN m.ledger
               PROVE  m.ledger[n].type = "note" \/ m.ledger[n].event \in EventsIn(image)
    BY <1>4 DEF EntriesHaveEvents
  <2>1. CASE n \in 1 .. l
    BY <1>1, <2>1 DEF Sane, EntriesHaveEvents
  <2>2. CASE \E i \in 1 .. b : n = l + i
    BY <1>1, <1>5, <2>2
  <2>3. CASE \E j \in DOMAIN A : n = l + b + j
    BY <1>1, <1>6, <2>3
  <2> QED
    BY <1>1, <2>1, <2>2, <2>3
<1>8. \A ref \in m.evidence : ref.event \in EventsIn(m)
  BY <1>1, <1>4 DEF Sane
<1>9. Shaped(m)
  BY <1>0, <1>1 DEF Shaped
<1> QED
  BY <1>7, <1>8, <1>9 DEF Sane, m

(* A later image has every event of an earlier one, with the evidence and the
   entries it had. *)
SameEntries(image, later, e) ==
    /\ Creations(later, e) = Creations(image, e)
    /\ Attestations(later, e) = Attestations(image, e)
    /\ \A n \in Creations(image, e) \cup Attestations(image, e) :
          later.ledger[n] = image.ledger[n]

Carries(image, later) ==
    /\ image.events \subseteq later.events
    /\ \A e \in EventsIn(image) :
          /\ EvidenceOf(later, e) = EvidenceOf(image, e)
          /\ SameEntries(image, later, e)

LEMMA SameStaysValid ==
    ASSUME NEW image, NEW later, NEW row,
           EvidenceOf(later, row.id) = EvidenceOf(image, row.id),
           SameEntries(image, later, row.id)
    PROVE  EventValid(image, row) <=> EventValid(later, row)
<1>1. EventMaterial(later, row) = EventMaterial(image, row)
  BY DEF EventMaterial
<1>2. ASSUME NEW n \in Creations(image, row.id)
      PROVE  /\ later.ledger[n] = image.ledger[n]
             /\ EntryTellsEvidence(image, image.ledger[n], row)
                  <=> EntryTellsEvidence(later, image.ledger[n], row)
             /\ MaterialHolds(image, n, row) <=> MaterialHolds(later, n, row)
  BY <1>1, <1>2 DEF SameEntries, EntryTellsEvidence, MaterialHolds
<1>3. Creations(later, row.id) = Creations(image, row.id)
  BY DEF SameEntries
<1> QED
  BY <1>2, <1>3 DEF EventValid

(* An entry about another event, or a note, disturbs no event. *)
LEMMA EntryAdded ==
    ASSUME NEW image, Shaped(image), NEW entry, NEW e,
           entry.event # e \/ entry.type = "note"
    PROVE  SameEntries(image, WithEntry(image, entry), e)
<1> DEFINE later == WithEntry(image, entry)
           l == image.ledger
<1>1. later.ledger = Append(l, entry)
  BY DEF WithEntry, Shaped, IsImage
<1>2. /\ DOMAIN later.ledger = DOMAIN l \cup {Len(l) + 1}
      /\ Len(l) + 1 \notin DOMAIN l
      /\ \A n \in DOMAIN l : later.ledger[n] = l[n]
      /\ later.ledger[Len(l) + 1] = entry
  BY <1>1, AppendedLedger DEF Shaped
<1> HIDE DEF later
<1> QED
  BY <1>2 DEF SameEntries, Creations, Attestations, EntriesOf, later

LEMMA WithEntryIsShaped ==
    ASSUME NEW image, Shaped(image), NEW entry
    PROVE  LET later == WithEntry(image, entry)
           IN  /\ Shaped(later) /\ later.events = image.events
               /\ later.evidence = image.evidence
               /\ later.ledger = Append(image.ledger, entry)
<1> DEFINE later == WithEntry(image, entry)
<1>1. /\ IsImage(later) /\ later.events = image.events
      /\ later.evidence = image.evidence
      /\ later.ledger = Append(image.ledger, entry)
  BY DEF WithEntry, Shaped, IsImage
<1>2. IsLedger(later.ledger)
  BY <1>1, AppendedLedger DEF Shaped
<1> HIDE DEF later
<1> QED
  BY <1>1, <1>2 DEF Shaped, later

LEMMA WithEntryIsSane ==
    ASSUME NEW image, Sane(image), NEW entry,
           entry.type = "note" \/ entry.event \in EventsIn(image)
    PROVE  Sane(WithEntry(image, entry))
<1> DEFINE later == WithEntry(image, entry)
           l == image.ledger
<1>1. /\ Shaped(later) /\ later.events = image.events
      /\ later.evidence = image.evidence
      /\ later.ledger = Append(l, entry)
  BY WithEntryIsShaped DEF Sane
<1>2. /\ DOMAIN later.ledger = DOMAIN l \cup {Len(l) + 1}
      /\ \A n \in DOMAIN l : later.ledger[n] = l[n]
      /\ later.ledger[Len(l) + 1] = entry
  BY <1>1, AppendedLedger DEF Sane, Shaped
<1>3. EventsIn(later) = EventsIn(image)
  BY <1>1 DEF EventsIn
<1> HIDE DEF later
<1>4. EntriesHaveEvents(later)
  BY <1>2, <1>3 DEF Sane, EntriesHaveEvents
<1> QED
  BY <1>1, <1>3, <1>4 DEF Sane, later

(* The rows of a new event, with its evidence, before there is an entry. *)
RowsOfNew(image, k) == WithEvidence(WithEvent(image, k), k)

NewRow(k) ==
    [id |-> k.event, core |-> "as_written", body |-> "as_written", created |-> k.at]

LEMMA NewRows ==
    ASSUME NEW image, Sane(image), NEW k, CanInsertEvent(image, k)
    PROVE  LET later == RowsOfNew(image, k)
           IN  /\ Sane(later)
               /\ later.events = image.events \cup {NewRow(k)}
               /\ later.ledger = image.ledger
               /\ EventsIn(later) = EventsIn(image) \cup {k.event}
               /\ \A e \in EventsIn(image) : EvidenceOf(later, e) = EvidenceOf(image, e)
<1> DEFINE later == RowsOfNew(image, k)
           refs == {[id |-> r, event |-> k.event, span |-> "as_written",
                     quote |-> "as_written"] : r \in k.refs}
<1>1. /\ IsImage(later)
      /\ later.events = image.events \cup {NewRow(k)}
      /\ later.evidence = image.evidence \cup refs
      /\ later.ledger = image.ledger
  <2> DEFINE first == WithEvent(image, k)
  <2>1. /\ IsImage(first) /\ first.events = image.events \cup {NewRow(k)}
        /\ first.evidence = image.evidence /\ first.ledger = image.ledger
    <3>1. IsImage(image) /\ first = [image EXCEPT !.events = @ \cup {NewRow(k)}]
      BY DEF WithEvent, NewRow, Sane, Shaped
    <3> HIDE DEF first
    <3> QED
      BY <3>1 DEF IsImage
  <2> HIDE DEF first, refs
  <2>2. later = [first EXCEPT !.evidence = @ \cup refs]
    BY DEF RowsOfNew, WithEvidence, first, refs
  <2> HIDE DEF later
  <2> QED
    BY <2>1, <2>2 DEF IsImage
<1>2. NewRow(k).id = k.event /\ k.event \notin EventsIn(image)
  BY DEF NewRow, CanInsertEvent
<1>3. \A ref \in refs : ref.event = k.event
  OBVIOUS
<1> HIDE DEF later, refs
<1>4. EventsIn(later) = EventsIn(image) \cup {k.event}
  BY <1>1, <1>2 DEF EventsIn
<1>5. Keyed(later.events)
  <2>1. IsFiniteSet(later.events)
    BY <1>1, FS_AddElement DEF Sane, Shaped, Keyed
  <2>2. \A r, q \in later.events : r.id = q.id => r = q
    BY <1>1, <1>2 DEF Sane, Shaped, Keyed, EventsIn
  <2> QED
    BY <2>1, <2>2 DEF Keyed
<1>6. \A ref \in later.evidence : ref.event \in EventsIn(later)
  BY <1>1, <1>3, <1>4 DEF Sane
<1>7. EntriesHaveEvents(later)
  BY <1>1, <1>4 DEF Sane, EntriesHaveEvents
<1>8. \A e \in EventsIn(image) : EvidenceOf(later, e) = EvidenceOf(image, e)
  BY <1>1, <1>2, <1>3 DEF EvidenceOf
<1>9. Sane(later)
  BY <1>1, <1>5, <1>6, <1>7 DEF Sane, Shaped
<1> QED
  BY <1>1, <1>4, <1>8, <1>9 DEF later

(* A created event is there with its evidence and one entry that tells it. *)
LEMMA CreatedEvent ==
    ASSUME NEW image, Sane(image), NEW k, CanInsertEvent(image, k)
    PROVE  LET later == WithCreation(RowsOfNew(image, k), k.event)
           IN  /\ Sane(later) /\ Carries(image, later)
               /\ EventsValid(image) => EventsValid(later)
<1> DEFINE rows == RowsOfNew(image, k)
           row == NewRow(k)
           entry == CreationEntry(rows, k.event, EventMaterial(rows, row))
           later == WithEntry(rows, entry)
           l == image.ledger
<1>1. /\ Sane(rows) /\ rows.events = image.events \cup {row}
      /\ rows.ledger = l
      /\ EventsIn(rows) = EventsIn(image) \cup {k.event}
      /\ \A e \in EventsIn(image) : EvidenceOf(rows, e) = EvidenceOf(image, e)
  BY NewRows
<1>2. row.id = k.event /\ k.event \notin EventsIn(image)
  BY DEF NewRow, CanInsertEvent
<1>3. RowOf(rows, k.event) = row
  BY <1>1, <1>2, TheRow DEF Sane, Shaped
<1>4. WithCreation(rows, k.event) = later
  BY <1>3 DEF WithCreation
<1>5. /\ entry.event = k.event /\ entry.type = "created"
      /\ entry.core = row.core /\ entry.at = row.created
      /\ entry.refs = Cited(EvidenceOf(rows, k.event))
      /\ entry.material = EventMaterial(rows, row)
  BY <1>3 DEF CreationEntry, Entry
<1> HIDE DEF rows, row, entry, later
<1>6. /\ later.events = rows.events /\ later.evidence = rows.evidence
      /\ later.ledger = Append(l, entry) /\ Shaped(rows)
  BY <1>1, WithEntryIsShaped DEF Sane, later
<1>7. Sane(later)
  BY <1>1, <1>5, WithEntryIsSane DEF later
<1>8. /\ DOMAIN later.ledger = DOMAIN l \cup {Len(l) + 1}
      /\ Len(l) + 1 \notin DOMAIN l
      /\ \A n \in DOMAIN l : later.ledger[n] = l[n]
      /\ later.ledger[Len(l) + 1] = entry
  BY <1>6, AppendedLedger DEF Sane, Shaped
<1>9. \A e : EvidenceOf(later, e) = EvidenceOf(rows, e)
  BY <1>6 DEF EvidenceOf
<1>10. ASSUME NEW e \in EventsIn(image)
       PROVE  /\ EvidenceOf(later, e) = EvidenceOf(image, e)
              /\ SameEntries(image, later, e)
  <2>1. EvidenceOf(later, e) = EvidenceOf(image, e)
    BY <1>1, <1>9
  <2>2. e # entry.event
    BY <1>2, <1>5
  <2>3. SameEntries(image, later, e)
    BY <1>8, <2>2 DEF SameEntries, Creations, Attestations, EntriesOf
  <2> QED
    BY <2>1, <2>3
<1>11. Carries(image, later)
  BY <1>1, <1>6, <1>10 DEF Carries
<1>12. EventValid(later, row)
  <2>1. \A n \in DOMAIN l : l[n].type = "note" \/ l[n].event # k.event
    BY <1>2 DEF Sane, EntriesHaveEvents
  <2>2. /\ Creations(later, k.event) = {Len(l) + 1}
        /\ Attestations(later, k.event) = {}
    BY <1>5, <1>8, <2>1 DEF Creations, Attestations, EntriesOf
  <2>3. EventMaterial(later, row) = EventMaterial(rows, row)
    BY <1>9 DEF EventMaterial
  <2> QED
    BY <1>2, <1>5, <1>8, <1>9, <2>2, <2>3, MaterialIsThere
       DEF EventValid, EntryTellsRow, EntryTellsEvidence, MaterialHolds
<1>13. ASSUME EventsValid(image) PROVE EventsValid(later)
  <2> SUFFICES ASSUME NEW r \in later.events PROVE EventValid(later, r)
    BY DEF EventsValid
  <2>1. CASE r \in image.events
    <3>1. EventValid(image, r) /\ r.id \in EventsIn(image)
      BY <1>13, <2>1 DEF EventsValid, EventsIn
    <3> QED
      BY <1>10, <3>1, SameStaysValid
  <2>2. CASE r = row
    BY <1>12, <2>2
  <2> QED
    BY <1>1, <1>6, <2>1, <2>2
<1> QED
  BY <1>4, <1>7, <1>11, <1>13 DEF later, rows

LEMMA NotedEvent ==
    ASSUME NEW image, Sane(image), NEW k
    PROVE  LET later == WithNote(image, k)
           IN  /\ Sane(later) /\ Carries(image, later)
               /\ EventsValid(image) => EventsValid(later)
<1> DEFINE entry == Entry("note", k.event, "none", {}, NoMaterial, k.at)
           later == WithEntry(image, entry)
<1>1. entry.type = "note" /\ WithNote(image, k) = later
  BY DEF Entry, WithNote
<1> HIDE DEF entry
<1>2. /\ Sane(later) /\ later.events = image.events
      /\ later.evidence = image.evidence
  BY <1>1, WithEntryIsSane, WithEntryIsShaped DEF Sane
<1>3. \A e : SameEntries(image, later, e)
  BY <1>1, EntryAdded DEF Sane
<1>4. \A e : EvidenceOf(later, e) = EvidenceOf(image, e)
  BY <1>2 DEF EvidenceOf
<1> HIDE DEF later
<1>5. Carries(image, later)
  BY <1>2, <1>3, <1>4 DEF Carries
<1>6. EventsValid(image) => EventsValid(later)
  BY <1>2, <1>3, <1>4, SameStaysValid DEF EventsValid
<1> QED
  BY <1>1, <1>2, <1>5, <1>6
-----------------------------------------------------------------------------
(* The inductive invariant. *)

(* What the session that holds the lock has written so far. *)
WorkFits(label, k) ==
    /\ label \in {"insert_event", "append_note"} => work = db
    /\ label = "insert_evidence" => CanInsertEvent(db, k) /\ work = WithEvent(db, k)
    /\ label = "append_created" => CanInsertEvent(db, k) /\ work = RowsOfNew(db, k)
    /\ label = "exit" => Sane(work) /\ Carries(db, work) /\ EventsValid(work)

Outside == {"idle", "enter_create", "enter_note"}

Inside == {"insert_event", "insert_evidence", "append_created", "append_note",
           "exit"}

SessionFits(s) ==
    \/ pc[s] \in Outside /\ depth[s] = 0 /\ lock # s
    \/ pc[s] = "broken" /\ depth[s] = 0 /\ lock = s
    \/ pc[s] \in Inside /\ depth[s] = 1 /\ lock = s /\ WorkFits(pc[s], call[s])

SessionsFit ==
    /\ pc = [s \in Sessions |-> pc[s]]
    /\ depth = [s \in Sessions |-> depth[s]]
    /\ call = [s \in Sessions |-> call[s]]
    /\ \A s \in Sessions : SessionFits(s)

(* The reader's events are in the repository it goes on to read, and so are
   the entries about them that it has. *)
ReaderFits ==
    /\ IsImage(reading)
    /\ reader \in Tables \cup {"idle", "audit"}
    /\ reader \in {"ledger", "evidence"} => reading.events \subseteq db.events
    /\ reader = "evidence" =>
          \A row \in reading.events : SameEntries(db, reading, row.id)
    /\ reader = "audit" => EventsValid(reading)

EventInv ==
    /\ Sane(db)
    /\ Older => reader = "idle" /\ \A s \in Sessions : pc[s] = "idle"
    /\ ~Older => EventsValid(db)
    /\ SessionsFit
    /\ ReaderFits

LEMMA EmptyIsSane == Sane(EmptyImage)
<1>1. Keyed({})
  BY FS_EmptySet DEF Keyed
<1>2. IsLedger(<<>>)
  <2>1. <<>> \in Seq({})
    OBVIOUS
  <2> QED
    BY <2>1, SequencesAreLedgers
<1>3. /\ IsImage(EmptyImage) /\ EmptyImage.events = {}
      /\ EmptyImage.evidence = {} /\ EmptyImage.ledger = <<>>
  BY DEF IsImage, EmptyImage
<1>4. DOMAIN <<>> = {}
  OBVIOUS
<1> QED
  BY <1>1, <1>2, <1>3, <1>4 DEF Sane, Shaped, EntriesHaveEvents

LEMMA EventInitially == LegacyInit => EventInv
<1> SUFFICES ASSUME LegacyInit PROVE EventInv
  OBVIOUS
<1>1. Sane(db) /\ db.events = {} /\ IsImage(reading)
  BY EmptyIsSane DEF LegacyInit, StartIn, EmptyImage, IsImage
<1>2. SessionsFit
  BY SessionsAssumption
     DEF LegacyInit, StartIn, SessionsFit, SessionFits, Outside
<1>3. ReaderFits
  BY <1>1 DEF LegacyInit, ReaderFits
<1> QED
  BY <1>1, <1>2, <1>3 DEF LegacyInit, StartIn, EventInv, EventsValid
-----------------------------------------------------------------------------
(* Sessions. *)

LEMMA OtherSessionFits ==
    ASSUME NEW t, SessionFits(t),
           pc'[t] = pc[t], depth'[t] = depth[t], call'[t] = call[t],
           \/ UNCHANGED <<db, work, lock>>
           \/ lock # t /\ lock' # t
    PROVE  SessionFits(t)'
<1>1. CASE UNCHANGED <<db, work, lock>>
  BY <1>1 DEF SessionFits, WorkFits
<1>2. CASE lock # t /\ lock' # t
  BY <1>2 DEF SessionFits
<1> QED
  BY <1>1, <1>2

(* A step of one session, of which only that session need be looked at. *)
LEMMA SessionsGoOn ==
    ASSUME SessionsFit, NEW s \in Sessions, SessionFits(s)',
           NEW label, pc' = [pc EXCEPT ![s] = label],
           \/ UNCHANGED depth
           \/ \E d : depth' = [depth EXCEPT ![s] = d],
           \/ UNCHANGED call
           \/ \E k : call' = [call EXCEPT ![s] = k],
           \/ UNCHANGED <<db, work, lock>>
           \/ lock \in {s, NoSession} /\ lock' \in {s, NoSession}
    PROVE  SessionsFit'
<1>1. \A t \in Sessions : t # s =>
          pc'[t] = pc[t] /\ depth'[t] = depth[t] /\ call'[t] = call[t]
  BY DEF SessionsFit
<1>2. \A t \in Sessions : SessionFits(t)'
  <2> SUFFICES ASSUME NEW t \in Sessions, t # s PROVE SessionFits(t)'
    OBVIOUS
  <2>1. t # NoSession
    BY SessionsAssumption
  <2> QED
    BY <1>1, <2>1, OtherSessionFits DEF SessionsFit
<1>3. /\ pc' = [t \in Sessions |-> pc'[t]]
      /\ depth' = [t \in Sessions |-> depth'[t]]
      /\ call' = [t \in Sessions |-> call'[t]]
  BY DEF SessionsFit
<1> QED
  BY <1>2, <1>3 DEF SessionsFit

(* What a session's step leaves of the repository. *)
Grown == Sane(db') /\ EventsValid(db') /\ Carries(db, db')

LEMMA CallSteps ==
    ASSUME SessionsFit, NEW s \in Sessions, Calls(s)
    PROVE  SessionsFit' /\ UNCHANGED db
<1>1. PICK label \in {"enter_create", "enter_note"} :
          \E k : /\ pc[s] = "idle" /\ pc' = [pc EXCEPT ![s] = label]
                 /\ call' = [call EXCEPT ![s] = k]
                 /\ UNCHANGED <<db, work, lock, depth>>
  BY DEF Calls, CallCreate, CallNote, Begin, Goto
<1>2. SessionFits(s) /\ pc'[s] = label
  BY <1>1 DEF SessionsFit
<1>3. SessionFits(s)'
  BY <1>1, <1>2 DEF SessionFits, Outside, Inside
<1> QED
  BY <1>1, <1>3, SessionsGoOn

LEMMA EnterStep ==
    ASSUME SessionsFit, NEW s \in Sessions, Enter(s)
    PROVE  SessionsFit' /\ UNCHANGED db
<1>1. PICK label \in {"insert_event", "append_note"} :
          pc' = [pc EXCEPT ![s] = label]
  BY DEF Enter, Goto
<1>2. /\ pc[s] \in {"enter_create", "enter_note"}
      /\ depth[s] = 0 /\ lock # s /\ SessionFits(s)
      /\ pc'[s] = label
  BY <1>1 DEF SessionsFit, SessionFits, Inside, Enter
<1>3. /\ depth' = [depth EXCEPT ![s] = 1]
      /\ lock = NoSession /\ lock' = s /\ work' = db
      /\ UNCHANGED <<db, call>>
  BY <1>2 DEF Enter, EnterTransaction
<1>4. depth'[s] = 1
  BY <1>3 DEF SessionsFit
<1>5. SessionFits(s)'
  BY <1>1, <1>2, <1>3, <1>4 DEF SessionFits, WorkFits, Inside
<1> QED
  BY <1>1, <1>3, <1>5, SessionsGoOn

LEMMA InsideFacts ==
    ASSUME SessionsFit, NEW s \in Sessions, pc[s] \in Inside
    PROVE  depth[s] = 1 /\ lock = s /\ WorkFits(pc[s], call[s])
  BY DEF SessionsFit, SessionFits, Outside, Inside

LEMMA StatementStep ==
    ASSUME SessionsFit, NEW s \in Sessions, NEW from \in Inside, NEW to \in Inside,
           NEW guard, NEW result, Statement(s, from, to, guard, result),
           WorkFits(to, call[s])'
    PROVE  SessionsFit' /\ UNCHANGED db
<1>1. /\ pc[s] \in Inside /\ pc' = [pc EXCEPT ![s] = to]
      /\ UNCHANGED <<db, lock, depth, call>>
  BY DEF Statement, Goto
<1>2. depth[s] = 1 /\ lock = s /\ pc'[s] = to
  BY <1>1, InsideFacts DEF SessionsFit
<1>3. SessionFits(s)'
  BY <1>1, <1>2 DEF SessionFits
<1> QED
  BY <1>1, <1>2, <1>3, SessionsGoOn

LEMMA Statements ==
    ASSUME SessionsFit, Sane(db), EventsValid(db), NEW s \in Sessions,
           \/ InsertEvent(s) \/ InsertEvidence(s)
           \/ AppendCreated(s) \/ AppendNote(s)
    PROVE  SessionsFit' /\ UNCHANGED db
<1>1. CASE InsertEvent(s)
  <2>1. /\ Statement(s, "insert_event", "insert_evidence",
                     CanInsertEvent(work, call[s]), WithEvent(work, call[s]))
        /\ pc[s] = "insert_event" /\ CanInsertEvent(work, call[s])
        /\ work' = WithEvent(work, call[s]) /\ UNCHANGED <<db, call>>
    BY <1>1 DEF InsertEvent, Statement
  <2>2. work = db
    BY <2>1, InsideFacts DEF Inside, WorkFits
  <2>3. WorkFits("insert_evidence", call[s])'
    BY <2>1, <2>2 DEF WorkFits
  <2> QED
    BY <2>1, <2>3, StatementStep DEF Inside
<1>2. CASE InsertEvidence(s)
  <2>1. /\ Statement(s, "insert_evidence", "append_created",
                     CanCite(work, call[s]), WithEvidence(work, call[s]))
        /\ pc[s] = "insert_evidence"
        /\ work' = WithEvidence(work, call[s]) /\ UNCHANGED <<db, call>>
    BY <1>2 DEF InsertEvidence, Statement
  <2>2. CanInsertEvent(db, call[s]) /\ work = WithEvent(db, call[s])
    BY <2>1, InsideFacts DEF Inside, WorkFits
  <2>3. WorkFits("append_created", call[s])'
    BY <2>1, <2>2 DEF WorkFits, RowsOfNew
  <2> QED
    BY <2>1, <2>3, StatementStep DEF Inside
<1>3. CASE AppendCreated(s)
  <2>1. /\ Statement(s, "append_created", "exit", HasRoom(work),
                     WithCreation(work, call[s].event))
        /\ pc[s] = "append_created"
        /\ work' = WithCreation(work, call[s].event) /\ UNCHANGED <<db, call>>
    BY <1>3 DEF AppendCreated, Statement
  <2>2. CanInsertEvent(db, call[s]) /\ work = RowsOfNew(db, call[s])
    BY <2>1, InsideFacts DEF Inside, WorkFits
  <2>3. Sane(work') /\ Carries(db, work') /\ EventsValid(work')
    BY <2>1, <2>2, CreatedEvent
  <2>4. WorkFits("exit", call[s])'
    BY <2>1, <2>3 DEF WorkFits
  <2> QED
    BY <2>1, <2>4, StatementStep DEF Inside
<1>4. CASE AppendNote(s)
  <2>1. /\ Statement(s, "append_note", "exit", HasRoom(work),
                     WithNote(work, call[s]))
        /\ pc[s] = "append_note"
        /\ work' = WithNote(work, call[s]) /\ UNCHANGED <<db, call>>
    BY <1>4 DEF AppendNote, Statement
  <2>2. work = db
    BY <2>1, InsideFacts DEF Inside, WorkFits
  <2>3. Sane(work') /\ Carries(db, work') /\ EventsValid(work')
    BY <2>1, <2>2, NotedEvent
  <2>4. WorkFits("exit", call[s])'
    BY <2>1, <2>3 DEF WorkFits
  <2> QED
    BY <2>1, <2>4, StatementStep DEF Inside
<1> QED
  BY <1>1, <1>2, <1>3, <1>4

LEMMA RollbackStep ==
    ASSUME SessionsFit, NEW s \in Sessions, Rollback(s)
    PROVE  SessionsFit' /\ UNCHANGED db
<1>1. /\ pc' = [pc EXCEPT ![s] = "idle"]
      /\ depth' = [depth EXCEPT ![s] = 0]
      /\ call' = [call EXCEPT ![s] = NoCall]
      /\ UNCHANGED db
      /\ \/ lock = s /\ lock' = NoSession
         \/ lock # s /\ UNCHANGED <<work, lock>>
  BY DEF Rollback, Goto
<1>2. pc'[s] = "idle" /\ depth'[s] = 0
  BY <1>1 DEF SessionsFit
<1>3. lock' # s
  BY <1>1, SessionsAssumption
<1>4. SessionFits(s)'
  BY <1>2, <1>3 DEF SessionFits, Outside
<1> QED
  BY <1>1, <1>4, SessionsGoOn

LEMMA ExitStep ==
    ASSUME SessionsFit, NEW s \in Sessions, Exit(s)
    PROVE  SessionsFit' /\ Grown
<1>1. pc[s] = "exit" /\ depth[s] = 1 /\ lock = s /\ WorkFits(pc[s], call[s])
  BY InsideFacts DEF Exit, Inside
<1>2. /\ pc' = [pc EXCEPT ![s] = "idle"]
      /\ depth' = [depth EXCEPT ![s] = 0]
      /\ db' = work /\ lock' = NoSession
      /\ call' = [call EXCEPT ![s] = NoCall]
  <2>1. depth' = [depth EXCEPT ![s] = depth[s] - 1] /\ depth[s] - 1 = 0
    BY <1>1 DEF Exit, ExitTransaction
  <2> QED
    BY <1>1, <2>1 DEF Exit, ExitTransaction, Goto
<1>3. pc'[s] = "idle" /\ depth'[s] = 0 /\ lock' # s
  BY <1>2, SessionsAssumption DEF SessionsFit
<1>4. SessionFits(s)'
  BY <1>3 DEF SessionFits, Outside
<1>5. Sane(work) /\ Carries(db, work) /\ EventsValid(work)
  BY <1>1 DEF WorkFits
<1> QED
  BY <1>1, <1>2, <1>4, <1>5, SessionsGoOn DEF Grown

LEMMA CommitBusyStep ==
    ASSUME SessionsFit, NEW s \in Sessions, CommitBusy(s)
    PROVE  SessionsFit' /\ UNCHANGED db
<1>1. pc[s] = "exit" /\ lock = s
  BY InsideFacts DEF CommitBusy, Inside
<1>2. /\ pc' = [pc EXCEPT ![s] = "broken"]
      /\ depth' = [depth EXCEPT ![s] = 0]
      /\ call' = [call EXCEPT ![s] = NoCall]
      /\ UNCHANGED <<db, work, lock>>
  BY DEF CommitBusy, CommitFails, Goto
<1>3. pc'[s] = "broken" /\ depth'[s] = 0 /\ lock' = s
  BY <1>1, <1>2 DEF SessionsFit
<1>4. SessionFits(s)'
  BY <1>3 DEF SessionFits
<1> QED
  BY <1>2, <1>4, SessionsGoOn

LEMMA SessionStep ==
    ASSUME SessionsFit, Sane(db), EventsValid(db), NEW s \in Sessions, Session(s)
    PROVE  SessionsFit' /\ (UNCHANGED db \/ Grown)
<1>1. CASE Calls(s)
  BY <1>1, CallSteps
<1>2. CASE Enter(s)
  BY <1>2, EnterStep
<1>3. CASE \/ InsertEvent(s) \/ InsertEvidence(s)
           \/ AppendCreated(s) \/ AppendNote(s)
  BY <1>3, Statements
<1>4. CASE Refuse(s) \/ BusyTimeout(s) \/ Interrupt(s) \/ Close(s)
  BY <1>4, RollbackStep DEF Refuse, BusyTimeout, GiveUpWaiting, Interrupt, Close
<1>5. CASE Exit(s)
  BY <1>5, ExitStep
<1>6. CASE CommitBusy(s)
  BY <1>6, CommitBusyStep
<1> QED
  BY <1>1, <1>2, <1>3, <1>4, <1>5, <1>6 DEF Session, Progress
-----------------------------------------------------------------------------
(* The reader. *)

LEMMA ReaderGoesOn ==
    ASSUME ReaderFits, EventsValid(db), UNCHANGED readerVars, UNCHANGED db \/ Grown
    PROVE  ReaderFits'
<1>1. CASE UNCHANGED db
  BY <1>1 DEF ReaderFits, readerVars
<1>2. CASE Grown
  <2>1. db.events \subseteq db'.events
    BY <1>2 DEF Grown, Carries
  <2>2. ASSUME reader = "evidence", NEW row \in reading.events
        PROVE  SameEntries(db', reading, row.id)
    <3>1. SameEntries(db, reading, row.id) /\ row.id \in EventsIn(db)
      BY <2>2 DEF ReaderFits, EventsIn
    <3>2. SameEntries(db, db', row.id)
      BY <1>2, <3>1 DEF Grown, Carries
    <3> QED
      BY <3>1, <3>2 DEF SameEntries
  <2> QED
    BY <2>1, <2>2 DEF ReaderFits, readerVars
<1> QED
  BY <1>1, <1>2

LEMMA ReaderSteps ==
    ASSUME ReaderFits, Sane(db), EventsValid(db), Reader
    PROVE  ReaderFits' /\ UNCHANGED vars
<1>0. UNCHANGED vars /\ UNCHANGED db
  BY DEF Reader, StartReading, Query, StopReading, vars
<1>1. CASE StartReading
  <2>1. reader' = "events" /\ UNCHANGED reading
    BY <1>1 DEF StartReading, After
  <2> QED
    BY <1>0, <2>1 DEF ReaderFits, Tables
<1>2. CASE StopReading
  <2>1. reader' = "idle" /\ IsImage(reading')
    BY <1>2 DEF StopReading, EmptyImage, IsImage
  <2> QED
    BY <1>0, <2>1 DEF ReaderFits
<1>3. CASE Query /\ reader = "events"
  <2>1. /\ reader' = "ledger"
        /\ reading' = [reading EXCEPT !.events = db.events]
    BY <1>3 DEF Query, After
  <2>2. IsImage(reading') /\ reading'.events = db.events
    BY <2>1 DEF ReaderFits, IsImage
  <2> QED
    BY <1>0, <2>1, <2>2 DEF ReaderFits, Tables
<1>4. CASE Query /\ reader = "ledger"
  <2>1. /\ reader' = "evidence"
        /\ reading' = [reading EXCEPT !.ledger = db.ledger]
    BY <1>4 DEF Query, After
  <2>2. /\ IsImage(reading') /\ reading'.events = reading.events
        /\ reading'.ledger = db.ledger
    BY <2>1 DEF ReaderFits, IsImage
  <2>3. \A e : SameEntries(db, reading', e)
    BY <2>2 DEF SameEntries, Creations, Attestations, EntriesOf
  <2>4. reading.events \subseteq db.events
    BY <1>4 DEF ReaderFits
  <2> QED
    BY <1>0, <2>1, <2>2, <2>3, <2>4 DEF ReaderFits, Tables
<1>5. CASE Query /\ reader = "evidence"
  <2>1. /\ reader' = "audit"
        /\ reading' = [reading EXCEPT !.evidence = db.evidence]
    BY <1>5 DEF Query, After
  <2>2. /\ IsImage(reading') /\ reading'.events = reading.events
        /\ reading'.ledger = reading.ledger
        /\ reading'.evidence = db.evidence
    BY <2>1 DEF ReaderFits, IsImage
  <2>3. ASSUME NEW row \in reading.events PROVE EventValid(reading', row)
    <3>1. SameEntries(db, reading', row.id)
      <4>1. SameEntries(db, reading, row.id)
        BY <1>5 DEF ReaderFits
      <4> QED
        BY <2>2, <4>1 DEF SameEntries, Creations, Attestations, EntriesOf
    <3>2. EvidenceOf(reading', row.id) = EvidenceOf(db, row.id)
      BY <2>2 DEF EvidenceOf
    <3>3. EventValid(db, row)
      BY <1>5 DEF ReaderFits, EventsValid
    <3> QED
      BY <3>1, <3>2, <3>3, SameStaysValid
  <2>4. EventsValid(reading')
    BY <2>2, <2>3 DEF EventsValid
  <2> QED
    BY <1>0, <2>1, <2>2, <2>4 DEF ReaderFits
<1> QED
  BY <1>0, <1>1, <1>2, <1>3, <1>4, <1>5 DEF Reader, Query, Tables
-----------------------------------------------------------------------------
(* The older releases and the migration. *)

LEMMA OlderSteps ==
    ASSUME Sane(db), OlderRelease
    PROVE  /\ Sane(db') /\ work' = db'
           /\ UNCHANGED <<lock, depth, pc, call, readerVars, kind>>
<1>1. PICK k : OlderCreate(k) \/ OlderNote(k)
  BY DEF OlderRelease
<1>2. CASE OlderNote(k)
  <2>1. Sane(WithNote(db, k))
    BY NotedEvent
  <2> QED
    BY <1>2, <2>1 DEF OlderNote, OlderCommit
<1>3. CASE OlderCreate(k)
  <2> DEFINE rows == RowsOfNew(db, k)
             entry == CreationEntry(rows, k.event, NoMaterial)
  <2>1. /\ CanInsertEvent(db, k)
        /\ \/ OlderCommit(rows)
           \/ OlderCommit(WithCreation(rows, k.event))
           \/ OlderCommit(WithEntry(rows, entry))
    BY <1>3 DEF OlderCreate, RowsOfNew
  <2>2. Sane(rows) /\ EventsIn(rows) = EventsIn(db) \cup {k.event}
    BY <2>1, NewRows
  <2>3. entry.event = k.event
    BY DEF CreationEntry, Entry
  <2>4. Sane(WithCreation(rows, k.event))
    BY <2>1, CreatedEvent
  <2> HIDE DEF rows, entry
  <2>5. Sane(WithEntry(rows, entry))
    BY <2>2, <2>3, WithEntryIsSane
  <2> QED
    BY <2>1, <2>2, <2>4, <2>5 DEF OlderCommit
<1> QED
  BY <1>1, <1>2, <1>3

LEMMA EventStep == EventInv /\ [LegacyNext]_allVars => EventInv'
<1> SUFFICES ASSUME EventInv, [LegacyNext]_allVars PROVE EventInv'
  OBVIOUS
<1> USE DEF EventInv
<1>1. CASE Older /\ OlderRelease
  <2>1. /\ Sane(db') /\ UNCHANGED <<lock, depth, pc, call, readerVars, kind>>
    BY <1>1, OlderSteps
  <2>2. SessionsFit'
    BY <1>1, <2>1 DEF SessionsFit, SessionFits, Inside, Outside
  <2>3. ReaderFits'
    BY <1>1, <2>1 DEF ReaderFits, readerVars
  <2> QED
    BY <1>1, <2>1, <2>2, <2>3 DEF Older, readerVars
<1>2. CASE Migrate
  <2>1. PICK at : db' = Migrated(db, kind, at)
    BY <1>2 DEF Migrate
  <2>2. /\ Older /\ Ready(db, kind) /\ kind' = "V03"
        /\ UNCHANGED <<lock, depth, pc, call, readerVars>>
    BY <1>2 DEF Migrate
  <2>3. Sane(db')
    BY <2>1, MigratedIsSane
  <2>4. EventsValid(db')
    BY <2>1, <2>2, ReadyEventsReplay DEF Sane
  <2>5. SessionsFit'
    BY <2>2 DEF SessionsFit, SessionFits, Inside, Outside
  <2>6. ReaderFits'
    BY <2>2 DEF ReaderFits, readerVars
  <2> QED
    BY <2>2, <2>3, <2>4, <2>5, <2>6 DEF Older
<1>3. ASSUME ~Older, NEW s \in Sessions, Session(s), UNCHANGED readerVars,
             UNCHANGED kind
      PROVE  EventInv'
  <2>1. SessionsFit' /\ (UNCHANGED db \/ Grown)
    BY <1>3, SessionStep
  <2>2. ReaderFits'
    BY <1>3, <2>1, ReaderGoesOn
  <2> QED
    BY <1>3, <2>1, <2>2 DEF Grown, Older
<1>4. CASE ~Older /\ Reader /\ UNCHANGED kind
  <2>1. ReaderFits' /\ UNCHANGED vars
    BY <1>4, ReaderSteps
  <2>2. SessionsFit'
    BY <2>1 DEF vars, SessionsFit, SessionFits, WorkFits
  <2> QED
    BY <1>4, <2>1, <2>2 DEF vars, Older
<1>5. CASE UNCHANGED allVars
  BY <1>5 DEF allVars, vars, readerVars, Older, SessionsFit, SessionFits, WorkFits,
              ReaderFits
<1> QED
  BY <1>1, <1>2, <1>3, <1>4, <1>5 DEF LegacyNext

LEMMA EventInvariance == LegacySpec => []EventInv
<1>1. LegacyInit => EventInv
  BY EventInitially
<1>2. EventInv /\ [LegacyNext]_allVars => EventInv'
  BY EventStep
<1> QED
  BY <1>1, <1>2, PTL DEF LegacySpec

(* A reader that lists the events before it reads ledger and evidence blames
   none of them, whatever sessions commit between its queries. *)
THEOREM EventReadersBlameNobody == LegacySpec => []ReaderBlamesNoEvent
<1>1. EventInv => ReaderBlamesNoEvent
  BY DEF EventInv, ReaderFits, ReaderBlamesNoEvent
<1> QED
  BY <1>1, EventInvariance, PTL
-----------------------------------------------------------------------------
(* Edited repositories. *)

LEMMA EditedEventsAreShaped ==
    ASSUME NEW image, Sane(image), NEW edited \in EditedEvents(image),
           EventsIn(edited) = EventsIn(image)
    PROVE  Shaped(edited) /\ edited.ledger = image.ledger
                /\ edited.evidence = image.evidence
<1>1. PICK old \in image.events, new \in EventRow :
          edited = [image EXCEPT !.events = (@ \ {old}) \cup {new}]
  BY DEF EditedEvents
<1>2. IsImage(image)
  BY DEF Sane, Shaped
<1>3. /\ IsImage(edited) /\ edited.events = (image.events \ {old}) \cup {new}
      /\ edited.evidence = image.evidence /\ edited.ledger = image.ledger
  BY <1>1, <1>2 DEF IsImage
<1>4. IsFiniteSet(image.events) /\ \A r, q \in image.events : r.id = q.id => r = q
  BY DEF Sane, Shaped, Keyed
<1>5. new.id = old.id
  <2>1. old.id \in EventsIn(edited)
    BY DEF EventsIn
  <2>2. PICK r \in edited.events : r.id = old.id
    BY <2>1 DEF EventsIn
  <2> QED
    BY <1>3, <1>4, <2>2
<1>6. IsFiniteSet(edited.events)
  <2>1. IsFiniteSet(image.events \ {old})
    BY <1>4, FS_RemoveElement
  <2> QED
    BY <1>3, <2>1, FS_AddElement
<1>7. \A r, q \in edited.events : r.id = q.id => r = q
  BY <1>3, <1>4, <1>5
<1> QED
  BY <1>3, <1>6, <1>7 DEF Shaped, Keyed, Sane

LEMMA EditedEvidenceIsShaped ==
    ASSUME NEW image, Sane(image), NEW edited \in EditedEvidence(image)
    PROVE  /\ Shaped(edited) /\ edited.ledger = image.ledger
           /\ edited.events = image.events
           /\ \A ref \in edited.evidence : ref.event \in EventsIn(image)
<1>1. IsImage(image) /\ \A ref \in image.evidence : ref.event \in EventsIn(image)
  BY DEF Sane, Shaped
<1>2. \A new \in EvidenceRows(image) : new.event \in EventsIn(image)
  BY DEF EvidenceRows
<1>3. PICK rows : /\ edited = [image EXCEPT !.evidence = rows]
                  /\ \A ref \in rows : ref.event \in EventsIn(image)
  BY <1>1, <1>2 DEF EditedEvidence
<1>4. /\ IsImage(edited) /\ edited.events = image.events
      /\ edited.evidence = rows /\ edited.ledger = image.ledger
  BY <1>1, <1>3 DEF IsImage
<1> QED
  BY <1>3, <1>4 DEF Shaped, Sane

(* The digests bind the row of an event and all its evidence. *)
LEMMA DigestsBind ==
    ASSUME NEW image, NEW edited, edited.ledger = image.ledger,
           NEW row, EventValid(image, row),
           NEW other, EventValid(edited, other), other.id = row.id
    PROVE  other = row /\ EvidenceOf(edited, row.id) = EvidenceOf(image, row.id)
<1>1. /\ Creations(edited, row.id) = Creations(image, row.id)
      /\ Attestations(edited, row.id) = Attestations(image, row.id)
  BY DEF Creations, Attestations, EntriesOf
<1>2. PICK n \in Creations(image, row.id) :
          Creations(image, row.id) = {n} /\ MaterialHolds(image, n, row)
  BY DEF EventValid
<1>3. MaterialHolds(edited, n, other)
  BY <1>1, <1>2 DEF EventValid
<1>4. EventMaterial(image, row) = EventMaterial(edited, other)
  BY <1>1, <1>2, <1>3 DEF MaterialHolds
<1> QED
  BY <1>4 DEF EventMaterial

LEMMA EditsAreNoticed ==
    ASSUME NEW image, Sane(image), EventsValid(image), NEW edited \in Edits(image)
    PROVE  ~EventsValid(edited)
<1> SUFFICES ASSUME EventsValid(edited) PROVE FALSE
  OBVIOUS
<1>1. /\ edited \in EditedEvents(image) \/ edited \in EditedEvidence(image)
      /\ edited # image /\ EventsIn(edited) = EventsIn(image)
  BY DEF Edits
<1>2. /\ Shaped(edited) /\ edited.ledger = image.ledger
      /\ \A ref \in edited.evidence : ref.event \in EventsIn(image)
  BY <1>1, EditedEventsAreShaped, EditedEvidenceIsShaped DEF Sane
<1>3. ASSUME NEW row \in image.events, NEW other \in edited.events,
             other.id = row.id
      PROVE  other = row /\ EvidenceOf(edited, row.id) = EvidenceOf(image, row.id)
  <2>1. EventValid(image, row) /\ EventValid(edited, other)
    BY DEF EventsValid
  <2> QED
    BY <1>2, <1>3, <2>1, DigestsBind
<1>4. edited.events = image.events
  <2>1. \A row \in image.events : row \in edited.events
    <3> TAKE row \in image.events
    <3>1. row.id \in EventsIn(edited)
      BY <1>1 DEF EventsIn
    <3>2. PICK other \in edited.events : other.id = row.id
      BY <3>1 DEF EventsIn
    <3> QED
      BY <1>3, <3>2
  <2>2. \A other \in edited.events : other \in image.events
    <3> TAKE other \in edited.events
    <3>1. other.id \in EventsIn(image)
      BY <1>1 DEF EventsIn
    <3>2. PICK row \in image.events : row.id = other.id
      BY <3>1 DEF EventsIn
    <3> QED
      BY <1>3, <3>2
  <2> QED
    BY <2>1, <2>2
<1>5. \A e \in EventsIn(image) : EvidenceOf(edited, e) = EvidenceOf(image, e)
  BY <1>3, <1>4 DEF EventsIn
<1>6. edited.evidence = image.evidence
  <2>1. \A ref \in image.evidence : ref.event \in EventsIn(image)
    BY DEF Sane
  <2>2. ASSUME NEW e \in EventsIn(image), NEW ref, ref.event = e
        PROVE  ref \in edited.evidence <=> ref \in image.evidence
    <3>1. ref \in EvidenceOf(edited, e) <=> ref \in EvidenceOf(image, e)
      BY <1>5
    <3> QED
      BY <2>2, <3>1 DEF EvidenceOf
  <2>3. \A ref \in edited.evidence : ref \in image.evidence
    BY <1>2, <2>2
  <2>4. \A ref \in image.evidence : ref \in edited.evidence
    BY <2>1, <2>2
  <2> QED
    BY <2>3, <2>4
<1> QED
  BY <1>1, <1>2, <1>4, <1>6 DEF Sane, Shaped, IsImage

(* In a current repository at rest no edited row of an event or of its
   evidence goes unnoticed, also when a migration attested the event. *)
THEOREM EventEditsAreNoticed == LegacySpec => []EventEditIsNoticed
<1>1. EventInv => EventEditIsNoticed
  BY EditsAreNoticed DEF EventInv, EventEditIsNoticed
<1> QED
  BY <1>1, EventInvariance, PTL
-----------------------------------------------------------------------------
(* Whatever is handed to preflight. *)

LEMMA OtherLedgerIsShaped ==
    ASSUME NEW image, Shaped(image), NEW l, IsLedger(l)
    PROVE  Shaped([image EXCEPT !.ledger = l])
<1> DEFINE other == [image EXCEPT !.ledger = l]
<1>1. IsImage(other) /\ other.events = image.events /\ other.ledger = l
  BY DEF Shaped, IsImage
<1> HIDE DEF other
<1>2. Shaped(other)
  BY <1>1 DEF Shaped
<1> QED
  BY <1>2 DEF other

LEMMA ShortenedLedger ==
    ASSUME NEW l, IsLedger(l), NEW n \in DOMAIN l
    PROVE  IsLedger(RemoveAt(l, n))
<1>1. PICK S : l \in Seq(S)
  BY LedgerFacts
<1>2. n \in 1 .. Len(l) /\ Len(l) \in Nat
  BY LedgerFacts
<1>3. SubSeq(l, 1, n - 1) \in Seq(S)
  BY <1>1, <1>2, SubSeqProperties
<1>4. SubSeq(l, n + 1, Len(l)) \in Seq(S)
  BY <1>1, <1>2, SubSeqProperties
<1>5. SubSeq(l, 1, n - 1) \o SubSeq(l, n + 1, Len(l)) \in Seq(S)
  BY <1>3, <1>4
<1> QED
  BY <1>5, SequencesAreLedgers DEF RemoveAt

LEMMA ChangedLedger ==
    ASSUME NEW l, IsLedger(l), NEW n, NEW entry
    PROVE  IsLedger([l EXCEPT ![n] = entry])
  BY DEF IsLedger

LEMMA DeparturesAreShaped ==
    ASSUME NEW image, Sane(image), NEW other \in Departures(image) \cup {image}
    PROVE  Shaped(other)
<1>0. Shaped(image) /\ IsLedger(image.ledger)
  BY DEF Sane, Shaped
<1>1. CASE other = image
  BY <1>0, <1>1
<1>2. CASE other \in Edits(image)
  BY <1>2, EditedEventsAreShaped, EditedEvidenceIsShaped DEF Edits
<1>3. CASE \E n \in DOMAIN image.ledger :
              other = [image EXCEPT !.ledger = RemoveAt(@, n)]
  BY <1>0, <1>3, ShortenedLedger, OtherLedgerIsShaped
<1>4. CASE \E n \in DOMAIN image.ledger :
              other = [image EXCEPT !.ledger = Append(@, @[n])]
  <2>1. PICK n : other = [image EXCEPT !.ledger = Append(@, @[n])]
    BY <1>4
  <2> DEFINE l == Append(image.ledger, image.ledger[n])
  <2>2. IsLedger(l)
    BY <1>0, AppendedLedger
  <2>3. other = [image EXCEPT !.ledger = l]
    BY <2>1
  <2> HIDE DEF l
  <2> QED
    BY <1>0, <2>2, <2>3, OtherLedgerIsShaped
<1>5. CASE \E n \in DOMAIN image.ledger : \E entry :
              other = [image EXCEPT !.ledger = [@ EXCEPT ![n] = entry]]
  BY <1>0, <1>5, ChangedLedger, OtherLedgerIsShaped
<1>6. CASE \E entry : other = WithEntry(image, entry)
  BY <1>0, <1>6, WithEntryIsShaped
<1>7. \/ other = image
      \/ other \in Edits(image)
      \/ \E n \in DOMAIN image.ledger :
             other = [image EXCEPT !.ledger = RemoveAt(@, n)]
      \/ \E n \in DOMAIN image.ledger :
             other = [image EXCEPT !.ledger = Append(@, @[n])]
      \/ \E n \in DOMAIN image.ledger, at \in Times :
             other = [image EXCEPT !.ledger[n].at = at]
      \/ \E n \in DOMAIN image.ledger, row \in image.events :
             other = [image EXCEPT !.ledger[n].material = EventMaterial(image, row)]
      \/ \E n \in DOMAIN image.ledger :
             other = [image EXCEPT !.ledger[n].material = NoMaterial]
      \/ \E row \in image.events, at \in Times :
             other = WithEntry(image, AttestationEntry(image, row, at))
  <2> DEFINE
        shorter == {[image EXCEPT !.ledger = RemoveAt(@, n)] : n \in DOMAIN image.ledger}
        longer == {[image EXCEPT !.ledger = Append(@, @[n])] : n \in DOMAIN image.ledger}
        moved == {[image EXCEPT !.ledger[n].at = at] :
                     n \in DOMAIN image.ledger, at \in Times}
        given == {[image EXCEPT !.ledger[n].material = EventMaterial(image, row)] :
                     n \in DOMAIN image.ledger, row \in image.events}
        bared == {[image EXCEPT !.ledger[n].material = NoMaterial] :
                     n \in DOMAIN image.ledger}
        attested == {WithEntry(image, AttestationEntry(image, row, at)) :
                        row \in image.events, at \in Times}
  <2>1. Departures(image)
          = Edits(image) \cup shorter \cup longer \cup moved \cup given \cup bared
              \cup attested
    BY DEF Departures
  <2>2. other \in shorter => \E n \in DOMAIN image.ledger :
            other = [image EXCEPT !.ledger = RemoveAt(@, n)]
    OBVIOUS
  <2>3. other \in longer => \E n \in DOMAIN image.ledger :
            other = [image EXCEPT !.ledger = Append(@, @[n])]
    OBVIOUS
  <2>4. other \in moved => \E n \in DOMAIN image.ledger, at \in Times :
            other = [image EXCEPT !.ledger[n].at = at]
    OBVIOUS
  <2>5. other \in given => \E n \in DOMAIN image.ledger, row \in image.events :
            other = [image EXCEPT !.ledger[n].material = EventMaterial(image, row)]
    OBVIOUS
  <2>6. other \in bared => \E n \in DOMAIN image.ledger :
            other = [image EXCEPT !.ledger[n].material = NoMaterial]
    OBVIOUS
  <2>7. other \in attested => \E row \in image.events, at \in Times :
            other = WithEntry(image, AttestationEntry(image, row, at))
    OBVIOUS
  <2> HIDE DEF shorter, longer, moved, given, bared, attested
  <2>8. \/ other = image \/ other \in Edits(image) \/ other \in shorter
        \/ other \in longer \/ other \in moved \/ other \in given
        \/ other \in bared \/ other \in attested
    BY <2>1
  <2> QED
    BY <2>2, <2>3, <2>4, <2>5, <2>6, <2>7, <2>8, Zenon
<1> QED
  BY <1>1, <1>2, <1>3, <1>4, <1>5, <1>6, <1>7

(* What preflight admits of an old repository, tampered with or not, the event
   audit accepts behind the migration: it does not find out about a mismatch
   when the work has begun. *)
THEOREM AdmittedRepositoriesReplay == LegacySpec => []AdmittedEventsReplay
<1>1. EventInv => AdmittedEventsReplay
  BY DeparturesAreShaped, ReadyEventsReplay DEF EventInv, AdmittedEventsReplay
<1> QED
  BY <1>1, EventInvariance, PTL
===============================================================================
