------------------------------ MODULE SourceProofs ------------------------------
(***************************************************************************)
(* Sources for any number of sessions, sources and texts, with any clock   *)
(* and a disk of any size.  First SourceRevisions: importers never         *)
(* compete, and the committed revisions are histories as SourceHistories   *)
(* allows them.  Then the audit beside imports: it accepts what the        *)
(* program committed, a compilation sees one committed state, and the      *)
(* validator, which may mix several, blames no revision.                   *)
(***************************************************************************)
EXTENDS AuditReaders, SequenceTheorems, FiniteSetTheorems, TLAPS

(* What a repository's snapshot table is like between any two statements. *)
VersionsDiffer(image) ==
    \A k \in Keys : \A i, j \in RevisionsOf(image, k) :
        image.snapshots[i].version = image.snapshots[j].version => i = j

CountUpTo(image, k, n) == Versions(image, k) = 1..n

Sound(image) ==
    /\ image \in Image
    /\ VersionsDiffer(image)
    /\ \A k \in Keys : \E n \in Nat : CountUpTo(image, k, n)

(* The row that insert_snapshot adds for call k. *)
RowOf(k) ==
    [source |-> k.source, version |-> k.version, text |-> k.text,
     previous |-> k.latest, created |-> k.at]

(* k carries on from the latest revision of its source, with another text. *)
Numbered(image, k) ==
    /\ k.latest = LatestOf(image, k.source)
    /\ k.version = IF k.latest = 0 THEN 1
                   ELSE image.snapshots[k.latest].version + 1
    /\ ~Unchanged(image, k, k.latest)

LEMMA RowTyped ==
    ASSUME NEW image \in Image, NEW i \in DOMAIN image.snapshots
    PROVE  /\ i \in Nat \ {0}
           /\ image.snapshots[i] \in SnapshotRow
BY LenProperties DEF Image

(* The highest version is the last one, and it is the latest revision's. *)
LEMMA LatestFacts ==
    ASSUME NEW image, Sound(image), NEW k \in Keys, NEW n \in Nat,
           CountUpTo(image, k, n)
    PROVE  /\ LatestOf(image, k) \in Nat
           /\ n = 0 => RevisionsOf(image, k) = {} /\ LatestOf(image, k) = 0
           /\ n # 0 => /\ LatestOf(image, k) \in RevisionsOf(image, k)
                       /\ image.snapshots[LatestOf(image, k)].version = n
                       /\ LatestOf(image, k) # 0
<1>1. ASSUME NEW i \in RevisionsOf(image, k)
      PROVE  /\ i \in Nat \ {0} /\ image.snapshots[i] \in SnapshotRow
             /\ image.snapshots[i].version \in 1..n
  BY <1>1, RowTyped DEF RevisionsOf, Sound, CountUpTo, Versions
<1>2. CASE n = 0
  BY <1>1, <1>2 DEF LatestOf
<1>3. CASE n # 0
  <2>1. PICK i \in RevisionsOf(image, k) : image.snapshots[i].version = n
    BY <1>3 DEF CountUpTo, Versions
  <2>2. IsLatest(image, k, i)
    BY <1>1, <2>1 DEF IsLatest
  <2>3. LatestOf(image, k) = CHOOSE j \in RevisionsOf(image, k) :
                                 IsLatest(image, k, j)
    BY <2>1 DEF LatestOf
  <2>4. /\ LatestOf(image, k) \in RevisionsOf(image, k)
        /\ IsLatest(image, k, LatestOf(image, k))
    BY <2>1, <2>2, <2>3
  <2>5. image.snapshots[LatestOf(image, k)].version = n
    BY <1>1, <2>1, <2>4 DEF IsLatest
  <2> QED
    BY <1>1, <1>3, <2>4, <2>5
<1> QED
  BY <1>2, <1>3

(* What the next revision of a source is called. *)
LEMMA NumberedFacts ==
    ASSUME NEW image, Sound(image), NEW k \in CallType, Numbered(image, k),
           NEW n \in Nat, CountUpTo(image, k.source, n)
    PROVE  /\ k.version = n + 1
           /\ CanInsertSnapshot(image, k)
           /\ RowOf(k) \in SnapshotRow
<1>1. k.source \in Keys /\ k.latest \in Nat
  BY DEF CallType
<1>2. k.version = n + 1
  BY <1>1, LatestFacts DEF Numbered
<1>3. \A i \in RevisionsOf(image, k.source) :
          image.snapshots[i].version \in 1..n
  BY DEF CountUpTo, Versions
<1>4. CanInsertSnapshot(image, k)
  BY <1>1, <1>2, <1>3, LatestFacts DEF Numbered, CanInsertSnapshot
<1>5. RowOf(k) \in SnapshotRow
  BY <1>2 DEF RowOf, SnapshotRow, CallType
<1> QED
  BY <1>2, <1>4, <1>5

(* A snapshot table with one more row. *)
LEMMA AppendedRow ==
    ASSUME NEW image, Sound(image), NEW k \in CallType, Numbered(image, k),
           NEW image2 \in Image,
           image2.snapshots = Append(image.snapshots, RowOf(k))
    PROVE  /\ DOMAIN image.snapshots = 1..Len(image.snapshots)
           /\ Len(image.snapshots) \in Nat
           /\ Len(image2.snapshots) = Len(image.snapshots) + 1
           /\ DOMAIN image2.snapshots = 1..Len(image.snapshots) + 1
           /\ \A i \in DOMAIN image.snapshots :
                  image2.snapshots[i] = image.snapshots[i]
           /\ image2.snapshots[Len(image.snapshots) + 1] = RowOf(k)
<1>1. PICK n \in Nat : CountUpTo(image, k.source, n)
  BY DEF Sound, CallType
<1>2. RowOf(k) \in SnapshotRow
  BY <1>1, NumberedFacts
<1>3. image.snapshots \in Seq(SnapshotRow) /\ image2.snapshots \in Seq(SnapshotRow)
  BY DEF Sound, Image
<1> QED
  BY <1>2, <1>3, AppendProperties, LenProperties

LEMMA AppendedRevisions ==
    ASSUME NEW image, Sound(image), NEW k \in CallType, Numbered(image, k),
           NEW image2 \in Image,
           image2.snapshots = Append(image.snapshots, RowOf(k)),
           NEW src \in Keys
    PROVE  /\ src # k.source =>
                  RevisionsOf(image2, src) = RevisionsOf(image, src)
           /\ src = k.source =>
                  RevisionsOf(image2, src) =
                      RevisionsOf(image, src) \cup {Len(image.snapshots) + 1}
<1>1. RowOf(k).source = k.source
  BY DEF RowOf
<1> QED
  BY <1>1, AppendedRow DEF RevisionsOf

LEMMA AppendKeepsSound ==
    ASSUME NEW image, Sound(image), NEW k \in CallType, Numbered(image, k),
           NEW image2 \in Image,
           image2.snapshots = Append(image.snapshots, RowOf(k)),
           NEW n \in Nat, CountUpTo(image, k.source, n)
    PROVE  /\ Sound(image2)
           /\ CountUpTo(image2, k.source, n + 1)
           /\ LatestOf(image2, k.source) = Len(image.snapshots) + 1
<1> DEFINE new == Len(image.snapshots) + 1
<1>1. /\ image2.snapshots[new] = RowOf(k) /\ new \notin DOMAIN image.snapshots
      /\ \A i \in DOMAIN image.snapshots :
             image2.snapshots[i] = image.snapshots[i]
      /\ RowOf(k).version = n + 1 /\ k.source \in Keys
  BY AppendedRow, NumberedFacts DEF RowOf, CallType
<1>2. \A src \in Keys : \A i \in RevisionsOf(image, src) :
          i # new /\ image2.snapshots[i] = image.snapshots[i]
  BY <1>1 DEF RevisionsOf
<1>3. ASSUME NEW src \in Keys, src # k.source
      PROVE  /\ RevisionsOf(image2, src) = RevisionsOf(image, src)
             /\ Versions(image2, src) = Versions(image, src)
  <2>1. RevisionsOf(image2, src) = RevisionsOf(image, src)
    BY <1>3, AppendedRevisions
  <2>2. \A i \in RevisionsOf(image, src) :
            image2.snapshots[i] = image.snapshots[i]
    BY <1>2
  <2> QED
    BY <2>1, <2>2 DEF Versions
<1>4. RevisionsOf(image2, k.source) = RevisionsOf(image, k.source) \cup {new}
  BY <1>1, AppendedRevisions
<1>5. Versions(image2, k.source) = Versions(image, k.source) \cup {n + 1}
  <2>1. \A i \in RevisionsOf(image, k.source) :
            image2.snapshots[i].version = image.snapshots[i].version
    BY <1>1, <1>2
  <2>2. image2.snapshots[new].version = n + 1
    BY <1>1
  <2> HIDE DEF new
  <2> QED
    BY <1>4, <2>1, <2>2 DEF Versions
<1>6. CountUpTo(image2, k.source, n + 1)
  <2>1. (1..n) \cup {n + 1} = 1..(n + 1)
    OBVIOUS
  <2> QED
    BY <1>5, <2>1 DEF CountUpTo
<1>7. \A src \in Keys : \E m \in Nat : CountUpTo(image2, src, m)
  BY <1>3, <1>6 DEF Sound, CountUpTo
<1>8. \A i \in RevisionsOf(image, k.source) :
          image2.snapshots[i].version # n + 1
  <2> SUFFICES ASSUME NEW i \in RevisionsOf(image, k.source)
               PROVE  image2.snapshots[i].version # n + 1
    OBVIOUS
  <2>1. image.snapshots[i].version \in 1..n
    BY DEF CountUpTo, Versions
  <2>2. image2.snapshots[i] = image.snapshots[i]
    BY <1>1, <1>2
  <2> QED
    BY <2>1, <2>2
<1>9. VersionsDiffer(image2)
  <2> SUFFICES ASSUME NEW src \in Keys, NEW i \in RevisionsOf(image2, src),
                      NEW j \in RevisionsOf(image2, src),
                      image2.snapshots[i].version = image2.snapshots[j].version
               PROVE  i = j
    BY DEF VersionsDiffer
  <2>1. CASE src # k.source
    BY <1>2, <1>3, <2>1 DEF Sound, VersionsDiffer
  <2>2. CASE src = k.source
    BY <1>1, <1>2, <1>4, <1>8, <2>2 DEF Sound, VersionsDiffer
  <2> QED
    BY <2>1, <2>2
<1>10. Sound(image2)
  BY <1>7, <1>9 DEF Sound
<1>11. LatestOf(image2, k.source) = new
  <2>1. /\ LatestOf(image2, k.source) \in RevisionsOf(image2, k.source)
        /\ image2.snapshots[LatestOf(image2, k.source)].version = n + 1
    <3>1. n + 1 \in Nat /\ n + 1 # 0 /\ k.source \in Keys
      BY <1>1
    <3> QED
      BY <1>6, <1>10, <3>1, LatestFacts
  <2> QED
    BY <1>4, <1>8, <2>1
<1> QED
  BY <1>6, <1>10, <1>11

(* What TextOf picks is the revision with that version. *)
LEMMA TextOfRow ==
    ASSUME NEW image, Sound(image), NEW k \in Keys,
           NEW i \in RevisionsOf(image, k)
    PROVE  TextOf(image, k, image.snapshots[i].version)
               = image.snapshots[i].text
<1> DEFINE version == image.snapshots[i].version
           row == CHOOSE j \in RevisionsOf(image, k) :
                      image.snapshots[j].version = version
<1>1. row \in RevisionsOf(image, k) /\ image.snapshots[row].version = version
  OBVIOUS
<1>2. row = i
  BY <1>1 DEF Sound, VersionsDiffer
<1> QED
  BY <1>2 DEF TextOf

(* Only the snapshot table matters to the history of a source. *)
LEMMA SameSnapshots ==
    ASSUME NEW image, Sound(image), NEW image2 \in Image,
           image2.snapshots = image.snapshots
    PROVE  /\ Sound(image2)
           /\ \A k \in Keys : /\ RevisionsOf(image2, k) = RevisionsOf(image, k)
                              /\ Versions(image2, k) = Versions(image, k)
                              /\ LatestOf(image2, k) = LatestOf(image, k)
           /\ \A k \in CallType : Numbered(image2, k) <=> Numbered(image, k)
<1>1. \A k \in Keys : RevisionsOf(image2, k) = RevisionsOf(image, k)
  BY DEF RevisionsOf
<1>2. \A k \in Keys : Versions(image2, k) = Versions(image, k)
  BY <1>1 DEF Versions
<1>3. Sound(image2)
  BY <1>1, <1>2 DEF Sound, VersionsDiffer, CountUpTo
<1>4. ASSUME NEW k \in Keys
      PROVE  LatestOf(image2, k) = LatestOf(image, k)
  <2>1. PICK n \in Nat : CountUpTo(image, k, n)
    BY DEF Sound
  <2>2. CountUpTo(image2, k, n)
    BY <1>2, <2>1 DEF CountUpTo
  <2>3. CASE n = 0
    BY <1>3, <2>1, <2>2, <2>3, LatestFacts
  <2>4. CASE n # 0
    <3> DEFINE i == LatestOf(image, k)
               j == LatestOf(image2, k)
    <3>1. i \in RevisionsOf(image, k) /\ image.snapshots[i].version = n
      BY <2>1, <2>4, LatestFacts
    <3>2. j \in RevisionsOf(image, k) /\ image.snapshots[j].version = n
      BY <1>1, <1>3, <2>2, <2>4, LatestFacts
    <3> QED
      BY <3>1, <3>2 DEF Sound, VersionsDiffer
  <2> QED
    BY <2>3, <2>4
<1>5. ASSUME NEW k \in CallType
      PROVE  Numbered(image2, k) <=> Numbered(image, k)
  BY <1>4 DEF Unchanged, Numbered, CallType
<1> QED
  BY <1>1, <1>2, <1>3, <1>4, <1>5

(* The history of a source, as SourceHistories has it. *)
LEMMA HistoryTyped ==
    ASSUME NEW image, Sound(image), NEW k \in Keys,
           NEW n \in Nat, CountUpTo(image, k, n)
    PROVE  /\ HistoryOf(image, k) \in Seq(Texts)
           /\ Len(HistoryOf(image, k)) = n
           /\ \A i \in RevisionsOf(image, k) :
                  HistoryOf(image, k)[image.snapshots[i].version]
                      = image.snapshots[i].text
<1> DEFINE h == HistoryOf(image, k)
<1>1. h = [version \in 1..n |-> TextOf(image, k, version)]
  BY DEF HistoryOf, CountUpTo
<1>2. ASSUME NEW i \in RevisionsOf(image, k)
      PROVE  /\ image.snapshots[i].version \in 1..n
             /\ h[image.snapshots[i].version] = image.snapshots[i].text
             /\ image.snapshots[i].text \in Texts
  <2>1. image.snapshots[i].version \in 1..n
    BY DEF CountUpTo, Versions
  <2>2. image.snapshots[i].text \in Texts
    BY RowTyped DEF Sound, RevisionsOf, SnapshotRow
  <2> QED
    BY <1>1, <2>1, <2>2, TextOfRow
<1>3. \A version \in 1..n : h[version] \in Texts
  <2> SUFFICES ASSUME NEW version \in 1..n PROVE h[version] \in Texts
    OBVIOUS
  <2>1. PICK i \in RevisionsOf(image, k) : image.snapshots[i].version = version
    BY DEF CountUpTo, Versions
  <2> QED
    BY <1>2, <2>1
<1>4. h \in [1..n -> Texts]
  BY <1>1, <1>3
<1>5. h \in Seq(Texts)
  BY <1>4, SeqDef
<1>6. Len(h) = n
  <2>1. DOMAIN h = 1..n /\ DOMAIN h = 1..Len(h) /\ Len(h) \in Nat
    BY <1>4, <1>5, LenProperties
  <2> HIDE DEF h
  <2> QED
    BY <2>1
<1> QED
  BY <1>2, <1>5, <1>6

(* A new revision is appended to its source's history, and other sources keep
   theirs. *)
LEMMA AppendedHistory ==
    ASSUME NEW image, Sound(image), NEW k \in CallType, Numbered(image, k),
           NEW image2 \in Image,
           image2.snapshots = Append(image.snapshots, RowOf(k)),
           NEW src \in Keys
    PROVE  HistoryOf(image2, src) =
               IF src = k.source THEN Append(HistoryOf(image, src), k.text)
               ELSE HistoryOf(image, src)
<1> DEFINE new == Len(image.snapshots) + 1
           h == HistoryOf(image, src)
           h2 == HistoryOf(image2, src)
<1>1. PICK n \in Nat : CountUpTo(image, src, n)
  BY DEF Sound
<1>2. PICK m \in Nat : CountUpTo(image, k.source, m)
  BY DEF Sound, CallType
<1>3. Sound(image2) /\ CountUpTo(image2, k.source, m + 1)
  BY <1>2, AppendKeepsSound
<1>4. /\ h \in Seq(Texts) /\ Len(h) = n
      /\ \A i \in RevisionsOf(image, src) :
             h[image.snapshots[i].version] = image.snapshots[i].text
  BY <1>1, HistoryTyped
<1>5. \A i \in RevisionsOf(image, src) :
          image2.snapshots[i] = image.snapshots[i]
  BY AppendedRow DEF RevisionsOf
<1>6. \A version \in 1..n : \E i \in RevisionsOf(image, src) :
          image.snapshots[i].version = version
  BY <1>1 DEF CountUpTo, Versions
<1>7. RevisionsOf(image, src) \subseteq RevisionsOf(image2, src)
  BY AppendedRevisions
<1>8. CASE src # k.source
  <2>1. CountUpTo(image2, src, n)
    <3>1. RevisionsOf(image2, src) = RevisionsOf(image, src)
      BY <1>8, AppendedRevisions
    <3> QED
      BY <1>1, <1>5, <3>1 DEF CountUpTo, Versions
  <2>2. /\ h2 \in Seq(Texts) /\ Len(h2) = n
        /\ \A i \in RevisionsOf(image2, src) :
               h2[image2.snapshots[i].version] = image2.snapshots[i].text
    BY <1>3, <2>1, HistoryTyped
  <2>3. ASSUME NEW version \in 1..n
        PROVE  h2[version] = h[version]
    <3>1. PICK i \in RevisionsOf(image, src) :
              image.snapshots[i].version = version
      BY <1>6
    <3>2. image2.snapshots[i] = image.snapshots[i]
      BY <1>5
    <3>3. h[version] = image.snapshots[i].text
      BY <1>4, <3>1
    <3>4. h2[version] = image.snapshots[i].text
      BY <1>7, <2>2, <3>1, <3>2
    <3> QED
      BY <3>3, <3>4
  <2> HIDE DEF h, h2
  <2>4. h2 = h
    BY <1>4, <2>2, <2>3, SeqEqual
  <2> QED
    BY <1>8, <2>4 DEF h, h2
<1>9. CASE src = k.source
  <2>1. n = m
    BY <1>1, <1>2, <1>9, <1>4, HistoryTyped
  <2>2. /\ h2 \in Seq(Texts) /\ Len(h2) = n + 1
        /\ \A i \in RevisionsOf(image2, src) :
               h2[image2.snapshots[i].version] = image2.snapshots[i].text
    <3>1. n + 1 \in Nat /\ CountUpTo(image2, src, n + 1)
      BY <1>3, <1>9, <2>1
    <3> QED
      BY <1>3, <3>1, HistoryTyped
  <2>3. ASSUME NEW version \in 1..n
        PROVE  h2[version] = h[version]
    <3>1. PICK i \in RevisionsOf(image, src) :
              image.snapshots[i].version = version
      BY <1>6
    <3>2. image2.snapshots[i] = image.snapshots[i]
      BY <1>5
    <3>3. h[version] = image.snapshots[i].text
      BY <1>4, <3>1
    <3>4. h2[version] = image.snapshots[i].text
      BY <1>7, <2>2, <3>1, <3>2
    <3> QED
      BY <3>3, <3>4
  <2>4. h2[n + 1] = k.text
    <3>1. new \in RevisionsOf(image2, src)
      BY <1>9, AppendedRevisions
    <3>2. image2.snapshots[new] = RowOf(k) /\ RowOf(k).version = n + 1
      BY <1>2, <2>1, AppendedRow, NumberedFacts DEF RowOf
    <3> QED
      BY <2>2, <3>1, <3>2 DEF RowOf
  <2>5. k.text \in Texts
    BY DEF CallType
  <2> HIDE DEF h, h2
  <2>6. /\ Append(h, k.text) \in Seq(Texts) /\ Len(Append(h, k.text)) = n + 1
        /\ \A version \in 1..n : Append(h, k.text)[version] = h[version]
        /\ Append(h, k.text)[n + 1] = k.text
    BY <1>4, <2>5, AppendProperties
  <2>7. h2 = Append(h, k.text)
    BY <2>2, <2>3, <2>4, <2>6, SeqEqual
  <2> QED
    BY <1>9, <2>7 DEF h, h2
<1> QED
  BY <1>8, <1>9

-----------------------------------------------------------------------------
(* Sessions and the write lock. *)
Resting == {"idle", "broken"}

SessionOK(s) ==
    /\ call[s] = NoCall <=> pc[s] \in Resting
    /\ depth[s] = IF pc[s] \in Resting \cup {"enter"} THEN 0 ELSE 1
    /\ lock = s <=> pc[s] \notin {"idle", "enter"}

Discipline ==
    /\ lock \in Sessions \cup {NoSession}
    /\ depth \in [Sessions -> {0, 1}]
    /\ pc \in [Sessions -> Labels]
    /\ call \in [Sessions -> CallType \cup {NoCall}]
    /\ \A s \in Sessions : SessionOK(s)

(* Session s and nobody else takes a step; it takes only a free lock and gives
   up only its own. *)
Moves(s) ==
    /\ pc' = [pc EXCEPT ![s] = pc'[s]]
    /\ call' = [call EXCEPT ![s] = call'[s]]
    /\ depth' = [depth EXCEPT ![s] = depth'[s]]
    /\ lock' = lock \/ (lock \in {s, NoSession} /\ lock' \in {s, NoSession})

LEMMA NoCallIsNoCall == NoCall \notin CallType
<1>1. \A k \in CallType : "text" \in DOMAIN k
  BY DEF CallType
<1>2. "text" \notin DOMAIN NoCall
  BY DEF NoCall
<1> QED
  BY <1>1, <1>2

LEMMA OthersKeepDiscipline ==
    ASSUME Discipline, NEW s \in Sessions, NEW t \in Sessions, t # s, Moves(s)
    PROVE  /\ SessionOK(t)'
           /\ pc'[t] = pc[t] /\ call'[t] = call[t]
           /\ lock' = t <=> lock = t
<1>1. pc'[t] = pc[t] /\ call'[t] = call[t] /\ depth'[t] = depth[t]
  BY DEF Discipline, Moves
<1>2. lock' = t <=> lock = t
  BY SessionsAssumption DEF Moves
<1> QED
  BY <1>1, <1>2 DEF Discipline, SessionOK

LEMMA StepKeepsDiscipline ==
    ASSUME Discipline, NEW s \in Sessions, Moves(s),
           pc'[s] \in Labels, call'[s] \in CallType \cup {NoCall},
           depth'[s] \in {0, 1}, SessionOK(s)'
    PROVE  Discipline'
<1>1. \A t \in Sessions : SessionOK(t)'
  BY OthersKeepDiscipline
<1>2. /\ pc' \in [Sessions -> Labels]
      /\ call' \in [Sessions -> CallType \cup {NoCall}]
      /\ depth' \in [Sessions -> {0, 1}]
      /\ lock' \in Sessions \cup {NoSession}
  BY DEF Discipline, Moves
<1> QED
  BY <1>1, <1>2 DEF Discipline

LEMMA CallKeepsDiscipline ==
    ASSUME Discipline, NEW s \in Sessions, NEW k \in Keys, NEW text \in Texts,
           CallIngest(s, k, text)
    PROVE  Discipline' /\ Moves(s)
<1>1. PICK at \in Times :
          call' = [call EXCEPT ![s] =
                      [op |-> "ingest", source |-> k, text |-> text, at |-> at,
                       latest |-> 0, version |-> 0]]
  BY DEF CallIngest
<1>2. /\ call'[s] \in CallType
      /\ call' = [call EXCEPT ![s] = call'[s]]
  BY <1>1 DEF Discipline, CallType
<1>3. /\ pc[s] = "idle" /\ pc' = [pc EXCEPT ![s] = "enter"] /\ pc'[s] = "enter"
      /\ UNCHANGED <<lock, depth>>
  BY DEF CallIngest, Goto, Discipline
<1>4. Moves(s)
  BY <1>2, <1>3 DEF Moves, Discipline
<1>5. SessionOK(s)'
  BY <1>2, <1>3, NoCallIsNoCall DEF SessionOK, Discipline, Resting
<1> QED
  BY <1>2, <1>3, <1>4, <1>5, StepKeepsDiscipline DEF Discipline, Labels

LEMMA RollbackKeepsDiscipline ==
    ASSUME Discipline, NEW s \in Sessions, Rollback(s)
    PROVE  Discipline' /\ Moves(s)
<1>1. /\ pc' = [pc EXCEPT ![s] = "idle"] /\ pc'[s] = "idle"
      /\ call' = [call EXCEPT ![s] = NoCall] /\ call'[s] = NoCall
      /\ depth' = [depth EXCEPT ![s] = 0] /\ depth'[s] = 0
      /\ IF lock = s THEN lock' = NoSession ELSE lock' = lock
  BY DEF Rollback, Goto, Discipline
<1>2. Moves(s)
  BY <1>1 DEF Moves
<1>3. SessionOK(s)'
  BY <1>1, SessionsAssumption DEF SessionOK, Resting
<1> QED
  BY <1>1, <1>2, <1>3, StepKeepsDiscipline DEF Labels

LEMMA EnterKeepsDiscipline ==
    ASSUME Discipline, NEW s \in Sessions, Enter(s)
    PROVE  Discipline' /\ Moves(s)
<1>1. pc[s] = "enter" /\ depth[s] = 0 /\ lock = NoSession /\ lock' = s
  BY DEF Enter, EnterTransaction, Discipline, SessionOK, Resting
<1>2. /\ pc' = [pc EXCEPT ![s] = "find_source"] /\ pc'[s] = "find_source"
      /\ depth' = [depth EXCEPT ![s] = 1] /\ depth'[s] = 1
      /\ call' = call
  BY <1>1 DEF Enter, EnterTransaction, Goto, Discipline
<1>3. Moves(s)
  BY <1>1, <1>2 DEF Moves, Discipline
<1>4. SessionOK(s)'
  BY <1>1, <1>2 DEF SessionOK, Discipline, Resting
<1> QED
  BY <1>2, <1>3, <1>4, StepKeepsDiscipline
     DEF Discipline, Labels, StatementLabels

(* A statement keeps the lock and goes to another label of the transaction. *)
LEMMA StatementKeepsDiscipline ==
    ASSUME Discipline, NEW s \in Sessions,
           pc[s] \in StatementLabels,
           NEW to \in StatementLabels \cup {"exit"}, Goto(s, to),
           UNCHANGED <<lock, depth>>,
           call' = [call EXCEPT ![s] = call'[s]], call'[s] \in CallType
    PROVE  Discipline' /\ Moves(s)
<1>1. pc' = [pc EXCEPT ![s] = to] /\ pc'[s] = to /\ to \in Labels
  BY DEF Goto, Discipline, Labels
<1>2. Moves(s)
  BY <1>1 DEF Moves, Discipline
<1>3. SessionOK(s)'
  BY <1>1, NoCallIsNoCall DEF SessionOK, Discipline, Resting, StatementLabels
<1> QED
  BY <1>1, <1>2, <1>3, StepKeepsDiscipline DEF Discipline

(* What a session in a transaction holds. *)
LEMMA InTransaction ==
    ASSUME Discipline, NEW s \in Sessions, pc[s] \in StatementLabels \cup {"exit"}
    PROVE  lock = s /\ call[s] \in CallType /\ depth[s] = 1
BY DEF Discipline, SessionOK, Resting, StatementLabels

LEMMA StatementsKeepDiscipline ==
    ASSUME Discipline, NEW s \in Sessions,
           pc[s] = "read_latest" => Sound(View(s)), Statements(s)
    PROVE  Discipline' /\ Moves(s)
<1>1. ASSUME NEW from \in StatementLabels, NEW to \in StatementLabels \cup {"exit"},
             NEW guard, NEW result, Statement(s, from, to, guard, result)
      PROVE  Discipline' /\ Moves(s)
  <2>1. pc[s] \in StatementLabels /\ Goto(s, to) /\ UNCHANGED <<lock, depth, call>>
    BY <1>1 DEF Statement
  <2>2. call' = [call EXCEPT ![s] = call'[s]] /\ call'[s] \in CallType
    BY <2>1, InTransaction DEF Discipline
  <2> QED
    BY <2>1, <2>2, StatementKeepsDiscipline
<1>2. CASE InsertSource(s)
  BY <1>1, <1>2 DEF InsertSource, StatementLabels
<1>3. CASE RecordSource(s)
  BY <1>1, <1>3 DEF RecordSource, StatementLabels
<1>4. CASE InsertSnapshot(s)
  BY <1>1, <1>4 DEF InsertSnapshot, StatementLabels
<1>5. CASE TouchSource(s)
  BY <1>1, <1>5 DEF TouchSource, StatementLabels
<1>6. CASE RecordSnapshot(s)
  BY <1>1, <1>6 DEF RecordSnapshot, StatementLabels
<1>7. CASE FindSource(s)
  <2>1. pc[s] = "find_source" /\ UNCHANGED <<lock, depth, call>>
    BY <1>7 DEF FindSource
  <2>2. PICK to \in {"read_latest", "insert_source"} : Goto(s, to)
    BY <1>7 DEF FindSource
  <2>3. call' = [call EXCEPT ![s] = call'[s]] /\ call'[s] \in CallType
    BY <2>1, InTransaction DEF Discipline, StatementLabels
  <2> QED
    BY <2>1, <2>2, <2>3, StatementKeepsDiscipline DEF StatementLabels
<1>8. CASE ReadLatest(s)
  <2>1. pc[s] = "read_latest" /\ UNCHANGED <<lock, depth>>
    BY <1>8 DEF ReadLatest
  <2>2. PICK to \in {"exit", "insert_snapshot"} : Goto(s, to)
    BY <1>8 DEF ReadLatest
  <2>3. call[s] \in CallType /\ call[s].source \in Keys
    BY <2>1, InTransaction DEF StatementLabels, CallType
  <2> DEFINE latest == LatestOf(View(s), call[s].source)
             version == IF latest = 0 THEN 1
                        ELSE View(s).snapshots[latest].version + 1
  <2>4. latest \in Nat /\ version \in Nat
    <3>1. PICK n \in Nat : CountUpTo(View(s), call[s].source, n)
      BY <2>1, <2>3 DEF Sound
    <3> QED
      BY <2>1, <2>3, <3>1, LatestFacts
  <2>5. \/ call' = call
        \/ call' = [call EXCEPT ![s].latest = latest, ![s].version = version]
    BY <1>8 DEF ReadLatest
  <2> HIDE DEF latest, version
  <2>6. call' = [call EXCEPT ![s] = call'[s]] /\ call'[s] \in CallType
    BY <2>3, <2>4, <2>5 DEF Discipline, CallType
  <2> QED
    BY <2>1, <2>2, <2>6, StatementKeepsDiscipline DEF StatementLabels
<1>9. CASE Refuse(s)
  BY <1>9, RollbackKeepsDiscipline DEF Refuse
<1> QED
  BY <1>2, <1>3, <1>4, <1>5, <1>6, <1>7, <1>8, <1>9 DEF Statements

LEMMA ExitKeepsDiscipline ==
    ASSUME Discipline, NEW s \in Sessions, Exit(s)
    PROVE  Discipline' /\ Moves(s)
<1>1. pc[s] = "exit" /\ lock = s /\ depth[s] = 1
  BY InTransaction DEF Exit
<1>2. /\ pc' = [pc EXCEPT ![s] = "idle"] /\ pc'[s] = "idle"
      /\ call' = [call EXCEPT ![s] = NoCall] /\ call'[s] = NoCall
      /\ depth' = [depth EXCEPT ![s] = 0] /\ depth'[s] = 0
      /\ lock' = NoSession
  BY <1>1 DEF Exit, ExitTransaction, Goto, Discipline
<1>3. Moves(s)
  BY <1>1, <1>2 DEF Moves
<1>4. SessionOK(s)'
  BY <1>2, SessionsAssumption DEF SessionOK, Resting
<1> QED
  BY <1>2, <1>3, <1>4, StepKeepsDiscipline DEF Labels

LEMMA CommitBusyKeepsDiscipline ==
    ASSUME Discipline, NEW s \in Sessions, CommitBusy(s)
    PROVE  Discipline' /\ Moves(s)
<1>1. pc[s] = "exit" /\ lock = s
  BY InTransaction DEF CommitBusy
<1>2. /\ pc' = [pc EXCEPT ![s] = "broken"] /\ pc'[s] = "broken"
      /\ call' = [call EXCEPT ![s] = NoCall] /\ call'[s] = NoCall
      /\ depth' = [depth EXCEPT ![s] = 0] /\ depth'[s] = 0
      /\ lock' = lock
  BY DEF CommitBusy, CommitFails, Goto, Discipline
<1>3. Moves(s)
  BY <1>2 DEF Moves
<1>4. SessionOK(s)'
  BY <1>1, <1>2 DEF SessionOK, Resting
<1> QED
  BY <1>2, <1>3, <1>4, StepKeepsDiscipline DEF Labels

LEMMA SessionKeepsDiscipline ==
    ASSUME Discipline, NEW s \in Sessions,
           pc[s] = "read_latest" => Sound(View(s)), Session(s)
    PROVE  Discipline' /\ Moves(s)
BY CallKeepsDiscipline, EnterKeepsDiscipline, StatementsKeepDiscipline,
   ExitKeepsDiscipline, CommitBusyKeepsDiscipline, RollbackKeepsDiscipline
   DEF Session, BusyTimeout, GiveUpWaiting, Interrupt, Close
-----------------------------------------------------------------------------
(* What a session's transaction has done, seen from each of its labels. *)
Stage(s) ==
    /\ pc[s] \in {"find_source", "insert_source", "record_source",
                  "read_latest", "insert_snapshot"} =>
           work.snapshots = db.snapshots
    /\ pc[s] = "insert_source" => ~Known(work, call[s].source)
    /\ pc[s] \in {"record_source", "read_latest", "insert_snapshot",
                  "touch_source"} =>
           Known(work, call[s].source)
    /\ pc[s] \in {"insert_snapshot", "touch_source", "record_snapshot"} =>
           Numbered(db, call[s])
    /\ pc[s] \in {"touch_source", "record_snapshot"} =>
           work.snapshots = Append(db.snapshots, RowOf(call[s]))
    /\ pc[s] = "exit" =>
           \/ /\ work.snapshots = db.snapshots
              /\ Unchanged(db, call[s], LatestOf(db, call[s].source))
           \/ /\ work.snapshots = Append(db.snapshots, RowOf(call[s]))
              /\ Numbered(db, call[s])

IInv ==
    /\ Discipline
    /\ Sound(db)
    /\ work \in Image
    /\ \A s \in Sessions : lock = s => Stage(s)

(* What the statements write satisfies the tables' constraints. *)
LEMMA EntryTyped ==
    ASSUME NEW image \in Image, NEW entry \in SourceEntry \cup SnapshotEntry
    PROVE  /\ WithEntry(image, entry) \in Image
           /\ WithEntry(image, entry).snapshots = image.snapshots
           /\ WithEntry(image, entry).sources = image.sources
<1>1. Append(image.ledger, entry) \in Seq(SourceEntry \cup SnapshotEntry)
  BY AppendProperties DEF Image
<1> QED
  BY <1>1 DEF WithEntry, Image

LEMMA SourceTyped ==
    ASSUME NEW image \in Image, NEW k \in CallType
    PROVE  /\ WithSource(image, k) \in Image
           /\ WithSource(image, k).snapshots = image.snapshots
           /\ Known(WithSource(image, k), k.source)
           /\ WithSourceEntry(image, k) \in Image
           /\ WithSourceEntry(image, k).snapshots = image.snapshots
           /\ WithSourceEntry(image, k).sources = image.sources
<1> DEFINE row == [name |-> k.source, created |-> k.at, updated |-> k.at]
           entry == [event |-> "source.created", source |-> k.source,
                     name |-> k.source, at |-> k.at]
<1>1. row \in SourceRow /\ row # NoSource /\ entry \in SourceEntry
  <2>1. "created" \in DOMAIN row /\ "created" \notin DOMAIN NoSource
    BY DEF NoSource
  <2> QED
    BY <2>1 DEF SourceRow, SourceEntry, CallType
<1>2. k.source \in Keys
  BY DEF CallType
<1> HIDE DEF row
<1>3. /\ WithSource(image, k) \in Image
      /\ WithSource(image, k).snapshots = image.snapshots
      /\ WithSource(image, k).sources[k.source] = row
  BY <1>1, <1>2 DEF WithSource, Image, row
<1>4. Known(WithSource(image, k), k.source)
  BY <1>1, <1>3 DEF Known
<1>5. WithSourceEntry(image, k) = WithEntry(image, entry)
  BY DEF WithSourceEntry
<1> HIDE DEF entry
<1> QED
  BY <1>1, <1>3, <1>4, <1>5, EntryTyped

LEMMA SnapshotTyped ==
    ASSUME NEW image \in Image, NEW k \in CallType, RowOf(k) \in SnapshotRow
    PROVE  /\ WithSnapshot(image, k) \in Image
           /\ WithSnapshot(image, k).sources = image.sources
           /\ WithSnapshot(image, k).snapshots = Append(image.snapshots, RowOf(k))
<1>1. Append(image.snapshots, RowOf(k)) \in Seq(SnapshotRow)
  BY AppendProperties DEF Image
<1> QED
  BY <1>1 DEF WithSnapshot, RowOf, Image

LEMMA TouchTyped ==
    ASSUME NEW image \in Image, NEW k \in CallType, Known(image, k.source)
    PROVE  /\ WithTouchedSource(image, k) \in Image
           /\ WithTouchedSource(image, k).snapshots = image.snapshots
<1>1. /\ image.sources[k.source] \in SourceRow
      /\ image.sources \in [Keys -> SourceRow \cup {NoSource}]
      /\ k.source \in Keys /\ k.at \in Times
  BY DEF Known, Image, CallType
<1>2. [image.sources[k.source] EXCEPT !.updated = k.at] \in SourceRow
  BY <1>1 DEF SourceRow
<1>3. WithTouchedSource(image, k).sources =
          [image.sources EXCEPT ![k.source] =
              [image.sources[k.source] EXCEPT !.updated = k.at]]
  BY DEF WithTouchedSource, Image
<1>4. WithTouchedSource(image, k).sources \in [Keys -> SourceRow \cup {NoSource}]
  BY <1>1, <1>2, <1>3
<1> QED
  BY <1>4 DEF WithTouchedSource, Image

LEMMA SnapshotEntryTyped ==
    ASSUME NEW image \in Image, NEW k \in CallType, RowOf(k) \in SnapshotRow,
           image.snapshots # <<>>
    PROVE  /\ WithSnapshotEntry(image, k) \in Image
           /\ WithSnapshotEntry(image, k).snapshots = image.snapshots
<1> DEFINE entry == [event |-> "source_snapshot.created",
                     snapshot |-> Len(image.snapshots), source |-> k.source,
                     name |-> k.source, version |-> k.version,
                     text |-> k.text, previous |-> k.latest, at |-> k.at]
<1>1. Len(image.snapshots) \in Nat \ {0}
  BY EmptySeq DEF Image
<1>2. k.version \in Nat \ {0}
  BY DEF RowOf, SnapshotRow
<1>3. entry \in SnapshotEntry
  BY <1>1, <1>2 DEF SnapshotEntry, CallType
<1>4. WithSnapshotEntry(image, k) = WithEntry(image, entry)
  BY DEF WithSnapshotEntry
<1> HIDE DEF entry
<1> QED
  BY <1>3, <1>4, EntryTyped

(* A step of the lock holder within its transaction. *)
LEMMA InsideKeepsInv ==
    ASSUME IInv, Discipline', NEW s \in Sessions, lock = s, UNCHANGED <<lock, db>>,
           work' \in Image, Stage(s)'
    PROVE  IInv'
BY DEF IInv

(* A step of a session that has no transaction open before or after. *)
LEMMA OutsideKeepsInv ==
    ASSUME IInv, Discipline', NEW s \in Sessions, Moves(s), lock # s,
           UNCHANGED <<lock, db, work>>
    PROVE  IInv'
<1>1. ASSUME NEW t \in Sessions, lock' = t PROVE Stage(t)'
  <2>1. t # s /\ lock = t
    BY <1>1
  <2>2. pc'[t] = pc[t] /\ call'[t] = call[t]
    BY <2>1, OthersKeepDiscipline DEF IInv
  <2> QED
    BY <2>1, <2>2 DEF IInv, Stage
<1> QED
  BY <1>1 DEF IInv

LEMMA RollbackKeepsInv ==
    ASSUME IInv, NEW s \in Sessions, Rollback(s)
    PROVE  IInv'
<1>1. Discipline' /\ Moves(s)
  BY RollbackKeepsDiscipline DEF IInv
<1>2. CASE lock = s
  BY <1>1, <1>2, SessionsAssumption DEF Rollback, IInv, Sound
<1>3. CASE lock # s
  BY <1>1, <1>3, OutsideKeepsInv DEF Rollback
<1> QED
  BY <1>2, <1>3

(* What the invariant says of a session's call at a statement. *)
LEMMA CallFacts ==
    ASSUME IInv, NEW s \in Sessions, pc[s] \in StatementLabels \cup {"exit"}
    PROVE  /\ lock = s /\ View(s) = work /\ Stage(s)
           /\ call[s] \in CallType /\ call[s].source \in Keys
           /\ pc[s] \in {"insert_snapshot", "touch_source", "record_snapshot"} =>
                  RowOf(call[s]) \in SnapshotRow
           /\ work.snapshots = db.snapshots => Sound(work)
<1>1. lock = s /\ call[s] \in CallType /\ call[s].source \in Keys
  BY InTransaction DEF IInv, CallType
<1>2. Stage(s) /\ View(s) = work
  BY <1>1 DEF IInv, View
<1>3. PICK n \in Nat : CountUpTo(db, call[s].source, n)
  BY <1>1 DEF IInv, Sound
<1>4. Numbered(db, call[s]) => RowOf(call[s]) \in SnapshotRow
  BY <1>1, <1>3, NumberedFacts DEF IInv
<1>5. work.snapshots = db.snapshots => Sound(work)
  BY SameSnapshots DEF IInv
<1> QED
  BY <1>1, <1>2, <1>4, <1>5 DEF Stage

LEMMA SessionKeepsInv ==
    ASSUME IInv, NEW s \in Sessions, Session(s)
    PROVE  IInv'
<1>1. Discipline' /\ Moves(s)
  <2>1. pc[s] = "read_latest" => Sound(View(s))
    BY CallFacts DEF Stage, StatementLabels
  <2> QED
    BY <2>1, SessionKeepsDiscipline DEF IInv
<1>2. CASE \E k \in Keys, text \in Texts : CallIngest(s, k, text)
  <2>1. pc[s] = "idle" /\ UNCHANGED <<lock, db, work>>
    BY <1>2 DEF CallIngest
  <2>2. lock # s
    BY <2>1 DEF IInv, Discipline, SessionOK
  <2> QED
    BY <1>1, <2>1, <2>2, OutsideKeepsInv
<1>3. CASE Enter(s)
  <2>1. depth[s] = 0
    BY <1>3 DEF Enter, IInv, Discipline, SessionOK, Resting
  <2>2. lock' = s /\ work' = db /\ db' = db /\ pc'[s] = "find_source"
    BY <1>3, <2>1 DEF Enter, EnterTransaction, Goto, IInv, Discipline
  <2>3. Stage(s)'
    BY <2>2 DEF Stage
  <2> QED
    BY <1>1, <2>2, <2>3 DEF IInv, Sound
<1>4. CASE FindSource(s)
  <2>1. /\ pc[s] = "find_source" /\ UNCHANGED <<db, work, lock, call>>
        /\ pc'[s] = IF Known(View(s), call[s].source)
                    THEN "read_latest" ELSE "insert_source"
    BY <1>4 DEF FindSource, Goto, IInv, Discipline
  <2>2. lock = s /\ View(s) = work /\ Stage(s)
    BY <2>1, CallFacts DEF StatementLabels
  <2>3. Stage(s)'
    BY <2>1, <2>2 DEF Stage, Known
  <2> QED
    BY <1>1, <2>1, <2>2, <2>3, InsideKeepsInv DEF IInv
<1>5. CASE InsertSource(s)
  <2>1. /\ pc[s] = "insert_source" /\ UNCHANGED <<db, lock, call>>
        /\ pc'[s] = "record_source" /\ work' = WithSource(work, call[s])
    BY <1>5 DEF InsertSource, Statement, Goto, IInv, Discipline
  <2>2. lock = s /\ Stage(s) /\ call[s] \in CallType
    BY <2>1, CallFacts DEF StatementLabels
  <2>3. /\ work' \in Image /\ work'.snapshots = work.snapshots
        /\ Known(work', call[s].source)
    BY <2>1, <2>2, SourceTyped DEF IInv
  <2>4. Stage(s)'
    BY <2>1, <2>2, <2>3 DEF Stage
  <2> QED
    BY <1>1, <2>1, <2>2, <2>3, <2>4, InsideKeepsInv
<1>6. CASE RecordSource(s)
  <2>1. /\ pc[s] = "record_source" /\ UNCHANGED <<db, lock, call>>
        /\ pc'[s] = "read_latest" /\ work' = WithSourceEntry(work, call[s])
    BY <1>6 DEF RecordSource, Statement, Goto, IInv, Discipline
  <2>2. lock = s /\ Stage(s) /\ call[s] \in CallType
    BY <2>1, CallFacts DEF StatementLabels
  <2>3. /\ work' \in Image /\ work'.snapshots = work.snapshots
        /\ work'.sources = work.sources
    BY <2>1, <2>2, SourceTyped DEF IInv
  <2>4. Stage(s)'
    BY <2>1, <2>2, <2>3 DEF Stage, Known
  <2> QED
    BY <1>1, <2>1, <2>2, <2>3, <2>4, InsideKeepsInv
<1>7. CASE ReadLatest(s)
  <2> DEFINE k == call[s]
             latest == LatestOf(work, k.source)
             version == IF latest = 0 THEN 1
                        ELSE work.snapshots[latest].version + 1
             next == [k EXCEPT !.latest = latest, !.version = version]
  <2>1. pc[s] = "read_latest" /\ UNCHANGED <<db, lock, work>>
    BY <1>7 DEF ReadLatest
  <2>2. /\ lock = s /\ View(s) = work /\ Stage(s) /\ k \in CallType
        /\ k.source \in Keys
        /\ work.snapshots = db.snapshots /\ Known(work, k.source)
    BY <2>1, CallFacts DEF Stage, StatementLabels
  <2>3. latest = LatestOf(db, k.source)
    BY <2>2, SameSnapshots DEF IInv
  <2>4. CASE Unchanged(work, k, latest) /\ Goto(s, "exit") /\ UNCHANGED call
    <3>1. pc'[s] = "exit" /\ call'[s] = k
      BY <2>4 DEF Goto, IInv, Discipline
    <3>2. Unchanged(db, k, LatestOf(db, k.source))
      BY <2>2, <2>3, <2>4 DEF Unchanged
    <3>3. Stage(s)'
      BY <2>1, <2>2, <3>1, <3>2 DEF Stage
    <3> QED
      BY <1>1, <2>1, <2>2, <3>3, InsideKeepsInv DEF IInv
  <2>5. CASE /\ ~Unchanged(work, k, latest)
             /\ Goto(s, "insert_snapshot")
             /\ call' = [call EXCEPT ![s].latest = latest,
                                     ![s].version = version]
    <3>1. pc'[s] = "insert_snapshot" /\ call'[s] = next
      BY <2>5 DEF Goto, IInv, Discipline
    <3>2. /\ next.source = k.source /\ next.latest = latest
          /\ next.version = version /\ next.text = k.text
      BY <2>2 DEF CallType
    <3>3. Numbered(db, next)
      BY <2>2, <2>3, <2>5, <3>2 DEF Numbered, Unchanged
    <3> HIDE DEF next
    <3>4. Stage(s)'
      BY <2>1, <2>2, <3>1, <3>2, <3>3 DEF Stage
    <3> QED
      BY <1>1, <2>1, <2>2, <3>4, InsideKeepsInv DEF IInv
  <2> QED
    BY <1>7, <2>2, <2>4, <2>5 DEF ReadLatest
<1>8. CASE InsertSnapshot(s)
  <2>1. /\ pc[s] = "insert_snapshot" /\ UNCHANGED <<db, lock, call>>
        /\ pc'[s] = "touch_source" /\ work' = WithSnapshot(work, call[s])
    BY <1>8 DEF InsertSnapshot, Statement, Goto, IInv, Discipline
  <2>2. /\ lock = s /\ Stage(s) /\ call[s] \in CallType
        /\ RowOf(call[s]) \in SnapshotRow
    BY <2>1, CallFacts DEF StatementLabels
  <2>3. /\ work' \in Image /\ work'.sources = work.sources
        /\ work'.snapshots = Append(work.snapshots, RowOf(call[s]))
    BY <2>1, <2>2, SnapshotTyped DEF IInv
  <2>4. Stage(s)'
    BY <2>1, <2>2, <2>3 DEF Stage, Known
  <2> QED
    BY <1>1, <2>1, <2>2, <2>3, <2>4, InsideKeepsInv
<1>9. CASE TouchSource(s)
  <2>1. /\ pc[s] = "touch_source" /\ UNCHANGED <<db, lock, call>>
        /\ pc'[s] = "record_snapshot" /\ work' = WithTouchedSource(work, call[s])
    BY <1>9 DEF TouchSource, Statement, Goto, IInv, Discipline
  <2>2. lock = s /\ Stage(s) /\ call[s] \in CallType
    BY <2>1, CallFacts DEF StatementLabels
  <2>3. work' \in Image /\ work'.snapshots = work.snapshots
    BY <2>1, <2>2, TouchTyped DEF IInv, Stage
  <2>4. Stage(s)'
    BY <2>1, <2>2, <2>3 DEF Stage
  <2> QED
    BY <1>1, <2>1, <2>2, <2>3, <2>4, InsideKeepsInv
<1>10. CASE RecordSnapshot(s)
  <2>1. /\ pc[s] = "record_snapshot" /\ UNCHANGED <<db, lock, call>>
        /\ pc'[s] = "exit" /\ work' = WithSnapshotEntry(work, call[s])
    BY <1>10 DEF RecordSnapshot, Statement, Goto, IInv, Discipline
  <2>2. /\ lock = s /\ Stage(s) /\ call[s] \in CallType
        /\ RowOf(call[s]) \in SnapshotRow
    BY <2>1, CallFacts DEF StatementLabels
  <2>3. work.snapshots # <<>>
    <3>1. db.snapshots \in Seq(SnapshotRow)
      BY DEF IInv, Sound, Image
    <3> QED
      BY <2>1, <2>2, <3>1, AppendProperties DEF Stage
  <2>4. work' \in Image /\ work'.snapshots = work.snapshots
    BY <2>1, <2>2, <2>3, SnapshotEntryTyped DEF IInv
  <2>5. Stage(s)'
    BY <2>1, <2>2, <2>4 DEF Stage
  <2> QED
    BY <1>1, <2>1, <2>2, <2>4, <2>5, InsideKeepsInv
<1>11. CASE Exit(s)
  <2>1. pc[s] = "exit" /\ depth[s] = 1
    BY <1>11, InTransaction DEF Exit, IInv
  <2>2. lock' = NoSession /\ db' = work /\ work' = work
    BY <1>11, <2>1 DEF Exit, ExitTransaction
  <2>3. Stage(s) /\ call[s] \in CallType /\ call[s].source \in Keys
    BY <2>1, CallFacts
  <2>4. Sound(work)
    <3>1. CASE work.snapshots = db.snapshots
      BY <3>1, SameSnapshots DEF IInv
    <3>2. CASE /\ work.snapshots = Append(db.snapshots, RowOf(call[s]))
               /\ Numbered(db, call[s])
      <4>1. PICK n \in Nat : CountUpTo(db, call[s].source, n)
        BY <2>3 DEF IInv, Sound
      <4> QED
        BY <2>3, <3>2, <4>1, AppendKeepsSound DEF IInv
    <3> QED
      BY <2>1, <2>3, <3>1, <3>2 DEF Stage
  <2> QED
    BY <1>1, <2>2, <2>4, SessionsAssumption DEF IInv, Sound
<1>12. CASE CommitBusy(s)
  <2>1. pc[s] = "exit" /\ pc'[s] = "broken" /\ UNCHANGED <<db, work, lock>>
    BY <1>12 DEF CommitBusy, CommitFails, Goto, IInv, Discipline
  <2>2. lock = s
    BY <2>1, CallFacts
  <2>3. Stage(s)'
    BY <2>1 DEF Stage
  <2> QED
    BY <1>1, <2>1, <2>2, <2>3, InsideKeepsInv DEF IInv
<1>13. CASE Refuse(s) \/ BusyTimeout(s) \/ Interrupt(s) \/ Close(s)
  BY <1>13, RollbackKeepsInv
     DEF Refuse, BusyTimeout, GiveUpWaiting, Interrupt, Close
<1> QED
  BY <1>2, <1>3, <1>4, <1>5, <1>6, <1>7, <1>8, <1>9, <1>10, <1>11, <1>12, <1>13
     DEF Session, Statements

LEMMA EmptyImageSound ==
    /\ Sound(EmptyImage)
    /\ \A k \in Keys : HistoryOf(EmptyImage, k) = <<>>
<1>1. EmptyImage \in Image
  BY EmptySeq DEF EmptyImage, Image
<1>2. \A k \in Keys : RevisionsOf(EmptyImage, k) = {}
  <2>1. DOMAIN EmptyImage.snapshots = {}
    BY DEF EmptyImage
  <2> QED
    BY <2>1 DEF RevisionsOf
<1>3. \A k \in Keys : CountUpTo(EmptyImage, k, 0)
  BY <1>2 DEF CountUpTo, Versions
<1>4. Sound(EmptyImage)
  BY <1>1, <1>2, <1>3 DEF Sound, VersionsDiffer
<1>5. ASSUME NEW k \in Keys PROVE HistoryOf(EmptyImage, k) = <<>>
  <2>1. /\ HistoryOf(EmptyImage, k) \in Seq(Texts)
        /\ Len(HistoryOf(EmptyImage, k)) = 0
    BY <1>3, <1>4, HistoryTyped
  <2> QED
    BY <2>1, EmptySeq
<1> QED
  BY <1>4, <1>5

LEMMA InitInv == Init => IInv
<1> SUFFICES ASSUME Init PROVE IInv
  OBVIOUS
<1>1. /\ db = EmptyImage /\ work = EmptyImage /\ lock = NoSession
      /\ \A s \in Sessions : depth[s] = 0 /\ pc[s] = "idle" /\ call[s] = NoCall
  BY DEF Init, StartIn
<1>2. Discipline
  BY <1>1, SessionsAssumption
     DEF Init, StartIn, Discipline, SessionOK, Resting, Labels
<1> QED
  BY <1>1, <1>2, EmptyImageSound, SessionsAssumption DEF IInv, Sound

LEMMA NextInv == IInv /\ [Next]_vars => IInv'
<1> SUFFICES ASSUME IInv, [Next]_vars PROVE IInv'
  OBVIOUS
<1>1. CASE Next
  BY <1>1, SessionKeepsInv DEF Next
<1>2. CASE UNCHANGED vars
  BY <1>2 DEF vars, IInv, Discipline, SessionOK, Stage, Sound
<1> QED
  BY <1>1, <1>2

LEMMA SourcesInvariant == Spec => []IInv
  BY InitInv, NextInv, PTL DEF Spec
-----------------------------------------------------------------------------
(* Whatever importers write and however their calls end, every row satisfies
   its table's constraints, and sessions hold the lock as storage.py has it. *)
THEOREM SourcesTypeOK == Spec => []TypeOK
<1>1. IInv => TypeOK
  BY DEF IInv, Sound, Discipline, SessionOK, Resting, TypeOK
<1> QED
  BY <1>1, SourcesInvariant, PTL

(* A transaction reads the latest revision under the write lock it keeps until
   its commit, so no import is ever stopped by UNIQUE (source_key, continuity),
   UNIQUE (source_id, version), the lineage trigger or the updated_at guard. *)
THEOREM ImportersNeverCompete == Spec => []SchemaNeverObjects
<1>1. ASSUME IInv, NEW s \in Sessions PROVE ~Objection(s)
  <2>1. CASE pc[s] = "insert_source"
    BY <1>1, <2>1, CallFacts
       DEF Objection, CanInsertSource, Stage, StatementLabels
  <2>2. CASE pc[s] = "insert_snapshot"
    <3>1. /\ call[s] \in CallType /\ call[s].source \in Keys
          /\ work.snapshots = db.snapshots /\ Numbered(db, call[s])
          /\ Sound(work)
      BY <1>1, <2>2, CallFacts DEF Stage, StatementLabels
    <3>2. Numbered(work, call[s])
      BY <1>1, <3>1, SameSnapshots DEF IInv
    <3>3. PICK n \in Nat : CountUpTo(work, call[s].source, n)
      BY <3>1 DEF Sound
    <3> QED
      BY <2>2, <3>1, <3>2, <3>3, NumberedFacts DEF Objection
  <2>3. CASE pc[s] = "touch_source"
    <3>1. /\ call[s] \in CallType /\ call[s].source \in Keys
          /\ work.snapshots = Append(db.snapshots, RowOf(call[s]))
          /\ Numbered(db, call[s])
      BY <1>1, <2>3, CallFacts DEF Stage, StatementLabels
    <3>2. PICK n \in Nat : CountUpTo(db, call[s].source, n)
      BY <1>1, <3>1 DEF IInv, Sound
    <3>3. LatestOf(work, call[s].source) = Len(db.snapshots) + 1
      BY <1>1, <3>1, <3>2, AppendKeepsSound DEF IInv
    <3>4. work.snapshots[Len(db.snapshots) + 1] = RowOf(call[s])
      BY <1>1, <3>1, AppendedRow DEF IInv
    <3> QED
      BY <2>3, <3>3, <3>4 DEF Objection, CanTouchSource, RowOf
  <2> QED
    BY <2>1, <2>2, <2>3 DEF Objection
<1>2. IInv => SchemaNeverObjects
  BY <1>1 DEF SchemaNeverObjects
<1> QED
  BY <1>2, SourcesInvariant, PTL

(* What an import that returns makes durable. *)
LEMMA ExitFacts ==
    ASSUME IInv, NEW s \in Sessions, Exit(s)
    PROVE  /\ db' = work
           /\ call[s] \in CallType /\ call[s].source \in Keys
           /\ \/ /\ work.snapshots = db.snapshots
                 /\ Unchanged(db, call[s], LatestOf(db, call[s].source))
              \/ /\ work.snapshots = Append(db.snapshots, RowOf(call[s]))
                 /\ Numbered(db, call[s])
<1>1. pc[s] = "exit" /\ depth[s] = 1
  BY InTransaction DEF Exit, IInv
<1> QED
  BY <1>1, CallFacts DEF Exit, ExitTransaction, Stage

(* The clock plays no part in which revision is the latest, and the text that
   was read as latest still is at the commit. *)
THEOREM ImportsTakeEffect == Spec => IngestLeavesItsText
<1> DEFINE Left(s) ==
               LET k == call[s].source IN
               /\ LatestOf(db', k) # 0
               /\ db'.snapshots[LatestOf(db', k)].text = call[s].text
<1>1. ASSUME IInv, NEW s \in Sessions, Exit(s) PROVE Left(s)
  <2> DEFINE k == call[s].source
  <2>1. db' = work /\ call[s] \in CallType /\ k \in Keys
    BY <1>1, ExitFacts
  <2>2. CASE /\ work.snapshots = db.snapshots
             /\ Unchanged(db, call[s], LatestOf(db, k))
    <3>1. LatestOf(work, k) = LatestOf(db, k)
      BY <1>1, <2>1, <2>2, SameSnapshots DEF IInv
    <3> QED
      BY <2>1, <2>2, <3>1 DEF Unchanged
  <2>3. CASE /\ work.snapshots = Append(db.snapshots, RowOf(call[s]))
             /\ Numbered(db, call[s])
    <3>1. PICK n \in Nat : CountUpTo(db, k, n)
      BY <1>1, <2>1 DEF IInv, Sound
    <3>2. /\ LatestOf(work, k) = Len(db.snapshots) + 1
          /\ Len(db.snapshots) \in Nat
          /\ work.snapshots[Len(db.snapshots) + 1] = RowOf(call[s])
      BY <1>1, <2>1, <2>3, <3>1, AppendKeepsSound, AppendedRow DEF IInv
    <3> QED
      BY <2>1, <3>2 DEF RowOf
  <2> QED
    BY <1>1, <2>2, <2>3, ExitFacts
<1>2. IInv /\ [Next]_vars => [\A s \in Sessions : Exit(s) => Left(s)]_vars
  BY <1>1
<1> QED
  BY <1>2, SourcesInvariant, PTL DEF Spec, IngestLeavesItsText
-----------------------------------------------------------------------------
(* The repository changes only when a transaction commits. *)
LEMMA OnlyExitsChange ==
    ASSUME [Next]_vars, db' # db
    PROVE  \E s \in Sessions : Exit(s)
  BY DEF Next, vars, Session, Statements, CallIngest, Enter, EnterTransaction,
         FindSource, InsertSource, RecordSource, ReadLatest, InsertSnapshot,
         TouchSource, RecordSnapshot, Statement, Refuse, CommitBusy, CommitFails,
         BusyTimeout, GiveUpWaiting, Interrupt, Close, Rollback

LEMMA SameHistory ==
    ASSUME NEW image, Sound(image), NEW image2 \in Image,
           image2.snapshots = image.snapshots, NEW k \in Keys
    PROVE  HistoryOf(image2, k) = HistoryOf(image, k)
<1>1. /\ Sound(image2)
      /\ RevisionsOf(image2, k) = RevisionsOf(image, k)
      /\ Versions(image2, k) = Versions(image, k)
  BY SameSnapshots
<1>2. ASSUME NEW version \in Versions(image, k)
      PROVE  TextOf(image2, k, version) = TextOf(image, k, version)
  <2>1. PICK i \in RevisionsOf(image, k) : image.snapshots[i].version = version
    BY DEF Versions
  <2>2. TextOf(image, k, version) = image.snapshots[i].text
    BY <2>1, TextOfRow
  <2>3. TextOf(image2, k, version) = image2.snapshots[i].text
    BY <1>1, <2>1, TextOfRow
  <2> QED
    BY <2>2, <2>3
<1> QED
  BY <1>1, <1>2 DEF HistoryOf

(* One commit appends at most one revision, whose text is new. *)
LEMMA ExitImplements ==
    ASSUME IInv, NEW s \in Sessions, Exit(s)
    PROVE  Histories!Next \/ UNCHANGED [k \in Keys |-> HistoryOf(db, k)]
<1> DEFINE src == call[s].source
           h == [k \in Keys |-> HistoryOf(db, k)]
           h2 == [k \in Keys |-> HistoryOf(work, k)]
<1>1. /\ db' = work /\ call[s] \in CallType /\ src \in Keys
      /\ call[s].text \in Texts
  BY ExitFacts DEF CallType
<1>2. h' = h2
  BY <1>1
<1>3. CASE work.snapshots = db.snapshots
  <2>1. \A k \in Keys : HistoryOf(work, k) = HistoryOf(db, k)
    BY <1>3, SameHistory DEF IInv
  <2> QED
    BY <1>2, <2>1
<1>4. CASE /\ work.snapshots = Append(db.snapshots, RowOf(call[s]))
           /\ Numbered(db, call[s])
  <2>1. \A k \in Keys :
            HistoryOf(work, k) =
                IF k = src THEN Append(HistoryOf(db, k), call[s].text)
                ELSE HistoryOf(db, k)
    BY <1>1, <1>4, AppendedHistory DEF IInv
  <2>2. h2 = [h EXCEPT ![src] = Append(@, call[s].text)]
    BY <1>1, <2>1
  <2>3. PICK n \in Nat : CountUpTo(db, src, n)
    BY <1>1 DEF IInv, Sound
  <2>4. /\ HistoryOf(db, src) \in Seq(Texts) /\ Len(HistoryOf(db, src)) = n
        /\ \A i \in RevisionsOf(db, src) :
               HistoryOf(db, src)[db.snapshots[i].version] = db.snapshots[i].text
    BY <1>1, <2>3, HistoryTyped DEF IInv
  <2>5. ASSUME HistoryOf(db, src) # <<>>
        PROVE  HistoryOf(db, src)[n] # call[s].text
    <3>1. n # 0
      BY <2>4, <2>5, EmptySeq
    <3>2. /\ LatestOf(db, src) \in RevisionsOf(db, src)
          /\ db.snapshots[LatestOf(db, src)].version = n
          /\ LatestOf(db, src) # 0
      BY <1>1, <2>3, <3>1, LatestFacts DEF IInv
    <3>3. db.snapshots[LatestOf(db, src)].text # call[s].text
      BY <1>4, <3>2 DEF Numbered, Unchanged
    <3> QED
      BY <2>4, <3>2, <3>3
  <2>6. h[src] = HistoryOf(db, src)
    BY <1>1
  <2>7. Histories!Ingest(src, call[s].text)
    BY <1>2, <2>2, <2>4, <2>5, <2>6 DEF Histories!Ingest, Histories!Latest
  <2> QED
    BY <1>1, <2>7 DEF Histories!Next
<1> QED
  BY <1>3, <1>4, ExitFacts

(* Imports by any number of sessions, with failing statements and commits and
   dying processes, are atomic appends to the histories of their sources. *)
THEOREM HistoriesImplemented == Spec => HistorySpec
<1>1. Init => Histories!Init
  BY EmptyImageSound DEF Init, StartIn, Histories!Init
<1>2. IInv /\ [Next]_vars =>
          [Histories!Next]_([k \in Keys |-> HistoryOf(db, k)])
  <2> SUFFICES ASSUME IInv, [Next]_vars
               PROVE  [Histories!Next]_([k \in Keys |-> HistoryOf(db, k)])
    OBVIOUS
  <2>1. CASE db' = db
    BY <2>1
  <2>2. CASE db' # db
    BY <2>2, OnlyExitsChange, ExitImplements
  <2> QED
    BY <2>1, <2>2
<1> QED
  BY <1>1, <1>2, SourcesInvariant, PTL DEF Spec, HistorySpec, Histories!Spec
-----------------------------------------------------------------------------
(* The audit of sources. *)

(* The entries that created source k and snapshot i. *)
Creations(image, k) ==
    {n \in DOMAIN image.ledger :
        image.ledger[n].event = "source.created" /\ image.ledger[n].source = k}

Records(image, i) ==
    {n \in DOMAIN image.ledger :
        /\ image.ledger[n].event = "source_snapshot.created"
        /\ image.ledger[n].snapshot = i}

(* One entry tells of each source and one, later, of each of its snapshots. *)
TellsSource(image, n, k) ==
    /\ n \in DOMAIN image.ledger
    /\ Creations(image, k) = {n}
    /\ image.ledger[n].name = k
    /\ image.ledger[n].at = image.sources[k].created

TellsRow(image, n, i) ==
    LET entry == image.ledger[n]
        row   == image.snapshots[i]
    IN  /\ n \in DOMAIN image.ledger
        /\ Records(image, i) = {n}
        /\ entry.source = row.source
        /\ entry.name = row.source
        /\ entry.version = row.version
        /\ entry.text = row.text
        /\ entry.previous = row.previous
        /\ entry.at = row.created
        /\ \A m \in Creations(image, row.source) : m < n

SourcesTold(image) ==
    \A k \in Keys : Known(image, k) =>
        /\ image.sources[k].name = k
        /\ \E n \in DOMAIN image.ledger : TellsSource(image, n, k)

RowsTold(image) ==
    \A i \in DOMAIN image.snapshots :
        /\ Known(image, image.snapshots[i].source)
        /\ \E n \in DOMAIN image.ledger : TellsRow(image, n, i)

(* Versions, rows and entries are in one order. *)
InOrder(image) ==
    \A i, j \in DOMAIN image.snapshots :
        /\ image.snapshots[i].source = image.snapshots[j].source
        /\ image.snapshots[i].version < image.snapshots[j].version
        => /\ i < j
           /\ \A m \in Records(image, i), n \in Records(image, j) : m < n

Chained(image) ==
    \A i \in DOMAIN image.snapshots :
        LET row == image.snapshots[i]
        IN  IF row.version = 1 THEN row.previous = 0
            ELSE /\ row.previous \in RevisionsOf(image, row.source)
                 /\ image.snapshots[row.previous].version = row.version - 1

(* No entry tells of what is not there. *)
NoStranger(image) ==
    \A n \in DOMAIN image.ledger :
        /\ image.ledger[n].event = "source.created" =>
               /\ image.ledger[n].source \in Keys
               /\ Known(image, image.ledger[n].source)
        /\ image.ledger[n].event = "source_snapshot.created" =>
               image.ledger[n].snapshot \in DOMAIN image.snapshots

Replays(image) ==
    /\ Sound(image)
    /\ SourcesTold(image)
    /\ RowsTold(image)
    /\ InOrder(image)
    /\ Chained(image)
    /\ NoStranger(image)

(* A source has a revision and was updated by the last. *)
SettledSource(image, k) ==
    /\ RevisionsOf(image, k) # {}
    /\ \A i \in RevisionsOf(image, k) :
           IsLatest(image, k, i) =>
               image.sources[k].updated = image.snapshots[i].created

Auditable(image) ==
    /\ Replays(image)
    /\ \A k \in Keys : Known(image, k) => SettledSource(image, k)
-----------------------------------------------------------------------------
(* What a call adds. *)
SourceRowOf(c) == [name |-> c.source, created |-> c.at, updated |-> c.at]

SourceEntryOf(c) ==
    [event |-> "source.created", source |-> c.source, name |-> c.source,
     at |-> c.at]

SnapshotEntryOf(c, i) ==
    [event |-> "source_snapshot.created", snapshot |-> i, source |-> c.source,
     name |-> c.source, version |-> c.version, text |-> c.text,
     previous |-> c.latest, at |-> c.at]

WithNewSource(image, c) == WithSourceEntry(WithSource(image, c), c)

WithNewRevision(image, c) ==
    WithSnapshotEntry(WithTouchedSource(WithSnapshot(image, c), c), c)

LEMMA NewSourceParts ==
    ASSUME NEW image \in Image, NEW c \in CallType
    PROVE  LET image2 == WithNewSource(image, c)
           IN  /\ image2 \in Image
               /\ image2.snapshots = image.snapshots
               /\ image2.sources = [image.sources EXCEPT ![c.source] = SourceRowOf(c)]
               /\ image2.ledger = Append(image.ledger, SourceEntryOf(c))
               /\ Known(image2, c.source)
<1> DEFINE image1 == WithSource(image, c)
           image2 == WithNewSource(image, c)
<1>1. /\ image1 \in Image /\ image1.snapshots = image.snapshots
      /\ Known(image1, c.source)
  BY SourceTyped
<1>2. image1.sources = [image.sources EXCEPT ![c.source] = SourceRowOf(c)]
      /\ image1.ledger = image.ledger
  BY DEF WithSource, SourceRowOf, Image
<1> HIDE DEF image1
<1>3. /\ WithSourceEntry(image1, c) \in Image
      /\ WithSourceEntry(image1, c).snapshots = image1.snapshots
      /\ WithSourceEntry(image1, c).sources = image1.sources
  BY <1>1, SourceTyped
<1>4. WithSourceEntry(image1, c).ledger = Append(image1.ledger, SourceEntryOf(c))
  BY <1>1 DEF WithSourceEntry, WithEntry, SourceEntryOf, Image
<1>5. image2 = WithSourceEntry(image1, c)
  BY DEF WithNewSource, image1
<1> HIDE DEF image2
<1>6. Known(image2, c.source)
  BY <1>1, <1>3, <1>5 DEF Known
<1> QED
  BY <1>1, <1>2, <1>3, <1>4, <1>5, <1>6 DEF image2

LEMMA NewRevisionParts ==
    ASSUME NEW image \in Image, NEW c \in CallType, RowOf(c) \in SnapshotRow,
           Known(image, c.source)
    PROVE  LET image2 == WithNewRevision(image, c)
           IN  /\ image2 \in Image
               /\ image2.snapshots = Append(image.snapshots, RowOf(c))
               /\ image2.sources = [image.sources EXCEPT ![c.source] =
                                       [image.sources[c.source] EXCEPT !.updated = c.at]]
               /\ image2.ledger =
                      Append(image.ledger,
                             SnapshotEntryOf(c, Len(image.snapshots) + 1))
<1> DEFINE image1 == WithSnapshot(image, c)
           image2 == WithTouchedSource(image1, c)
           image3 == WithSnapshotEntry(image2, c)
<1>1. /\ image1 \in Image /\ image1.sources = image.sources
      /\ image1.snapshots = Append(image.snapshots, RowOf(c))
  BY SnapshotTyped
<1>2. image1.ledger = image.ledger
  BY DEF WithSnapshot, Image
<1> HIDE DEF image1
<1>3. Known(image1, c.source)
  BY <1>1 DEF Known
<1>4. image2 \in Image /\ image2.snapshots = image1.snapshots
  BY <1>1, <1>3, TouchTyped
<1>5. /\ image2.sources = [image1.sources EXCEPT ![c.source] =
                              [image1.sources[c.source] EXCEPT !.updated = c.at]]
      /\ image2.ledger = image1.ledger
  BY <1>1 DEF WithTouchedSource, Image
<1> HIDE DEF image2
<1>6. /\ image.snapshots \in Seq(SnapshotRow)
      /\ Len(image2.snapshots) = Len(image.snapshots) + 1
      /\ image2.snapshots # <<>>
  BY <1>1, <1>4, AppendProperties, EmptySeq DEF Image
<1>7. image3 \in Image /\ image3.snapshots = image2.snapshots
  BY <1>4, <1>6, SnapshotEntryTyped
<1>8. /\ image3.sources = image2.sources
      /\ image3.ledger = Append(image2.ledger,
                                SnapshotEntryOf(c, Len(image2.snapshots)))
  BY <1>4 DEF WithSnapshotEntry, WithEntry, SnapshotEntryOf, Image
<1>9. WithNewRevision(image, c) = image3
  BY DEF WithNewRevision, image1, image2
<1> HIDE DEF image3
<1> QED
  BY <1>1, <1>2, <1>4, <1>5, <1>6, <1>7, <1>8, <1>9

(* A ledger with one more entry. *)
LEMMA OneMoreEntry ==
    ASSUME NEW image \in Image, NEW image2 \in Image, NEW entry,
           image2.ledger = Append(image.ledger, entry)
    PROVE  /\ Len(image.ledger) \in Nat
           /\ DOMAIN image.ledger = 1 .. Len(image.ledger)
           /\ DOMAIN image2.ledger = 1 .. Len(image.ledger) + 1
           /\ \A n \in DOMAIN image.ledger : image2.ledger[n] = image.ledger[n]
           /\ image2.ledger[Len(image.ledger) + 1] = entry
<1>1. image.ledger \in Seq(SourceEntry \cup SnapshotEntry)
  BY DEF Image
<1> QED
  BY <1>1, LenProperties, AppendProperties DEF Image
-----------------------------------------------------------------------------
(* A new source, which has no revision yet. *)
LEMMA NewSourceReplays ==
    ASSUME NEW image, Replays(image), NEW c \in CallType,
           ~Known(image, c.source)
    PROVE  LET image2 == WithNewSource(image, c)
           IN  /\ Replays(image2)
               /\ \A k \in Keys \ {c.source} :
                      /\ image2.sources[k] = image.sources[k]
                      /\ SettledSource(image, k) => SettledSource(image2, k)
<1> DEFINE image2 == WithNewSource(image, c)
           src == c.source
           new == Len(image.ledger) + 1
<1>1. image \in Image /\ src \in Keys
  BY DEF Replays, Sound, CallType
<1>2. /\ image2 \in Image
      /\ image2.snapshots = image.snapshots
      /\ image2.sources = [image.sources EXCEPT ![src] = SourceRowOf(c)]
      /\ image2.ledger = Append(image.ledger, SourceEntryOf(c))
      /\ Known(image2, src)
  BY <1>1, NewSourceParts
<1> HIDE DEF image2
<1>3. /\ Sound(image2)
      /\ \A k \in Keys : RevisionsOf(image2, k) = RevisionsOf(image, k)
  BY <1>2, SameSnapshots DEF Replays
<1>4. /\ Len(image.ledger) \in Nat
      /\ DOMAIN image.ledger = 1 .. Len(image.ledger)
      /\ DOMAIN image2.ledger = 1 .. Len(image.ledger) + 1
      /\ \A n \in DOMAIN image.ledger : image2.ledger[n] = image.ledger[n]
      /\ image2.ledger[new] = SourceEntryOf(c)
  BY <1>1, <1>2, OneMoreEntry
<1>5. /\ image2.sources[src] = SourceRowOf(c)
      /\ \A k \in Keys \ {src} : image2.sources[k] = image.sources[k]
      /\ \A k \in Keys \ {src} : Known(image2, k) <=> Known(image, k)
  BY <1>1, <1>2 DEF Image, Known
<1>6. /\ SourceEntryOf(c).event = "source.created"
      /\ SourceEntryOf(c).source = src /\ SourceEntryOf(c).name = src
      /\ SourceEntryOf(c).at = c.at
      /\ SourceRowOf(c).name = src /\ SourceRowOf(c).created = c.at
  BY DEF SourceEntryOf, SourceRowOf
<1>7. Creations(image, src) = {}
  BY <1>1 DEF Replays, NoStranger, Creations
<1>8. /\ Creations(image2, src) = {new}
      /\ \A k \in Keys \ {src} : Creations(image2, k) = Creations(image, k)
      /\ \A i : Records(image2, i) = Records(image, i)
  <2>1. new \in DOMAIN image2.ledger /\ new \notin DOMAIN image.ledger
        /\ DOMAIN image2.ledger = DOMAIN image.ledger \cup {new}
    BY <1>4
  <2>2. Creations(image2, src) = Creations(image, src) \cup {new}
    BY <1>4, <1>6, <2>1 DEF Creations
  <2>3. ASSUME NEW k \in Keys \ {src} PROVE Creations(image2, k) = Creations(image, k)
    BY <1>4, <1>6, <2>1 DEF Creations
  <2>4. ASSUME NEW i PROVE Records(image2, i) = Records(image, i)
    BY <1>4, <1>6, <2>1 DEF Records
  <2> QED
    BY <1>7, <2>2, <2>3, <2>4
<1>9. SourcesTold(image2)
  <2> SUFFICES ASSUME NEW k \in Keys, Known(image2, k)
               PROVE  /\ image2.sources[k].name = k
                      /\ \E n \in DOMAIN image2.ledger : TellsSource(image2, n, k)
    BY DEF SourcesTold
  <2>1. CASE k = src
    <3>1. TellsSource(image2, new, src)
      BY <1>4, <1>5, <1>6, <1>8 DEF TellsSource
    <3> QED
      BY <1>4, <1>5, <1>6, <2>1, <3>1
  <2>2. CASE k # src
    <3>1. PICK n \in DOMAIN image.ledger : TellsSource(image, n, k)
      BY <1>5, <2>2 DEF Replays, SourcesTold
    <3>2. TellsSource(image2, n, k) /\ n \in DOMAIN image2.ledger
      BY <1>4, <1>5, <1>8, <2>2, <3>1 DEF TellsSource
    <3>3. image.sources[k].name = k
      BY <1>5, <2>2 DEF Replays, SourcesTold
    <3> QED
      BY <1>5, <2>2, <3>2, <3>3
  <2> QED
    BY <2>1, <2>2
<1>10. \A i \in DOMAIN image.snapshots :
           /\ image.snapshots[i].source \in Keys
           /\ image.snapshots[i].source # src
  BY <1>1, RowTyped DEF Replays, RowsTold, SnapshotRow
<1>11. RowsTold(image2)
  <2> SUFFICES ASSUME NEW i \in DOMAIN image.snapshots
               PROVE  /\ Known(image2, image2.snapshots[i].source)
                      /\ \E n \in DOMAIN image2.ledger : TellsRow(image2, n, i)
    BY <1>2 DEF RowsTold
  <2>1. PICK n \in DOMAIN image.ledger : TellsRow(image, n, i)
    BY DEF Replays, RowsTold
  <2>2. TellsRow(image2, n, i) /\ n \in DOMAIN image2.ledger
    BY <1>2, <1>4, <1>8, <1>10, <2>1 DEF TellsRow
  <2>3. Known(image2, image2.snapshots[i].source)
    BY <1>2, <1>5, <1>10 DEF Replays, RowsTold
  <2> QED
    BY <2>2, <2>3
<1>12. InOrder(image2)
  BY <1>2, <1>8 DEF Replays, InOrder
<1>13. Chained(image2)
  BY <1>2, <1>3, <1>10 DEF Replays, Chained
<1>14. NoStranger(image2)
  <2> SUFFICES ASSUME NEW n \in DOMAIN image2.ledger
               PROVE  /\ image2.ledger[n].event = "source.created" =>
                             /\ image2.ledger[n].source \in Keys
                             /\ Known(image2, image2.ledger[n].source)
                      /\ image2.ledger[n].event = "source_snapshot.created" =>
                             image2.ledger[n].snapshot \in DOMAIN image2.snapshots
    BY DEF NoStranger
  <2>1. CASE n = new
    BY <1>1, <1>2, <1>4, <1>6, <2>1
  <2>2. CASE n # new
    <3>1. n \in DOMAIN image.ledger /\ image2.ledger[n] = image.ledger[n]
      BY <1>4, <2>2
    <3> QED
      BY <1>2, <1>5, <3>1 DEF Replays, NoStranger
  <2> QED
    BY <2>1, <2>2
<1>15. Replays(image2)
  BY <1>3, <1>9, <1>11, <1>12, <1>13, <1>14 DEF Replays
<1>16. ASSUME NEW k \in Keys \ {src}, SettledSource(image, k)
       PROVE  SettledSource(image2, k)
  BY <1>2, <1>3, <1>5, <1>16 DEF SettledSource, IsLatest
<1> QED
  BY <1>5, <1>15, <1>16 DEF image2

(* A new revision of a source, and with it the source is settled. *)
LEMMA NewRevisionReplays ==
    ASSUME NEW image, Replays(image), NEW c \in CallType,
           Known(image, c.source), Numbered(image, c)
    PROVE  LET image2 == WithNewRevision(image, c)
           IN  /\ Replays(image2)
               /\ SettledSource(image2, c.source)
               /\ image2.sources[c.source].name = image.sources[c.source].name
               /\ image2.sources[c.source].created = image.sources[c.source].created
               /\ Known(image2, c.source)
               /\ \A k \in Keys \ {c.source} :
                      /\ image2.sources[k] = image.sources[k]
                      /\ SettledSource(image, k) => SettledSource(image2, k)
<1> DEFINE image2 == WithNewRevision(image, c)
           src == c.source
           new == Len(image.ledger) + 1
           newRow == Len(image.snapshots) + 1
           entry == SnapshotEntryOf(c, newRow)
<1>1. image \in Image /\ Sound(image) /\ src \in Keys /\ c.at \in Times
  BY DEF Replays, Sound, CallType
<1>2. PICK top \in Nat : CountUpTo(image, src, top)
  BY <1>1 DEF Sound
<1>3. c.version = top + 1 /\ RowOf(c) \in SnapshotRow
  BY <1>1, <1>2, NumberedFacts
<1>4. /\ image2 \in Image
      /\ image2.snapshots = Append(image.snapshots, RowOf(c))
      /\ image2.sources = [image.sources EXCEPT ![src] =
                              [image.sources[src] EXCEPT !.updated = c.at]]
      /\ image2.ledger = Append(image.ledger, entry)
  BY <1>1, <1>3, NewRevisionParts
<1> HIDE DEF image2
<1>5. /\ DOMAIN image.snapshots = 1 .. Len(image.snapshots)
      /\ Len(image.snapshots) \in Nat
      /\ DOMAIN image2.snapshots = 1 .. Len(image.snapshots) + 1
      /\ DOMAIN image2.snapshots = DOMAIN image.snapshots \cup {newRow}
      /\ newRow \notin DOMAIN image.snapshots
      /\ \A i \in DOMAIN image.snapshots :
             i < newRow /\ image2.snapshots[i] = image.snapshots[i]
      /\ image2.snapshots[newRow] = RowOf(c)
  <2>1. /\ DOMAIN image.snapshots = 1..Len(image.snapshots)
        /\ Len(image.snapshots) \in Nat
        /\ DOMAIN image2.snapshots = 1..Len(image.snapshots) + 1
        /\ \A i \in DOMAIN image.snapshots : image2.snapshots[i] = image.snapshots[i]
        /\ image2.snapshots[Len(image.snapshots) + 1] = RowOf(c)
    BY <1>1, <1>4, AppendedRow
  <2> QED
    BY <2>1
<1>6. /\ RevisionsOf(image2, src) = RevisionsOf(image, src) \cup {newRow}
      /\ \A k \in Keys \ {src} : RevisionsOf(image2, k) = RevisionsOf(image, k)
  BY <1>1, <1>4, AppendedRevisions
<1>7. Sound(image2) /\ CountUpTo(image2, src, top + 1)
  BY <1>1, <1>2, <1>4, AppendKeepsSound
<1>8. /\ Len(image.ledger) \in Nat
      /\ DOMAIN image.ledger = 1 .. Len(image.ledger)
      /\ DOMAIN image2.ledger = 1 .. Len(image.ledger) + 1
      /\ \A n \in DOMAIN image.ledger : image2.ledger[n] = image.ledger[n]
      /\ image2.ledger[new] = entry
  BY <1>1, <1>4, OneMoreEntry
<1>9. /\ new \in DOMAIN image2.ledger /\ new \notin DOMAIN image.ledger
      /\ DOMAIN image2.ledger = DOMAIN image.ledger \cup {new}
      /\ \A n \in DOMAIN image.ledger : n < new
  BY <1>8
<1>10. /\ entry.event = "source_snapshot.created" /\ entry.snapshot = newRow
       /\ entry.source = src /\ entry.name = src /\ entry.version = c.version
       /\ entry.text = c.text /\ entry.previous = c.latest /\ entry.at = c.at
  BY DEF SnapshotEntryOf
<1>11. /\ RowOf(c).source = src /\ RowOf(c).version = c.version
       /\ RowOf(c).text = c.text /\ RowOf(c).previous = c.latest
       /\ RowOf(c).created = c.at
  BY DEF RowOf
<1> HIDE DEF entry
<1>12. /\ image2.sources[src].name = image.sources[src].name
       /\ image2.sources[src].created = image.sources[src].created
       /\ image2.sources[src].updated = c.at
       /\ Known(image2, src)
       /\ \A k \in Keys \ {src} : image2.sources[k] = image.sources[k]
  <2> DEFINE row == [image.sources[src] EXCEPT !.updated = c.at]
  <2>1. image.sources[src] \in SourceRow
    BY <1>1 DEF Known, Image
  <2>2. /\ row.name = image.sources[src].name
        /\ row.created = image.sources[src].created
        /\ row.updated = c.at
        /\ "created" \in DOMAIN row
    BY <2>1 DEF SourceRow
  <2>3. "created" \notin DOMAIN NoSource
    BY DEF NoSource
  <2> HIDE DEF row
  <2>4. image2.sources[src] = row
        /\ \A k \in Keys \ {src} : image2.sources[k] = image.sources[k]
    BY <1>1, <1>4 DEF Image, row
  <2> QED
    BY <2>2, <2>3, <2>4 DEF Known
<1>13. \A k \in Keys : Known(image2, k) <=> Known(image, k)
  BY <1>12 DEF Known
<1>14. /\ \A k : Creations(image2, k) = Creations(image, k)
       /\ Records(image2, newRow) = {new}
       /\ \A i \in DOMAIN image.snapshots : Records(image2, i) = Records(image, i)
  <2>1. ASSUME NEW k PROVE Creations(image2, k) = Creations(image, k)
    BY <1>8, <1>9, <1>10 DEF Creations
  <2>2. Records(image, newRow) = {}
    BY <1>5 DEF Replays, NoStranger, Records
  <2>3. Records(image2, newRow) = Records(image, newRow) \cup {new}
    BY <1>8, <1>9, <1>10 DEF Records
  <2>4. ASSUME NEW i \in DOMAIN image.snapshots
        PROVE  Records(image2, i) = Records(image, i)
    <3>1. i # newRow
      BY <1>5
    <3> QED
      BY <1>8, <1>9, <1>10, <3>1 DEF Records
  <2> QED
    BY <2>1, <2>2, <2>3, <2>4
<1>15. SourcesTold(image2)
  <2> SUFFICES ASSUME NEW k \in Keys, Known(image2, k)
               PROVE  /\ image2.sources[k].name = k
                      /\ \E n \in DOMAIN image2.ledger : TellsSource(image2, n, k)
    BY DEF SourcesTold
  <2>1. /\ image2.sources[k].name = image.sources[k].name
        /\ image2.sources[k].created = image.sources[k].created
    BY <1>12
  <2>2. /\ image.sources[k].name = k
        /\ \E n \in DOMAIN image.ledger : TellsSource(image, n, k)
    BY <1>13 DEF Replays, SourcesTold
  <2>3. PICK n \in DOMAIN image.ledger : TellsSource(image, n, k)
    BY <2>2
  <2>4. TellsSource(image2, n, k) /\ n \in DOMAIN image2.ledger
    BY <1>8, <1>9, <1>14, <2>1, <2>3 DEF TellsSource
  <2> QED
    BY <2>1, <2>2, <2>4
<1>16. RowsTold(image2)
  <2> SUFFICES ASSUME NEW i \in DOMAIN image2.snapshots
               PROVE  /\ Known(image2, image2.snapshots[i].source)
                      /\ \E n \in DOMAIN image2.ledger : TellsRow(image2, n, i)
    BY DEF RowsTold
  <2>1. CASE i = newRow
    <3>1. \A m \in Creations(image, src) : m < new
      BY <1>9 DEF Creations
    <3>2. TellsRow(image2, new, newRow)
      BY <1>5, <1>8, <1>9, <1>10, <1>11, <1>14, <3>1 DEF TellsRow
    <3> QED
      BY <1>5, <1>9, <1>11, <1>12, <2>1, <3>2
  <2>2. CASE i # newRow
    <3>1. i \in DOMAIN image.snapshots /\ image2.snapshots[i] = image.snapshots[i]
      BY <1>5, <2>2
    <3>2. image.snapshots[i].source \in Keys
      BY <1>1, <3>1, RowTyped DEF SnapshotRow
    <3>3. PICK n \in DOMAIN image.ledger : TellsRow(image, n, i)
      BY <3>1 DEF Replays, RowsTold
    <3>4. TellsRow(image2, n, i) /\ n \in DOMAIN image2.ledger
      BY <1>8, <1>9, <1>14, <3>1, <3>3 DEF TellsRow
    <3>5. Known(image2, image2.snapshots[i].source)
      BY <1>13, <3>1, <3>2 DEF Replays, RowsTold
    <3> QED
      BY <3>4, <3>5
  <2> QED
    BY <2>1, <2>2
<1>17. \A i \in RevisionsOf(image, src) :
           image.snapshots[i].version \in 1 .. top
  BY <1>2 DEF CountUpTo, Versions
<1>18. InOrder(image2)
  <2> SUFFICES ASSUME NEW i \in DOMAIN image2.snapshots,
                      NEW j \in DOMAIN image2.snapshots,
                      image2.snapshots[i].source = image2.snapshots[j].source,
                      image2.snapshots[i].version < image2.snapshots[j].version
               PROVE  /\ i < j
                      /\ \A m \in Records(image2, i), n \in Records(image2, j) : m < n
    BY DEF InOrder
  <2>1. CASE i = newRow
    <3>1. i = j \/ j \in RevisionsOf(image, src)
      BY <1>5, <1>11, <2>1 DEF RevisionsOf
    <3>2. image2.snapshots[i].version = top + 1
      BY <1>3, <1>5, <1>11, <2>1
    <3>3. j \in RevisionsOf(image, src) => image2.snapshots[j].version \in 1 .. top
      BY <1>5, <1>17 DEF RevisionsOf
    <3> QED
      BY <3>1, <3>2, <3>3
  <2>2. CASE i # newRow /\ j = newRow
    <3>1. i \in DOMAIN image.snapshots
      BY <1>5, <2>2
    <3>2. Records(image2, i) \subseteq DOMAIN image.ledger
      BY <1>14, <3>1 DEF Records
    <3> QED
      BY <1>5, <1>9, <1>14, <2>2, <3>1, <3>2
  <2>3. CASE i # newRow /\ j # newRow
    <3>1. i \in DOMAIN image.snapshots /\ j \in DOMAIN image.snapshots
      BY <1>5, <2>3
    <3> QED
      BY <1>5, <1>14, <3>1 DEF Replays, InOrder
  <2> QED
    BY <2>1, <2>2, <2>3
<1>19. Chained(image2)
  <2> SUFFICES ASSUME NEW i \in DOMAIN image2.snapshots
               PROVE  LET row == image2.snapshots[i]
                      IN  IF row.version = 1 THEN row.previous = 0
                          ELSE /\ row.previous \in RevisionsOf(image2, row.source)
                               /\ image2.snapshots[row.previous].version = row.version - 1
    BY DEF Chained
  <2>1. CASE i = newRow
    <3>1. c.latest = LatestOf(image, src)
      BY DEF Numbered
    <3>2. CASE top = 0
      BY <1>1, <1>2, <1>3, <1>5, <1>11, <2>1, <3>1, <3>2, LatestFacts
    <3>3. CASE top # 0
      <4>1. /\ c.latest \in RevisionsOf(image, src)
            /\ image.snapshots[c.latest].version = top
        BY <1>1, <1>2, <3>1, <3>3, LatestFacts
      <4>2. c.latest \in DOMAIN image.snapshots
        BY <4>1 DEF RevisionsOf
      <4>3. /\ c.latest \in RevisionsOf(image2, src)
            /\ image2.snapshots[c.latest].version = top
        BY <1>5, <1>6, <4>1, <4>2
      <4>4. /\ image2.snapshots[i].source = src
            /\ image2.snapshots[i].version = top + 1
            /\ image2.snapshots[i].previous = c.latest
        BY <1>3, <1>5, <1>11, <2>1
      <4>5. top + 1 # 1 /\ (top + 1) - 1 = top
        BY <3>3
      <4> HIDE DEF src
      <4> QED
        BY <4>3, <4>4, <4>5
    <3> QED
      BY <3>2, <3>3
  <2>2. CASE i # newRow
    <3>1. i \in DOMAIN image.snapshots /\ image2.snapshots[i] = image.snapshots[i]
      BY <1>5, <2>2
    <3>2. image.snapshots[i].source \in Keys
      BY <1>1, <3>1, RowTyped DEF SnapshotRow
    <3>3. RevisionsOf(image, image.snapshots[i].source)
              \subseteq RevisionsOf(image2, image.snapshots[i].source)
      BY <1>6, <3>2
    <3>4. \A j \in RevisionsOf(image, image.snapshots[i].source) :
              image2.snapshots[j] = image.snapshots[j]
      BY <1>5 DEF RevisionsOf
    <3> QED
      BY <3>1, <3>3, <3>4 DEF Replays, Chained
  <2> QED
    BY <2>1, <2>2
<1>20. NoStranger(image2)
  <2> SUFFICES ASSUME NEW n \in DOMAIN image2.ledger
               PROVE  /\ image2.ledger[n].event = "source.created" =>
                             /\ image2.ledger[n].source \in Keys
                             /\ Known(image2, image2.ledger[n].source)
                      /\ image2.ledger[n].event = "source_snapshot.created" =>
                             image2.ledger[n].snapshot \in DOMAIN image2.snapshots
    BY DEF NoStranger
  <2>1. CASE n = new
    BY <1>5, <1>8, <1>10, <2>1
  <2>2. CASE n # new
    <3>1. n \in DOMAIN image.ledger /\ image2.ledger[n] = image.ledger[n]
      BY <1>8, <1>9, <2>2
    <3> QED
      BY <1>5, <1>13, <3>1 DEF Replays, NoStranger
  <2> QED
    BY <2>1, <2>2
<1>21. Replays(image2)
  BY <1>7, <1>15, <1>16, <1>18, <1>19, <1>20 DEF Replays
<1>22. SettledSource(image2, src)
  <2>1. ASSUME NEW i \in RevisionsOf(image2, src), IsLatest(image2, src, i)
        PROVE  i = newRow
    <3>1. newRow \in RevisionsOf(image2, src)
      BY <1>6
    <3>2. image2.snapshots[newRow].version = top + 1
      BY <1>3, <1>5, <1>11
    <3>3. image2.snapshots[i].version \in 1 .. top + 1
      BY <1>7 DEF CountUpTo, Versions
    <3>4. image2.snapshots[newRow].version <= image2.snapshots[i].version
      BY <2>1, <3>1 DEF IsLatest
    <3>5. image2.snapshots[i].version = image2.snapshots[newRow].version
      BY <3>2, <3>3, <3>4
    <3> QED
      BY <1>1, <1>7, <3>1, <3>5 DEF Sound, VersionsDiffer
  <2> QED
    BY <1>5, <1>6, <1>11, <1>12, <2>1 DEF SettledSource
<1>23. ASSUME NEW k \in Keys \ {src}, SettledSource(image, k)
       PROVE  SettledSource(image2, k)
  <2>1. RevisionsOf(image2, k) = RevisionsOf(image, k)
    BY <1>6
  <2>2. \A i \in RevisionsOf(image, k) : image2.snapshots[i] = image.snapshots[i]
    BY <1>5 DEF RevisionsOf
  <2> QED
    BY <1>12, <1>23, <2>1, <2>2 DEF SettledSource, IsLatest
<1> QED
  BY <1>12, <1>21, <1>22, <1>23 DEF image2
-----------------------------------------------------------------------------
(* The working image, from each statement of a call, in terms of the committed
   repository. *)
Base(image, c) ==
    IF Known(image, c.source) THEN image ELSE WithNewSource(image, c)

Draft(s) ==
    LET c == call[s]
    IN  /\ pc[s] \in {"find_source", "insert_source"} => work = db
        /\ pc[s] = "record_source" =>
               ~Known(db, c.source) /\ work = WithSource(db, c)
        /\ pc[s] \in {"read_latest", "insert_snapshot"} => work = Base(db, c)
        /\ pc[s] = "touch_source" => work = WithSnapshot(Base(db, c), c)
        /\ pc[s] = "record_snapshot" =>
               work = WithTouchedSource(WithSnapshot(Base(db, c), c), c)
        /\ pc[s] = "exit" =>
               \/ work = db
               \/ Numbered(db, c) /\ work = WithNewRevision(Base(db, c), c)

AInv ==
    /\ IInv
    /\ Auditable(db)
    /\ \A s \in Sessions : lock = s => Draft(s)

(* What was told stays told. *)
Grows(image, image2) ==
    /\ \A k \in Keys : Known(image, k) =>
           /\ Known(image2, k)
           /\ image2.sources[k].name = image.sources[k].name
           /\ image2.sources[k].created = image.sources[k].created
    /\ DOMAIN image.snapshots \subseteq DOMAIN image2.snapshots
    /\ \A i \in DOMAIN image.snapshots : image2.snapshots[i] = image.snapshots[i]
    /\ DOMAIN image.ledger \subseteq DOMAIN image2.ledger
    /\ \A n \in DOMAIN image.ledger : image2.ledger[n] = image.ledger[n]

LEMMA BaseReplays ==
    ASSUME NEW image, Auditable(image), NEW c \in CallType
    PROVE  LET image2 == Base(image, c)
           IN  /\ Replays(image2) /\ Grows(image, image2)
               /\ image2.snapshots = image.snapshots
               /\ Known(image2, c.source)
               /\ \A k \in Keys \ {c.source} :
                      Known(image2, k) => SettledSource(image2, k)
<1>1. CASE Known(image, c.source)
  BY <1>1 DEF Base, Auditable, Grows
<1>2. CASE ~Known(image, c.source)
  <2> DEFINE image2 == WithNewSource(image, c)
  <2>1. image \in Image /\ c.source \in Keys
    BY DEF Auditable, Replays, Sound, CallType
  <2>2. /\ image2 \in Image
        /\ image2.snapshots = image.snapshots
        /\ image2.ledger = Append(image.ledger, SourceEntryOf(c))
        /\ Known(image2, c.source)
    BY <2>1, NewSourceParts
  <2>3. /\ Replays(image2)
        /\ \A k \in Keys \ {c.source} :
               /\ image2.sources[k] = image.sources[k]
               /\ SettledSource(image, k) => SettledSource(image2, k)
    BY <1>2, NewSourceReplays DEF Auditable
  <2> HIDE DEF image2
  <2>4. /\ DOMAIN image.ledger \subseteq DOMAIN image2.ledger
        /\ \A n \in DOMAIN image.ledger : image2.ledger[n] = image.ledger[n]
    BY <2>1, <2>2, OneMoreEntry
  <2>5. Grows(image, image2)
    BY <1>2, <2>2, <2>3, <2>4 DEF Grows, Known
  <2>6. \A k \in Keys \ {c.source} : Known(image2, k) => SettledSource(image2, k)
    BY <2>3 DEF Auditable, Known
  <2>7. Base(image, c) = image2
    BY <1>2 DEF Base, image2
  <2> QED
    BY <2>2, <2>3, <2>5, <2>6, <2>7
<1> QED
  BY <1>1, <1>2

(* What an import commits can be audited. *)
LEMMA RevisionIsAuditable ==
    ASSUME NEW image, Auditable(image), NEW c \in CallType, Numbered(image, c)
    PROVE  LET image2 == WithNewRevision(Base(image, c), c)
           IN  Auditable(image2) /\ Grows(image, image2)
<1> DEFINE base == Base(image, c)
           image2 == WithNewRevision(base, c)
<1>1. /\ Replays(base) /\ Grows(image, base)
      /\ base.snapshots = image.snapshots
      /\ Known(base, c.source)
      /\ \A k \in Keys \ {c.source} : Known(base, k) => SettledSource(base, k)
  BY BaseReplays
<1> HIDE DEF base
<1>2. Numbered(base, c) /\ base \in Image
  BY <1>1, SameSnapshots DEF Auditable, Replays, Sound
<1>3. /\ Replays(image2)
      /\ SettledSource(image2, c.source)
      /\ image2.sources[c.source].name = base.sources[c.source].name
      /\ image2.sources[c.source].created = base.sources[c.source].created
      /\ Known(image2, c.source)
      /\ \A k \in Keys \ {c.source} :
             /\ image2.sources[k] = base.sources[k]
             /\ SettledSource(base, k) => SettledSource(image2, k)
  BY <1>1, <1>2, NewRevisionReplays
<1>4. PICK top \in Nat : CountUpTo(base, c.source, top)
  BY <1>1 DEF Replays, Sound, CallType
<1>5. RowOf(c) \in SnapshotRow
  BY <1>1, <1>2, <1>4, NumberedFacts DEF Replays
<1>6. /\ image2 \in Image
      /\ image2.snapshots = Append(base.snapshots, RowOf(c))
      /\ image2.ledger = Append(base.ledger,
                                SnapshotEntryOf(c, Len(base.snapshots) + 1))
  BY <1>1, <1>2, <1>5, NewRevisionParts
<1> HIDE DEF image2
<1>7. /\ DOMAIN base.snapshots \subseteq DOMAIN image2.snapshots
      /\ \A i \in DOMAIN base.snapshots : image2.snapshots[i] = base.snapshots[i]
  BY <1>1, <1>2, <1>6, AppendedRow DEF Replays
<1>8. /\ DOMAIN base.ledger \subseteq DOMAIN image2.ledger
      /\ \A n \in DOMAIN base.ledger : image2.ledger[n] = base.ledger[n]
  BY <1>2, <1>6, OneMoreEntry
<1>9. Grows(base, image2)
  BY <1>3, <1>7, <1>8 DEF Grows, Known
<1>10. Grows(image, image2)
  BY <1>1, <1>9 DEF Grows
<1>11. \A k \in Keys : Known(image2, k) => SettledSource(image2, k)
  BY <1>1, <1>3 DEF Known
<1> QED
  BY <1>3, <1>10, <1>11 DEF Auditable, image2, base

LEMMA ExitGrows ==
    ASSUME AInv, NEW s \in Sessions, Exit(s)
    PROVE  Auditable(db') /\ Grows(db, db')
<1>1. pc[s] = "exit" /\ lock = s /\ call[s] \in CallType /\ db' = work
  BY InTransaction, ExitFacts DEF AInv, IInv, Exit
<1>2. \/ work = db
      \/ /\ Numbered(db, call[s])
         /\ work = WithNewRevision(Base(db, call[s]), call[s])
  BY <1>1 DEF AInv, Draft
<1>3. Grows(db, db)
  BY DEF Grows
<1> QED
  BY <1>1, <1>2, <1>3, RevisionIsAuditable DEF AInv
-----------------------------------------------------------------------------
(* Only the lock holder has a draft. *)
LEMMA InsideKeepsDraft ==
    ASSUME AInv, IInv', NEW s \in Sessions, lock = s, UNCHANGED <<lock, db>>,
           Draft(s)'
    PROVE  AInv'
BY DEF AInv, Auditable

LEMMA OutsideKeepsDraft ==
    ASSUME AInv, IInv', NEW s \in Sessions, Moves(s), lock # s,
           UNCHANGED <<lock, db, work>>
    PROVE  AInv'
<1>1. ASSUME NEW t \in Sessions, lock' = t PROVE Draft(t)'
  <2>1. t # s /\ lock = t
    BY <1>1
  <2>2. pc'[t] = pc[t] /\ call'[t] = call[t]
    BY <2>1, OthersKeepDiscipline DEF AInv, IInv
  <2>3. Draft(t)
    BY <2>1 DEF AInv
  <2> QED
    BY <2>2, <2>3 DEF Draft
<1>2. Auditable(db)'
  BY DEF AInv
<1> QED
  BY <1>1, <1>2 DEF AInv

LEMMA RollbackKeepsDraft ==
    ASSUME AInv, IInv', NEW s \in Sessions, Rollback(s)
    PROVE  AInv'
<1>1. Moves(s)
  BY RollbackKeepsDiscipline DEF AInv, IInv
<1>2. CASE lock = s
  <2>1. lock' = NoSession /\ db' = db
    BY <1>2 DEF Rollback
  <2> QED
    BY <2>1, SessionsAssumption DEF AInv
<1>3. CASE lock # s
  BY <1>1, <1>3, OutsideKeepsDraft DEF Rollback
<1> QED
  BY <1>2, <1>3

(* Base depends on the call's source and time alone. *)
LEMMA SameBase ==
    ASSUME NEW image, NEW c, NEW c2, c2.source = c.source, c2.at = c.at
    PROVE  Base(image, c2) = Base(image, c)
BY DEF Base, WithNewSource, WithSource, WithSourceEntry

LEMMA SessionKeepsAInv ==
    ASSUME AInv, NEW s \in Sessions, Session(s)
    PROVE  AInv'
<1>1. IInv /\ IInv' /\ Moves(s)
  <2>1. pc[s] = "read_latest" => Sound(View(s))
    BY CallFacts DEF AInv, Stage, StatementLabels
  <2> QED
    BY <2>1, SessionKeepsInv, SessionKeepsDiscipline DEF AInv, IInv
<1>2. CASE \E k \in Keys, text \in Texts : CallIngest(s, k, text)
  <2>1. pc[s] = "idle" /\ UNCHANGED <<lock, db, work>>
    BY <1>2 DEF CallIngest
  <2>2. lock # s
    BY <1>1, <2>1 DEF IInv, Discipline, SessionOK
  <2> QED
    BY <1>1, <2>1, <2>2, OutsideKeepsDraft
<1>3. CASE Enter(s)
  <2>1. depth[s] = 0
    BY <1>1, <1>3 DEF Enter, IInv, Discipline, SessionOK, Resting
  <2>2. lock' = s /\ work' = db /\ db' = db /\ pc'[s] = "find_source"
    BY <1>1, <1>3, <2>1 DEF Enter, EnterTransaction, Goto, IInv, Discipline
  <2>3. Draft(s)' /\ Auditable(db)'
    BY <2>2 DEF Draft, AInv
  <2> QED
    BY <1>1, <2>2, <2>3 DEF AInv
<1>4. CASE FindSource(s)
  <2>1. /\ pc[s] = "find_source" /\ UNCHANGED <<db, work, lock, call>>
        /\ pc'[s] = IF Known(View(s), call[s].source)
                    THEN "read_latest" ELSE "insert_source"
    BY <1>1, <1>4 DEF FindSource, Goto, IInv, Discipline
  <2>2. lock = s /\ View(s) = work
    BY <1>1, <2>1, CallFacts DEF StatementLabels
  <2>3. work = db
    BY <2>1, <2>2 DEF AInv, Draft
  <2>4. Draft(s)'
    BY <2>1, <2>2, <2>3 DEF Draft, Base
  <2> QED
    BY <1>1, <2>1, <2>2, <2>4, InsideKeepsDraft
<1>5. CASE InsertSource(s)
  <2>1. /\ pc[s] = "insert_source" /\ UNCHANGED <<db, lock, call>>
        /\ pc'[s] = "record_source" /\ work' = WithSource(work, call[s])
    BY <1>1, <1>5 DEF InsertSource, Statement, Goto, IInv, Discipline
  <2>2. lock = s /\ Stage(s)
    BY <1>1, <2>1, CallFacts DEF StatementLabels
  <2>3. work = db
    BY <2>1, <2>2 DEF AInv, Draft
  <2>4. Draft(s)'
    BY <2>1, <2>2, <2>3 DEF Draft, Stage
  <2> QED
    BY <1>1, <2>1, <2>2, <2>4, InsideKeepsDraft
<1>6. CASE RecordSource(s)
  <2>1. /\ pc[s] = "record_source" /\ UNCHANGED <<db, lock, call>>
        /\ pc'[s] = "read_latest" /\ work' = WithSourceEntry(work, call[s])
    BY <1>1, <1>6 DEF RecordSource, Statement, Goto, IInv, Discipline
  <2>2. lock = s
    BY <1>1, <2>1, CallFacts DEF StatementLabels
  <2>3. ~Known(db, call[s].source) /\ work = WithSource(db, call[s])
    BY <2>1, <2>2 DEF AInv, Draft
  <2>4. work' = Base(db, call[s])
    BY <2>1, <2>3 DEF Base, WithNewSource
  <2>5. Draft(s)'
    BY <2>1, <2>4 DEF Draft
  <2> QED
    BY <1>1, <2>1, <2>2, <2>5, InsideKeepsDraft
<1>7. CASE ReadLatest(s)
  <2> DEFINE k == call[s]
             latest == LatestOf(work, k.source)
             version == IF latest = 0 THEN 1
                        ELSE work.snapshots[latest].version + 1
             next == [k EXCEPT !.latest = latest, !.version = version]
  <2>1. pc[s] = "read_latest" /\ UNCHANGED <<db, lock, work>>
    BY <1>7 DEF ReadLatest
  <2>2. /\ lock = s /\ View(s) = work /\ k \in CallType /\ k.source \in Keys
        /\ work.snapshots = db.snapshots
    BY <1>1, <2>1, CallFacts DEF Stage, StatementLabels
  <2>3. latest = LatestOf(db, k.source)
    BY <1>1, <2>2, SameSnapshots DEF IInv
  <2>4. work = Base(db, k)
    BY <2>1, <2>2 DEF AInv, Draft
  <2>5. CASE Unchanged(work, k, latest) /\ Goto(s, "exit") /\ UNCHANGED call
    <3>1. pc'[s] = "exit" /\ call'[s] = k
      BY <1>1, <2>5 DEF Goto, IInv, Discipline
    <3>2. Known(db, k.source)
      <4>1. latest # 0
        BY <2>5 DEF Unchanged
      <4>2. PICK n \in Nat : CountUpTo(db, k.source, n)
        BY <1>1, <2>2 DEF IInv, Sound
      <4>3. latest \in RevisionsOf(db, k.source)
        BY <1>1, <2>2, <2>3, <4>1, <4>2, LatestFacts DEF IInv
      <4> QED
        BY <4>3 DEF RevisionsOf, AInv, Auditable, Replays, RowsTold
    <3>3. work' = db'
      BY <2>1, <2>4, <3>2 DEF Base
    <3>4. Draft(s)'
      BY <3>1, <3>3 DEF Draft
    <3> QED
      BY <1>1, <2>1, <2>2, <3>4, InsideKeepsDraft
  <2>6. CASE /\ ~Unchanged(work, k, latest)
             /\ Goto(s, "insert_snapshot")
             /\ call' = [call EXCEPT ![s].latest = latest,
                                     ![s].version = version]
    <3>1. pc'[s] = "insert_snapshot" /\ call'[s] = next
      BY <1>1, <2>6 DEF Goto, IInv, Discipline
    <3>2. next.source = k.source /\ next.at = k.at
      BY <2>2 DEF CallType
    <3> HIDE DEF next
    <3>3. work' = Base(db', call'[s])
      BY <2>1, <2>4, <3>1, <3>2, SameBase
    <3>4. Draft(s)'
      BY <3>1, <3>3 DEF Draft
    <3> QED
      BY <1>1, <2>1, <2>2, <3>4, InsideKeepsDraft
  <2> QED
    BY <1>7, <2>2, <2>5, <2>6 DEF ReadLatest
<1>8. CASE InsertSnapshot(s)
  <2>1. /\ pc[s] = "insert_snapshot" /\ UNCHANGED <<db, lock, call>>
        /\ pc'[s] = "touch_source" /\ work' = WithSnapshot(work, call[s])
    BY <1>1, <1>8 DEF InsertSnapshot, Statement, Goto, IInv, Discipline
  <2>2. lock = s
    BY <1>1, <2>1, CallFacts DEF StatementLabels
  <2>3. Draft(s)'
    BY <2>1, <2>2 DEF AInv, Draft
  <2> QED
    BY <1>1, <2>1, <2>2, <2>3, InsideKeepsDraft
<1>9. CASE TouchSource(s)
  <2>1. /\ pc[s] = "touch_source" /\ UNCHANGED <<db, lock, call>>
        /\ pc'[s] = "record_snapshot" /\ work' = WithTouchedSource(work, call[s])
    BY <1>1, <1>9 DEF TouchSource, Statement, Goto, IInv, Discipline
  <2>2. lock = s
    BY <1>1, <2>1, CallFacts DEF StatementLabels
  <2>3. Draft(s)'
    BY <2>1, <2>2 DEF AInv, Draft
  <2> QED
    BY <1>1, <2>1, <2>2, <2>3, InsideKeepsDraft
<1>10. CASE RecordSnapshot(s)
  <2>1. /\ pc[s] = "record_snapshot" /\ UNCHANGED <<db, lock, call>>
        /\ pc'[s] = "exit" /\ work' = WithSnapshotEntry(work, call[s])
    BY <1>1, <1>10 DEF RecordSnapshot, Statement, Goto, IInv, Discipline
  <2>2. lock = s /\ Numbered(db, call[s])
    BY <1>1, <2>1, CallFacts DEF StatementLabels, Stage
  <2>3. Draft(s)'
    BY <2>1, <2>2 DEF AInv, Draft, WithNewRevision
  <2> QED
    BY <1>1, <2>1, <2>2, <2>3, InsideKeepsDraft
<1>11. CASE Exit(s)
  <2>1. lock' = NoSession
    <3>1. pc[s] = "exit" /\ depth[s] = 1
      BY <1>1, <1>11, InTransaction DEF Exit, IInv
    <3> QED
      BY <1>11, <3>1 DEF Exit, ExitTransaction
  <2> QED
    BY <1>1, <1>11, <2>1, ExitGrows, SessionsAssumption DEF AInv
<1>12. CASE CommitBusy(s)
  <2>1. pc[s] = "exit" /\ pc'[s] = "broken" /\ UNCHANGED <<db, work, lock>>
    BY <1>1, <1>12 DEF CommitBusy, CommitFails, Goto, IInv, Discipline
  <2>2. lock = s
    BY <1>1, <2>1, CallFacts
  <2>3. Draft(s)'
    BY <2>1 DEF Draft
  <2> QED
    BY <1>1, <2>1, <2>2, <2>3, InsideKeepsDraft
<1>13. CASE Refuse(s) \/ BusyTimeout(s) \/ Interrupt(s) \/ Close(s)
  BY <1>1, <1>13, RollbackKeepsDraft
     DEF Refuse, BusyTimeout, GiveUpWaiting, Interrupt, Close
<1> QED
  BY <1>2, <1>3, <1>4, <1>5, <1>6, <1>7, <1>8, <1>9, <1>10, <1>11, <1>12, <1>13
     DEF Session, Statements

LEMMA EmptyIsAuditable == Auditable(EmptyImage)
<1>1. /\ EmptyImage.snapshots = <<>> /\ EmptyImage.ledger = <<>>
      /\ \A k \in Keys : ~Known(EmptyImage, k)
  BY DEF EmptyImage, Known
<1>2. DOMAIN EmptyImage.snapshots = {} /\ DOMAIN EmptyImage.ledger = {}
  BY <1>1
<1> QED
  BY <1>1, <1>2, EmptyImageSound
     DEF Auditable, Replays, SourcesTold, RowsTold, InOrder, Chained, NoStranger

LEMMA InitAInv == Init => AInv
<1> SUFFICES ASSUME Init PROVE AInv
  OBVIOUS
<1>1. IInv /\ db = EmptyImage /\ lock = NoSession
  BY InitInv DEF Init, StartIn
<1> QED
  BY <1>1, EmptyIsAuditable, SessionsAssumption DEF AInv

LEMMA NextAInv == AInv /\ [Next]_vars => AInv' /\ Grows(db, db')
<1> SUFFICES ASSUME AInv, [Next]_vars PROVE AInv' /\ Grows(db, db')
  OBVIOUS
<1>1. AInv'
  <2>1. CASE Next
    BY <2>1, SessionKeepsAInv DEF Next
  <2>2. CASE UNCHANGED vars
    <3>1. IInv'
      BY <2>2, NextInv DEF AInv
    <3> QED
      BY <2>2, <3>1 DEF vars, AInv, Auditable, Draft
  <2> QED
    BY <2>1, <2>2
<1>2. Grows(db, db')
  <2>1. CASE db' = db
    BY <2>1 DEF Grows
  <2>2. CASE db' # db
    BY <2>2, OnlyExitsChange, ExitGrows
  <2> QED
    BY <2>1, <2>2
<1> QED
  BY <1>1, <1>2

LEMMA AuditInvariant == Spec => []AInv
  BY InitAInv, NextAInv, PTL DEF Spec
-----------------------------------------------------------------------------
(* What a reader has read of a repository that has since become image: part of
   it, and of what it has read the entries are all there.                   *)
Below(view, image) ==
    /\ \A k \in SourcesIn(view) :
           /\ Known(image, k)
           /\ view.sources[k].name = image.sources[k].name
           /\ view.sources[k].created = image.sources[k].created
           /\ RowsOf(view, k) # {}
           /\ CreationOf(view, k) = Creations(image, k)
           /\ \A n \in CreationOf(view, k) :
                  view.sourceEntries[n] = image.ledger[n]
    /\ \A i \in DOMAIN view.snapshots :
           /\ i \in DOMAIN image.snapshots
           /\ view.snapshots[i] = image.snapshots[i]
           /\ \A j \in DOMAIN image.snapshots : j < i => j \in DOMAIN view.snapshots
           /\ EntriesFor(view, i) = Records(image, i)
           /\ \A n \in EntriesFor(view, i) :
                  view.snapshotEntries[n] = image.ledger[n]

(* The rows before one of version v have the versions from 1 to v - 1. *)
LEMMA EarlierRows ==
    ASSUME NEW view, NEW image, Replays(image), Below(view, image),
           NEW k \in Keys, NEW i \in RowsOf(view, k)
    PROVE  /\ i \in RevisionsOf(image, k)
           /\ view.snapshots[i] = image.snapshots[i]
           /\ image.snapshots[i].version \in Nat \ {0}
           /\ Earlier(view, k, i) =
                  {j \in RevisionsOf(image, k) :
                      image.snapshots[j].version < image.snapshots[i].version}
           /\ \A j \in Earlier(view, k, i) : view.snapshots[j] = image.snapshots[j]
<1>1. ASSUME NEW j \in RowsOf(view, k)
      PROVE  j \in RevisionsOf(image, k) /\ view.snapshots[j] = image.snapshots[j]
  BY <1>1 DEF Below, RowsOf, RevisionsOf
<1>2. image.snapshots[i].version \in Nat \ {0}
  BY <1>1, RowTyped DEF RevisionsOf, SnapshotRow, Replays, Sound
<1>3. ASSUME NEW j \in RevisionsOf(image, k),
             image.snapshots[j].version < image.snapshots[i].version
      PROVE  j \in RowsOf(view, k)
  <2>1. /\ i \in DOMAIN view.snapshots /\ i \in DOMAIN image.snapshots
        /\ j \in DOMAIN image.snapshots
        /\ image.snapshots[j].source = k /\ image.snapshots[i].source = k
    BY <1>1 DEF RowsOf, RevisionsOf
  <2>2. j < i
    BY <1>3, <2>1 DEF Replays, InOrder
  <2>3. j \in DOMAIN view.snapshots
    BY <2>1, <2>2 DEF Below
  <2>4. view.snapshots[j] = image.snapshots[j]
    BY <2>3 DEF Below
  <2> QED
    BY <2>1, <2>3, <2>4 DEF RowsOf
<1>4. \A j \in Earlier(view, k, i) : j \in RowsOf(view, k)
  BY DEF Earlier
<1> QED
  BY <1>1, <1>2, <1>3, <1>4 DEF Earlier

LEMMA EarlierCount ==
    ASSUME NEW view, NEW image, Replays(image), Below(view, image),
           NEW k \in Keys, NEW i \in RowsOf(view, k)
    PROVE  Cardinality(Earlier(view, k, i)) = image.snapshots[i].version - 1
<1> DEFINE v == image.snapshots[i].version
           S == {j \in RevisionsOf(image, k) : image.snapshots[j].version < v}
           f == [w \in 1 .. v - 1 |->
                    CHOOSE j \in RevisionsOf(image, k) :
                        image.snapshots[j].version = w]
<1>1. /\ v \in Nat \ {0} /\ Earlier(view, k, i) = S
      /\ i \in RevisionsOf(image, k)
  BY EarlierRows
<1>2. PICK n \in Nat : CountUpTo(image, k, n)
  BY DEF Replays, Sound
<1>3. \A j \in RevisionsOf(image, k) : image.snapshots[j].version \in 1 .. n
  BY <1>2 DEF CountUpTo, Versions
<1>4. v \in 1 .. n
  BY <1>1, <1>3
<1>5. ASSUME NEW w \in 1 .. v - 1
      PROVE  f[w] \in S /\ image.snapshots[f[w]].version = w
  <2>1. w \in 1 .. n
    BY <1>4
  <2>2. \E j \in RevisionsOf(image, k) : image.snapshots[j].version = w
    BY <1>2, <2>1 DEF CountUpTo, Versions
  <2>3. /\ f[w] \in RevisionsOf(image, k)
        /\ image.snapshots[f[w]].version = w
    BY <2>2
  <2>4. w < v
    BY <1>1
  <2> QED
    BY <2>3, <2>4
<1>6. ASSUME NEW j \in S
      PROVE  /\ image.snapshots[j].version \in 1 .. v - 1
             /\ f[image.snapshots[j].version] = j
  <2>1. /\ j \in RevisionsOf(image, k)
        /\ image.snapshots[j].version \in 1 .. n
        /\ image.snapshots[j].version < v
    BY <1>3
  <2>2. image.snapshots[j].version \in 1 .. v - 1
    BY <1>1, <2>1
  <2> HIDE DEF f
  <2>3. /\ f[image.snapshots[j].version] \in RevisionsOf(image, k)
        /\ image.snapshots[f[image.snapshots[j].version]].version
               = image.snapshots[j].version
    BY <1>5, <2>2
  <2> QED
    BY <2>1, <2>2, <2>3 DEF Replays, Sound, VersionsDiffer
<1> HIDE DEF S
<1>7. f \in [1 .. v - 1 -> S]
  BY <1>5
<1> HIDE DEF f
<1>8. f \in Bijection(1 .. v - 1, S)
  BY <1>5, <1>6, <1>7 DEF Bijection, Injection, Surjection, IsInjective
<1>9. ExistsBijection(1 .. v - 1, S)
  BY <1>8 DEF ExistsBijection
<1>10. v - 1 \in Nat
  BY <1>1
<1> HIDE DEF v
<1>11. Cardinality(S) = v - 1
  BY <1>9, <1>10, FS_CountingElements
<1> QED
  BY <1>1, <1>11 DEF v

(* No revision read so, and no entry of one, looks wrong. *)
LEMMA NothingToBlame ==
    ASSUME NEW view, NEW image, Replays(image), Below(view, image),
           NEW k \in SourcesIn(view)
    PROVE  ~MaterialIssue(view, k)
<1>1. /\ k \in Keys /\ Known(image, k)
      /\ view.sources[k].name = image.sources[k].name
      /\ view.sources[k].created = image.sources[k].created
      /\ RowsOf(view, k) # {}
      /\ CreationOf(view, k) = Creations(image, k)
      /\ \A n \in CreationOf(view, k) : view.sourceEntries[n] = image.ledger[n]
  BY DEF Below, SourcesIn
<1>2. PICK c \in DOMAIN image.ledger : TellsSource(image, c, k)
  BY <1>1 DEF Replays, SourcesTold
<1>3. image.sources[k].name = k
  BY <1>1 DEF Replays, SourcesTold
<1>4. ASSUME NEW i \in RowsOf(view, k)
      PROVE  /\ view.snapshots[i] = image.snapshots[i]
             /\ image.snapshots[i].source = k
             /\ i \in DOMAIN image.snapshots
             /\ EntriesFor(view, i) = Records(image, i)
             /\ \A n \in EntriesFor(view, i) :
                    view.snapshotEntries[n] = image.ledger[n]
             /\ \E n \in DOMAIN image.ledger : TellsRow(image, n, i)
  <2>1. i \in DOMAIN view.snapshots
    BY DEF RowsOf
  <2>2. i \in RevisionsOf(image, k)
    BY <1>1, EarlierRows
  <2> QED
    BY <2>1, <2>2 DEF Below, RevisionsOf, Replays, RowsTold
<1>5. ~CreationMismatch(view, k)
  <2>1. CreationOf(view, k) = {c}
    BY <1>1, <1>2 DEF TellsSource
  <2> QED
    BY <2>1, FS_Singleton DEF CreationMismatch
<1>6. ~SourcePayloadMismatch(view, k) /\ ~SourceTimestampMismatch(view, k)
  BY <1>1, <1>2, <1>3
     DEF SourcePayloadMismatch, SourceTimestampMismatch, TellsSource
<1>7. ~SnapshotRequired(view, k)
  BY <1>1 DEF SnapshotRequired
<1>8. ~VersionGap(view, k)
  <2> SUFFICES ASSUME NEW i \in RowsOf(view, k)
               PROVE  view.snapshots[i].version = Cardinality(Earlier(view, k, i)) + 1
    BY DEF VersionGap
  <2>1. /\ image.snapshots[i].version \in Nat
        /\ view.snapshots[i] = image.snapshots[i]
        /\ Cardinality(Earlier(view, k, i)) = image.snapshots[i].version - 1
    BY <1>1, EarlierRows, EarlierCount
  <2> QED
    BY <2>1
<1>9. ~LineageMismatch(view, k)
  <2> SUFFICES ASSUME NEW i \in RowsOf(view, k)
               PROVE  IF Earlier(view, k, i) = {} THEN view.snapshots[i].previous = 0
                      ELSE Precedes(view, k, view.snapshots[i].previous, i)
    BY DEF LineageMismatch
  <2> DEFINE v == image.snapshots[i].version
             p == image.snapshots[i].previous
  <2>1. /\ i \in RevisionsOf(image, k) /\ v \in Nat \ {0}
        /\ view.snapshots[i] = image.snapshots[i]
        /\ Earlier(view, k, i) = {j \in RevisionsOf(image, k) :
                                     image.snapshots[j].version < v}
    BY <1>1, EarlierRows
  <2>2. IF v = 1 THEN p = 0
        ELSE p \in RevisionsOf(image, k) /\ image.snapshots[p].version = v - 1
    <3>1. i \in DOMAIN image.snapshots /\ image.snapshots[i].source = k
      BY <1>4
    <3> QED
      BY <3>1 DEF Replays, Chained
  <2>3. CASE v = 1
    <3>1. \A j \in RevisionsOf(image, k) : image.snapshots[j].version \in Nat \ {0}
      BY RowTyped DEF RevisionsOf, SnapshotRow, Replays, Sound
    <3>2. Earlier(view, k, i) = {}
      <4> HIDE DEF v
      <4> QED
        BY <2>1, <2>3, <3>1
    <3> QED
      BY <2>1, <2>2, <2>3, <3>2
  <2>4. CASE v # 1
    <3>1. p \in RevisionsOf(image, k) /\ image.snapshots[p].version = v - 1
      BY <2>2, <2>4
    <3>2. p \in Earlier(view, k, i)
      BY <2>1, <3>1
    <3>3. p \in RowsOf(view, k)
      BY <3>2 DEF Earlier
    <3>4. Earlier(view, k, p) = {j \in RevisionsOf(image, k) :
                                    image.snapshots[j].version < v - 1}
      BY <1>1, <3>1, <3>3, EarlierRows
    <3>5. ASSUME NEW j \in Earlier(view, k, i) \ {p}
          PROVE  j \in Earlier(view, k, p)
      <4>1. j \in RevisionsOf(image, k) /\ image.snapshots[j].version < v
        BY <2>1
      <4>2. image.snapshots[j].version \in Nat
        BY <4>1, RowTyped DEF RevisionsOf, SnapshotRow, Replays, Sound
      <4>3. image.snapshots[j].version # v - 1
        BY <1>1, <3>1, <4>1 DEF Replays, Sound, VersionsDiffer
      <4> HIDE DEF v
      <4>4. image.snapshots[j].version < v - 1
        BY <2>1, <4>1, <4>2, <4>3
      <4> QED
        BY <3>4, <4>1, <4>4
    <3>6. Precedes(view, k, p, i)
      BY <3>2, <3>5 DEF Precedes
    <3> QED
      BY <2>1, <3>2, <3>6
  <2> QED
    BY <2>3, <2>4
<1>10. ~SnapshotCreationMismatch(view, k)
  <2> SUFFICES ASSUME NEW i \in RowsOf(view, k)
               PROVE  Cardinality(EntriesFor(view, i)) = 1
    BY DEF SnapshotCreationMismatch
  <2>1. PICK n : EntriesFor(view, i) = {n}
    BY <1>4 DEF TellsRow
  <2> QED
    BY <2>1, FS_Singleton
<1>11. ~SnapshotPayloadMismatch(view, k) /\ ~SnapshotTimestampMismatch(view, k)
  <2> SUFFICES ASSUME NEW i \in RowsOf(view, k), NEW n \in EntriesFor(view, i)
               PROVE  LET row   == view.snapshots[i]
                          entry == view.snapshotEntries[n]
                      IN  /\ entry.source = k
                          /\ entry.name = view.sources[k].name
                          /\ entry.version = row.version
                          /\ entry.text = row.text
                          /\ entry.previous = row.previous
                          /\ entry.at = row.created
    BY DEF SnapshotPayloadMismatch, SnapshotTimestampMismatch
  <2>1. TellsRow(image, n, i)
    BY <1>4 DEF TellsRow
  <2> QED
    BY <1>1, <1>3, <1>4, <2>1 DEF TellsRow
<1>12. ~SourceOrderInvalid(view, k)
  <2> SUFFICES ASSUME NEW n \in CreationOf(view, k), NEW i \in RowsOf(view, k),
                      NEW m \in EntriesFor(view, i)
               PROVE  ~(m <= n)
    BY DEF SourceOrderInvalid
  <2>1. TellsRow(image, m, i)
    BY <1>4 DEF TellsRow
  <2>2. n < m
    BY <1>1, <1>4, <2>1 DEF TellsRow
  <2>3. n \in Nat /\ m \in Nat
    <3>1. image.ledger \in Seq(SourceEntry \cup SnapshotEntry)
      BY DEF Replays, Sound, Image
    <3>2. n \in DOMAIN image.ledger /\ m \in DOMAIN image.ledger
      BY <1>1, <1>4 DEF Creations, Records
    <3> QED
      BY <3>1, <3>2, LenProperties
  <2> QED
    BY <2>2, <2>3
<1>13. ~SnapshotOrderInvalid(view, k)
  <2> SUFFICES ASSUME NEW i \in RowsOf(view, k), NEW j \in Earlier(view, k, i),
                      NEW m \in EntriesFor(view, j), NEW n \in EntriesFor(view, i)
               PROVE  ~(n < m)
    BY DEF SnapshotOrderInvalid
  <2>1. j \in RowsOf(view, k) /\ view.snapshots[j].version < view.snapshots[i].version
    BY DEF Earlier
  <2>2. m \in Records(image, j) /\ n \in Records(image, i)
    BY <1>4, <2>1
  <2>3. m < n
    BY <1>4, <2>1, <2>2 DEF Replays, InOrder
  <2>4. n \in Nat /\ m \in Nat
    <3>1. image.ledger \in Seq(SourceEntry \cup SnapshotEntry)
      BY DEF Replays, Sound, Image
    <3> QED
      BY <2>2, <3>1, LenProperties DEF Records
  <2> QED
    BY <2>3, <2>4
<1> QED
  BY <1>5, <1>6, <1>7, <1>8, <1>9, <1>10, <1>11, <1>12, <1>13 DEF MaterialIssue
-----------------------------------------------------------------------------
(* The four answers, each from a later state than the one before. *)
Answers(view, a, b, c, d) ==
    /\ view.sources = a.sources
    /\ view.snapshots = b.snapshots
    /\ view.sourceEntries = EntriesWith(c, "source.created")
    /\ view.snapshotEntries = EntriesWith(d, "source_snapshot.created")

LEMMA GrowsOnce == \A image : Grows(image, image)
  BY DEF Grows

LEMMA GrowsTwice ==
    \A a, b, c : Grows(a, b) /\ Grows(b, c) => Grows(a, c)
  BY DEF Grows

LEMMA AnswersBelow ==
    ASSUME NEW a, NEW b, NEW c, NEW d, NEW view, Answers(view, a, b, c, d),
           Auditable(b), Auditable(c), Auditable(d),
           Grows(a, b), Grows(b, c), Grows(c, d)
    PROVE  Below(view, d)
<1>1. ASSUME NEW k \in SourcesIn(view)
      PROVE  /\ Known(d, k)
             /\ view.sources[k].name = d.sources[k].name
             /\ view.sources[k].created = d.sources[k].created
             /\ RowsOf(view, k) # {}
             /\ CreationOf(view, k) = Creations(d, k)
             /\ \A n \in CreationOf(view, k) :
                    view.sourceEntries[n] = d.ledger[n]
  <2>1. k \in Keys /\ Known(a, k) /\ view.sources[k] = a.sources[k]
    BY DEF SourcesIn, Known, Answers
  <2>2. /\ Known(b, k) /\ Known(c, k) /\ Known(d, k)
        /\ view.sources[k].name = d.sources[k].name
        /\ view.sources[k].created = d.sources[k].created
    BY <2>1 DEF Grows
  <2>3. RowsOf(view, k) # {}
    <3>1. RevisionsOf(b, k) # {}
      BY <2>1, <2>2 DEF Auditable, SettledSource
    <3> QED
      BY <3>1 DEF RowsOf, RevisionsOf, Answers
  <2>4. PICK n : TellsSource(c, n, k)
    BY <2>1, <2>2 DEF Auditable, Replays, SourcesTold
  <2>5. PICK m : TellsSource(d, m, k)
    BY <2>1, <2>2 DEF Auditable, Replays, SourcesTold
  <2>6. /\ n \in DOMAIN c.ledger /\ n \in DOMAIN d.ledger
        /\ d.ledger[n] = c.ledger[n]
    BY <2>4 DEF TellsSource, Grows
  <2>7. Creations(c, k) = {n} /\ Creations(d, k) = {n}
    <3>1. Creations(c, k) = {n}
      BY <2>4 DEF TellsSource
    <3>2. n \in Creations(d, k)
      BY <2>6, <3>1 DEF Creations
    <3> QED
      BY <2>5, <3>1, <3>2 DEF TellsSource
  <2>8. CreationOf(view, k) = Creations(c, k)
    BY DEF CreationOf, Creations, Answers, EntriesWith
  <2>9. view.sourceEntries[n] = d.ledger[n]
    BY <2>6, <2>7 DEF Creations, Answers, EntriesWith
  <2> QED
    BY <2>2, <2>3, <2>7, <2>8, <2>9
<1>2. ASSUME NEW i \in DOMAIN view.snapshots
      PROVE  /\ i \in DOMAIN d.snapshots
             /\ view.snapshots[i] = d.snapshots[i]
             /\ \A j \in DOMAIN d.snapshots : j < i => j \in DOMAIN view.snapshots
             /\ EntriesFor(view, i) = Records(d, i)
             /\ \A n \in EntriesFor(view, i) :
                    view.snapshotEntries[n] = d.ledger[n]
  <2>1. /\ view.snapshots = b.snapshots
        /\ i \in DOMAIN d.snapshots /\ b.snapshots[i] = d.snapshots[i]
    BY DEF Answers, Grows
  <2>2. /\ DOMAIN b.snapshots = 1 .. Len(b.snapshots)
        /\ DOMAIN d.snapshots = 1 .. Len(d.snapshots)
        /\ Len(b.snapshots) \in Nat /\ Len(d.snapshots) \in Nat
    BY LenProperties DEF Auditable, Replays, Sound, Image
  <2>3. \A j \in DOMAIN d.snapshots : j < i => j \in DOMAIN b.snapshots
    BY <2>1, <2>2
  <2>4. EntriesFor(view, i) = Records(d, i)
    BY DEF EntriesFor, Records, Answers, EntriesWith
  <2>5. \A n \in Records(d, i) : view.snapshotEntries[n] = d.ledger[n]
    BY DEF Records, Answers, EntriesWith
  <2> QED
    BY <2>1, <2>3, <2>4, <2>5
<1> QED
  BY <1>1, <1>2 DEF Below

LEMMA ReadingOf ==
    /\ \A image : Answers(ReadAll(image), image, image, image, image)
    /\ \A view, image :
           (\A query \in Reading : view[query] = Read(image, query))
               => Answers(view, image, image, image, image)
  BY DEF Answers, ReadAll, Reading, Read

(* All four answers from one state. *)
LEMMA OneStateAccepted ==
    ASSUME NEW image, Auditable(image), NEW view,
           Answers(view, image, image, image, image)
    PROVE  AuditAccepts(view)
<1>1. Replays(image) /\ Below(view, image)
  BY AnswersBelow, GrowsOnce DEF Auditable
<1>2. ASSUME NEW k \in SourcesIn(view)
      PROVE  ~MaterialIssue(view, k) /\ ~UpdatedAtMismatch(view, k)
  <2>1. ~MaterialIssue(view, k)
    BY <1>1, NothingToBlame
  <2>2. ~UpdatedAtMismatch(view, k)
    <3> SUFFICES ASSUME NEW i \in RowsOf(view, k), IsLast(view, k, i)
                 PROVE  view.sources[k].updated = view.snapshots[i].created
      BY DEF UpdatedAtMismatch
    <3>1. /\ view.sources = image.sources /\ view.snapshots = image.snapshots
          /\ k \in Keys /\ Known(image, k)
          /\ RowsOf(view, k) = RevisionsOf(image, k)
      BY DEF Answers, SourcesIn, Known, RowsOf, RevisionsOf
    <3>2. \A j \in RevisionsOf(image, k) : image.snapshots[j].version \in Nat
      BY RowTyped DEF RevisionsOf, SnapshotRow, Auditable, Replays, Sound
    <3>3. IsLatest(image, k, i)
      <4> SUFFICES ASSUME NEW j \in RevisionsOf(image, k)
                   PROVE  image.snapshots[j].version <= image.snapshots[i].version
        BY <3>1 DEF IsLatest
      <4>1. CASE j = i
        BY <3>2, <4>1
      <4>2. CASE j # i
        BY <3>1, <3>2, <4>2 DEF IsLast, Earlier
      <4> QED
        BY <4>1, <4>2
    <3> QED
      BY <3>1, <3>3 DEF Auditable, SettledSource
  <2> QED
    BY <2>1, <2>2
<1>3. ~LedgerOrphan(view)
  <2>1. ASSUME NEW n \in DOMAIN view.sourceEntries
        PROVE  view.sourceEntries[n].source \in SourcesIn(view)
    <3>1. /\ n \in DOMAIN image.ledger
          /\ image.ledger[n].event = "source.created"
          /\ view.sourceEntries[n] = image.ledger[n]
      BY DEF Answers, EntriesWith
    <3> QED
      BY <3>1 DEF Auditable, Replays, NoStranger, SourcesIn, Known, Answers
  <2>2. ASSUME NEW n \in DOMAIN view.snapshotEntries
        PROVE  \E k \in SourcesIn(view) :
                   view.snapshotEntries[n].snapshot \in RowsOf(view, k)
    <3>1. /\ n \in DOMAIN image.ledger
          /\ image.ledger[n].event = "source_snapshot.created"
          /\ view.snapshotEntries[n] = image.ledger[n]
      BY DEF Answers, EntriesWith
    <3> DEFINE i == image.ledger[n].snapshot
    <3>2. i \in DOMAIN image.snapshots
      BY <3>1 DEF Auditable, Replays, NoStranger
    <3>3. /\ image.snapshots[i].source \in Keys
          /\ Known(image, image.snapshots[i].source)
      BY <3>2, RowTyped DEF Auditable, Replays, Sound, RowsTold, SnapshotRow
    <3>4. image.snapshots[i].source \in SourcesIn(view)
      BY <3>3 DEF SourcesIn, Known, Answers
    <3>5. i \in RowsOf(view, image.snapshots[i].source)
      BY <3>2 DEF RowsOf, Answers
    <3> QED
      BY <3>1, <3>4, <3>5
  <2> QED
    BY <2>1, <2>2 DEF LedgerOrphan
<1>4. ~SnapshotOrphan(view)
  <2> SUFFICES ASSUME NEW i \in DOMAIN view.snapshots
               PROVE  view.snapshots[i].source \in SourcesIn(view)
    BY DEF SnapshotOrphan
  <2>1. i \in DOMAIN image.snapshots /\ view.snapshots[i] = image.snapshots[i]
    BY DEF Answers
  <2>2. /\ image.snapshots[i].source \in Keys
        /\ Known(image, image.snapshots[i].source)
    BY <2>1, RowTyped DEF Auditable, Replays, Sound, RowsTold, SnapshotRow
  <2> QED
    BY <2>1, <2>2 DEF SourcesIn, Known, Answers
<1> QED
  BY <1>2, <1>3, <1>4 DEF AuditAccepts

(* replay_source_audits (source_integrity.py) accepts every repository that
   imports committed, whichever failed on the way and whatever the clock said:
   no one's revision is taken for tampering. *)
THEOREM CommittedSourcesAccepted == Spec => []CommittedSourcesReplay
<1>1. AInv => CommittedSourcesReplay
  BY ReadingOf, OneStateAccepted DEF AInv, CommittedSourcesReplay
<1> QED
  BY <1>1, AuditInvariant, PTL
-----------------------------------------------------------------------------
(* What the audit of one state binds: each source and each snapshot has entries,
   and they say what the row says; each entry has a row; and a source was
   updated by its last revision.                                            *)
SourceBound(image, k) ==
    /\ Creations(image, k) # {}
    /\ RevisionsOf(image, k) # {}
    /\ \A n \in Creations(image, k) :
           /\ image.ledger[n].name = image.sources[k].name
           /\ image.ledger[n].at = image.sources[k].created
    /\ \A i \in RevisionsOf(image, k) :
           IsLast(ReadAll(image), k, i) =>
               image.sources[k].updated = image.snapshots[i].created

RowBound(image, i) ==
    LET row == image.snapshots[i]
    IN  /\ row.source \in Keys /\ Known(image, row.source)
        /\ Records(image, i) # {}
        /\ \A n \in Records(image, i) :
               /\ image.ledger[n].source = row.source
               /\ image.ledger[n].version = row.version
               /\ image.ledger[n].text = row.text
               /\ image.ledger[n].previous = row.previous
               /\ image.ledger[n].at = row.created

Bound(image) ==
    /\ \A k \in Keys : Known(image, k) => SourceBound(image, k)
    /\ \A i \in DOMAIN image.snapshots : RowBound(image, i)
    /\ NoStranger(image)

LEMMA AcceptedIsBound ==
    ASSUME NEW image, AuditAccepts(ReadAll(image))
    PROVE  Bound(image)
<1> DEFINE view == ReadAll(image)
<1>1. Answers(view, image, image, image, image)
  BY ReadingOf
<1>2. AuditAccepts(view)
  OBVIOUS
<1> HIDE DEF view
<1>3. /\ \A k \in Keys : Known(image, k) <=> k \in SourcesIn(view)
      /\ SourcesIn(view) \subseteq Keys
      /\ \A k : RowsOf(view, k) = RevisionsOf(image, k)
      /\ \A k : CreationOf(view, k) = Creations(image, k)
      /\ \A i : EntriesFor(view, i) = Records(image, i)
  BY <1>1 DEF Answers, SourcesIn, Known, RowsOf, RevisionsOf, CreationOf,
              Creations, EntriesFor, Records, EntriesWith
<1>4. /\ \A k : \A n \in Creations(image, k) :
             view.sourceEntries[n] = image.ledger[n]
      /\ \A i : \A n \in Records(image, i) :
             view.snapshotEntries[n] = image.ledger[n]
  BY <1>1 DEF Answers, Creations, Records, EntriesWith
<1>5. ASSUME NEW S, Cardinality(S) = 1 PROVE S # {}
  BY <1>5, FS_EmptySet
<1>6. ASSUME NEW k \in Keys, Known(image, k) PROVE SourceBound(image, k)
  <2>1. ~MaterialIssue(view, k) /\ ~UpdatedAtMismatch(view, k)
    BY <1>2, <1>3, <1>6 DEF AuditAccepts
  <2>2. Creations(image, k) # {}
    BY <1>3, <1>5, <2>1 DEF MaterialIssue, CreationMismatch
  <2>3. RevisionsOf(image, k) # {}
    BY <1>3, <2>1 DEF MaterialIssue, SnapshotRequired
  <2>4. \A n \in Creations(image, k) :
            /\ image.ledger[n].name = image.sources[k].name
            /\ image.ledger[n].at = image.sources[k].created
    BY <1>1, <1>3, <1>4, <2>1
       DEF Answers, MaterialIssue, SourcePayloadMismatch, SourceTimestampMismatch
  <2>5. \A i \in RevisionsOf(image, k) :
            IsLast(view, k, i) =>
                image.sources[k].updated = image.snapshots[i].created
    BY <1>1, <1>3, <2>1 DEF Answers, UpdatedAtMismatch
  <2> QED
    BY <2>2, <2>3, <2>4, <2>5 DEF SourceBound, view
<1>7. ASSUME NEW i \in DOMAIN image.snapshots PROVE RowBound(image, i)
  <2> DEFINE k == image.snapshots[i].source
  <2>1. k \in SourcesIn(view)
    BY <1>1, <1>2 DEF AuditAccepts, SnapshotOrphan, Answers
  <2>2. i \in RevisionsOf(image, k)
    BY DEF RevisionsOf
  <2>3. ~MaterialIssue(view, k)
    BY <1>2, <2>1 DEF AuditAccepts
  <2>4. Records(image, i) # {}
    BY <1>3, <1>5, <2>2, <2>3 DEF MaterialIssue, SnapshotCreationMismatch
  <2>5. \A n \in Records(image, i) :
            /\ image.ledger[n].source = k
            /\ image.ledger[n].version = image.snapshots[i].version
            /\ image.ledger[n].text = image.snapshots[i].text
            /\ image.ledger[n].previous = image.snapshots[i].previous
    BY <1>1, <1>3, <1>4, <2>2, <2>3
       DEF Answers, MaterialIssue, SnapshotPayloadMismatch
  <2>6. \A n \in Records(image, i) :
            image.ledger[n].at = image.snapshots[i].created
    BY <1>1, <1>3, <1>4, <2>2, <2>3
       DEF Answers, MaterialIssue, SnapshotTimestampMismatch
  <2> QED
    BY <1>3, <2>1, <2>4, <2>5, <2>6 DEF RowBound
<1>8. NoStranger(image)
  <2>1. ASSUME NEW n \in DOMAIN image.ledger,
               image.ledger[n].event = "source.created"
        PROVE  /\ image.ledger[n].source \in Keys
               /\ Known(image, image.ledger[n].source)
    <3>1. n \in DOMAIN view.sourceEntries /\ view.sourceEntries[n] = image.ledger[n]
      BY <1>1, <2>1 DEF Answers, EntriesWith
    <3> QED
      BY <1>2, <1>3, <3>1 DEF AuditAccepts, LedgerOrphan
  <2>2. ASSUME NEW n \in DOMAIN image.ledger,
               image.ledger[n].event = "source_snapshot.created"
        PROVE  image.ledger[n].snapshot \in DOMAIN image.snapshots
    <3>1. /\ n \in DOMAIN view.snapshotEntries
          /\ view.snapshotEntries[n] = image.ledger[n]
      BY <1>1, <2>2 DEF Answers, EntriesWith
    <3>2. PICK k \in SourcesIn(view) :
              image.ledger[n].snapshot \in RowsOf(view, k)
      BY <1>2, <3>1 DEF AuditAccepts, LedgerOrphan
    <3> QED
      BY <1>3, <3>2 DEF RevisionsOf
  <2> QED
    BY <2>1, <2>2 DEF NoStranger
<1> QED
  BY <1>6, <1>7, <1>8 DEF Bound

(* The last revision of the storage is the last of the audit. *)
LEMMA LastRevision ==
    ASSUME NEW image, Auditable(image), NEW k \in Keys, Known(image, k)
    PROVE  \E i \in RevisionsOf(image, k) :
               /\ IsLast(ReadAll(image), k, i)
               /\ image.sources[k].updated = image.snapshots[i].created
<1>1. Sound(image) /\ RevisionsOf(image, k) # {}
  BY DEF Auditable, Replays, SettledSource
<1>2. PICK n \in Nat : CountUpTo(image, k, n)
  BY <1>1 DEF Sound
<1> DEFINE i == LatestOf(image, k)
<1>3. i \in RevisionsOf(image, k) /\ image.snapshots[i].version = n
  BY <1>1, <1>2, LatestFacts
<1> HIDE DEF i
<1>4. ASSUME NEW j \in RevisionsOf(image, k)
      PROVE  image.snapshots[j].version \in 1..n
  BY <1>2, <1>4 DEF CountUpTo, Versions
<1>5. IsLatest(image, k, i)
  BY <1>3, <1>4 DEF IsLatest
<1>6. image.sources[k].updated = image.snapshots[i].created
  BY <1>3, <1>5 DEF Auditable, SettledSource
<1>7. \A j \in RevisionsOf(image, k) \ {i} :
          image.snapshots[j].version < image.snapshots[i].version
  <2> SUFFICES ASSUME NEW j \in RevisionsOf(image, k), j # i
               PROVE  image.snapshots[j].version < image.snapshots[i].version
    OBVIOUS
  <2>1. image.snapshots[j].version # image.snapshots[i].version
    BY <1>1, <1>3 DEF Sound, VersionsDiffer
  <2> QED
    BY <1>3, <1>4, <2>1
<1>8. IsLast(ReadAll(image), k, i)
  BY <1>3, <1>7, ReadingOf DEF IsLast, Earlier, RowsOf, RevisionsOf, Answers
<1> QED
  BY <1>3, <1>6, <1>8

(* A row of sources cannot be changed, removed or invented. *)
LEMMA SourcesAreKept ==
    ASSUME NEW image, Auditable(image), NEW edited \in EditedSources(image),
           AuditAccepts(ReadAll(edited))
    PROVE  edited = image
<1>1. image \in Image /\ Bound(edited)
  BY AcceptedIsBound DEF Auditable, Replays, Sound
<1>2. PICK k \in Keys, row \in SourceRow \cup {NoSource} :
          edited = [image EXCEPT !.sources[k] = row]
  BY DEF EditedSources
<1>3. /\ edited.ledger = image.ledger
      /\ edited.snapshots = image.snapshots
      /\ edited.sources = [image.sources EXCEPT ![k] = row]
      /\ edited.sources[k] = row
  BY <1>1, <1>2 DEF Image
<1>4. Creations(edited, k) = Creations(image, k)
  BY <1>3 DEF Creations
<1>5. \A old \in SourceRow : old # NoSource
  BY DEF SourceRow, NoSource
<1> SUFFICES row = image.sources[k]
  BY <1>1, <1>2 DEF Image
<1>6. image.sources[k] \in SourceRow \cup {NoSource}
  BY <1>1 DEF Image
<1>7. CASE ~Known(image, k) /\ Known(edited, k)
  <2>1. PICK n \in Creations(image, k) : TRUE
    BY <1>1, <1>4, <1>7 DEF Bound, SourceBound
  <2> QED
    BY <1>7, <2>1 DEF Creations, Auditable, Replays, NoStranger
<1>8. CASE Known(image, k) /\ ~Known(edited, k)
  <2>1. PICK n : TellsSource(image, n, k)
    BY <1>8 DEF Auditable, Replays, SourcesTold
  <2>2. n \in Creations(edited, k)
    BY <1>4, <2>1 DEF TellsSource
  <2> QED
    BY <1>1, <1>8, <2>2 DEF Creations, Bound, NoStranger
<1>9. CASE Known(image, k) /\ Known(edited, k)
  <2>1. PICK n : TellsSource(image, n, k)
    BY <1>9 DEF Auditable, Replays, SourcesTold
  <2>2. image.ledger[n].name = image.sources[k].name
    BY <1>9, <2>1 DEF Auditable, Replays, SourcesTold, TellsSource
  <2>3. n \in Creations(edited, k)
    BY <1>4, <2>1 DEF TellsSource
  <2>4. SourceBound(edited, k)
    BY <1>1, <1>9 DEF Bound
  <2>5. row.name = image.sources[k].name /\ row.created = image.sources[k].created
    BY <1>3, <2>1, <2>2, <2>3, <2>4 DEF SourceBound, TellsSource
  <2>6. PICK i \in RevisionsOf(image, k) :
            /\ IsLast(ReadAll(image), k, i)
            /\ image.sources[k].updated = image.snapshots[i].created
    BY <1>9, LastRevision
  <2>7. i \in RevisionsOf(edited, k) /\ IsLast(ReadAll(edited), k, i)
    BY <1>3, <2>6, ReadingOf DEF IsLast, Earlier, RowsOf, RevisionsOf, Answers
  <2>8. row.updated = image.sources[k].updated
    BY <1>3, <2>4, <2>6, <2>7 DEF SourceBound
  <2>9. row \in SourceRow /\ image.sources[k] \in SourceRow
    BY <1>3, <1>6, <1>9 DEF Known
  <2> QED
    BY <2>5, <2>8, <2>9 DEF SourceRow
<1>10. CASE ~Known(image, k) /\ ~Known(edited, k)
  BY <1>3, <1>10 DEF Known
<1> QED
  BY <1>7, <1>8, <1>9, <1>10

LEMMA EditedRow ==
    ASSUME NEW image \in Image, NEW edited \in EditedSnapshots(image)
    PROVE  \E i \in Nat, row \in SnapshotRow : edited = WithRowAt(image, i, row)
<1>1. /\ Len(image.snapshots) \in Nat
      /\ DOMAIN image.snapshots = 1 .. Len(image.snapshots)
  BY LenProperties DEF Image
<1>2. \E i \in 1 .. Len(image.snapshots) + 1,
         row \in [source : Keys, version : 1 .. Len(image.snapshots) + 1,
                  text : Texts, previous : 0 .. Len(image.snapshots),
                  created : Times] :
          edited = WithRowAt(image, i, row)
  BY DEF EditedSnapshots
<1> QED
  BY <1>1, <1>2 DEF SnapshotRow

(* A row of source_snapshots cannot be changed or invented. *)
LEMMA SnapshotsAreKept ==
    ASSUME NEW image, Auditable(image), NEW edited \in EditedSnapshots(image),
           AuditAccepts(ReadAll(edited))
    PROVE  edited = image
<1>1. /\ image \in Image /\ Bound(edited)
      /\ Len(image.snapshots) \in Nat
      /\ DOMAIN image.snapshots = 1 .. Len(image.snapshots)
  BY AcceptedIsBound, LenProperties DEF Auditable, Replays, Sound, Image
<1>2. PICK i \in Nat, row \in SnapshotRow : edited = WithRowAt(image, i, row)
  BY <1>1, EditedRow
<1> DEFINE table == [j \in DOMAIN image.snapshots \cup {i} |->
                        IF j = i THEN row ELSE image.snapshots[j]]
<1>3. /\ edited.ledger = image.ledger
      /\ edited.sources = image.sources
      /\ edited.snapshots = table
  BY <1>1, <1>2 DEF Image, WithRowAt
<1>4. i \in DOMAIN edited.snapshots /\ edited.snapshots[i] = row
  BY <1>3
<1>5. RowBound(edited, i) /\ Records(edited, i) = Records(image, i)
  BY <1>1, <1>3, <1>4 DEF Bound, Records
<1>6. PICK m \in Records(image, i) :
          /\ image.ledger[m].source = row.source
          /\ image.ledger[m].version = row.version
          /\ image.ledger[m].text = row.text
          /\ image.ledger[m].previous = row.previous
          /\ image.ledger[m].at = row.created
  BY <1>3, <1>4, <1>5 DEF RowBound
<1>7. i \in DOMAIN image.snapshots
  BY <1>6 DEF Records, Auditable, Replays, NoStranger
<1>8. PICK told : TellsRow(image, told, i)
  BY <1>7 DEF Auditable, Replays, RowsTold
<1>9. told = m
  BY <1>6, <1>8 DEF TellsRow
<1>10. image.snapshots[i] \in SnapshotRow
  BY <1>1, <1>7, RowTyped
<1>11. row = image.snapshots[i]
  BY <1>6, <1>8, <1>9, <1>10 DEF TellsRow, SnapshotRow
<1>12. table = image.snapshots
  <2>1. image.snapshots = [j \in DOMAIN image.snapshots |-> image.snapshots[j]]
    BY <1>1 DEF Image
  <2> QED
    BY <1>7, <1>11, <2>1
<1> QED
  BY <1>1, <1>2, <1>12 DEF Image, WithRowAt

(* Nor removed. *)
LEMMA SnapshotsAreNotDeleted ==
    ASSUME NEW image, Auditable(image), NEW edited \in DeletedSnapshots(image)
    PROVE  ~AuditAccepts(ReadAll(edited))
<1> SUFFICES ASSUME AuditAccepts(ReadAll(edited)) PROVE FALSE
  OBVIOUS
<1>1. image \in Image /\ Bound(edited)
  BY AcceptedIsBound DEF Auditable, Replays, Sound
<1>2. PICK i \in DOMAIN image.snapshots :
          edited = [image EXCEPT !.snapshots =
                       [j \in DOMAIN @ \ {i} |-> @[j]]]
  BY DEF DeletedSnapshots
<1>3. edited.ledger = image.ledger /\ i \notin DOMAIN edited.snapshots
  BY <1>1, <1>2 DEF Image
<1>4. PICK n : TellsRow(image, n, i)
  BY DEF Auditable, Replays, RowsTold
<1>5. n \in Records(image, i)
  BY <1>4 DEF TellsRow
<1> QED
  BY <1>1, <1>3, <1>5 DEF Records, Bound, NoStranger

(* replay_source_audits (source_integrity.py) misses no row of sources or
   source_snapshots that was changed, added or removed behind the program's
   back, whatever was imported before. *)
THEOREM SourceEditsAreNoticed == Spec => SourceEditIsNoticed
<1>1. ASSUME NEW image, Auditable(image), NEW edited \in Edits(image)
      PROVE  ~AuditAccepts(ReadAll(edited))
  BY <1>1, SourcesAreKept, SnapshotsAreKept, SnapshotsAreNotDeleted DEF Edits
<1>2. AInv /\ [Next]_vars =>
          [db' # db => \A edited \in Edits(db') :
                           ~AuditAccepts(ReadAll(edited))]_vars
  <2> SUFFICES ASSUME AInv, [Next]_vars, NEW edited \in Edits(db')
               PROVE  ~AuditAccepts(ReadAll(edited))
    OBVIOUS
  <2>1. Auditable(db')
    BY NextAInv DEF AInv
  <2> QED
    BY <1>1, <2>1
<1> QED
  BY <1>2, AuditInvariant, PTL DEF Spec, SourceEditIsNoticed
-----------------------------------------------------------------------------
(* The reader's answers are those of four states, each later than the one
   before, and of a single one if they are pinned.                          *)
Answered(query) ==
    [sources         |-> {"snapshots", "sourceEntries", "snapshotEntries", "audit"},
     snapshots       |-> {"sourceEntries", "snapshotEntries", "audit"},
     sourceEntries   |-> {"snapshotEntries", "audit"},
     snapshotEntries |-> {"audit"}][query]

Told(a, b, c, d) ==
    /\ Auditable(a) /\ Auditable(b) /\ Auditable(c) /\ Auditable(d)
    /\ Grows(a, b) /\ Grows(b, c) /\ Grows(c, d) /\ Grows(d, Seen)
    /\ pinned # "no" => a = Seen /\ b = Seen /\ c = Seen /\ d = Seen
    /\ reader \in Answered("sources") =>
           reading["sources"] = Read(a, "sources")
    /\ reader \in Answered("snapshots") =>
           reading["snapshots"] = Read(b, "snapshots")
    /\ reader \in Answered("sourceEntries") =>
           reading["sourceEntries"] = Read(c, "sourceEntries")
    /\ reader \in Answered("snapshotEntries") =>
           reading["snapshotEntries"] = Read(d, "snapshotEntries")

RInv ==
    /\ AInv
    /\ Auditable(Seen)
    /\ reader \in Reading \cup {"idle", "audit"}
    /\ pinned \in {"no", "rollback", "wal"}
    /\ reader = "idle" => pinned = "no"
    /\ DOMAIN reading = Reading
    /\ \E a, b, c, d : Told(a, b, c, d)

(* A reader without an answer. *)
LEMMA NothingTold ==
    ASSUME Auditable(Seen), reader \in {"idle", "sources"}
    PROVE  Told(Seen, Seen, Seen, Seen)
BY GrowsOnce DEF Told, Answered

LEMMA ReadersInitInv == ReadersInit => RInv
<1> SUFFICES ASSUME ReadersInit PROVE RInv
  OBVIOUS
<1>1. /\ AInv /\ db = EmptyImage /\ reader = "idle" /\ pinned = "no"
      /\ reading = ReadAll(EmptyImage)
  BY InitAInv DEF ReadersInit, Init, StartIn
<1>2. Auditable(Seen)
  BY <1>1, EmptyIsAuditable DEF Seen
<1>3. Told(Seen, Seen, Seen, Seen)
  BY <1>1, <1>2, NothingTold
<1> QED
  BY <1>1, <1>2, <1>3 DEF RInv, ReadAll

(* Imports go on under an unpinned reader only. *)
LEMMA SessionsKeepTold ==
    ASSUME RInv, [Next]_vars, db' # db => ~BlocksCommit, UNCHANGED readerVars
    PROVE  RInv'
<1>1. AInv' /\ Grows(db, db') /\ Auditable(db')
  BY NextAInv DEF RInv, AInv
<1>2. UNCHANGED <<reader, pinned, snapshot, reading>>
  BY DEF readerVars
<1>3. Grows(Seen, Seen') /\ (pinned # "no" => Seen' = Seen) /\ Auditable(Seen')
  <2>1. CASE pinned = "wal"
    BY <1>2, <2>1, GrowsOnce DEF Seen, RInv
  <2>2. CASE pinned = "rollback"
    BY <1>1, <1>2, <2>2, GrowsOnce DEF Seen, BlocksCommit
  <2>3. CASE pinned = "no"
    BY <1>1, <1>2, <2>3 DEF Seen
  <2> QED
    BY <2>1, <2>2, <2>3 DEF RInv
<1>4. PICK a, b, c, d : Told(a, b, c, d)
  BY DEF RInv
<1>5. Told(a, b, c, d)'
  <2>1. Grows(d, Seen')
    BY <1>3, <1>4, GrowsTwice DEF Told
  <2> QED
    BY <1>2, <1>3, <1>4, <2>1 DEF Told
<1> QED
  BY <1>1, <1>2, <1>3, <1>5 DEF RInv
(* A reader takes one more answer, from what it sees now. *)
LEMMA QueryKeepsTold ==
    ASSUME RInv, Query
    PROVE  RInv'
<1>1. /\ reader \in Reading
      /\ reading' = [reading EXCEPT ![reader] = Read(Seen, reader)]
      /\ reader' = After(reader)
      /\ UNCHANGED <<db, work, lock, depth, pc, call, pinned, snapshot>>
  BY DEF Query, vars
<1>2. AInv' /\ Seen' = Seen
  <2>1. [Next]_vars
    BY <1>1 DEF vars
  <2> QED
    BY <1>1, <2>1, NextAInv DEF RInv, Seen
<1>3. PICK a, b, c, d : Told(a, b, c, d)
  BY DEF RInv
<1>4. /\ DOMAIN reading' = Reading
      /\ reading'[reader] = Read(Seen, reader)
      /\ \A query \in Reading \ {reader} : reading'[query] = reading[query]
  BY <1>1 DEF RInv
<1>5. Auditable(Seen) /\ Grows(Seen, Seen)
  BY GrowsOnce DEF RInv
<1>6. \E w, x, y, z : Told(w, x, y, z)'
  <2>1. CASE reader = "sources"
    <3>1. reader' = "snapshots"
      BY <1>1, <2>1 DEF After
    <3>2. Told(Seen, Seen, Seen, Seen)'
      BY <1>2, <1>4, <1>5, <2>1, <3>1 DEF Told, Answered
    <3> QED
      BY <1>2, <3>2
  <2>2. CASE reader = "snapshots"
    <3>1. reader' = "sourceEntries" /\ "sources" \in Reading \ {reader}
      BY <1>1, <2>2 DEF After, Reading
    <3>2. /\ Auditable(a) /\ Grows(a, Seen)
          /\ pinned # "no" => a = Seen
          /\ reading["sources"] = Read(a, "sources")
      BY <1>3, <2>2, GrowsTwice DEF Told, Answered
    <3>3. Told(a, Seen, Seen, Seen)'
      BY <1>1, <1>2, <1>4, <1>5, <2>2, <3>1, <3>2 DEF Told, Answered
    <3> QED
      BY <1>2, <3>3
  <2>3. CASE reader = "sourceEntries"
    <3>1. /\ reader' = "snapshotEntries"
          /\ {"sources", "snapshots"} \subseteq Reading \ {reader}
      BY <1>1, <2>3 DEF After, Reading
    <3>2. /\ Auditable(a) /\ Auditable(b) /\ Grows(a, b) /\ Grows(b, Seen)
          /\ pinned # "no" => a = Seen /\ b = Seen
          /\ reading["sources"] = Read(a, "sources")
          /\ reading["snapshots"] = Read(b, "snapshots")
      BY <1>3, <2>3, GrowsTwice DEF Told, Answered
    <3>3. Told(a, b, Seen, Seen)'
      BY <1>1, <1>2, <1>4, <1>5, <2>3, <3>1, <3>2 DEF Told, Answered
    <3> QED
      BY <1>2, <3>3
  <2>4. CASE reader = "snapshotEntries"
    <3>1. /\ reader' = "audit"
          /\ {"sources", "snapshots", "sourceEntries"} \subseteq Reading \ {reader}
      BY <1>1, <2>4 DEF After, Reading
    <3>2. /\ Auditable(a) /\ Auditable(b) /\ Auditable(c)
          /\ Grows(a, b) /\ Grows(b, c) /\ Grows(c, Seen)
          /\ pinned # "no" => a = Seen /\ b = Seen /\ c = Seen
          /\ reading["sources"] = Read(a, "sources")
          /\ reading["snapshots"] = Read(b, "snapshots")
          /\ reading["sourceEntries"] = Read(c, "sourceEntries")
      BY <1>3, <2>4, GrowsTwice DEF Told, Answered
    <3>3. Told(a, b, c, Seen)'
      BY <1>1, <1>2, <1>4, <1>5, <2>4, <3>1, <3>2 DEF Told, Answered
    <3> QED
      BY <1>2, <3>3
  <2> QED
    BY <1>1, <2>1, <2>2, <2>3, <2>4 DEF Reading
<1>7. reader' \in Reading \cup {"audit"}
  BY <1>1 DEF After, Reading
<1> QED
  BY <1>1, <1>2, <1>4, <1>5, <1>6, <1>7 DEF RInv, Reading

LEMMA ReadersNextInv == RInv /\ [ReadersNext]_allVars => RInv'
<1> SUFFICES ASSUME RInv, [ReadersNext]_allVars PROVE RInv'
  OBVIOUS
<1>1. ASSUME UNCHANGED vars
      PROVE  AInv' /\ db' = db
  BY <1>1, NextAInv DEF RInv, vars
<1>2. CASE \E s \in Sessions : SessionStep(s)
  BY <1>2, SessionsKeepTold DEF SessionStep, Next
<1>3. CASE StartValidator
  <2>1. /\ reader' = "sources" /\ pinned = "no" /\ UNCHANGED vars
        /\ UNCHANGED <<pinned, snapshot, reading>>
    BY <1>3 DEF StartValidator, RInv
  <2>2. AInv' /\ Seen' = Seen
    BY <1>1, <2>1 DEF Seen
  <2>3. Told(Seen, Seen, Seen, Seen)'
    BY <2>1, <2>2, GrowsOnce DEF Told, Answered, RInv
  <2> QED
    BY <2>1, <2>2, <2>3 DEF RInv, Reading
<1>4. CASE StartCompiler
  <2>1. /\ reader' = "sources" /\ UNCHANGED vars /\ UNCHANGED reading
        /\ pinned' \in {"rollback", "wal"}
        /\ pinned' = "wal" => snapshot' = db
    BY <1>4 DEF StartCompiler
  <2>2. AInv' /\ Seen' = db /\ Auditable(Seen')
    BY <1>1, <2>1 DEF Seen, RInv, AInv
  <2>3. Told(Seen, Seen, Seen, Seen)'
    BY <2>1, <2>2, GrowsOnce DEF Told, Answered
  <2> QED
    BY <2>1, <2>2, <2>3 DEF RInv, Reading
<1>5. CASE Query
  BY <1>5, QueryKeepsTold
<1>6. CASE StopReading
  <2>1. /\ reader' = "idle" /\ pinned' = "no" /\ UNCHANGED vars
        /\ reading' = ReadAll(EmptyImage)
    BY <1>6 DEF StopReading
  <2>2. AInv' /\ Seen' = db /\ Auditable(Seen')
    BY <1>1, <2>1 DEF Seen, RInv, AInv
  <2>3. Told(Seen, Seen, Seen, Seen)'
    BY <2>1, <2>2, GrowsOnce DEF Told, Answered
  <2> QED
    BY <2>1, <2>2, <2>3 DEF RInv, ReadAll
<1>7. CASE UNCHANGED allVars
  <2>1. [Next]_vars /\ db' = db /\ UNCHANGED readerVars
    BY <1>7 DEF allVars, vars
  <2> QED
    BY <2>1, SessionsKeepTold
<1> QED
  BY <1>2, <1>3, <1>4, <1>5, <1>6, <1>7 DEF ReadersNext

LEMMA ReadersInvariant == ReadersSpec => []RInv
  BY ReadersInitInv, ReadersNextInv, PTL DEF ReadersSpec

(* MemoryCompiler.compile (compiler.py) audits what read_transaction() pinned
   at its first read: whatever imports commit meanwhile, and in either journal
   mode, it never refuses a repository the program made. *)
THEOREM CompilationsSeeOneState == ReadersSpec => []CompilerSeesOneState
<1>1. RInv => CompilerSeesOneState
  <2> SUFFICES ASSUME RInv, reader = "audit", pinned # "no"
               PROVE  AuditAccepts(reading)
    BY DEF CompilerSeesOneState
  <2>1. PICK a, b, c, d : Told(a, b, c, d)
    BY DEF RInv
  <2>2. \A query \in Reading : reading[query] = Read(Seen, query)
    BY <2>1 DEF Told, Answered, Reading
  <2>3. Answers(reading, Seen, Seen, Seen, Seen)
    BY <2>2, ReadingOf
  <2> QED
    BY <2>3, OneStateAccepted DEF RInv
<1> QED
  BY <1>1, ReadersInvariant, PTL

(* ProjectValidator.validate (validate.py) reads rows first and the entries
   that explain them later, so whatever is imported between its queries, it
   blames no revision, nor an entry of one. *)
THEOREM ValidationsBlameNoRevision == ReadersSpec => []ValidatorBlamesNoRevision
<1>1. RInv => ValidatorBlamesNoRevision
  <2> SUFFICES ASSUME RInv, reader = "audit", NEW k \in SourcesIn(reading)
               PROVE  ~MaterialIssue(reading, k)
    BY DEF ValidatorBlamesNoRevision
  <2>1. PICK a, b, c, d : Told(a, b, c, d)
    BY DEF RInv
  <2>2. Answers(reading, a, b, c, d)
    BY <2>1 DEF Told, Answered, Answers, Read
  <2>3. Below(reading, d) /\ Replays(d)
    BY <2>1, <2>2, AnswersBelow DEF Told, Auditable
  <2> QED
    BY <2>3, NothingToBlame
<1> QED
  BY <1>1, ReadersInvariant, PTL
=============================================================================
