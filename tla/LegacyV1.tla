------------------------------- MODULE LegacyV1 -------------------------------
(***************************************************************************)
(* The rows of a v0.1 repository: how _validate_v01 (migrations.py) judges *)
(* them, which of them quarantine keeps out, and what the migration        *)
(* (_migrate_legacy_v1 in storage.py) makes of the others.                 *)
(*                                                                         *)
(* The tables are those _classify lets through as v0.1: source_snapshots   *)
(* and claims.  A row is `sound' when its own fields pass; what a row says *)
(* of another row is checked here.                                         *)
(***************************************************************************)
EXTENDS Integers, FiniteSets

CONSTANTS
    Snapshots,   \* row names of source_snapshots
    Claims,      \* row names of claims
    Row,         \* what each of them holds
    LineCount    \* lines of each content

(* A primary key as SQLite allows it: a text, one with spaces around it, the
   empty text, or none. *)
Ids == {"text", "padded", "blank", "null"}

SnapshotRows ==
    [id : Ids,
     path : STRING, continuity : STRING,
     content : DOMAIN LineCount,
     place : Nat,                     \* rank by path, created_at and rowid
     sound : BOOLEAN]

ClaimRows ==
    [id : Ids, snapshot : Snapshots,
     continuity : STRING, end_line : Nat, sound : BOOLEAN,
     plain : BOOLEAN]                 \* no BLOB as subject, predicate or object

ASSUME RowsAssumption ==
    /\ Snapshots \cap Claims = {}
    /\ \A s \in Snapshots : Row[s] \in SnapshotRows
    /\ \A c \in Claims : Row[c] \in ClaimRows
    /\ \A s, t \in Snapshots : Row[s].place = Row[t].place => s = t
-----------------------------------------------------------------------------
(* _validate_v01. *)

(* _valid_metadata_text does not mind the spaces. *)
HasId(r) == Row[r].id \in {"text", "padded"}

Sound(r) == Row[r].sound /\ HasId(r)

(* The claim's snapshot is in the table under a usable id, spaces included. *)
NamesSnapshot(rows, c) ==
    /\ Row[c].snapshot \in rows
    /\ HasId(Row[c].snapshot)

CitesItsSnapshot(c) ==
    /\ Row[c].continuity = Row[Row[c].snapshot].continuity
    /\ Row[c].end_line \in 1 .. LineCount[Row[Row[c].snapshot].content]

(* Rows with an issue of their own. *)
Refused(rows) ==
    {r \in rows : ~Sound(r)}
    \cup {c \in rows \cap Claims : ~(NamesSnapshot(rows, c) /\ CitesItsSnapshot(c))}

(* Rows that an issue can name; claims on a refused snapshot go with it. *)
Quarantined(rows) ==
    LET named == {r \in Refused(rows) : Row[r].id # "null"}
    IN  named \cup {c \in rows \cap Claims : Row[c].snapshot \in named}

(* Mutant of QuarantinedIn: claims do not follow their snapshot. *)
QuarantinedAlone(mode, rows) ==
    IF mode = "quarantine" THEN {r \in Refused(rows) : Row[r].id # "null"} ELSE {}

QuarantinedIn(mode, rows) == IF mode = "quarantine" THEN Quarantined(rows) ELSE {}

(* Errors are left when an issue is not about a quarantined row, or about no
   row in particular, as one of a row without an id.                         *)
Admissible(mode, rows) ==
    Refused(rows) \subseteq {r \in QuarantinedIn(mode, rows) : Row[r].id # "null"}
-----------------------------------------------------------------------------
(* The migration asks again, by another key, which rows are quarantined: it
   takes an empty id for a missing one and looks for the row's number. *)
Isolated(quarantined, r) == r \in quarantined /\ HasId(r)

Kept(quarantined, rows) == {r \in rows : ~Isolated(quarantined, r)}

SourceOf(s) == <<Row[s].path, Row[s].continuity>>

(* The snapshots of a source before s, in the order they are copied. *)
Before(kept, s) ==
    {t \in kept \cap Snapshots :
        SourceOf(t) = SourceOf(s) /\ Row[t].place < Row[s].place}

LastOf(set) ==
    CHOOSE s \in set : \A t \in set : Row[t].place <= Row[s].place

(* Mutant of StartsRevision: any former revision's content is recognised. *)
StartsFreshContent(kept, s) ==
    \A t \in Before(kept, s) : Row[t].content # Row[s].content

(* A repeated adjacent import adds no revision. *)
StartsRevision(kept, s) ==
    \/ Before(kept, s) = {}
    \/ Row[LastOf(Before(kept, s))].content # Row[s].content

Revisions(kept) == {s \in kept \cap Snapshots : StartsRevision(kept, s)}

(* The revision that stands for each copied snapshot, and its number. *)
RevisionOf(kept) ==
    LET revisions == Revisions(kept)
    IN  [s \in kept \cap Snapshots |-> LastOf(revisions \cap (Before(kept, s) \cup {s}))]

VersionOf(kept) ==
    LET revisions == Revisions(kept)
    IN  [s \in kept \cap Snapshots |->
            Cardinality(revisions \cap (Before(kept, s) \cup {s}))]

(* Every claim arrives AUTHORIZED.  Its reference follows its snapshot to the
   revision, and is left out when its lines are not there. *)
HasEvidence(kept, revision, c) ==
    /\ NamesSnapshot(kept, c)
    /\ Row[c].end_line \in 1 .. LineCount[Row[revision[Row[c].snapshot]].content]

(* The rows keep their ids as they were.  The ledger's entries are appended
   under ids without the spaces around them (_nonempty), and EvidenceValidator
   takes them off before it looks a snapshot up: a padded id is found by
   neither.  Where the id without spaces is another row's, that one is found in
   its place, and the replays fail all the same.                            *)
FoundById(r) == Row[r].id # "padded"

(* A proposal's entry holds digests of the claim, as JSON: a BLOB is an error. *)
HasMaterial(c) == Row[c].plain

(* The replays of sources and of claims: every revision and every claim has the
   entry of its creation. *)
AuditsReplay(kept) ==
    /\ \A r \in Revisions(kept) \cup (kept \cap Claims) : FoundById(r)
    /\ \A c \in kept \cap Claims : HasMaterial(c)

(* The evidence validation.  An AUTHORIZED claim needs a reference to a
   snapshot that is found, of its own worldline. *)
ClaimsValidate(kept) ==
    \E revision \in {RevisionOf(kept)} :
        \A c \in kept \cap Claims :
            /\ HasEvidence(kept, revision, c)
            /\ FoundById(revision[Row[c].snapshot])
            /\ Row[revision[Row[c].snapshot]].continuity = Row[c].continuity

(* The row sets that pass at the end of the transaction. *)
Replaying ==
    {kept \in SUBSET (Snapshots \cup Claims) :
        AuditsReplay(kept) /\ ClaimsValidate(kept)}
-----------------------------------------------------------------------------
(* Rows that the parts of a migration read in different ways: claims without an
   id that quarantine should have kept out, claims that _validate_v01 takes and
   that have no material, and revisions and claims that neither the ledger nor
   the evidence check knows by their ids. *)
Misread(kept) ==
    {c \in kept \cap Claims : Row[c].id = "blank" \/ ~HasMaterial(c)}
    \cup {r \in Revisions(kept) \cup (kept \cap Claims) : ~FoundById(r)}

(* What a reader of the old repository expects of the new one: the text of a
   source is there as often as it changed, and claims cite what they cited. *)
HistoryKept(kept) ==
    LET revision == RevisionOf(kept)
        version == VersionOf(kept)
    IN  \A s \in kept \cap Snapshots :
            /\ Row[revision[s]].content = Row[s].content
            /\ SourceOf(revision[s]) = SourceOf(s)
            /\ version[revision[s]] = version[s]
            /\ Before(kept, s) # {} =>
                   LET t == LastOf(Before(kept, s))
                   IN  version[s]
                         = version[t] + (IF Row[t].content = Row[s].content THEN 0 ELSE 1)
=============================================================================
