----------------------------- MODULE SourceAudit -----------------------------
(***************************************************************************)
(* replay_source_audits (source_integrity.py): the audit that the          *)
(* compiler, the validator and the inspection service run before they      *)
(* believe a source's revisions.  It binds the rows of sources and         *)
(* source_snapshots to the ledger entries that created them.               *)
(*                                                                         *)
(* The audit works on what has been read: rows by id, entries by sequence  *)
(* number.  Each operator below is one kind of issue, named by its code.   *)
(***************************************************************************)
EXTENDS SourceRevisions, FiniteSets

(* The rows and creation entries an audit is given. *)
Reading ==
    {"sources", "snapshots", "sourceEntries", "snapshotEntries"}

EntriesWith(image, event) ==
    LET positions == {n \in DOMAIN image.ledger : image.ledger[n].event = event}
    IN  [n \in positions |-> image.ledger[n]]

(* What each of the four queries of validate_source_audits returns. *)
Read(image, part) ==
    CASE part = "sources"         -> image.sources
      [] part = "snapshots"       -> image.snapshots
      [] part = "sourceEntries"   -> EntriesWith(image, "source.created")
      [] part = "snapshotEntries" -> EntriesWith(image, "source_snapshot.created")

ReadAll(image) == [part \in Reading |-> Read(image, part)]
-----------------------------------------------------------------------------
SourcesIn(view) == {k \in Keys : view.sources[k] # NoSource}

RowsOf(view, k) ==
    {i \in DOMAIN view.snapshots : view.snapshots[i].source = k}

CreationOf(view, k) ==
    {n \in DOMAIN view.sourceEntries : view.sourceEntries[n].source = k}

EntriesFor(view, i) ==
    {n \in DOMAIN view.snapshotEntries : view.snapshotEntries[n].snapshot = i}

(* Snapshots replay in the order of their versions, unique for a source. *)
Earlier(view, k, i) ==
    {j \in RowsOf(view, k) :
        view.snapshots[j].version < view.snapshots[i].version}

Precedes(view, k, j, i) ==
    /\ j \in Earlier(view, k, i)
    /\ \A other \in Earlier(view, k, i) \ {j} : other \in Earlier(view, k, j)

IsLast(view, k, i) ==
    /\ i \in RowsOf(view, k)
    /\ \A j \in RowsOf(view, k) \ {i} : j \in Earlier(view, k, i)
-----------------------------------------------------------------------------
(* SOURCE_CREATION_LEDGER_MISMATCH *)
CreationMismatch(view, k) == Cardinality(CreationOf(view, k)) # 1

(* SOURCE_LEDGER_PAYLOAD_MISMATCH *)
SourcePayloadMismatch(view, k) ==
    \E n \in CreationOf(view, k) :
        view.sourceEntries[n].name # view.sources[k].name

(* SOURCE_LEDGER_TIMESTAMP_MISMATCH *)
SourceTimestampMismatch(view, k) ==
    \E n \in CreationOf(view, k) :
        view.sourceEntries[n].at # view.sources[k].created

(* SOURCE_SNAPSHOT_REQUIRED *)
SnapshotRequired(view, k) == RowsOf(view, k) = {}

(* SOURCE_SNAPSHOT_VERSION_GAP *)
VersionGap(view, k) ==
    \E i \in RowsOf(view, k) :
        view.snapshots[i].version # Cardinality(Earlier(view, k, i)) + 1

(* SOURCE_SNAPSHOT_LINEAGE_MISMATCH *)
LineageMismatch(view, k) ==
    \E i \in RowsOf(view, k) :
        LET previous == view.snapshots[i].previous
        IN  IF Earlier(view, k, i) = {} THEN previous # 0
            ELSE ~Precedes(view, k, previous, i)

(* SOURCE_SNAPSHOT_CREATION_LEDGER_MISMATCH *)
SnapshotCreationMismatch(view, k) ==
    \E i \in RowsOf(view, k) : Cardinality(EntriesFor(view, i)) # 1

(* SOURCE_SNAPSHOT_LEDGER_PAYLOAD_MISMATCH *)
SnapshotPayloadMismatch(view, k) ==
    \E i \in RowsOf(view, k) : \E n \in EntriesFor(view, i) :
        LET row   == view.snapshots[i]
            entry == view.snapshotEntries[n]
        IN  \/ entry.source # k
            \/ entry.name # view.sources[k].name
            \/ <<entry.version, entry.text, entry.previous>>
                   # <<row.version, row.text, row.previous>>

(* SOURCE_SNAPSHOT_LEDGER_TIMESTAMP_MISMATCH *)
SnapshotTimestampMismatch(view, k) ==
    \E i \in RowsOf(view, k) : \E n \in EntriesFor(view, i) :
        view.snapshotEntries[n].at # view.snapshots[i].created

(* Mutant of UpdatedAtMismatch: any revision's time will do. *)
UpdatedAtOfNoRevision(view, k) ==
    \A i \in RowsOf(view, k) :
        view.sources[k].updated # view.snapshots[i].created

(* SOURCE_UPDATED_AT_MISMATCH *)
UpdatedAtMismatch(view, k) ==
    \E i \in RowsOf(view, k) :
        /\ IsLast(view, k, i)
        /\ view.sources[k].updated # view.snapshots[i].created

(* SOURCE_LEDGER_ORDER_INVALID *)
SourceOrderInvalid(view, k) ==
    \E n \in CreationOf(view, k) : \E i \in RowsOf(view, k) :
        \E m \in EntriesFor(view, i) : m <= n

(* SOURCE_SNAPSHOT_LEDGER_ORDER_INVALID *)
SnapshotOrderInvalid(view, k) ==
    \E i \in RowsOf(view, k) : \E j \in Earlier(view, k, i) :
        \E m \in EntriesFor(view, j), n \in EntriesFor(view, i) : n < m

(* SOURCE_AUDIT_LEDGER_ORPHAN *)
LedgerOrphan(view) ==
    \/ \E n \in DOMAIN view.sourceEntries :
           view.sourceEntries[n].source \notin SourcesIn(view)
    \/ \E n \in DOMAIN view.snapshotEntries :
           \A k \in SourcesIn(view) :
               view.snapshotEntries[n].snapshot \notin RowsOf(view, k)

(* SOURCE_AUDIT_SNAPSHOT_ORPHAN *)
SnapshotOrphan(view) ==
    \E i \in DOMAIN view.snapshots :
        view.snapshots[i].source \notin SourcesIn(view)
-----------------------------------------------------------------------------
(* Issues that blame a snapshot's row or entry, or the entry of a source. *)
MaterialIssue(view, k) ==
    \/ CreationMismatch(view, k)
    \/ SourcePayloadMismatch(view, k)
    \/ SourceTimestampMismatch(view, k)
    \/ SnapshotRequired(view, k)
    \/ VersionGap(view, k)
    \/ LineageMismatch(view, k)
    \/ SnapshotCreationMismatch(view, k)
    \/ SnapshotPayloadMismatch(view, k)
    \/ SnapshotTimestampMismatch(view, k)
    \/ SourceOrderInvalid(view, k)
    \/ SnapshotOrderInvalid(view, k)

(* replay_source_audits: every report is valid. *)
AuditAccepts(view) ==
    /\ \A k \in SourcesIn(view) :
           ~MaterialIssue(view, k) /\ ~UpdatedAtMismatch(view, k)
    /\ ~LedgerOrphan(view)
    /\ ~SnapshotOrphan(view)

(* No false alarm: whatever the imports, failures and clock readings, the audit
   accepts every committed repository. *)
CommittedSourcesReplay == AuditAccepts(ReadAll(db))
-----------------------------------------------------------------------------
(* Edits of one row behind the program's back.  The ledger is left as it is
   (its own hash chain guards it), and so are the unique indexes.           *)
EditedSources(image) ==
    {[image EXCEPT !.sources[k] = row] :
        k \in Keys, row \in SourceRow \cup {NoSource}}

OneName(image) ==
    \A j, k \in Keys :
        Known(image, j) /\ Known(image, k)
            /\ image.sources[j].name = image.sources[k].name => j = k

OneVersion(image) ==
    \A i, j \in DOMAIN image.snapshots :
        /\ image.snapshots[i].source = image.snapshots[j].source
        /\ image.snapshots[i].version = image.snapshots[j].version
        => i = j

WithRowAt(image, i, row) ==
    [image EXCEPT !.snapshots =
        [j \in DOMAIN @ \cup {i} |-> IF j = i THEN row ELSE @[j]]]

(* Any row in the place of another, or one more row. *)
EditedSnapshots(image) ==
    LET n == Len(image.snapshots)
        rows == [source : Keys, version : 1 .. n + 1, text : Texts,
                 previous : 0 .. n, created : Times]
    IN  {WithRowAt(image, i, row) : i \in 1 .. n + 1, row \in rows}

DeletedSnapshots(image) ==
    {[image EXCEPT !.snapshots = [j \in DOMAIN @ \ {i} |-> @[j]]] :
        i \in DOMAIN image.snapshots}

Edits(image) ==
    {edited \in EditedSources(image) \cup EditedSnapshots(image)
                    \cup DeletedSnapshots(image) :
        edited # image /\ OneName(edited) /\ OneVersion(edited)}

(* No single edited, added or deleted row of a committed repository goes
   unnoticed. *)
SourceEditIsNoticed ==
    [][db' # db => \A edited \in Edits(db') :
                       ~AuditAccepts(ReadAll(edited))]_vars
=============================================================================
