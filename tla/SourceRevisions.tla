---------------------------- MODULE SourceRevisions ----------------------------
(***************************************************************************)
(* Importing sources into a SQLite repository: SQLiteStorage.              *)
(* ingest_snapshot (storage.py) with the triggers and constraints of the   *)
(* tables it writes.  Sessions, the write lock and failures are those of   *)
(* Transactions.                                                           *)
(*                                                                         *)
(* A snapshot's id is its row number, and 0 is NULL.  A source's id stands *)
(* for the key and continuity it is created for: there is one source for   *)
(* each.  A text stands for its hash and goes with media type, path and    *)
(* line count.                                                             *)
(***************************************************************************)
EXTENDS Transactions, Sequences

CONSTANTS
    Keys,         \* logical sources: a source key within a continuity
    Texts,        \* contents, told apart by their hash
    Times,        \* readings of the wall clock, in no particular order
    MaxLedger     \* entries the disk has room for

ASSUME TimesAssumption == Times # {}
ASSUME MaxLedgerAssumption == MaxLedger \in Nat
-----------------------------------------------------------------------------
(* Tables. *)
SourceRow == [name : Keys, created : Times, updated : Times]

NoSource == [name |-> "none"]

SnapshotRow ==
    [source : Keys, version : Nat \ {0}, text : Texts, previous : Nat,
     created : Times]

SourceEntry ==
    [event : {"source.created"}, source : Keys, name : Keys, at : Times]

SnapshotEntry ==
    [event : {"source_snapshot.created"}, snapshot : Nat \ {0}, source : Keys,
     name : Keys, version : Nat \ {0}, text : Texts, previous : Nat, at : Times]

Image ==
    [sources   : [Keys -> SourceRow \cup {NoSource}],
     snapshots : Seq(SnapshotRow),
     ledger    : Seq(SourceEntry \cup SnapshotEntry)]

EmptyImage ==
    [sources   |-> [k \in Keys |-> NoSource],
     snapshots |-> <<>>,
     ledger    |-> <<>>]

Known(image, k) == image.sources[k] # NoSource

RevisionsOf(image, k) ==
    {i \in DOMAIN image.snapshots : image.snapshots[i].source = k}

(* SELECT ... ORDER BY version DESC LIMIT 1 *)
IsLatest(image, k, i) ==
    /\ i \in RevisionsOf(image, k)
    /\ \A j \in RevisionsOf(image, k) :
           image.snapshots[j].version <= image.snapshots[i].version

(* Mutant of LatestOf: ORDER BY created_at DESC LIMIT 1, by the clock. *)
LatestByClock(image, k) ==
    IF RevisionsOf(image, k) = {} THEN 0
    ELSE CHOOSE i \in RevisionsOf(image, k) :
             \A j \in RevisionsOf(image, k) :
                 image.snapshots[j].created <= image.snapshots[i].created

LatestOf(image, k) ==
    IF RevisionsOf(image, k) = {} THEN 0
    ELSE CHOOSE i \in RevisionsOf(image, k) : IsLatest(image, k, i)
-----------------------------------------------------------------------------
(* Calls.  latest and version are what the call has read of the source's
   newest revision and decided for its own.                                 *)
CallType ==
    [op : {"ingest"}, source : Keys, text : Texts, at : Times,
     latest : Nat, version : Nat]

StatementLabels ==
    {"find_source", "insert_source", "record_source", "read_latest",
     "insert_snapshot", "touch_source", "record_snapshot"}

Labels == StatementLabels \cup {"idle", "enter", "exit", "broken"}

(* Committed and uncommitted rows satisfy the tables' constraints, and sessions
   are in a call exactly while they run its statements. *)
TypeOK ==
    /\ db \in Image
    /\ work \in Image
    /\ lock \in Sessions \cup {NoSession}
    /\ depth \in [Sessions -> {0, 1}]
    /\ pc \in [Sessions -> Labels]
    /\ call \in [Sessions -> CallType \cup {NoCall}]
    /\ \A s \in Sessions : call[s] = NoCall <=> pc[s] \in {"idle", "broken"}
-----------------------------------------------------------------------------
Init == StartIn(EmptyImage)

(* The timestamp is read before the wait for the lock. *)
CallIngest(s, k, text) ==
    /\ pc[s] = "idle"
    /\ \E at \in Times :
           call' = [call EXCEPT ![s] =
                       [op |-> "ingest", source |-> k, text |-> text, at |-> at,
                        latest |-> 0, version |-> 0]]
    /\ Goto(s, "enter")
    /\ UNCHANGED <<db, work, lock, depth>>

Enter(s) ==
    /\ pc[s] = "enter"
    /\ EnterTransaction(s)
    /\ Goto(s, "find_source")
    /\ UNCHANGED call

Exit(s) ==
    /\ pc[s] = "exit"
    /\ ExitTransaction(s)
    /\ Goto(s, "idle")

CommitBusy(s) == pc[s] = "exit" /\ CommitFails(s)

BusyTimeout(s) == pc[s] = "enter" /\ GiveUpWaiting(s)
-----------------------------------------------------------------------------
(* Statements.  Each has a guard; a call whose guard fails raises (Refuse). *)
HasRoom(image) == Len(image.ledger) < MaxLedger

WithEntry(image, entry) == [image EXCEPT !.ledger = Append(@, entry)]

(* UNIQUE (source_key, continuity) *)
CanInsertSource(image, k) == ~Known(image, k.source)

WithSource(image, k) ==
    [image EXCEPT !.sources[k.source] =
        [name |-> k.source, created |-> k.at, updated |-> k.at]]

WithSourceEntry(image, k) ==
    WithEntry(image, [event |-> "source.created", source |-> k.source,
                      name |-> k.source, at |-> k.at])

(* CHECK (version >= 1), UNIQUE (source_id, version) and the trigger
   continuityforge_snapshot_lineage_insert.                                 *)
CanInsertSnapshot(image, k) ==
    /\ k.version >= 1
    /\ \A i \in RevisionsOf(image, k.source) :
           image.snapshots[i].version # k.version
    /\ k.version = 1 => k.latest = 0
    /\ k.version > 1 =>
          /\ k.latest \in RevisionsOf(image, k.source)
          /\ image.snapshots[k.latest].version = k.version - 1

WithSnapshot(image, k) ==
    [image EXCEPT !.snapshots =
        Append(@, [source |-> k.source, version |-> k.version, text |-> k.text,
                   previous |-> k.latest, created |-> k.at])]

(* The trigger continuityforge_sources_updated_at_guard. *)
CanTouchSource(image, k) ==
    image.sources[k.source].updated = k.at
        \/ image.snapshots[LatestOf(image, k.source)].created = k.at

WithTouchedSource(image, k) ==
    [image EXCEPT !.sources[k.source].updated = k.at]

WithSnapshotEntry(image, k) ==
    WithEntry(image, [event |-> "source_snapshot.created",
                      snapshot |-> Len(image.snapshots), source |-> k.source,
                      name |-> k.source, version |-> k.version,
                      text |-> k.text, previous |-> k.latest, at |-> k.at])
-----------------------------------------------------------------------------
(* Reads what the transaction sees. *)
FindSource(s) ==
    /\ pc[s] = "find_source"
    /\ Goto(s, IF Known(View(s), call[s].source)
               THEN "read_latest" ELSE "insert_source")
    /\ UNCHANGED <<db, work, lock, depth, call>>

InsertSource(s) ==
    Statement(s, "insert_source", "record_source",
              CanInsertSource(work, call[s]), WithSource(work, call[s]))

RecordSource(s) ==
    Statement(s, "record_source", "read_latest", HasRoom(work),
              WithSourceEntry(work, call[s]))

(* Mutants of Unchanged: every import makes a revision, or any earlier revision
   with the same text will do.                                              *)
NeverUnchanged(image, k, latest) == FALSE

SeenBefore(image, k, latest) ==
    \E i \in RevisionsOf(image, k.source) : image.snapshots[i].text = k.text

(* The latest revision has the text already. *)
Unchanged(image, k, latest) ==
    latest # 0 /\ image.snapshots[latest].text = k.text

ReadLatest(s) ==
    LET image  == View(s)
        latest == LatestOf(image, call[s].source)
    IN  /\ pc[s] = "read_latest"
        /\ \/ /\ Unchanged(image, call[s], latest)
              /\ Goto(s, "exit")
              /\ UNCHANGED call
           \/ /\ ~Unchanged(image, call[s], latest)
              /\ Goto(s, "insert_snapshot")
              /\ call' = [call EXCEPT
                             ![s].latest = latest,
                             ![s].version =
                                 IF latest = 0 THEN 1
                                 ELSE image.snapshots[latest].version + 1]
        /\ UNCHANGED <<db, work, lock, depth>>

InsertSnapshot(s) ==
    Statement(s, "insert_snapshot", "touch_source",
              CanInsertSnapshot(work, call[s]), WithSnapshot(work, call[s]))

TouchSource(s) ==
    Statement(s, "touch_source", "record_snapshot",
              CanTouchSource(work, call[s]), WithTouchedSource(work, call[s]))

RecordSnapshot(s) ==
    Statement(s, "record_snapshot", "exit", HasRoom(work),
              WithSnapshotEntry(work, call[s]))

(* The schema's objection to the statement at pc[s]. *)
Objection(s) ==
    \/ pc[s] = "insert_source" /\ ~CanInsertSource(work, call[s])
    \/ pc[s] = "insert_snapshot" /\ ~CanInsertSnapshot(work, call[s])
    \/ pc[s] = "touch_source" /\ ~CanTouchSource(work, call[s])

NoSpace(s) ==
    pc[s] \in {"record_source", "record_snapshot"} /\ ~HasRoom(work)

Refuse(s) == (Objection(s) \/ NoSpace(s)) /\ Rollback(s)
-----------------------------------------------------------------------------
Statements(s) ==
    \/ FindSource(s)
    \/ InsertSource(s)
    \/ RecordSource(s)
    \/ ReadLatest(s)
    \/ InsertSnapshot(s)
    \/ TouchSource(s)
    \/ RecordSnapshot(s)
    \/ Refuse(s)

Session(s) ==
    \/ \E k \in Keys, text \in Texts : CallIngest(s, k, text)
    \/ Enter(s)
    \/ Statements(s)
    \/ Exit(s)
    \/ CommitBusy(s)
    \/ BusyTimeout(s)
    \/ Interrupt(s)
    \/ Close(s)

Next == \E s \in Sessions : Session(s)

Spec == Init /\ [][Next]_vars
-----------------------------------------------------------------------------
(* The promise, with the revisions of a source in the order of their versions. *)
Versions(image, k) ==
    {image.snapshots[i].version : i \in RevisionsOf(image, k)}

TextOf(image, k, version) ==
    LET row == CHOOSE i \in RevisionsOf(image, k) :
                   image.snapshots[i].version = version
    IN  image.snapshots[row].text

HistoryOf(image, k) ==
    [version \in Versions(image, k) |-> TextOf(image, k, version)]

Histories ==
    INSTANCE SourceHistories WITH
        history <- [k \in Keys |-> HistoryOf(db, k)]

(* Whatever sessions do at once and however they fail, each source's versions
   count up from one without a gap, nothing committed is rewritten, and no
   revision repeats the one before it (ingest_snapshot's docstring).        *)
HistorySpec == Histories!Spec

(* An import that returns leaves its text as the latest revision, also when the
   text was a former revision or was imported by another session meanwhile. *)
IngestLeavesItsText ==
    [][\A s \in Sessions :
          Exit(s) => LET k == call[s].source IN
                     /\ LatestOf(db', k) # 0
                     /\ db'.snapshots[LatestOf(db', k)].text = call[s].text]_vars

(* Importers never compete for a version or a key: no constraint or trigger
   ever stops an import (ingest_content's docstring). *)
SchemaNeverObjects == \A s \in Sessions : ~Objection(s)
=============================================================================
