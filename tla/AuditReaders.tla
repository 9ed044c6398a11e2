----------------------------- MODULE AuditReaders -----------------------------
(***************************************************************************)
(* Readers beside importing sessions: MemoryCompiler.compile               *)
(* (compiler.py), whose reads read_transaction() (storage.py) pins to one  *)
(* state, and ProjectValidator.validate (validate.py), whose queries stand *)
(* alone.  Both audit the sources by the four queries of                   *)
(* validate_source_audits (source_integrity.py).                           *)
(*                                                                         *)
(* The program never sets the journal mode.  With SQLite's rollback        *)
(* journal, the default, a pinned reader's SHARED lock keeps COMMIT from   *)
(* the exclusive lock it needs; in a repository switched to a write-ahead  *)
(* log commits go on and the pinned reader keeps its old state.  Nothing    *)
(* else depends on the mode, so each read transaction may find either.      *)
(*                                                                         *)
(* One reader is enough: readers do not see each other.                    *)
(***************************************************************************)
EXTENDS SourceAudit

VARIABLES
    reader,    \* the query the reader is about to run
    pinned,    \* the journal mode of the read transaction it runs in, if any
    snapshot,  \* the state a write-ahead log keeps for a pinned reader
    reading    \* the answers so far

readerVars == <<reader, pinned, snapshot, reading>>

allVars == <<vars, readerVars>>

(* Mutant of After: the entries are read before the snapshots. *)
AfterEntriesFirst(query) ==
    [sources         |-> "sourceEntries",
     sourceEntries   |-> "snapshotEntries",
     snapshotEntries |-> "snapshots",
     snapshots       |-> "audit"][query]

(* The order of the queries. *)
After(query) ==
    [sources         |-> "snapshots",
     snapshots       |-> "sourceEntries",
     sourceEntries   |-> "snapshotEntries",
     snapshotEntries |-> "audit"][query]

ReadersInit ==
    /\ Init
    /\ reader = "idle"
    /\ pinned = "no"
    /\ snapshot = EmptyImage
    /\ reading = ReadAll(EmptyImage)
-----------------------------------------------------------------------------
(* A shared lock on the file, held from the first read to the end. *)
BlocksCommit == pinned = "rollback"

(* A session's step; its COMMIT succeeds when nobody holds a shared lock. *)
SessionStep(s) ==
    /\ Session(s)
    /\ db' # db => ~BlocksCommit
    /\ UNCHANGED readerVars

StartValidator ==
    /\ reader = "idle"
    /\ reader' = "sources"
    /\ UNCHANGED <<vars, pinned, snapshot, reading>>

(* verify_ledger, the compiler's first read, begins its read transaction. *)
StartCompiler ==
    /\ reader = "idle"
    /\ reader' = "sources"
    /\ \/ pinned' = "rollback" /\ UNCHANGED snapshot
       \/ pinned' = "wal" /\ snapshot' = db
    /\ UNCHANGED <<vars, reading>>

(* Mutant of Seen: every query begins a read transaction of its own. *)
SeenNow == db

(* What a query of the reader sees. *)
Seen == IF pinned = "wal" THEN snapshot ELSE db

Query ==
    /\ reader \in Reading
    /\ reading' = [reading EXCEPT ![reader] = Read(Seen, reader)]
    /\ reader' = After(reader)
    /\ UNCHANGED <<vars, pinned, snapshot>>

(* The reader is done with its answers, or raises before it has them all. *)
StopReading ==
    /\ reader # "idle"
    /\ reader' = "idle"
    /\ pinned' = "no"
    /\ snapshot' = EmptyImage
    /\ reading' = ReadAll(EmptyImage)
    /\ UNCHANGED vars

ReadersNext ==
    \/ \E s \in Sessions : SessionStep(s)
    \/ StartValidator
    \/ StartCompiler
    \/ Query
    \/ StopReading

ReadersSpec == ReadersInit /\ [][ReadersNext]_allVars
-----------------------------------------------------------------------------
(* A compilation audits one committed state (docs/ARCHITECTURE.md:156) and so
   accepts what the program committed, whatever is imported meanwhile. *)
CompilerSeesOneState ==
    reader = "audit" /\ pinned # "no" => AuditAccepts(reading)

(* The validator may mix states.  Because it reads the rows before the entries
   that explain them, it can only take what is new for orphaned or find an
   update time old; it never blames a revision or an entry of one. *)
ValidatorBlamesNoRevision ==
    reader = "audit" => \A k \in SourcesIn(reading) : ~MaterialIssue(reading, k)

(* "Compiler, validator, and inspection agree on Source-audit validity"
   (docs/ARCHITECTURE.md:155). *)
ReadersAgreeOnValidity == reader = "audit" => AuditAccepts(reading)
=============================================================================
