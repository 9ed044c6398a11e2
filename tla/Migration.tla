------------------------------- MODULE Migration -------------------------------
(***************************************************************************)
(* Opening a repository: SQLiteStorage.initialize (storage.py), which      *)
(* creates an empty one and migrates an old one, with preflight_migration  *)
(* and the backup it publishes (migrations.py), and the commands of cli.py *)
(* that decide who may open what.                                          *)
(*                                                                         *)
(* Openers are processes that open the repository once.  They run beside   *)
(* a program of an old release that adds rows, and an operator who keeps   *)
(* files of his own by the names of backups and clears temporary files     *)
(* away.  Processes die, and the machine loses power: then files not       *)
(* flushed and names not synced may be lost.  SQLite's own commit is       *)
(* taken to be durable and its write lock to die with its holder.          *)
(***************************************************************************)
EXTENDS SchemaLayouts, LegacyV1

CONSTANTS
    Openers,        \* processes
    NoOpener,
    Asks,           \* what a process may be asked to do
    BackupNames,    \* 1 is .pre-v3.bak, n is .pre-v3.<n>.bak
    Repositories,   \* files there may be at the beginning
    Unsettled,      \* claims whose ledger entries do not bind their material
    LateRows        \* rows a program of an old release may still add

Lifecycles == {"library", "migrate", "create", "write", "readonly"}

AskRows ==
    [lifecycle : Lifecycles, mode : {"strict", "quarantine"}, backup : BOOLEAN,
     accept : BOOLEAN]

(* A repository file: its structure, the rows of the domain tables, those that
   retained tables and legacy_records hold, the claims whose material an
   operator has accepted, and the ledger's entries about the schema.        *)
Births ==
    {"schema.initialized", "schema.migrated",
     "schema.snapshot_hash_constraint_removed", "schema.event_evidence_enabled"}

Files ==
    [exists : BOOLEAN, objects : Objects, user_version : Int, metadata : Int,
     rows : SUBSET (Snapshots \cup Claims),
     retained : SUBSET (Snapshots \cup Claims),
     accepted : SUBSET Claims, births : Seq(Births)]

NoFile == "no file"
Foreign == "the operator's file"

ASSUME OpenersAssumption ==
    /\ NoOpener \notin Openers
    /\ {NoFile, Foreign} \cap Openers = {}
    /\ Asks \subseteq AskRows
    /\ \A a \in Asks : a.lifecycle = "migrate" => a.backup
    /\ BackupNames \subseteq Nat \ {0}
    /\ Repositories \subseteq Files
    /\ \A f \in Repositories :
          /\ KindOf(f) # "V03" /\ f.accepted = {}
          /\ ~f.exists => KindOf(f) = "EMPTY"
          /\ KindOf(f) = "EMPTY" => f.rows = {}
    /\ Unsettled \subseteq Claims
    /\ LateRows \subseteq Snapshots \cup Claims

VARIABLES
    repo,      \* the file as committed
    lock,      \* the process with SQLite's write lock
    step,      \* what a process does next
    ask,       \* what it was asked
    seen,      \* the fingerprint it is reading or goes by
    backups,   \* files by the names of backups: NoFile, Foreign, or the opener
               \* that made it
    synced,    \* the same, as the disk has it
    temp,      \* whether an opener's temporary name is there
    copy,      \* what the file an opener made holds: {a whole file} or {}
    flushed,   \* whether the disk has that
    name,      \* the backup name an opener has chosen
    origin     \* the file as it was before it became v0.3, for the properties

fileVars == <<backups, synced, temp, copy, flushed, name>>

vars == <<repo, lock, step, ask, seen, fileVars, origin>>

Reading == {"look", "open", "validate"}

Locked ==
    {"recheck", "preflight", "choose", "create", "copy", "flush", "verify",
     "publish", "sync", "unlink", "admit", "apply", "gate", "commit"}

Live == Reading \cup {"connect", "lock"} \cup Locked

(* "stopped": by an error, or dead. *)
Ended == {"done", "stopped"}

TypeOK ==
    /\ repo \in Files
    /\ lock \in Openers \cup {NoOpener}
    /\ step \in [Openers -> {"idle"} \cup Live \cup Ended]
    /\ \A o \in Openers : ask[o] \in Asks \/ step[o] = "idle"
    /\ backups \in [BackupNames -> {NoFile, Foreign} \cup Openers]
    /\ synced \in [BackupNames -> {NoFile, Foreign} \cup Openers]
    /\ temp \in [Openers -> BOOLEAN]
    /\ copy \in [Openers -> SUBSET Files]
    /\ flushed \in [Openers -> BOOLEAN]
    /\ name \in [Openers -> BackupNames \cup {0}]
    /\ \A o \in Openers : step[o] \in Locked <=> lock = o

Init ==
    /\ repo \in Repositories
    /\ lock = NoOpener
    /\ step = [o \in Openers |-> "idle"]
    /\ ask \in [Openers -> {CHOOSE a \in Asks : TRUE}]
    /\ seen = [o \in Openers |-> <<>>]
    /\ backups = [n \in BackupNames |-> NoFile]
    /\ synced = backups
    /\ temp = [o \in Openers |-> FALSE]
    /\ copy = [o \in Openers |-> {}]
    /\ flushed = [o \in Openers |-> FALSE]
    /\ name = [o \in Openers |-> 0]
    /\ origin = [file |-> repo, promised |-> FALSE]
-----------------------------------------------------------------------------
(* Ends and moves of a process. *)

Go(o, next) == step' = [step EXCEPT ![o] = next]

(* On under the lock. *)
GoOn(o, next) == Go(o, next) /\ UNCHANGED <<lock, seen>>

(* An exception out of initialize: ROLLBACK, close. *)
Fail(o) ==
    /\ Go(o, "stopped")
    /\ lock' = IF lock = o THEN NoOpener ELSE lock
    /\ seen' = [seen EXCEPT ![o] = <<>>]

(* The file at a name is removed when it is the very file the process made. *)
Without(names, o) ==
    [n \in BackupNames |-> IF n = name[o] /\ names[n] = o THEN NoFile ELSE names[n]]

(* _run, per lifecycle: does the file have to be there, and is it looked at
   before it is opened. *)
Start(o) ==
    /\ step[o] = "idle"
    /\ \E a \in Asks :
          /\ ask' = [ask EXCEPT ![o] = a]
          /\ CASE a.lifecycle = "library" -> Go(o, "connect")
               [] a.lifecycle = "migrate" ->
                      Go(o, IF repo.exists THEN "connect" ELSE "stopped")
               [] a.lifecycle = "create"  ->
                      Go(o, IF repo.exists THEN "look" ELSE "connect")
               [] OTHER ->
                      Go(o, IF repo.exists THEN "look" ELSE "stopped")
    /\ UNCHANGED <<repo, lock, seen, fileVars, origin>>

(* sqlite3.connect makes the file, empty, unless the connection is read-only. *)
Connect(o) ==
    /\ step[o] = "connect"
    /\ repo' = [repo EXCEPT !.exists = @ \/ ask[o].lifecycle # "readonly"]
    /\ Go(o, "open")
    /\ UNCHANGED <<lock, ask, seen, fileVars, origin>>

(* One query of a fingerprint. *)
Query(o) ==
    /\ step[o] \in Reading
    /\ Len(seen[o]) < Len(Queries)
    /\ seen' = [seen EXCEPT ![o] = Append(@, Answer(@, repo))]
    /\ UNCHANGED <<repo, lock, step, ask, fileVars, origin>>

(* _require_current_database. *)
LooksCurrent(kind) == kind = "V03"

(* What a process does with a fingerprint.  Only `open' keeps it. *)
Judged(o) ==
    /\ step[o] \in Reading
    /\ Len(seen[o]) = Len(Queries)
    /\ LET kind == Classify(seen[o])
           current == ask[o].lifecycle = "readonly" \/ kind = "V03"
       IN  CASE step[o] = "look" ->
                    Go(o, IF LooksCurrent(kind) THEN "connect" ELSE "stopped")
             [] step[o] = "open" ->
                    Go(o, IF current
                          THEN IF kind = "V03" THEN "validate" ELSE "stopped"
                          ELSE IF kind \in {"PARTIAL", "UNKNOWN"}
                          THEN "stopped" ELSE "lock")
             [] step[o] = "validate" ->
                    Go(o, IF kind = "V03" THEN "done" ELSE "stopped")
    /\ seen' = IF step'[o] = "lock" THEN seen ELSE [seen EXCEPT ![o] = <<>>]
    /\ UNCHANGED <<repo, lock, ask, fileVars, origin>>
-----------------------------------------------------------------------------
(* Under the write lock. *)

BeginImmediate(o) ==
    /\ step[o] = "lock"
    /\ lock = NoOpener
    /\ lock' = o
    /\ Go(o, "recheck")
    /\ UNCHANGED <<repo, ask, seen, fileVars, origin>>

(* busy_timeout runs out. *)
Busy(o) ==
    /\ step[o] = "lock"
    /\ lock # NoOpener
    /\ Fail(o)
    /\ UNCHANGED <<repo, ask, fileVars, origin>>

(* Mutant of Unchanged: the fingerprint read before the lock is good enough. *)
UnchangedOrNot(o) == Len(seen[o]) = Len(Queries)

Unchanged(o) == Digest(Fingerprint(repo)) = Digest(seen[o])

Recheck(o) ==
    /\ step[o] = "recheck"
    /\ IF Unchanged(o) THEN GoOn(o, "preflight") ELSE Fail(o)
    /\ UNCHANGED <<repo, ask, fileVars, origin>>

(* Claims that plan_legacy_material_checkpoints backfills or attests, which
   takes the operator's word that their material is right. *)
NeedAcceptance(file) ==
    IF KindOf(file) \in LegacyKinds \ {"V01"}
    THEN file.rows \cap Unsettled ELSE {}

(* preflight_migration's verdict.  Only v0.1 rows can be quarantined. *)
IsReady(a, file) ==
    /\ KindOf(file) \in AllowedMigrations \cup {"EMPTY", "V03"}
    /\ KindOf(file) = "V01" => Admissible(a.mode, file.rows)
    /\ KindOf(file) \in LegacyKinds \ {"V01"} =>
          /\ Refused(file.rows) = {}
          /\ \A c \in file.rows \cap Claims : HasMaterial(c)
    /\ NeedAcceptance(file) = {} \/ a.accept

Preflight(o) ==
    /\ step[o] = "preflight"
    /\ IF ~IsReady(ask[o], repo) THEN Fail(o)
       ELSE GoOn(o, IF ask[o].backup /\ KindOf(repo) \in LegacyKinds
                    THEN "choose" ELSE "admit")
    /\ UNCHANGED <<repo, ask, fileVars, origin>>
-----------------------------------------------------------------------------
(* The backup. *)

(* _unused_backup_path: the first name without a file. *)
ChooseName(o) ==
    /\ step[o] = "choose"
    /\ \E n \in BackupNames :
          /\ backups[n] = NoFile
          /\ \A m \in BackupNames : m < n => backups[m] # NoFile
          /\ name' = [name EXCEPT ![o] = n]
    /\ Go(o, "create")
    /\ UNCHANGED <<repo, lock, ask, seen, backups, synced, temp, copy, flushed,
                   origin>>

MakeTemporary(o) ==
    /\ step[o] = "create"
    /\ temp' = [temp EXCEPT ![o] = TRUE]
    /\ Go(o, "copy")
    /\ UNCHANGED <<repo, lock, ask, seen, backups, synced, copy, flushed, name,
                   origin>>

(* SQLite copies what is committed, through a connection of its own; the copy
   may go wrong unnoticed.  A temporary name that is gone, or leads to another
   file, is an error here and in every later step (_assert_private_regular_file). *)
Copy(o) ==
    /\ step[o] = "copy"
    /\ temp[o]
    /\ \E c \in {{repo}, {}} : copy' = [copy EXCEPT ![o] = c]
    /\ Go(o, "flush")
    /\ UNCHANGED <<repo, lock, ask, seen, backups, synced, temp, flushed, name,
                   origin>>

(* _fsync_file *)
Flush(o) ==
    /\ step[o] = "flush"
    /\ temp[o]
    /\ flushed' = [flushed EXCEPT ![o] = TRUE]
    /\ Go(o, "verify")
    /\ UNCHANGED <<repo, lock, ask, seen, backups, synced, temp, copy, name,
                   origin>>

(* The backup opens with the source's fingerprint and logical digest. *)
IsWhole(o) == copy[o] = {repo}

Verify(o) ==
    /\ step[o] = "verify"
    /\ temp[o]
    /\ IsWhole(o)
    /\ Go(o, "publish")
    /\ UNCHANGED <<repo, lock, ask, seen, fileVars, origin>>

(* Mutant of IsUnused: rename() in the place of link(). *)
IsAnyName(n) == n \in BackupNames

(* lexists, and os.link refuses a name in use all the same. *)
IsUnused(n) == backups[n] = NoFile

(* _publish_backup: link the file to its name, ... *)
Publish(o) ==
    /\ step[o] = "publish"
    /\ temp[o]
    /\ IsUnused(name[o])
    /\ backups' = [backups EXCEPT ![name[o]] = o]
    /\ Go(o, "sync")
    /\ UNCHANGED <<repo, lock, ask, seen, synced, temp, copy, flushed, name,
                   origin>>

(* Mutant of DirectorySynced: no fsync of the directory. *)
DirectoryNotSynced == synced

(* All names are on disk. *)
DirectorySynced == backups

(* ... sync the directory, ... *)
Sync(o) ==
    /\ step[o] = "sync"
    /\ synced' = DirectorySynced
    /\ Go(o, "unlink")
    /\ UNCHANGED <<repo, lock, ask, seen, backups, temp, copy, flushed, name,
                   origin>>

(* ... remove the temporary name. *)
Unlink(o) ==
    /\ step[o] = "unlink"
    /\ temp[o]
    /\ temp' = [temp EXCEPT ![o] = FALSE]
    /\ Go(o, "admit")
    /\ UNCHANGED <<repo, lock, ask, seen, backups, synced, copy, flushed, name,
                   origin>>

Backing == {"choose", "create", "copy", "flush", "verify", "publish", "sync", "unlink"}

(* Mutant of BackupRefused: it waits for a name in use to become free. *)
BackupWaits(o) ==
    \/ step[o] \in {"copy", "flush", "verify", "publish", "unlink"} /\ ~temp[o]
    \/ step[o] = "verify" /\ ~IsWhole(o)

(* What stops a backup when it is not an I/O error. *)
BackupRefused(o) ==
    \/ step[o] \in {"copy", "flush", "verify", "publish", "unlink"} /\ ~temp[o]
    \/ step[o] = "verify" /\ ~IsWhole(o)
    \/ step[o] = "publish" /\ ~IsUnused(name[o])

(* The backup's error path: the name goes if it was linked, then the temporary
   name, and the report is no longer ready. *)
AbandonBackup(o) ==
    /\ step[o] \in Backing
    /\ backups' = IF step[o] \in {"sync", "unlink"} THEN Without(backups, o) ELSE backups
    /\ temp' = [temp EXCEPT ![o] = FALSE]
    /\ Fail(o)
    /\ UNCHANGED <<repo, ask, synced, copy, flushed, name, origin>>
-----------------------------------------------------------------------------
(* The migration. *)

(* The report names a backup. *)
HasBackup(o) == name[o] # 0

Admit(o) ==
    /\ step[o] = "admit"
    /\ IF NeedAcceptance(repo) = {} \/ HasBackup(o)
       THEN GoOn(o, "apply") ELSE Fail(o)
    /\ UNCHANGED <<repo, ask, fileVars, origin>>

Current(file) ==
    [file EXCEPT !.objects = "v03", !.user_version = SCHEMA_VERSION,
                 !.metadata = SCHEMA_VERSION]

(* _initialize_or_migrate, by the kind that was seen before the lock.  The
   early v0.2 layout keeps a copy of its snapshots and says so. *)
Migrated(kind, mode, file) ==
    CASE kind = "EMPTY" ->
             [Current(file) EXCEPT !.births = Append(@, "schema.initialized")]
      [] kind = "V01" ->
             [Current(file) EXCEPT
                 !.rows = Kept(QuarantinedIn(mode, @), @),
                 !.retained = file.rows,
                 !.births = Append(@, "schema.migrated")]
      [] kind = "V02" /\ file.objects = "v02_early" ->
             [Current(file) EXCEPT
                 !.retained = file.rows \cap Snapshots,
                 !.accepted = NeedAcceptance(file),
                 !.births = @ \o <<"schema.snapshot_hash_constraint_removed",
                                   "schema.event_evidence_enabled",
                                   "schema.migrated">>]
      [] kind = "V02" /\ file.objects # "v02_early" ->
             [Current(file) EXCEPT
                 !.accepted = NeedAcceptance(file),
                 !.births = Append(@, "schema.migrated")]
      [] OTHER ->
             [Current(file) EXCEPT !.accepted = NeedAcceptance(file)]

(* What the holder of the lock has written and not committed.  Nobody else
   writes meanwhile, so it follows from what is committed. *)
Work(o) == Migrated(Classify(seen[o]), ask[o].mode, repo)

Apply(o) ==
    /\ step[o] = "apply"
    /\ Go(o, "gate")
    /\ UNCHANGED <<repo, lock, ask, seen, fileVars, origin>>

(* validate_schema, the replays and the evidence of what would be committed.  The
   ledger's entries are written by _initialize_or_migrate; that they cannot be is
   found here. *)
GatePasses(file) == KindOf(file) = "V03" /\ file.rows \in Replaying

Gate(o) ==
    /\ step[o] = "gate"
    /\ \E work \in {Work(o)} :
          IF GatePasses(work) THEN GoOn(o, "commit") ELSE Fail(o)
    /\ UNCHANGED <<repo, ask, fileVars, origin>>

Commit(o) ==
    /\ step[o] = "commit"
    /\ \E work \in {Work(o)} :
          /\ repo' = work
          /\ origin' = [file |-> repo,
                        promised |-> \/ ask[o].backup /\ KindOf(repo) \in LegacyKinds
                                     \/ work.accepted # {}]
    /\ lock' = NoOpener
    /\ Go(o, "done")
    /\ seen' = [seen EXCEPT ![o] = <<>>]
    /\ UNCHANGED <<ask, fileVars>>

(* An I/O error, a full disk, an interrupt; or the process dies, and SQLite
   forgets what it did not commit. *)
Trouble(o) ==
    /\ step[o] \in Live
    /\ Fail(o)
    /\ UNCHANGED <<repo, ask, fileVars, origin>>
-----------------------------------------------------------------------------
(* The surroundings. *)

(* A program of an old release adds a row. *)
LegacyWrite ==
    /\ KindOf(repo) \in LegacyKinds
    /\ lock = NoOpener
    /\ \E r \in LateRows \ repo.rows :
          /\ r \in Claims => Row[r].snapshot \in repo.rows
          /\ repo' = [repo EXCEPT !.rows = @ \cup {r}]
    /\ UNCHANGED <<lock, step, ask, seen, fileVars, origin>>

(* The operator has one file of his own. *)
OperatorFile ==
    /\ \A n \in BackupNames : backups[n] # Foreign
    /\ \E n \in BackupNames :
          /\ backups[n] = NoFile
          /\ backups' = [backups EXCEPT ![n] = Foreign]
          /\ synced' = [synced EXCEPT ![n] = Foreign]
    /\ UNCHANGED <<repo, lock, step, ask, seen, temp, copy, flushed, name, origin>>

ClearTemporary(o) ==
    /\ temp[o]
    /\ temp' = [temp EXCEPT ![o] = FALSE]
    /\ UNCHANGED <<repo, lock, step, ask, seen, backups, synced, copy, flushed,
                   name, origin>>

(* Every process dies; of each name either state may be on disk, and of each
   file not flushed anything. *)
PowerLoss ==
    /\ step' = [o \in Openers |-> IF step[o] \in Live THEN "stopped" ELSE step[o]]
    /\ lock' = NoOpener
    /\ seen' = [o \in Openers |-> <<>>]
    /\ \E lost \in SUBSET {n \in BackupNames : backups[n] # synced[n]} :
          backups' = [n \in BackupNames |-> IF n \in lost THEN synced[n] ELSE backups[n]]
    /\ synced' = backups'
    /\ copy' = [o \in Openers |-> IF flushed[o] THEN copy[o] ELSE {}]
    /\ UNCHANGED <<repo, ask, temp, flushed, name, origin>>
-----------------------------------------------------------------------------
Backup(o) ==
    \/ ChooseName(o)
    \/ MakeTemporary(o)
    \/ Copy(o)
    \/ Flush(o)
    \/ Verify(o)
    \/ Publish(o)
    \/ Sync(o)
    \/ Unlink(o)
    \/ BackupRefused(o) /\ AbandonBackup(o)

Progress(o) ==
    \/ Connect(o)
    \/ Query(o)
    \/ Judged(o)
    \/ BeginImmediate(o)
    \/ Recheck(o)
    \/ Preflight(o)
    \/ Backup(o)
    \/ Admit(o)
    \/ Apply(o)
    \/ Gate(o)
    \/ Commit(o)

Mishap(o) ==
    \/ Busy(o)
    \/ AbandonBackup(o)
    \/ Trouble(o)
    \/ ClearTemporary(o)

Next ==
    \/ \E o \in Openers : Start(o) \/ Progress(o) \/ Mishap(o)
    \/ LegacyWrite
    \/ OperatorFile
    \/ PowerLoss

Spec == Init /\ [][Next]_vars

(* A process that runs goes on; nothing says that one starts. *)
FairSpec == Spec /\ \A o \in Openers : WF_vars(Progress(o))
-----------------------------------------------------------------------------
(* Properties. *)

(* Whoever migrates with a backup, or has material accepted on his word, finds
   under a name that survives a loss of power a whole copy of the repository
   as it was when the migration began, whatever ran or stopped meanwhile:
   preflight_migration takes the backup inside the transaction it belongs to. *)
MigratedIsRecoverable ==
    origin.promised =>
        \E n \in BackupNames :
            /\ backups[n] = synced[n]
            /\ synced[n] \in Openers
            /\ flushed[synced[n]]
            /\ copy[synced[n]] = {origin.file}

(* The structure of a repository and its birth certificates change at most
   once, together, to the current layout, and only at the hands of a process
   that was asked to create or to migrate; the second of two first openers
   finds the fingerprint changed (the recheck in initialize, _run in cli.py). *)
LayoutChanges ==
    [][<<repo'.objects, repo'.births>> # <<repo.objects, repo.births>> =>
          /\ KindOf(repo) \in AllowedMigrations \cup {"EMPTY"}
          /\ KindOf(repo') = "V03"
          /\ \E o \in Openers :
                /\ lock = o
                /\ \/ ask[o].lifecycle \in {"library", "migrate"}
                   \/ ask[o].lifecycle = "create" /\ KindOf(repo) = "EMPTY"]_vars

(* What preflight finds ready the migration can finish, unless it carries rows
   that the two read differently: apart from those the replays at the end of the
   transaction never reject what the row checks and the quarantine let through
   (_validate_v01 against the gate in initialize). *)
ReadyMigrates ==
    \A o \in Openers :
        step[o] = "gate" /\ Misread(Work(o).rows) = {} => GatePasses(Work(o))

(* No row of an old repository is lost: it is active or it is retained.  What
   is active stands on active rows and holds the history the old one told. *)
RowsAccountedFor ==
    KindOf(repo) = "V03" =>
        /\ origin.file.rows \subseteq repo.rows \cup repo.retained
        /\ repo.rows \subseteq origin.file.rows
        /\ \A c \in repo.rows \cap Claims : NamesSnapshot(repo.rows, c)
        /\ HistoryKept(repo.rows)

(* A quarantined row becomes no active row.  Said in preflight_migration:
   "Quarantine is whole-row isolation, not coercion."  *)
QuarantineIsIsolation ==
    KindOf(repo) = "V03" /\ KindOf(origin.file) = "V01" =>
        repo.rows \cap Quarantined(origin.file.rows) = {}

(* A file by the name of a backup is the operator's, or on disk and of a
   process that has done with it. *)
Settled(n) ==
    /\ backups[n] = synced[n]
    /\ backups[n] # NoFile
    /\ backups[n] \in Openers => step[backups[n]] \notin {"sync", "unlink"}

(* Neither a migration, nor the cleaning up of a failed one, nor a loss of
   power replaces, removes or changes such a file (_publish_backup links and
   never renames; _unlink_if_identity). *)
KeptFiles ==
    [][\A n \in BackupNames :
          Settled(n) =>
              /\ backups'[n] = backups[n]
              /\ synced'[n] = synced[n]
              /\ backups[n] \in Openers => copy'[backups[n]] = copy[backups[n]]]_vars

(* A process that opens the repository ends, current, migrated or refused:
   nobody waits for a lock, a name or a temporary file for ever. *)
EveryOpenEnds == \A o \in Openers : step[o] \in Live ~> step[o] \in Ended

=============================================================================
