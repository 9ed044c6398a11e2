# A formal model of ContinuityForge

ContinuityForge is a local repository for the memory of fictional personas.
Claims about a persona enter as proposals, cite spans of immutable source
snapshots, and gain authority only through recorded human decisions; a compiler
then assembles the claims visible at a *memory cutoff* into a pack. Everything
lives in one SQLite file that several processes may open at once.

This directory holds TLA+ modules of that program, configurations that
model-check them with TLC, and proofs checked by TLAPS. Paths below such as
`storage.py:612` are relative to `src/src/continuityforge/`.

## 1. Inventory

| Component | State | Operations that change or judge it | Talks to |
|---|---|---|---|
| Instants and intervals (`timeutil.py`) | none | parse, normalize to whole seconds, contain, overlap, validate | everything with a time |
| Claim governance (`governance.py`) | none of its own | `propose`, `propose_from_llm`, `review`, `add_authorized_human_claim`, `find_conflicts` | storage (nested transactions), evidence validator |
| Storage: claims, evidence, decisions (`storage.py`) | tables `claim_proposals`, `evidence_refs`, `governance_decisions`; the connection's transaction depth | `transaction`, `create_claim_proposal`, `add_claim_evidence`, `_commit_governance_decision`, `close`; 20-odd triggers | SQLite |
| Event ledger (`storage.py`) | table `event_ledger`, a hash chain | `append_ledger`, `_append_ledger_in_transaction`, `verify_ledger` | every writer |
| Source ingestion (`ingest.py`, `storage.ingest_snapshot`) | `sources`, `source_snapshots` with versions and predecessors | ingest text, reuse the latest equal snapshot | ledger |
| Source integrity (`source_integrity.py`) | none | audit of snapshot lineage against the ledger | storage, compiler |
| Narrative events (`storage.create_narrative_event`, `event_integrity.py`) | `narrative_events`, `event_evidence_refs` | create, audit | ledger |
| Evidence validation (`evidence.py`) | none | `validate_claim` | snapshots |
| Authority replay (`governance_integrity.py`, `audit_material.py`) | none | `replay_claim_authority` | claims, decisions, ledger, evidence |
| Memory compiler (`compiler.py`) | none; one pinned read transaction | `compile` | all of the above, read only |
| Repository validator (`validate.py`) | none; reads **not** pinned | `ProjectValidator.validate` | all of the above, read only |
| Schema classification (`schema.py`) | none; several queries on `sqlite_master` and the version | `fingerprint_connection`, `classify_schema` | everything that opens a file |
| Opening and migration (`storage.initialize`, `migrations.py`, `cli.py`) | the file's structure and rows, backup files, `legacy_records`, attestations in the ledger | open, preflight, backup, create, migrate, verify | file system, SQLite locks, all audits |
| Read-only service, inspection (`readonly.py`, `inspection.py`, `sqlite_safety.py`) | descriptors, a pinned transaction | open, inspect | file system |
| Impact analysis (`impact.py`) | none | exact matching (Knuth-Morris-Pratt, Aho-Corasick), classification | snapshots, ledger |
| Command line (`cli.py`) | none | one storage per command | all of the above |

Behaviours that are hard here:

* **Concurrency.** Processes share only the SQLite file. `BEGIN IMMEDIATE`
  takes its single write lock; nested `transaction()` blocks are savepoints.
  What is decided on (status, evidence, conflicts, the schema a migration starts
  from) must be read under that lock. Readers outside a transaction mix states.
* **Failure.** A refused statement, a full disk, an interrupt or the death of
  the process may come between any two statements. COMMIT itself may fail, and
  then the code leaves the transaction open (`storage.py:636-639`).
* **Crashes.** A migration makes a file (backup, link, directory) and changes
  another; a death or a power loss may come between any two of these steps.
* **Inherited data.** Older releases left rows without digests or without a
  ledger stream. What preflight admits, the audits behind the migration must
  accept, and must from then on protect.
* **Ordering.** Timestamps are read before the wait for the lock, from a clock
  that may step back; ledger order and timestamp order differ.
* **Caches.** `status` and `updated_at` of a claim cache its decision history,
  as `updated_at` of a source caches its latest revision, and audits recompute
  them.
* **Precision.** Instants are cut off to whole seconds when stored.

What makes each component correct:

* governance: no two authorized claims contradict each other; authority rests on
  admissible evidence of the claim's own worldline, also later on;
* storage: a call is one change of the committed repository or none, and is in
  the ledger exactly if it happened; every call ends;
* authority replay: no false alarm on what the program writes, no silence on
  what it did not write;
* time: the two readers agree, and nothing is shown outside its interval;
* ledger, ingestion, events: append-only, gap-free, explained by the ledger;
* compiler and validator: what they report holds of one committed repository;
* migration: whatever happens, the file is the old repository or the new one with
  a durable copy of the old; nobody else's file is touched; no row is lost, merged
  or invented, and what is admitted passes the audits.

## 2. Modules

```
Timeline <- KnowledgeTime <- KnowledgeTimeProofs
   ^
ClaimMaterial <- GovernedClaims <- GovernedClaimsProofs
   ^                  ^ (INSTANCE)      ^ (INSTANCE)
   +-------- ClaimGovernance <- ClaimGovernanceProofs <-------+
                ^   ^    ^                                    |
 Transactions --+   |    AuthorityReplay <- MCAuthorityReplay |
   ^  ^  ^          |           ^                             |
   |  |  |          |           LegacyMaterial <- ClaimReplayProofs
   |  |  |          |                  ^
   |  |  |          MCClaimGovernance  MCLegacyMaterial
   |  |  |
   |  |  +-- NarrativeEvents <- EventAudit <- LegacyEvents <- EventReplayProofs
   |  |                                           ^
   |  |                                           MCLegacyEvents
   |  |
   |  +----- SourceRevisions <- SourceAudit <- AuditReaders <- SourceProofs
   |            |                                  ^
   |            v (INSTANCE)                       MCAuditReaders
   |         SourceHistories
   |
   +-------- EventLedger <---------- EventLedgerProofs
                |     ^                       |
     (INSTANCE) v     LedgerFollower <--------+
          AppendOnlyLog     ^
                            MCLedgerFollower

SchemaLayouts <--+
                 Migration <- MigrationProofs
LegacyV1 <-------+    ^
                      MCMigration
```

**Timeline** has the operators of `timeutil.py`. An instant is an integer number
of ticks and a second has `TicksPerSecond` of them, so that truncation
(`isoformat(timespec="seconds")`) is visible: `StoredInstant`.

**KnowledgeTime** follows the knowledge interval of one claim from the caller to
the readers. `Propose` validates the caller's bounds and *then* truncates them,
as `create_claim_proposal` does (`storage.py:2804-2811`); `Ask` puts a cutoff to
the compiler (which compares the cutoff as given, `compiler.py:76`) and to
`query_claims_for_cutoff` (which truncates it first, `storage.py:3258`).

**ClaimMaterial** has the constants: what each claim id says (`Proposal`) and how
each evidence id relates to the snapshot it cites (`Span`). Triggers make that
content immutable (`storage.py:1211-1250`, `1472-1493`), hence constants and not
variables. It also has the predicates decided on content:
`ClaimsContradict`, `EvidenceInsertable`, `EvidenceAdmissible`, and the
transitions of `GovernanceStatus`.

**GovernedClaims** is the promise: status, evidence and trail of each claim, and
five atomic operations. No sessions, no transactions, no failures.

**Transactions** is `Storage.transaction()` over SQLite for sessions that are
processes of their own (`storage.py:612-642`). It is extended by a module that
says what a repository image holds and which calls there are.

| Variable | Code |
|---|---|
| `db` | the committed rows of the modelled tables |
| `work` | the same tables as the connection that holds the write lock sees them |
| `lock` | SQLite's RESERVED lock, taken by `BEGIN IMMEDIATE` |
| `depth[s]` | `Storage._transaction_depth` of session `s` |
| `pc[s]` | the statement the session runs next; `broken` after a failed COMMIT |
| `call[s]` | the public call with its arguments and its clock readings |

`Statement` runs one SQL statement if code and triggers let it pass; a statement
whose guard fails raises (`Refuse` in the modules that extend this one), which
leaves all blocks and rolls back. `Interrupt` is any other exception or the
death of the process, at any point. `BusyTimeout` (`GiveUpWaiting`) is
`BEGIN IMMEDIATE` giving up. `CommitBusy` (`CommitFails`) is a COMMIT that
raises: `transaction()` has by then decremented its depth and does not roll
back, so the session keeps lock and work until `Close`.

**ClaimGovernance** is the program's claims: an image holds `claim_proposals`,
`evidence_refs`, `governance_decisions` and `event_ledger`.

A public call runs through these statements (`enter`/`exit` are the boundaries of
`transaction()`; `human` runs all of `propose` and `review` in a block of its own):

| Call | Statements |
|---|---|
| `propose`, `create_claim_proposal` | enter_propose, insert_claim, attach_evidence, append_proposed, exit_propose |
| `review` | enter_review, gate, enter_decision, insert_decision, update_status, append_decided, exit_decision, exit_review |
| `add_authorized_human_claim` | enter_human, *propose*, *review*, exit_human |
| `add_claim_evidence` | enter_evidence, insert_evidence, append_evidence, exit_evidence |
| `append_ledger` | enter_append, append_custom, exit_append |

**AuthorityReplay** translates `replay_claim_authority` as a predicate on a
repository image. The code collects issue codes and finds a claim valid when
there are none; every conjunct of `AuthorityValid` names the codes it stands for,
those about attestations (`legacy.claim.material_attested`) included.

**LegacyMaterial** puts the older releases in front of the program. Their calls
write claims, decisions and evidence with the ledger streams those releases had:
with digests, without, or no stream at all behind the oldest migration. `Ready`
is what preflight asks of each claim (`_validate_v02`, and
`plan_legacy_material_checkpoints` for what is to be backfilled or attested),
again with the issue codes beside the conjuncts; `Migrate` appends the streams that
`_backfill_claim_authority_ledger` writes, then the attestations of
`_append_legacy_material_attestations`; and the current program goes on with the
result. The code appends them one by one; `Backfills` says which entry stands at
each place instead, since the prover cannot reason about folds. `Departures` are the images that differ from what a
release wrote by one edited row, or one lost, moved, repeated or forged entry.

**SourceHistories** is the promise of an import: each source has a sequence of
texts, and an import appends to it unless its text is the last one already.

**SourceRevisions** is `ingest_snapshot` (`storage.py:2518-2643`) in
`Transactions`. The clock is read before `enter`; then follow find_source
(insert_source, record_source when there is none), read_latest and, unless the
latest revision has the text, insert_snapshot, touch_source, record_snapshot.
The guards are the tables' UNIQUE and CHECK constraints, the trigger on the
lineage of snapshots and the one on `updated_at`; the two ledger entries need
room on the disk. The abstract history is read off `db` by version number.

**SourceAudit** translates `replay_source_audits`: one operator per issue code,
on a *reading*, the answers of the four queries of `validate_source_audits`.
`Edits` are the ways in which one row can be changed, added or removed from
outside without breaking a unique index.

**AuditReaders** puts one reader beside the importing sessions. The reader runs
the four queries one by one, either as the validator does, each by itself, or as
the compiler does, in a `read_transaction()` that pins them. What the pin means
depends on the journal mode, which the program never sets: `pinned` is
`"rollback"`, a shared lock that makes COMMIT fail, or `"wal"`, a write-ahead log
that keeps the old state readable. Only a pinned reader notices the mode, so each
read transaction may find either.

**AppendOnlyLog** is the promise of the event ledger: an operation appends all
of its entries at the end of a log, or none.

**EventLedger** is `_append_ledger_in_transaction` (`storage.py:3648-3714`) as
two statements in `Transactions`, `ReadTail` and `InsertEntry`, which an
operation with several entries repeats in one transaction; `Objection` is the
primary key or the unique digest stopping the insert. `Verifies` is
`verify_ledger` (`storage.py:3763-3794`). A content stands for an entry's id,
type, aggregate, payload and time. The other modules let the ledger append in
one step; this one shows why they may. `Rewrites` are the images that differ in
one row from the committed one, made by somebody who can compute digests.

**LedgerFollower** adds a reader that polls `list_ledger_entries`
(`storage.py:3733-3761`) on a connection of its own, continuing after the last
entry it has, with any page size at each poll.

**NarrativeEvents** is `create_narrative_event` (`storage.py:3339`) by statements,
in `Transactions`, with custom ledger entries about events. An event's row is
kept in two parts, the fields its ledger entry repeats (`core`) and those only
its digest covers (`body`); a reference likewise in `span` and `quote`.

**EventAudit** translates `replay_event_audit` and adds a reader that lists
events, entries and evidence by three queries of its own, as the validator does.

**LegacyEvents** is for events what LegacyMaterial is for claims.

**SchemaLayouts** has the layouts that releases have left, `fingerprint_connection`
as the queries it consists of, and `classify_schema`. A file's structure is one
of the published ones, one with a known table altered, or a foreign one.

**LegacyV1** has the rows of v0.1: how `_validate_v01` judges them, which rows
quarantine keeps out together with those that depend on them, and which revisions
`_migrate_legacy_v1` makes of the rest. A row's id is a text, a text with spaces
around it (`padded`), the empty text or null, because the parts of a migration do
not treat these alike: `_valid_metadata_text` accepts the spaces and the rows keep
them, `_append_ledger_in_transaction` strips them from the ids of its entries
(`_nonempty`), and `EvidenceValidator` strips them before it looks a snapshot up
(`FoundById`). Similarly a BLOB for a claim's subject, predicate or object passes
`_validate_v01` and has no canonical JSON (`HasMaterial`). `AuditsReplay` and
`ClaimsValidate` are what the replay before the commit asks of the rows that are
left, `Misread` the rows on which it and preflight cannot agree.

**Migration** is opening a repository (`storage.initialize`, `_run` in `cli.py`,
`preflight_migration` and the backup functions of `migrations.py`) for several
processes at once:

| Steps of a process | Code |
|---|---|
| look, connect, open, validate | `_require_current_database` before and behind the connection, and the classification in `initialize` without a lock, query by query |
| lock, recheck | `BEGIN IMMEDIATE`, then the digest of the fingerprint again |
| preflight | `preflight_migration`: classification, rows, the operator's acceptance |
| choose, create, copy, flush, verify, publish, sync, unlink | the backup: a private temporary file, SQLite's copy, fsync, verification, link to an unused name, fsync of the directory |
| admit, apply, gate, commit | acceptance, the rows, the replay before the commit, COMMIT |

Beside them an older release adds rows while nobody holds the lock (`LegacyWrite`),
the operator takes the name of a backup for a file of his own (`OperatorFile`) or
clears temporary names away (`ClearTemporary`), processes fail or die (`Trouble`)
and the machine loses power (`PowerLoss`: what was not flushed or synced may be
gone). `origin` is a history variable: the file at the moment it became v0.3 and
whether a backup had been promised for it.

The MC modules add small contents, symmetry sets and, for migration, the
repositories and requests. In **MCClaimGovernance** "blue" and "green" contradict
each other; "blink" is valid for half a second and its stored interval is empty;
"misquote" can be stored and not relied on; "foreign" is of another worldline.
**MCMigration** has a v0.1 source that went A, B, B, A, with a claim on its third
row, which has spaces around its id and is merged into the second; a v0.1 file with a damaged text, a claim on it and a claim behind its end; one whose padded
snapshot is a revision of its own, with a claim on it and a claim with a BLOB, which
preflight finds ready and the replay rejects; an early v0.2, an alpha.3 with a claim
that needs acceptance, and no file at all.

## 3. Runs

| Run | Shows | Instance |
|---|---|---|
| `knowledge_time` | The compiler and the storage query agree; what was closed stays closed; a claim is shown less than a second early | three ticks to a second, ten instants, every pair of bounds, every cutoff |
| `knowledge_leak` (violation) | A claim is visible before it was known, within the second | the same |
| `reviewers` | No two contradictory claims are authorized; a failed commit leaves no trace; a human add is all or nothing; types | two sessions, two contradictory claims, two references, four ledger entries |
| `liveness` | Every call ends; authority rests on admissible evidence; the ledger alone explains status and evidence; every commit is one atomic operation (refinement) | two sessions, a sound claim and one with empty validity, a good and a misquoting reference, custom entries, two ledger entries |
| `authority_replay` | The audit accepts what was committed and notices every edited row of a current repository; what preflight admits it accepts behind the migration; older releases' claims are admitted | one session, one claim, two references, two clock readings in any order, five ledger entries, three kinds of repository |
| `imports` | Importers never compete; revisions are histories (refinement); an import leaves its text; the source audit accepts what was committed and notices every edited row; the compiler sees one state; the validator blames no revision | two sessions, one reader, two sources, two texts, two clock readings, both journal modes, four ledger entries |
| `ledger` | The chain verifies and never forks; operations append all or nothing (refinement); a follower misses nothing; a rewritten row is noticed unless it is the tail | two sessions, operations of one and of two entries, six entries, one follower with every page size |
| `events` | A reader by single queries blames no event; what preflight admits the audit accepts; every edited row of an event or its evidence is noticed | two sessions, two events, three references of which one is unfit, two clock readings, two ledger entries, three kinds of repository |
| `migration` | What was migrated under a promise has a durable backup of the moment before; the replay before the commit passes what preflight admitted; rows are accounted for; the layout changes once; no other file is touched; every open ends | two processes, six requests, six repositories, three backup names, one late row |
| `validator_alarm` (violation) | The validator reports errors in a repository that is in order | one session, one source |
| `custom_decision` (violation) | A caller's own `claim.governance_decided` entry makes the audit reject a sound claim for good | one session, one claim |
| `quarantine_leak` (violation) | A quarantined row of v0.1 becomes an active claim | as `migration`, with a claim whose id is empty |

Bounds. `MaxLedger` is the only artificial bound on the length of a history. It
is a guard of every append (`HasRoom`), and the model gives it the meaning of a
full disk: the statement fails, the call raises and rolls back. Four entries
suffice for two complete human adds, or proposal, evidence, decision and dispute
of a claim; five for proposal, authorization, dispute, new evidence and a second
decision, the shortest history in which evidence is added between two decisions
(`authority_replay`). In `liveness` two entries suffice for a human add, or for a
proposal and what follows it, beside another session; the theorems of section 4
speak of longer ones. For imports four entries suffice for the history A, B, A of
one source, the shortest that distinguishes the latest revision from any earlier
one with the same text, and for two sources with a revision each. In `ledger` six
entries make room for three operations of two entries, so that a committed one,
an aborted one and one under way can follow each other. In `events` two entries
are two events, or an event with a custom entry or an attestation about it; the
audit looks at one event at a time. Two sessions suffice for a race on the write
lock, as a third could only wait, and one reader, because readers change nothing
that another one sees except the shared lock. `Times` has two values in the runs
that are about time, unordered and chosen anew for each reading, so that the
clock steps back; elsewhere it has one. Three ticks per second allow an instant
strictly inside a second with room on both sides. In `migration` each process
opens once, which makes two complete openings in any interleaving, one after the
other included; of three backup names one can be the operator's, one each
process's. Six requests are one per lifecycle and mode that the code tells apart.

Symmetry (`MCSymmetry`). In `reviewers` the sessions are interchangeable, and so
are the two references; in `imports` sessions, sources and texts; in `ledger` the
sessions; in `authority_replay` the references; in `events` sessions, events and
the references that fit. No definition chooses among them (`LatestOf`, `TextOf`
and `TailOf` choose a row, which is unique). `liveness` and `migration`, which
check liveness, use none.

Deadlock is checked except in `authority_replay` and `events`: there a repository
of an older release that preflight refuses, with no room left in its ledger,
stays as it is.

Fairness. For sessions, `FairSpec` asks weak fairness of `Progress(s)`, a process
that is in a call goes on running its statements, and of `Close(s)`: the command
line opens storage by `with Storage(...)` (`storage.py:608`), which closes the
connection also after a failed COMMIT. `Progress` contains `BusyTimeout`, because
SQLite ends a wait after the timeout given at connection time (30 s by default).
Nothing is assumed of `Calls`, `CommitBusy` or `Interrupt`. For openers it is weak
fairness of each process's own steps (`Progress`), with the refusal of a backup
among them. Their timeout (`Busy`) is a mishap and never obliged to happen: a waiting
opener comes to its turn because the steps of whoever holds the lock release it and
each process opens once. Nothing says that a process ever starts, that the operator or
an older release does anything or refrains from it, or that power stays on. No
lock is fair: a call may time out, that is, end with an error, every time.

Findings:

1. `FutureKnowledgeExcluded` fails. `docs/ARCHITECTURE.md:158` promises "Future
   knowledge does not enter an earlier cutoff". A claim with `knowledge_from`
   at 10.9 s is stored as known from 10 s and is visible at cutoff 10.5 s. The
   property that does hold is `LessThanASecondEarly`.
2. `CommittedClaimsReplay` fails as soon as callers may append
   `claim.governance_decided` themselves. `storage.py:3644` refuses the events
   that carry material and not this one, though its message
   (`storage.py:3646`) says that reserved audit events can be appended only by
   trusted storage operations. The audit then reports
   `LEDGER_DECISION_ID_MISSING` for a claim whose history is in order, the
   compiler drops it, and the ledger being append-only nothing mends it.
3. `ReadersAgreeOnValidity` fails. `docs/ARCHITECTURE.md:155` guarantees
   "Compiler, validator, and inspection agree on Source-audit validity". The
   validator's audit (`validate.py:272`) reads outside a transaction, and an
   import committed between two of its queries yields
   `SOURCE_AUDIT_LEDGER_ORPHAN` or `SOURCE_UPDATED_AT_MISMATCH` for a repository
   in order. What holds is `ValidatorBlamesNoRevision`, and it does so because
   rows are read before the entries that explain them.

4. `QuarantineIsIsolation` fails. `migrations.py:3258` says "Quarantine is
   whole-row isolation, not coercion." Preflight names a quarantined row by the
   id it stores, the empty text for an empty id, while `Storage._legacy_key`
   (`storage.py:1964`) skips empty ids and falls back to the row's number. A claim
   with an empty id is then reported as quarantined and migrated all the same, as
   an active claim with its bad values replaced.

Observations that contradict nothing the repository says, met on the way:

* the early v0.2 layout has no table for event evidence, so a repository of it
  with any event cannot be migrated (`MIGRATION_EVENT_EVIDENCE_REQUIRED`); nor
  can a v0.2 event without a stream about which a caller appended an entry of his
  own (`MIGRATION_EVENT_AUDIT_PARTIAL`), nor a repository in which a misquote or a
  claim with an empty stored validity was proposed, which the same program
  accepts (`MIGRATION_INTERVAL_INVALID` and its like);
* a v0.1 file with spaces around the id of a snapshot or a claim passes preflight
  (`migrations.py:1121`) and its rows keep them. The ledger's entries are appended
  without them (`storage.py:3669`), and so is the snapshot of a citation looked up
  (`evidence.py:244`). Every attempt to migrate it ends in the replay before the
  commit (`storage.py:523`), after its backup, unless the row is a snapshot that
  repeats the one before it and is merged into it. Preflight admits the same ids in
  v0.2 without streams, with the same result;
* a v0.1 claim with a BLOB for its subject, predicate or object passes preflight,
  which looks at the length of texts only (`migrations.py:422`), and cannot be
  migrated: its proposal entry digests JSON (`audit_material.py:83`). Preflight of
  v0.2 and later refuses it (`MIGRATION_MATERIAL_COMPUTATION_INVALID`);
* a first opener that fingerprints while another one commits the new schema may
  read a mixture and refuse the file as PARTIAL. The next attempt succeeds;
* `BACKUP_AND_RESTORE.md:73` lists the backup first; in the code the write lock
  comes first, which is what makes the backup the state of the moment before.

Each property of a passing run has a mutant: a change of one definition like a
plausible bug (no write lock around the review, savepoints that commit, close()
that commits, a decision entry with its own clock reading, evidence accepted at
any status, the latest revision chosen by the clock, entries read before rows, a
backup whose directory is not synced, a recheck left out, an attestation without
its digest, ...) under which TLC finds the property violated.

## 4. Proofs

| Theorem | States, for all values of the constants |
|---|---|
| `KnowledgeTimeProofs!ReadersAgreeOnStoredBounds` | on stored bounds the two readers' questions are equivalent |
| `KnowledgeTimeProofs!OverlapIsACommonInstant` | `intervals_overlap` holds exactly if an instant lies in both intervals |
| `KnowledgeTimeProofs!ReadersAlwaysAgree`, `!AlwaysLessThanASecondEarly`, `!ClosedAlwaysStaysClosed` | the invariants of `KnowledgeTime` |
| `GovernedClaimsProofs!TypesHold`, `!NoContradictionHolds`, `!AuthorityIsEvidencedHolds`, `!TrailExplainsClaimsHolds` | the invariants of the atomic specification |
| `ClaimGovernanceProofs!TypeOKHolds` | the schema's constraints hold of committed and uncommitted rows |
| `ClaimGovernanceProofs!FailedCommitIsForgotten` | a failed COMMIT never becomes durable |
| `ClaimGovernanceProofs!HumanAddIsOneStep` | a human add commits an authorized claim or nothing |
| `ClaimGovernanceProofs!GovernanceIsAtomic` | `Spec => Governed!Spec` |
| `ClaimGovernanceProofs!NoContradictionForSessions`, `!AuthorityIsEvidencedForSessions`, `!TrailExplainsClaimsForSessions` | the same invariants for the concurrent program |
| `SourceProofs!SourcesTypeOK` | rows satisfy their tables' constraints, importers keep to the lock's discipline |
| `SourceProofs!ImportersNeverCompete` | no constraint or trigger ever stops an import |
| `SourceProofs!ImportsTakeEffect` | an import that returns leaves its text as the latest revision |
| `SourceProofs!HistoriesImplemented` | `Spec => Histories!Spec`: versions without gaps, nothing rewritten, no repetition |
| `EventLedgerProofs!LedgerTypeOK` | entries keep their shape, sessions their protocol |
| `EventLedgerProofs!ChainAlwaysVerifies` | `verify_ledger` accepts every state that a connection can see |
| `EventLedgerProofs!AppendersNeverFork` | no key ever stops an append |
| `EventLedgerProofs!LedgerIsALog` | `Spec => Log!Spec`: all entries of an operation at the end, in order, or none |
| `EventLedgerProofs!OnlyTheTailIsLoose` | `verify_ledger` notices every row written anew, moved or removed, but the last |
| `EventLedgerProofs!FollowerReceivesTheLedger` | a follower has a beginning of the ledger, whatever its pages |
| `SourceProofs!CommittedSourcesAccepted` | the source audit accepts whatever imports commit |
| `SourceProofs!SourceEditsAreNoticed` | and no repository that differs from it in one row of a source or a revision |
| `SourceProofs!CompilationsSeeOneState` | a pinned audit, in either journal mode, accepts too |
| `SourceProofs!ValidationsBlameNoRevision` | an audit of four different states blames no revision and no entry of one |
| `MigrationProofs!MigrationsAreRecoverable` | a migration that promised a backup has left a durable copy of the moment before |
| `MigrationProofs!SettledFilesAreKept` | finished backups and the operator's files are never replaced or changed |
| `MigrationProofs!LayoutChangesOnce` | the layout changes once, to the current one, under the lock, on request |
| `MigrationProofs!RowsAreAccountedFor` | every v0.1 row that was not quarantined is behind the migration what the present program makes of it |
| `MigrationProofs!ReadyMigrationsFinish` | what preflight found ready passes the replay before the commit, unless an active row is `Misread` |
| `EventReplayProofs!ReadyEventsReplay` | the event audit accepts whatever tables preflight admits, migrated |
| `EventReplayProofs!AdmittedRepositoriesReplay` | so for what older releases wrote, and for everything one edit away from it |
| `EventReplayProofs!EventReadersBlameNobody` | a reader by three separate queries blames no event |
| `EventReplayProofs!EventEditsAreNoticed` | no edited row of an event or its evidence goes unnoticed |
| `ClaimReplayProofs!ReadyClaimsReplay` | the authority replay accepts every claim of whatever tables preflight admits, migrated |
| `ClaimReplayProofs!AdmittedClaimsReplayed` | so for what older releases wrote, and for everything one edit away from it |
| `ClaimReplayProofs!ReleasesAreAdmittedAlways` | preflight admits what older releases wrote |
| `ClaimReplayProofs!CurrentClaimsReplayed` | the authority replay accepts whatever the present program commits, with a migration before it or not |
| `ClaimReplayProofs!CurrentEditsAreNoticed` | and nothing that differs from it in one row of a claim, a decision or a reference |

Assumptions are those named in the modules: `TicksPerSecond` is a positive
natural, `Unbounded` is not an integer, `Missing` is no subject and no object,
`Proposal` and `Span` are typed, `NoClaim` is no claim, `NoSession` no session,
`Times` is not empty, `MaxLedger` is a natural, an operation that appends has
at least one entry. `OpenersAssumption` says of the files there may be at the
beginning that none is of the current layout, none has accepted material, one
that does not exist is empty and one without a layout has no rows, and that a
request to migrate asks for a backup, as the command does; `RowsAssumption` that
rows of v0.1 are typed and no two of its snapshots have one row number. Sets need
not be finite.

Some theorems have a hypothesis of their own, and each marks a place where the
program does less than one would like:

* Those of `TrailExplainsClaims`, `CurrentClaimsReplay` and `CurrentEditIsNoticed` need that
  callers do not append `claim.governance_decided`, without which the first two
  are false (finding 2).
* That of `ReleasesAreAdmitted` needs that no interval that is valid as submitted is empty
  when its bounds have been cut to seconds. `create_claim_proposal` checks the one
  and stores the other, and preflight checks what is stored
  (`MIGRATION_INTERVAL_INVALID`).
* `ReadyMigrates` itself, and not only its theorem, speaks of migrations whose
  active rows are not `Misread`. A claim of v0.1 with the empty text for its id is
  kept although it is reported as quarantined (finding 4), perhaps with a citation
  of a snapshot that is not; a claim or a revision with spaces around its id, and a
  claim with a BLOB, pass preflight and fail behind it (see the observations in
  section 3). `ReadyMigrationsFinish` has no further hypothesis.

The argument for the program:

* `Discipline` says where sessions may stand: the label of a session belongs to
  its call, its depth is the one of that label, and it holds the lock exactly if
  its depth is positive or its connection is broken. It needs nothing about data.
* `ImageInv` says what the lock holder sees: at every label, `work` is `db`
  transformed by exactly the statements the call has completed, and the guards
  passed so far held *of `db`*. It is inductive because nobody else changes `db`
  or `work` while the lock is held. `TypeOK` alone is not inductive: whether
  `append_decided` writes a well-typed entry depends on the decision inserted
  two statements earlier.
* Hence only an outermost `Exit` changes `db`, and it changes it by the
  composition of the statements of one call, whose guards held at once. This is
  a step of `GovernedClaims`; for a human add, of its `AddAuthorized`.
* `NoContradiction`, `AuthorityIsEvidenced` and `TrailExplainsClaims` are proved
  of the atomic specification, where each operation is one step, and carried over through the
  refinement.

The argument for imports has the same two layers. `Sound` says what the snapshot
table is like: the versions of each source are exactly `1..n` and no two of its
rows share one, so that there is a latest row and it carries `n`
(`LatestFacts`). `Stage` says what the lock holder has done: up to
insert_snapshot its snapshot table is the committed one, afterwards it is that
table with the row `RowOf(call)` appended, whose number continues the committed
history (`Numbered`). `AppendKeepsSound` and `AppendedHistory` then carry the
table and the abstract history over a commit. No step of the argument mentions
an order of `Times`: the clock has no part in it.

For the ledger `Sound` says that an image has the entries `1..n` and verifies;
`AtTail` that what an appender decided from the tail still fits the table it
inserts into; `Progressed` that the uncommitted log followed by what is left of
the operation is the committed log followed by the whole operation. The last one
turns into the abstract step when nothing is left, and needs concatenation to be
associative. That no digest occurs twice follows from the entry's number being
part of what is digested.

The audit of sources rests on `Auditable`, which binds rows to entries: each
source and each revision has one entry that repeats it, rows, versions and
entries are in one order, each row names the one before it, no entry tells of a
stranger, and each source has a revision and was updated by the last. It does not
hold inside a transaction, so `Draft` describes the working image at each label
by the statements run so far on the *committed* one; a commit then turns one
auditable repository into another (`RevisionIsAuditable`). That the audit counts
earlier rows and finds the version is a bijection between them and `1..v-1`
(`EarlierCount`). For readers the invariant says that the four answers are those
of four auditable states each of which grew out of the one before (`Grows`), and
that the four are one if the reader is pinned. `AnswersBelow` shows why rows
first and entries later is the harmless order: what was read of rows is a
beginning of the rows at the end, and the entries about it are all there.

In Migration, `IInv` says of each process what it has secured by each step:
behind publish the name is linked to its file, behind sync the disk has the name,
and the file holds the very repository under the lock; a name, in memory or on
disk, belongs to a process that has flushed its file first. The first of these
needs that the file cannot change while the lock is held, and that what a power
loss takes back was not synced. When the migration commits, `origin` is that
file, and the promise passes to a process that has ended, whose file nothing
touches any more (`NamesOK`, `PromiseKept`). `LayoutChanges` needs a second
invariant, `LayoutInv`, on which births and layouts go together and what a
process that is about to commit must have been asked.

`RowsAccountedFor` and `ReadyMigrates` rest on a third invariant, `RowsInv`: from
preflight to the commit the file under the lock is one that preflight finds ready,
and at the commit its migrated form passes the gate. That each kept snapshot of
v0.1 is represented by a revision with its own content, although runs of equal
contents become one revision, is an argument from the first snapshot that is not
(`RevisionHolds`, `LeastNumber`).

For events `Sane` says what every writer sees to: references belong to events that
exist, and entries about others are nothing but notes. `StreamTells` is what
preflight asks of an event with a stream, `MaterialAction` what becomes of one
without digests; behind the migration every admitted event has what the audit asks
for, whatever was appended for other events in between (`ReadyEventsReplay`).
`EventInv` carries this through the statements of each session (`SessionFits`) and
through the reader's three queries (`ReaderFits`): the events it has read are still
there when it goes on, and no entry about them has been added to those it has.

For claims the audit asks for an order: it replays decisions by the entries that
tell of them, and preflight by their rows. `Told` says that ledger, decision rows
and stored row agree, from which the two orders are one (`WholeInOrder`) and the
status replayed by either is the same. `Whole` adds the digests and at least one
checkpoint. Of a claim without a stream the migration writes the stream anew, a
proposal and then one entry for each decision row in order; that entries and rows
are matched one to one comes from ranking the rows of a claim below each place
(`BackfilledReplays`). So an admitted claim is `Whole` behind the migration
(`ReadyClaimsAreWhole`) and `Whole` is what the audit asks (`WholeIsValid`); neither
needs to know who wrote the tables.

`SoundInv`, every existing claim of a current repository is `Whole`, is what keeps
the audit content from then on. It is proved commit by commit: `ImageInv` of
ClaimGovernanceProofs tells the whole change of a call, and there is a lemma for
each change that the claim it is about stays `Whole` and one, `OthersStayWhole`,
for all others. That an edit is noticed follows from `Whole` as well: a claim's
times and its set of references are bound by digests, its status by the replay, and
a decision row by the entry that repeats it. `ReleasedInv` is the invariant of older
releases: a claim has a whole history, with or without digests, or none at all.

That a rewritten row of the ledger is noticed needs no history either: the entry
behind it has its digest for a link, and a digest is injective in number, content
and link. A number missing before the last breaks the link of the next one.

Only model-checked: `CallsEnd` and `EveryOpenEnds`, since liveness and ENABLED
are beyond the prover (and `GovernedClaims`, having no fairness, makes the
refinement one of safety). Every other property that holds is proved.

## 5. Abstractions

* The evidence rows of one call are inserted by one step. The write lock is held
  from before the first to after the last.
* A material digest is the pair of what determines it besides immutable content:
  the row's creation time and the set of evidence ids. SHA-256 is injective here.
* Distinct evidence ids stand for distinct spans; the uniqueness constraint on
  spans is not modelled. Ids are unique as UUIDs are.
* An entry appended by a caller names no decision and no evidence.
* A connection whose COMMIT failed is used for nothing but `close()`. In the
  program its reads still see the uncommitted rows; its writes raise at
  `BEGIN IMMEDIATE`.
* Confidence, access policy, attribution and texts are left out of claims: no
  decision in the modelled code depends on them beyond shape checks.
* A source's id stands for its key and continuity, a snapshot's id is its row
  number, and a text stands for its hash together with media type, path and line
  count. `ingest_snapshot` compares hashes only: importing the same text with
  another media type returns the old revision, in the program and in the model.
* `append_ledger` also accepts `source.created` and `source_snapshot.created`
  from callers. The cause is that of finding 2, and `SourceRevisions` leaves such
  entries out.
* A reader's queries start with the source audit; what the compiler and the
  validator read before it does not change its answers.
* The ledger's digest is the tuple of what it digests. `content` includes the
  entry's id, which the model lets repeat; the program's ids are fresh UUIDs.
* Older releases are not in the repository. Their calls are atomic in the model,
  and write what the checks of the present code take for a whole history.
* Events: what a field says is whether it is as written or edited. An event whose
  row is removed together with all its evidence is not looked for by the audit
  and not by the model's edits; the same holds of claims.
* The compiler's reads of events are pinned; they are the case of `EventAudit`'s
  reader in which nothing commits between its queries.
* Whether references quote what they cite is asked before and behind a migration
  by the same rules, and left out of `LegacyEvents` on both sides. `Ready` is
  thereby weaker than in the code, and what is shown behind it the stronger.
* The rows of v0.2 and later are in `Migration` such as the present program writes
  them: with ids that it generates or strips (`storage.py:2788`). A padded one is
  treated as in v0.1, as having no entry under its own id.
* That a proposal's entry cannot be written is found when the rows are converted,
  before the replay. The model finds it in `Gate`; both end in the same rollback.
* Directories are synced as on POSIX. On Windows `_fsync_directory` returns at once
  (`migrations.py:3021`), and what `MigratedIsRecoverable` says of a power loss is
  then up to the file system.
* SQLite's own commit is durable, and its lock dies with the process that holds
  it. A copy by SQLite may be incomplete without an error; verification finds it.
* Threads that share one connection are serialized by `Storage._lock` for the
  length of a transaction and are not modelled; no code path of the program nests
  a write transaction in a read transaction or the other way round.

## 6. Not modelled, and why

* Impact analysis (`impact.py`): functions on the lines of two snapshots behind
  one pinned read. Nothing in it interleaves or fails in part, its matching is
  over text, and its tests enumerate the cases.
* The compiler's filters and its pack: selection and layout of what the audits
  accepted, apart from the cutoff, which is in KnowledgeTime.
* The claim part of the validator as a reader: it has the shape of the source and
  event parts, which are modelled.
* Source streams and size limits in migrations of v0.2 and later: the counterpart
  for sources of LegacyMaterial and LegacyEvents.
* The restore command: copying a file by hand, for which the program has
  documentation and no code that changes the repository.
* Read-only service, inspection and sidecar safety (`readonly.py`,
  `inspection.py`, `sqlite_safety.py`): descriptors, inodes and attributes of files
  that the operating system keeps, and paging of reports; their reads are pinned
  and go through the audits modelled here.
* Parsing and rendering on the command line, canonical JSON, limits on texts,
  published JSON schemas, scripts: functions on text without control of their own.

A next step would be the sources of older releases, in the form of LegacyMaterial
and proved like it.
