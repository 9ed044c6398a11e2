----------------------------- MODULE LegacyEvents -----------------------------
(***************************************************************************)
(* The narrative events of a repository that an older release wrote: what  *)
(* preflight asks of them (_validate_v02 and                               *)
(* plan_legacy_material_checkpoints, migrations.py), what the migration    *)
(* appends (storage.py), and the program that goes on with them.  The      *)
(* counterpart for claims is LegacyMaterial.                               *)
(*                                                                         *)
(* That references quote what they cite is checked before and behind the   *)
(* migration by the same rules and is left out on both sides.              *)
(***************************************************************************)
EXTENDS EventAudit

VARIABLE kind   \* the SchemaKind of the repository

allVars == <<vars, readerVars, kind>>

Older == kind \in {"V02", "V03_ALPHA3"}

LegacyInit ==
    /\ StartIn(EmptyImage)
    /\ reader = "idle"
    /\ reading = EmptyImage
    /\ kind \in {"V02", "V03_ALPHA3", "V03"}
-----------------------------------------------------------------------------
(* MIGRATION_EVENT_EVIDENCE_REQUIRED *)
EvidenceHolds(image, row) == EvidenceOf(image, row.id) # {}

StreamIsEmpty(image, e) ==
    \A n \in DOMAIN image.ledger : image.ledger[n].event # e

(* Mutant of StreamTells: the creation time is not compared. *)
StreamTellsAnyTime(image, row) ==
    \E n \in Creations(image, row.id) :
        /\ Creations(image, row.id) = {n}
        /\ image.ledger[n].core = row.core
        /\ EntryTellsEvidence(image, image.ledger[n], row)

(* MIGRATION_EVENT_AUDIT_PARTIAL, MIGRATION_EVENT_AUDIT_PAYLOAD_MISMATCH *)
StreamTells(image, row) ==
    \E n \in Creations(image, row.id) :
        /\ Creations(image, row.id) = {n}
        /\ EntryTellsRow(image.ledger[n], row)
        /\ EntryTellsEvidence(image, image.ledger[n], row)

(* _check_material_entry *)
MaterialAction(image, k, row) ==
    LET creations == Creations(image, row.id)
        attestations == Attestations(image, row.id)
        material == image.ledger[Max(creations)].material
    IN  IF creations = {} /\ k = "V02" /\ attestations = {} THEN "backfill"
        ELSE IF Cardinality(creations) # 1 \/ attestations # {} THEN "invalid"
        ELSE IF material = EventMaterial(image, row) THEN "v2"
        ELSE IF material = NoMaterial THEN "attest"
        ELSE "invalid"

(* MIGRATION_EVENT_AUDIT_ORPHAN, MIGRATION_MATERIAL_EVENT_SCOPE_INVALID *)
EntriesHaveEvents(image) ==
    \A n \in DOMAIN image.ledger :
        image.ledger[n].type = "note" \/ image.ledger[n].event \in EventsIn(image)

(* preflight_migration as far as events go. *)
Ready(image, k) ==
    /\ EntriesHaveEvents(image)
    /\ \A row \in image.events :
          /\ EvidenceHolds(image, row)
          /\ StreamIsEmpty(image, row.id) \/ StreamTells(image, row)
          /\ MaterialAction(image, k, row) # "invalid"
-----------------------------------------------------------------------------
(* _append_legacy_material_attestations, for one event. *)
AttestationEntry(image, row, at) ==
    Entry("attested", row.id, "none", {}, EventMaterial(image, row), at)

(* _backfill_event_audit_ledger writes the streams that are wholly absent. *)
Backfills(image, k) ==
    LET absent == SetToSeq({row \in image.events :
                               k = "V02" /\ StreamIsEmpty(image, row.id)})
    IN  [i \in DOMAIN absent |->
            CreationEntry(image, absent[i].id, EventMaterial(image, absent[i]))]

(* What the plan names, in some order. *)
AttestationsDue(image, k, at) ==
    LET due == SetToSeq({row \in image.events :
                            MaterialAction(image, k, row) = "attest"})
    IN  [i \in DOMAIN due |-> AttestationEntry(image, due[i], at)]

(* _initialize_or_migrate: first the one, then the other. *)
Migrated(image, k, at) ==
    [image EXCEPT !.ledger = @ \o Backfills(image, k) \o AttestationsDue(image, k, at)]
-----------------------------------------------------------------------------
(* The older releases, not in the repository: each call commits as a whole, and
   its entry is there or not, with digests or without.                       *)
OlderCommit(image) ==
    /\ Len(image.ledger) < MaxLedger
    /\ db' = image
    /\ work' = image
    /\ UNCHANGED <<lock, depth, pc, call, readerVars, kind>>

OlderCreate(k) ==
    LET rows == WithEvidence(WithEvent(db, k), k)
    IN  /\ CanInsertEvent(db, k)
        /\ CanCite(db, k)
        /\ \/ kind = "V02" /\ OlderCommit(rows)
           \/ OlderCommit(WithCreation(rows, k.event))
           \/ OlderCommit(WithEntry(rows,
                                    CreationEntry(rows, k.event, NoMaterial)))

OlderNote(k) == OlderCommit(WithNote(db, k))

OlderRelease ==
    \E e \in EventIds, at \in Times, refs \in SUBSET EvidenceIds :
        LET k == [event |-> e, refs |-> refs, at |-> at]
        IN  OlderCreate(k) \/ OlderNote(k)

Migrate ==
    /\ Older
    /\ Ready(db, kind)
    /\ \E at \in Times :
          LET migrated == Migrated(db, kind, at)
          IN  /\ Len(migrated.ledger) <= MaxLedger
              /\ db' = migrated
              /\ work' = migrated
    /\ kind' = "V03"
    /\ UNCHANGED <<lock, depth, pc, call, readerVars>>

(* The program opens a repository of its own kind only. *)
LegacyNext ==
    \/ Older /\ OlderRelease
    \/ Migrate
    \/ /\ ~Older
       /\ \/ \E s \in Sessions : Session(s) /\ UNCHANGED readerVars
          \/ Reader
       /\ UNCHANGED kind

LegacySpec == LegacyInit /\ [][LegacyNext]_allVars
-----------------------------------------------------------------------------
(* What else preflight may be handed. *)
Departures(image) ==
    Edits(image)
        \cup {[image EXCEPT !.ledger = RemoveAt(@, n)] : n \in DOMAIN image.ledger}
        \cup {[image EXCEPT !.ledger = Append(@, @[n])] : n \in DOMAIN image.ledger}
        \cup {[image EXCEPT !.ledger[n].at = at] :
                 n \in DOMAIN image.ledger, at \in Times}
        \cup {[image EXCEPT !.ledger[n].material = EventMaterial(image, row)] :
                 n \in DOMAIN image.ledger, row \in image.events}
        \cup {[image EXCEPT !.ledger[n].material = NoMaterial] :
                 n \in DOMAIN image.ledger}
        \cup {WithEntry(image, AttestationEntry(image, row, at)) :
                 row \in image.events, at \in Times}

(* What preflight lets through, the event audit accepts behind the migration:
   "postflight cannot discover a mismatch only after migration work has
   started" (migrations.py:2673).                                            *)
AdmittedEventsReplay ==
    Older =>
        \A image \in Departures(db) \cup {db} :
            Ready(image, kind) =>
                \A at \in Times : EventsValid(Migrated(image, kind, at))

(* In a current repository no edited row of an event or of its evidence goes
   unnoticed, also when a migration attested the event.                      *)
EventEditIsNoticed ==
    ~Older /\ Quiescent => \A edited \in Edits(db) : ~EventsValid(edited)
=============================================================================
