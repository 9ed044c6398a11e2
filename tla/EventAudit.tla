------------------------------- MODULE EventAudit -------------------------------
(***************************************************************************)
(* replay_event_audit (event_integrity.py), and a reader that runs it by   *)
(* queries of its own beside sessions that create events, as               *)
(* ProjectValidator does (validate.py).  The compiler's reads are pinned   *)
(* to one state: the reader's when nothing commits between its queries.    *)
(*                                                                         *)
(* Each conjunct of EventValid is the absence of the codes beside it.      *)
(***************************************************************************)
EXTENDS NarrativeEvents, FiniteSetsExt, SequencesExt

VARIABLES
    reader,    \* the query the reader is about to run
    reading    \* the answers so far, together an image

readerVars == <<reader, reading>>

EntriesOf(image, e, type) ==
    {n \in DOMAIN image.ledger :
        image.ledger[n].event = e /\ image.ledger[n].type = type}

Creations(image, e) == EntriesOf(image, e, "created")
Attestations(image, e) == EntriesOf(image, e, "attested")

(* EVENT_LEDGER_PAYLOAD_MISMATCH, EVENT_LEDGER_TIMESTAMP_MISMATCH *)
EntryTellsRow(entry, row) ==
    entry.core = row.core /\ entry.at = row.created

(* EVENT_EVIDENCE_SET_LEDGER_MISMATCH *)
EntryTellsEvidence(image, entry, row) ==
    entry.refs = Cited(EvidenceOf(image, row.id))

(* EVENT_MATERIAL_ATTESTATION_INVALID, EVENT_AGGREGATE_MATERIAL_MISMATCH,
   EVENT_EVIDENCE_SET_MATERIAL_MISMATCH: the digests are in the creation entry
   or, when an older release wrote it, in the one attestation behind it.     *)
MaterialHolds(image, n, row) ==
    LET attestations == Attestations(image, row.id)
    IN  IF image.ledger[n].material # NoMaterial
        THEN /\ attestations = {}
             /\ image.ledger[n].material = EventMaterial(image, row)
        ELSE \E a \in attestations :
                 /\ attestations = {a}
                 /\ n < a
                 /\ image.ledger[a].material = EventMaterial(image, row)

(* EventAuditReport.is_valid; EVENT_CREATION_LEDGER_MISMATCH unless there is
   exactly one creation entry.                                               *)
EventValid(image, row) ==
    \E n \in Creations(image, row.id) :
        /\ Creations(image, row.id) = {n}
        /\ EntryTellsRow(image.ledger[n], row)
        /\ EntryTellsEvidence(image, image.ledger[n], row)
        /\ MaterialHolds(image, n, row)

EventsValid(image) == \A row \in image.events : EventValid(image, row)
-----------------------------------------------------------------------------
(* The queries: list_narrative_events, then the two of validate_event_audits.
   They are not in one read transaction.                                     *)
Tables == {"events", "ledger", "evidence"}

(* Mutant of After: the events are read last. *)
AfterLedgerFirst(query) ==
    [idle |-> "ledger", ledger |-> "evidence", evidence |-> "events",
     events |-> "audit"][query]

After(query) ==
    [idle |-> "events", events |-> "ledger", ledger |-> "evidence",
     evidence |-> "audit"][query]

StartReading ==
    /\ reader = "idle"
    /\ reader' = After("idle")
    /\ UNCHANGED <<vars, reading>>

Query ==
    /\ reader \in Tables
    /\ reading' = [reading EXCEPT ![reader] = db[reader]]
    /\ reader' = After(reader)
    /\ UNCHANGED vars

StopReading ==
    /\ reader # "idle"
    /\ reader' = "idle"
    /\ reading' = EmptyImage
    /\ UNCHANGED vars

Reader == StartReading \/ Query \/ StopReading

(* An event is committed with its evidence and its entry and never changes: a
   reader that lists the events first blames none of them, whatever commits
   between its queries.                                                      *)
ReaderBlamesNoEvent == reader = "audit" => EventsValid(reading)
-----------------------------------------------------------------------------
(* One row edited behind the program's back, with the ledger left as it is (its
   hash chain guards it) and foreign keys intact.                            *)
EditedEvents(image) ==
    {[image EXCEPT !.events = (@ \ {old}) \cup {new}] :
        old \in image.events, new \in {row \in EventRow : row.id \in EventsIn(image)}}

EvidenceRows(image) == {ref \in EvidenceRow : ref.event \in EventsIn(image)}

EditedEvidence(image) ==
    {[image EXCEPT !.evidence = (@ \ {old}) \cup {new}] :
        old \in image.evidence, new \in EvidenceRows(image)}
        \cup {[image EXCEPT !.evidence = @ \ {old}] : old \in image.evidence}
        \cup {[image EXCEPT !.evidence = @ \cup {new}] : new \in EvidenceRows(image)}

(* Every committed repository is seen in such a state. *)
Quiescent == reader = "idle" /\ \A s \in Sessions : pc[s] = "idle"

(* A table has one row with an identifier. *)
KeysUnique(rows) == Cardinality({row.id : row \in rows}) = Cardinality(rows)

Edits(image) ==
    {edited \in EditedEvents(image) \cup EditedEvidence(image) :
        /\ edited # image
        /\ EventsIn(edited) = EventsIn(image)
        /\ KeysUnique(edited.events)
        /\ KeysUnique(edited.evidence)}
=============================================================================
