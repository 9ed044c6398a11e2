---------------------------- MODULE NarrativeEvents ----------------------------
(***************************************************************************)
(* Narrative events: create_narrative_event with the evidence it cites,    *)
(* and custom ledger entries about events (storage.py).                    *)
(*                                                                         *)
(* Sessions, the write lock and failures are those of Transactions.        *)
(* Tables are sets of rows.  Of what a row says its parts are kept apart   *)
(* as the checks keep them apart: the fields of an event that its ledger   *)
(* entry repeats (core) and those that only its digest covers (body), the  *)
(* fields of a reference that the entry repeats (span) and those it does   *)
(* not (quote).  Triggers keep all rows as they were written.              *)
(***************************************************************************)
EXTENDS Transactions, FiniteSets, Sequences

CONSTANTS
    EventIds,      \* values of NarrativeEvent.event_id
    EvidenceIds,   \* values of EvidenceRef.evidence_id
    Unfit,         \* references out of range or of another worldline
    Times,         \* readings of the wall clock, in no particular order
    MaxLedger      \* entries the disk has room for

ASSUME UnfitAssumption == Unfit \subseteq EvidenceIds
ASSUME EventTimesAssumption == Times # {}
ASSUME EventLedgerAssumption == MaxLedger \in Nat

Forms == {"as_written", "edited"}

EventRow == [id : EventIds, core : Forms, body : Forms, created : Times]

EvidenceRow ==
    [id : EvidenceIds, event : EventIds, span : Forms, quote : Forms]

EmptyImage == [events |-> {}, evidence |-> {}, ledger |-> <<>>]

EventsIn(image) == {row.id : row \in image.events}

EvidenceOf(image, e) == {ref \in image.evidence : ref.event = e}

(* Mutant of EventMaterial: the digest covers what the entry repeats. *)
MaterialOfCore(image, row) ==
    [event |-> [row EXCEPT !.body = "as_written"],
     refs  |-> EvidenceOf(image, row.id)]

(* event_material_digests: what the two digests determine. *)
EventMaterial(image, row) ==
    [event |-> row, refs |-> EvidenceOf(image, row.id)]

NoMaterial == [refs |-> {}]

(* The part of its evidence an entry repeats. *)
Cited(refs) == {[id |-> ref.id, span |-> ref.span] : ref \in refs}

Entry(type, e, core, refs, material, at) ==
    [type |-> type, event |-> e, core |-> core, refs |-> refs,
     material |-> material, at |-> at]

WithEntry(image, entry) == [image EXCEPT !.ledger = Append(@, entry)]
-----------------------------------------------------------------------------
HasRoom(image) == Len(image.ledger) < MaxLedger

CanInsertEvent(image, k) == k.event \notin EventsIn(image)

WithEvent(image, k) ==
    [image EXCEPT !.events =
        @ \cup {[id |-> k.event, core |-> "as_written", body |-> "as_written",
                 created |-> k.at]}]

(* _insert_event_evidence_ref for each reference. *)
CanCite(image, k) ==
    k.refs \cap (Unfit \cup {ref.id : ref \in image.evidence}) = {}

WithEvidence(image, k) ==
    [image EXCEPT !.evidence =
        @ \cup {[id |-> r, event |-> k.event, span |-> "as_written",
                 quote |-> "as_written"] : r \in k.refs}]

RowOf(image, e) == CHOOSE row \in image.events : row.id = e

(* The creation entry of e, told by its rows. *)
CreationEntry(image, e, material) ==
    Entry("created", e, RowOf(image, e).core, Cited(EvidenceOf(image, e)),
          material, RowOf(image, e).created)

WithCreation(image, e) ==
    WithEntry(image,
              CreationEntry(image, e, EventMaterial(image, RowOf(image, e))))

WithNote(image, k) ==
    WithEntry(image, Entry("note", k.event, "none", {}, NoMaterial, k.at))
-----------------------------------------------------------------------------
Begin(s, op, e, refs, label) ==
    /\ pc[s] = "idle"
    /\ \E at \in Times :
           call' = [call EXCEPT ![s] =
                       [op |-> op, event |-> e, refs |-> refs, at |-> at]]
    /\ Goto(s, label)
    /\ UNCHANGED <<db, work, lock, depth>>

(* The intervals have been validated and the clock has been read; an event
   without evidence is turned down here.                                    *)
CallCreate(s, e, refs) ==
    /\ refs # {}
    /\ Begin(s, "create", e, refs, "enter_create")

(* append_ledger refuses "created" and "attested"; the event need not exist. *)
CallNote(s, e) == Begin(s, "note", e, {}, "enter_note")

Enter(s) ==
    /\ pc[s] \in {"enter_create", "enter_note"}
    /\ EnterTransaction(s)
    /\ Goto(s, IF pc[s] = "enter_create" THEN "insert_event" ELSE "append_note")
    /\ UNCHANGED call

InsertEvent(s) ==
    Statement(s, "insert_event", "insert_evidence",
              CanInsertEvent(work, call[s]), WithEvent(work, call[s]))

InsertEvidence(s) ==
    Statement(s, "insert_evidence", "append_created",
              CanCite(work, call[s]), WithEvidence(work, call[s]))

AppendCreated(s) ==
    Statement(s, "append_created", "exit", HasRoom(work),
              WithCreation(work, call[s].event))

AppendNote(s) ==
    Statement(s, "append_note", "exit", HasRoom(work), WithNote(work, call[s]))

GuardHolds(s) ==
    CASE pc[s] = "insert_event"    -> CanInsertEvent(work, call[s])
      [] pc[s] = "insert_evidence" -> CanCite(work, call[s])
      [] OTHER                     -> HasRoom(work)

Refuse(s) ==
    /\ pc[s] \in {"insert_event", "insert_evidence", "append_created",
                  "append_note"}
    /\ ~GuardHolds(s)
    /\ Rollback(s)

Exit(s) == pc[s] = "exit" /\ ExitTransaction(s) /\ Goto(s, "idle")

CommitBusy(s) == pc[s] = "exit" /\ CommitFails(s)

BusyTimeout(s) ==
    pc[s] \in {"enter_create", "enter_note"} /\ GiveUpWaiting(s)

Calls(s) ==
    \E e \in EventIds :
        \/ \E refs \in SUBSET EvidenceIds : CallCreate(s, e, refs)
        \/ CallNote(s, e)

Progress(s) ==
    \/ Enter(s)
    \/ InsertEvent(s)
    \/ InsertEvidence(s)
    \/ AppendCreated(s)
    \/ AppendNote(s)
    \/ Refuse(s)
    \/ Exit(s)
    \/ BusyTimeout(s)

Session(s) ==
    Calls(s) \/ Progress(s) \/ CommitBusy(s) \/ Interrupt(s) \/ Close(s)
=============================================================================
