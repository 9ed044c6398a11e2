---------------------------- MODULE LegacyMaterial ----------------------------
(***************************************************************************)
(* The claims of a repository that an older release wrote: what preflight  *)
(* asks of their rows and ledger streams (_validate_v02 and                *)
(* plan_legacy_material_checkpoints, migrations.py), what the migration    *)
(* appends to the ledger (storage.py), and the program that then goes on   *)
(* with them.                                                              *)
(*                                                                         *)
(* The older releases are not in the repository.  Their calls are atomic   *)
(* here and write what the checks of the present code take for a whole     *)
(* history: rows, and streams without digests, with digests, or, behind    *)
(* the oldest migration, no stream at all.                                 *)
(*                                                                         *)
(* Every check collects issues; the repository is ready when there are     *)
(* none.  Each conjunct is the absence of some codes, named beside it.     *)
(***************************************************************************)
EXTENDS AuthorityReplay, SequencesExt

VARIABLE kind   \* the SchemaKind of the repository

legacyVars == <<vars, kind>>

(* ALPHA2 and ALPHA3 differ in layout and not in what is checked here. *)
OlderKinds == {"V02", "V03_ALPHA3"}

Older == kind \in OlderKinds

LegacyInit == Init /\ kind \in OlderKinds \cup {"V03"}
-----------------------------------------------------------------------------
(* _validate_v02, claim by claim. *)

(* MIGRATION_INTERVAL_INVALID, of the bounds as they are stored. *)
ClaimRowHolds(c) == StoredShapeValid(c)

(* MIGRATION_EVIDENCE_CONTINUITY_MISMATCH, _RANGE_INVALID, _QUOTE_MISMATCH,
   _HASH_MISMATCH, and MIGRATION_EVIDENCE_REQUIRED                           *)
EvidenceHolds(image, c) ==
    /\ \A e \in EvidenceIn(image, c) : EvidenceAdmissible(c, {e})
    /\ StatusIn(image, c) = "AUTHORIZED" => EvidenceIn(image, c) # {}

(* Decisions replay in the order of their rows here. *)
StatusByRows(image, rows) ==
    IF rows = {} THEN "PROPOSED" ELSE image.decisions[Max(rows)].to

(* MIGRATION_DECISION_CHAIN_INVALID, MIGRATION_CLAIM_STATUS_REPLAY_MISMATCH *)
DecisionsHold(image, c) ==
    LET rows == DecisionsOf(image, c)
    IN  /\ \A i \in rows :
              LET current == StatusByRows(image, {j \in rows : j < i})
              IN  /\ image.decisions[i].from = current
                  /\ image.decisions[i].to \in AllowedTransitions(current)
        /\ StatusIn(image, c) = StatusByRows(image, rows)

StreamOf(image, c) ==
    {n \in DOMAIN image.ledger : image.ledger[n].claim = c}

HasHistory(image, c) ==
    Proposals(image, c) \cup DecidedEntries(image, c) # {}

(* Mutant of DecisionEntriesHold: the clock is expected to order decisions. *)
DecisionEntriesHoldByClock(image, c) ==
    /\ OneProposal(image, c)
    /\ ProposalComesFirst(image, c)
    /\ DecisionsAreLedgered(image, c)
    /\ \A i, j \in DecisionsOf(image, c) :
          i < j => image.decisions[i].at <= image.decisions[j].at
    /\ NoOrphanEntry(image, c)

(* MIGRATION_AUTHORITY_LEDGER_PARTIAL, _ORDER_INVALID,
   _CORRESPONDENCE_INVALID, _PAYLOAD_MISMATCH, _TIMESTAMP_MISMATCH, _ORPHAN  *)
DecisionEntriesHold(image, c) ==
    /\ OneProposal(image, c)
    /\ ProposalComesFirst(image, c)
    /\ DecisionsAreLedgered(image, c)
    /\ \A i, j \in DecisionsOf(image, c) :
          i < j => ReplayKey(image, c, i) < ReplayKey(image, c, j)
    /\ NoOrphanEntry(image, c)

(* MIGRATION_EVIDENCE_LEDGER_ORDER_INVALID,
   MIGRATION_EVIDENCE_APPENDED_WITHOUT_REVIEW_REOPEN,
   MIGRATION_EVIDENCE_SET_LEDGER_MISMATCH                                    *)
EvidenceEntriesHold(image, c) ==
    /\ AdditionsWhileReviewable(image, c)
    /\ NoDuplicateEvidence(image, c)
    /\ EvidenceIsLedgered(image, c)

(* A claim has its whole history in the ledger or no entry at all.  Without
   entries the rows alone tell the update time.                              *)
StreamHolds(image, c) ==
    /\ IF HasHistory(image, c)
       THEN DecisionEntriesHold(image, c) /\ EvidenceEntriesHold(image, c)
       ELSE StreamOf(image, c) = {}
    /\ UpdatedAtReplays(image, c)
-----------------------------------------------------------------------------
(* plan_legacy_material_checkpoints, claim by claim. *)

(* Mutant of MaterialAction: an attestation found in the repository is as good
   as the operator's.                                                        *)
MaterialActionOrAttested(image, k, c) ==
    LET creations == Proposals(image, c)
        attestations == Attestations(image, c)
    IN  IF creations = {} /\ k = "V02" /\ attestations = {} THEN "backfill"
        ELSE IF Cardinality(creations) # 1 THEN "invalid"
        ELSE IF ~Carries(image, Max(creations)) THEN "attest"
        ELSE IF attestations = {} THEN "v2"
        ELSE "invalid"

(* _check_material_entry: what is to be done about the proposal of c. *)
MaterialAction(image, k, c) ==
    LET creations == Proposals(image, c)
        attestations == Attestations(image, c)
    IN  IF creations = {} /\ k = "V02" /\ attestations = {} THEN "backfill"
        ELSE IF Cardinality(creations) # 1 \/ attestations # {} THEN "invalid"
        ELSE IF Carries(image, Max(creations)) THEN "v2"
        ELSE "attest"

(* MIGRATION_MATERIAL_DIGEST_MISMATCH and
   _validate_claim_evidence_material_checkpoints: the digests there are match,
   and behind a proposal with digests every addition has them.               *)
CheckpointsHold(image, c, required) ==
    /\ \A n \in Proposals(image, c) \cup Additions(image, c) :
          /\ AccumulatedAt(image, c, n) \subseteq EvidenceIn(image, c)
          /\ ~Carries(image, n) => ~required
          /\ Carries(image, n) =>
                image.ledger[n].material =
                    [created |-> image.claims[c].created,
                     refs    |-> AccumulatedAt(image, c, n)]
    /\ NoDuplicateEvidence(image, c)
    /\ EvidenceIsLedgered(image, c)

MaterialIsBindable(image, k, c) ==
    LET action == MaterialAction(image, k, c)
    IN  /\ action # "invalid"
        /\ action \in {"v2", "attest"} =>
              CheckpointsHold(image, c, action = "v2")

(* MIGRATION_MATERIAL_EVENT_SCOPE_INVALID, MIGRATION_AUTHORITY_LEDGER_ORPHAN *)
EntriesHaveClaims(image) ==
    \A n \in DOMAIN image.ledger : image.ledger[n].claim \in Existing(image)

(* preflight_migration as far as claims go: validate_migration_data and the
   plan raise no issue.                                                      *)
Ready(image, k) ==
    /\ EntriesHaveClaims(image)
    /\ \A c \in Existing(image) :
          /\ ClaimRowHolds(c)
          /\ EvidenceHolds(image, c)
          /\ DecisionsHold(image, c)
          /\ StreamHolds(image, c)
          /\ MaterialIsBindable(image, k, c)
-----------------------------------------------------------------------------
(* What the migration appends. *)

ProposalEntry(image, c) ==
    [event |-> "claim.proposed", claim |-> c, refs |-> EvidenceIn(image, c),
     material |-> MaterialOf(image, c), decision |-> 0,
     from |-> Absent, to |-> Absent, at |-> image.claims[c].created]

DecisionEntry(image, i) ==
    LET row == image.decisions[i]
    IN  [event |-> "claim.governance_decided", claim |-> row.claim, refs |-> {},
         material |-> NoMaterial, decision |-> i,
         from |-> row.from, to |-> row.to, at |-> row.at]

(* Mutant of AttestationEntry: the evidence is left out of the digests. *)
BareAttestationEntry(image, c, at) ==
    [event |-> "claim.material_attested", claim |-> c, refs |-> {},
     material |-> [MaterialOf(image, c) EXCEPT !.refs = {}], decision |-> 0,
     from |-> Absent, to |-> Absent, at |-> at]

(* _append_legacy_material_attestations, for one claim. *)
AttestationEntry(image, c, at) ==
    [event |-> "claim.material_attested", claim |-> c, refs |-> {},
     material |-> MaterialOf(image, c), decision |-> 0,
     from |-> Absent, to |-> Absent, at |-> at]

(* Pairs in the order of their first numbers, then of their second. *)
NoLater(p, q) == p[1] < q[1] \/ (p[1] = q[1] /\ p[2] <= q[2])

Ranked(pairs, r) ==
    CHOOSE p \in pairs : Cardinality({q \in pairs : NoLater(q, p)}) = r

(* _backfill_claim_authority_ledger, claim by claim: 0 stands for the proposal
   of the n-th claim, i for decision row i.  The order of the claims says
   nothing about any of them.                                                *)
Backfills(image, k) ==
    LET claims == SetToSeq({c \in Existing(image) :
                               k = "V02" /\ ~HasHistory(image, c)})
        pairs == UNION {{<<n, i>> : i \in {0} \cup DecisionsOf(image, claims[n])} :
                           n \in DOMAIN claims}
    IN  [r \in 1 .. Cardinality(pairs) |->
            LET p == Ranked(pairs, r)
            IN  IF p[2] = 0 THEN ProposalEntry(image, claims[p[1]])
                ELSE DecisionEntry(image, p[2])]

(* What the plan names, in some order. *)
AttestationsDue(image, k, at) ==
    LET due == SetToSeq({c \in Existing(image) :
                            MaterialAction(image, k, c) = "attest"})
    IN  [n \in DOMAIN due |-> AttestationEntry(image, due[n], at)]

(* _initialize_or_migrate: first the one, then the other. *)
Migrated(image, k, at) ==
    [image EXCEPT !.ledger = @ \o Backfills(image, k) \o AttestationsDue(image, k, at)]
-----------------------------------------------------------------------------
(* The older releases: each call commits as a whole, with digests in its entry
   or without.  The bound leaves room for an attestation.                    *)
OlderCommit(image) ==
    /\ Len(image.ledger) < MaxLedger
    /\ db' = image
    /\ work' = image
    /\ UNCHANGED <<lock, depth, pc, call, kind>>

WithPlainEntry(image, k, event) ==
    WithEntry(image, event, k.claim, k.refs, NoMaterial, 0, Absent, Absent, k.at)

(* The row and the references of a proposal. *)
ProposedRows(k) == WithEvidence(WithClaim(db, k), k)

CanPropose(k) ==
    /\ CanInsertClaim(db, k)
    /\ CanAttach(WithClaim(db, k), k)

OlderPropose(k) ==
    /\ CanPropose(k)
    /\ \/ OlderCommit(WithPlainEntry(ProposedRows(k), k, "claim.proposed"))
       \/ OlderCommit(WithMaterialEntry(ProposedRows(k), k, "claim.proposed"))

(* Behind a proposal with digests the same release writes them again. *)
OlderAddEvidence(k) ==
    LET added == WithEvidence(db, k)
    IN  /\ k.refs # {}
        /\ CanAttach(db, k)
        /\ HasHistory(db, k.claim)
        /\ \/ /\ ~Carries(db, Max(Proposals(db, k.claim)))
              /\ OlderCommit(WithPlainEntry(added, k, "claim.evidence_added"))
           \/ OlderCommit(WithMaterialEntry(added, k, "claim.evidence_added"))

OlderReview(k) ==
    LET decided == WithStatus(WithDecision(db, k), k)
    IN  /\ GateOpen(db, k)
        /\ HasHistory(db, k.claim)
        /\ OlderCommit(WithDecidedEntry(decided, k))

(* The migration from v0.1 to v0.2 left rows without entries. *)
OlderImport(k) ==
    /\ kind = "V02"
    /\ CanPropose(k)
    /\ OlderCommit(ProposedRows(k))

(* The bound is on the entries the next migration will write. *)
OlderImportDecision(k) ==
    /\ kind = "V02"
    /\ GateOpen(db, k)
    /\ ~HasHistory(db, k.claim)
    /\ Len(db.decisions) + 1 < MaxLedger
    /\ OlderCommit(WithStatus(WithDecision(db, k), k))

OlderRelease ==
    \E c \in ClaimIds, at \in Times :
        \/ \E refs \in SUBSET EvidenceIds :
               LET k == [claim |-> c, refs |-> refs, at |-> at]
               IN  OlderPropose(k) \/ OlderAddEvidence(k) \/ OlderImport(k)
        \/ \E to \in Targets :
               LET k == [claim |-> c, to |-> to, decided |-> at]
               IN  OlderReview(k) \/ OlderImportDecision(k)

(* The migration, seen from outside, run with attest_current_legacy_material;
   without that consent preflight refuses whatever is not "v2" already.
   Module Migration has its steps.                                           *)
Migrate ==
    /\ Older
    /\ Ready(db, kind)
    /\ \E at \in Times :
          LET migrated == Migrated(db, kind, at)
          IN  /\ Len(migrated.ledger) <= MaxLedger
              /\ db' = migrated
              /\ work' = migrated
    /\ kind' = "V03"
    /\ UNCHANGED <<lock, depth, pc, call>>

(* The program opens a repository of its own kind only. *)
LegacyNext ==
    \/ Older /\ OlderRelease
    \/ Migrate
    \/ ~Older /\ Next /\ UNCHANGED kind

LegacySpec == LegacyInit /\ [][LegacyNext]_legacyVars
-----------------------------------------------------------------------------
(***************************************************************************)
(* What else preflight may be handed: a row edited, or a ledger that is    *)
(* one step away from what a release writes.  The hash chain is no help    *)
(* against a program that computes it.                                     *)
(***************************************************************************)
EntryLost(image) ==
    {[image EXCEPT !.ledger = RemoveAt(@, n)] : n \in DOMAIN image.ledger}

EntryMoved(image) ==
    {[image EXCEPT !.ledger = InsertAt(RemoveAt(@, n), m, @[n])] :
        n, m \in DOMAIN image.ledger}

EntryRepeated(image) ==
    {[image EXCEPT !.ledger = Append(@, @[n])] : n \in DOMAIN image.ledger}

DigestsForged(image) ==
    {[image EXCEPT !.ledger[n].material = material] :
        n \in DOMAIN image.ledger, material \in MaterialType \cup {NoMaterial}}

AttestationForged(image) ==
    {[image EXCEPT !.ledger = Append(@, AttestationEntry(image, c, at))] :
        c \in Existing(image), at \in Times}

Departures(image) ==
    Edits(image) \cup EntryLost(image) \cup EntryMoved(image)
        \cup EntryRepeated(image) \cup DigestsForged(image)
        \cup AttestationForged(image)

(* What preflight lets through, the audits accept behind the migration:
   "postflight cannot discover a mismatch only after migration work has
   started" (migrations.py:2673).                                            *)
AdmittedClaimsReplay ==
    Older =>
        \A image \in Departures(db) \cup {db} :
            Ready(image, kind) =>
                \A at \in Times : AllValid(Migrated(image, kind, at))

(* A repository that older releases alone have written migrates, whatever the
   clock, as long as its references quote what they cite.                    *)
ReleasesAreAdmitted ==
    Older /\ (\A e \in EvidenceIds : db.evidence[e] # NoClaim => Span[e].faithful)
        => Ready(db, kind)

(* No false alarm (as CommittedClaimsReplay), also for claims that came with a
   migration and were reviewed, or given evidence, after it.                 *)
CurrentClaimsReplay == ~Older => CommittedClaimsReplay

(* SingleEditIsNoticed, also behind an attestation. *)
CurrentEditIsNoticed == ~Older => SingleEditIsNoticed

=============================================================================
