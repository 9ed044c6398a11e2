--------------------------- MODULE AuthorityReplay ---------------------------
(***************************************************************************)
(* replay_claim_authority (governance_integrity.py): the audit that the    *)
(* compiler, the validator and the inspection service run before they      *)
(* believe a claim's status.  It recomputes status, update time and        *)
(* evidence set of a claim from decisions and ledger and compares them     *)
(* with the stored row.                                                    *)
(*                                                                         *)
(* The code collects issues and calls the claim valid when there are none; *)
(* each conjunct of AuthorityValid is the absence of some of its codes,    *)
(* named beside it.  After a first issue the code keeps replaying to find  *)
(* more; that changes its report and not its verdict.                      *)
(***************************************************************************)
EXTENDS ClaimGovernance, FiniteSetsExt

EntriesOf(image, c, event) ==
    {i \in DOMAIN image.ledger : /\ image.ledger[i].claim = c
                                 /\ image.ledger[i].event = event}

Proposals(image, c) == EntriesOf(image, c, "claim.proposed")
Additions(image, c) == EntriesOf(image, c, "claim.evidence_added")
DecidedEntries(image, c) == EntriesOf(image, c, "claim.governance_decided")
Attestations(image, c) == EntriesOf(image, c, "claim.material_attested")

DecisionsOf(image, c) ==
    {i \in DOMAIN image.decisions : image.decisions[i].claim = c}

(* The ledger entries of c that name decision row i. *)
EntriesNaming(image, c, i) ==
    {n \in DecidedEntries(image, c) : image.ledger[n].decision = i}

(* Decisions replay in ledger order, not in timestamp order: a row with
   exactly one entry stands at that entry, the others after all of them.    *)
ReplayKey(image, c, i) ==
    LET entries == EntriesNaming(image, c, i)
    IN  IF Cardinality(entries) = 1
        THEN CHOOSE n \in entries : TRUE
        ELSE Len(image.ledger) + i

Preceding(image, c, i) ==
    {j \in DecisionsOf(image, c) :
        ReplayKey(image, c, j) < ReplayKey(image, c, i)}

LastOf(image, c, rows) ==
    CHOOSE i \in rows :
        \A j \in rows : ReplayKey(image, c, j) <= ReplayKey(image, c, i)

(* Status after the decisions in rows. *)
StatusAfter(image, c, rows) ==
    IF rows = {} THEN "PROPOSED"
    ELSE image.decisions[LastOf(image, c, rows)].to
-----------------------------------------------------------------------------
(* CLAIM_PROPOSAL_LEDGER_MISMATCH *)
OneProposal(image, c) == Cardinality(Proposals(image, c)) = 1

(* DECISION_CHAIN_BROKEN, DECISION_TRANSITION_INVALID *)
ChainHolds(image, c) ==
    \A i \in DecisionsOf(image, c) :
        LET current == StatusAfter(image, c, Preceding(image, c, i))
        IN  /\ image.decisions[i].from = current
            /\ image.decisions[i].to \in AllowedTransitions(current)

(* DECISION_LEDGER_MISMATCH, DECISION_LEDGER_PAYLOAD_MISMATCH,
   DECISION_LEDGER_TIMESTAMP_MISMATCH *)
DecisionsAreLedgered(image, c) ==
    \A i \in DecisionsOf(image, c) :
        \E n \in DOMAIN image.ledger :
            /\ EntriesNaming(image, c, i) = {n}
            /\ image.ledger[n].from = image.decisions[i].from
            /\ image.ledger[n].to = image.decisions[i].to
            /\ image.ledger[n].at = image.decisions[i].at

(* LEDGER_DECISION_ID_MISSING, ORPHAN_GOVERNANCE_LEDGER_ENTRY *)
NoOrphanEntry(image, c) ==
    \A n \in DecidedEntries(image, c) :
        image.ledger[n].decision \in DecisionsOf(image, c)

(* CLAIM_PROPOSAL_LEDGER_ORDER_INVALID *)
ProposalComesFirst(image, c) ==
    \A p \in Proposals(image, c), n \in DecidedEntries(image, c) : p < n

(* Status the ledger prefix before entry n gives the claim. *)
StatusBefore(image, c, n) ==
    LET earlier == {m \in DecidedEntries(image, c) :
                       /\ m < n
                       /\ image.ledger[m].decision \in DecisionsOf(image, c)}
    IN  IF earlier = {} THEN "PROPOSED"
        ELSE image.decisions[image.ledger[Max(earlier)].decision].to

(* EVIDENCE_LEDGER_ORDER_INVALID, EVIDENCE_APPENDED_WITHOUT_REVIEW_REOPEN *)
AdditionsWhileReviewable(image, c) ==
    \A n \in Additions(image, c) :
        /\ \A p \in Proposals(image, c) : p < n
        /\ StatusBefore(image, c, n) \in Reviewable

(* Evidence ids named by the proposal and by the additions up to entry n. *)
AccumulatedAt(image, c, n) ==
    UNION {image.ledger[m].refs :
              m \in Proposals(image, c)
                    \cup {a \in Additions(image, c) : a <= n}}

(* DUPLICATE_EVIDENCE_LEDGER_ID *)
NoDuplicateEvidence(image, c) ==
    \A m, n \in Proposals(image, c) \cup Additions(image, c) :
        m # n => image.ledger[m].refs \cap image.ledger[n].refs = {}

(* EVIDENCE_SET_LEDGER_MISMATCH *)
EvidenceIsLedgered(image, c) ==
    EvidenceIn(image, c) = AccumulatedAt(image, c, Len(image.ledger))

(* Whether entry n carries the digests of what it recorded. *)
Carries(image, n) == image.ledger[n].material # NoMaterial

(* CLAIM_MATERIAL_ATTESTATION_INVALID: a proposal without digests, of an older
   release, is bound by one attestation behind it, any other by none.  The
   entry of an attestation's proposal is that of the claim.                  *)
BoundOnce(image, c) ==
    IF Carries(image, Max(Proposals(image, c)))
    THEN Attestations(image, c) = {}
    ELSE \E a \in Attestations(image, c) :
             /\ Attestations(image, c) = {a}
             /\ a > Max(Proposals(image, c))

(* CLAIM_MATERIAL_VERSION_INVALID: additions may lack digests only before the
   attestation of a proposal that lacks them.                                *)
OldAdditionsAreAttested(image, c) ==
    \A n \in Additions(image, c) :
        Carries(image, n) \/ \E a \in Attestations(image, c) : n < a

Checkpoints(image, c) ==
    {n \in Proposals(image, c) \cup Additions(image, c)
              \cup Attestations(image, c) : Carries(image, n)}

(* CLAIM_AGGREGATE_MATERIAL_MISMATCH, CLAIM_EVIDENCE_SET_MATERIAL_MISMATCH,
   CLAIM_MATERIAL_EVIDENCE_UNAVAILABLE: every checkpoint matches the row and
   the evidence named up to there, the latest one the evidence stored now.  *)
MaterialHolds(image, c) ==
    /\ BoundOnce(image, c)
    /\ OldAdditionsAreAttested(image, c)
    /\ \A n \in Checkpoints(image, c) :
           /\ image.ledger[n].material =
                 [created |-> image.claims[c].created,
                  refs    |-> AccumulatedAt(image, c, n)]
           /\ AccumulatedAt(image, c, n) \subseteq EvidenceIn(image, c)
    /\ image.ledger[Max(Checkpoints(image, c))].material = MaterialOf(image, c)

(* Mutant of UpdatedAtReplays: decided claims are not looked at. *)
UpdatedAtOfUndecided(image, c) ==
    DecisionsOf(image, c) = {} =>
        image.claims[c].updated = image.claims[c].created

(* CLAIM_UPDATED_AT_REPLAY_MISMATCH, where every decision is valid *)
UpdatedAtReplays(image, c) ==
    LET rows == DecisionsOf(image, c)
    IN  image.claims[c].updated =
            IF rows = {} THEN image.claims[c].created
            ELSE image.decisions[LastOf(image, c, rows)].at

(* CLAIM_STATUS_REPLAY_MISMATCH *)
StatusReplays(image, c) ==
    StatusIn(image, c) = StatusAfter(image, c, DecisionsOf(image, c))

(* AuthorityReport.is_valid *)
AuthorityValid(image, c) ==
    /\ OneProposal(image, c)
    /\ ChainHolds(image, c)
    /\ DecisionsAreLedgered(image, c)
    /\ NoOrphanEntry(image, c)
    /\ ProposalComesFirst(image, c)
    /\ AdditionsWhileReviewable(image, c)
    /\ NoDuplicateEvidence(image, c)
    /\ EvidenceIsLedgered(image, c)
    /\ MaterialHolds(image, c)
    /\ UpdatedAtReplays(image, c)
    /\ StatusReplays(image, c)

HasRow(image, c) == image.claims[c] # NoRow

AllValid(image) ==
    \A c \in ClaimIds : HasRow(image, c) => AuthorityValid(image, c)
-----------------------------------------------------------------------------
(* db changes only when a call commits, and no call is under way in the state
   after it if nothing else runs: looking at these states looks at every db. *)
Quiescent == \A s \in Sessions : pc[s] = "idle"

(* No false alarm: whatever the calls, failures and clock readings, the audit
   accepts every committed claim. *)
CommittedClaimsReplay == Quiescent => AllValid(db)

(***************************************************************************)
(* Edits of one row behind the program's back, with the ledger left as it  *)
(* is (its own hash chain guards it).                                      *)
(***************************************************************************)
Existing(image) == {c \in ClaimIds : HasRow(image, c)}

(* Foreign keys keep evidence and decisions on existing claims. *)
DecisionRows(image) == {row \in DecisionRow : row.claim \in Existing(image)}

EditedClaims(image) ==
    {[image EXCEPT !.claims[c] = row] :
        c \in ClaimIds, row \in ClaimRow}

EditedEvidence(image) ==
    {[image EXCEPT !.evidence[e] = c] :
        e \in EvidenceIds, c \in Existing(image) \cup {NoClaim}}

EditedDecisions(image) ==
    {[image EXCEPT !.decisions[i] = row] :
        i \in DOMAIN image.decisions, row \in DecisionRows(image)}

DecisionAdded(image) ==
    {[image EXCEPT !.decisions = Append(@, row)] : row \in DecisionRows(image)}

Edits(image) ==
    (EditedClaims(image) \cup EditedEvidence(image)
        \cup EditedDecisions(image) \cup DecisionAdded(image)) \ {image}

(* No single edited row of claims, evidence or decisions goes unnoticed. *)
SingleEditIsNoticed ==
    Quiescent => \A edited \in Edits(db) : ~AllValid(edited)
=============================================================================
