---------------------------- MODULE ClaimMaterial ----------------------------
(***************************************************************************)
(* What claims and evidence references say, as far as governance tells     *)
(* them apart (models.py, governance.py, evidence.py).                     *)
(*                                                                         *)
(* Content never changes once a row exists (storage.py installs triggers   *)
(* that abort such updates), so the content that goes with an identifier   *)
(* is a constant: Proposal[c] is what a caller submits under claim id c,   *)
(* and Span[e] relates evidence reference e to the snapshot it cites.      *)
(***************************************************************************)
EXTENDS Timeline

CONSTANTS
    ClaimIds,      \* values of ClaimProposal.claim_id
    EvidenceIds,   \* values of EvidenceRef.evidence_id
    Continuities,  \* worldlines
    Subjects,      \* (persona, subject, predicate) triples
    Objects,       \* values of object_value
    Missing,       \* an empty subject or predicate, a None object_value
    Proposal,      \* claim id -> submitted content
    Span,          \* evidence id -> relation to the cited snapshot
    NoClaim,       \* owner of an evidence id that has no row
    CallerEvents   \* event types callers hand to append_ledger

ProposalType ==
    [continuity : Continuities,
     subject    : Subjects \cup {Missing},
     object     : Objects \cup {Missing},
     from       : Bound,
     to         : Bound]

(* inRange: the snapshot exists and the line span lies within it.          *)
(* faithful: quote and content hash, where given, match the cited lines.   *)
SpanType ==
    [continuity : Continuities,
     inRange    : BOOLEAN,
     faithful   : BOOLEAN]

ASSUME MissingAssumption == Missing \notin Subjects /\ Missing \notin Objects
ASSUME ProposalAssumption == Proposal \in [ClaimIds -> ProposalType]
ASSUME SpanAssumption == Span \in [EvidenceIds -> SpanType]
ASSUME NoClaimAssumption == NoClaim \notin ClaimIds
-----------------------------------------------------------------------------
(* The bounds the claim row holds. *)
StoredFrom(c) == StoredBound(Proposal[c].from)
StoredTo(c) == StoredBound(Proposal[c].to)

(* validate_claim_shape for the submitted proposal and for the stored row. *)
SubmittedShapeValid(c) == ValidInterval(Proposal[c].from, Proposal[c].to)
StoredShapeValid(c) == ValidInterval(StoredFrom(c), StoredTo(c))

(* claims_contradict on two stored rows. *)
ClaimsContradict(c, d) ==
    /\ c # d
    /\ Proposal[c].continuity = Proposal[d].continuity
    /\ Proposal[c].subject = Proposal[d].subject
    /\ Proposal[c].subject # Missing
    /\ Proposal[c].object # Missing
    /\ Proposal[d].object # Missing
    /\ Proposal[c].object # Proposal[d].object
    /\ IntervalsOverlap(StoredFrom(c), StoredTo(c), StoredFrom(d), StoredTo(d))

(* _insert_evidence_ref and the continuity trigger: what a row must satisfy *)
(* to be stored.  Quote and hash are not looked at.                        *)
EvidenceInsertable(c, e) ==
    /\ Span[e].inRange
    /\ Span[e].continuity = Proposal[c].continuity

(* EvidenceValidator.validate_claim: what authorization demands of the     *)
(* whole evidence set.                                                     *)
EvidenceAdmissible(c, refs) ==
    /\ refs # {}
    /\ \A e \in refs : /\ EvidenceInsertable(c, e)
                       /\ Span[e].faithful
-----------------------------------------------------------------------------
(* GovernanceStatus and ALLOWED_GOVERNANCE_TRANSITIONS; Absent stands for  *)
(* a claim id that has no row.                                             *)
Absent == "ABSENT"
Statuses == {"PROPOSED", "AUTHORIZED", "REJECTED", "DISPUTED"}
Targets == Statuses \ {"PROPOSED"}

Transitions ==
    {<<"PROPOSED", "AUTHORIZED">>, <<"PROPOSED", "REJECTED">>,
     <<"PROPOSED", "DISPUTED">>,   <<"AUTHORIZED", "DISPUTED">>,
     <<"REJECTED", "DISPUTED">>,   <<"DISPUTED", "AUTHORIZED">>,
     <<"DISPUTED", "REJECTED">>}

AllowedTransitions(status) == {to \in Targets : <<status, to>> \in Transitions}

(* The event types append_ledger refuses, of those that concern claims. *)
ReservedEvents ==
    {"claim.proposed", "claim.evidence_added", "claim.material_attested"}

(* The event types of ledger entries about claims. *)
EventTypes ==
    {"claim.proposed", "claim.evidence_added", "claim.governance_decided",
     "claim.material_attested"} \cup CallerEvents

(* Statuses in which evidence may still be appended. *)
Reviewable == {"PROPOSED", "DISPUTED"}
=============================================================================
