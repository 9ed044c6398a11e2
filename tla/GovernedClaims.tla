--------------------------- MODULE GovernedClaims ---------------------------
(***************************************************************************)
(* What claim governance promises: every public operation of               *)
(* ClaimGovernance and of the claim part of SQLiteStorage takes effect at  *)
(* one instant, or not at all, and leaves its record in an append-only     *)
(* trail.  There are no sessions, transactions, statements or failures     *)
(* here; module ClaimGovernance has them and implements this module.       *)
(***************************************************************************)
EXTENDS ClaimMaterial, Sequences

VARIABLES
    status,     \* claim id -> governance status, Absent without a row
    evidence,   \* evidence id -> the claim it belongs to, or NoClaim
    trail       \* the event ledger, oldest entry first

vars == <<status, evidence, trail>>

Entry(event, c, refs, to) ==
    [event |-> event, claim |-> c, refs |-> refs, to |-> to]

EntryType ==
    [event : EventTypes, claim : ClaimIds, refs : SUBSET EvidenceIds,
     to : Statuses \cup {Absent}]

TypeOK ==
    /\ status \in [ClaimIds -> Statuses \cup {Absent}]
    /\ evidence \in [EvidenceIds -> ClaimIds \cup {NoClaim}]
    /\ trail \in Seq(EntryType)
-----------------------------------------------------------------------------
EvidenceOf(c) == {e \in EvidenceIds : evidence[e] = c}

Attach(c, refs) ==
    [e \in EvidenceIds |-> IF e \in refs THEN c ELSE evidence[e]]

Conflicts(c) ==
    {d \in ClaimIds : status[d] = "AUTHORIZED" /\ ClaimsContradict(c, d)}

(* What authorization of c on the evidence set refs requires. *)
Authorizable(c, refs) ==
    /\ StoredShapeValid(c)
    /\ EvidenceAdmissible(c, refs)
    /\ Conflicts(c) = {}

CanPropose(c, refs) ==
    /\ status[c] = Absent
    /\ SubmittedShapeValid(c)
    /\ \A e \in refs : evidence[e] = NoClaim /\ EvidenceInsertable(c, e)
-----------------------------------------------------------------------------
Init ==
    /\ status = [c \in ClaimIds |-> Absent]
    /\ evidence = [e \in EvidenceIds |-> NoClaim]
    /\ trail = <<>>

Propose(c, refs) ==
    /\ CanPropose(c, refs)
    /\ status' = [status EXCEPT ![c] = "PROPOSED"]
    /\ evidence' = Attach(c, refs)
    /\ trail' = Append(trail, Entry("claim.proposed", c, refs, "PROPOSED"))

AddEvidence(c, e) ==
    /\ status[c] \in Reviewable
    /\ evidence[e] = NoClaim
    /\ EvidenceInsertable(c, e)
    /\ evidence' = Attach(c, {e})
    /\ trail' = Append(trail, Entry("claim.evidence_added", c, {e}, Absent))
    /\ UNCHANGED status

Decide(c, to) ==
    /\ to \in AllowedTransitions(status[c])
    /\ to = "AUTHORIZED" => Authorizable(c, EvidenceOf(c))
    /\ status' = [status EXCEPT ![c] = to]
    /\ trail' = Append(trail, Entry("claim.governance_decided", c, {}, to))
    /\ UNCHANGED evidence

(* add_authorized_human_claim: a proposal and its authorization, or neither. *)
AddAuthorized(c, refs) ==
    /\ CanPropose(c, refs)
    /\ Authorizable(c, refs)
    /\ status' = [status EXCEPT ![c] = "AUTHORIZED"]
    /\ evidence' = Attach(c, refs)
    /\ trail' = trail \o
           << Entry("claim.proposed", c, refs, "PROPOSED"),
              Entry("claim.governance_decided", c, {}, "AUTHORIZED") >>

(* append_ledger: a caller's own entry. *)
Record(c, event) ==
    /\ event \notin ReservedEvents
    /\ trail' = Append(trail, Entry(event, c, {}, Absent))
    /\ UNCHANGED <<status, evidence>>

Next ==
    \E c \in ClaimIds :
        \/ \E refs \in SUBSET EvidenceIds : Propose(c, refs)
        \/ \E e \in EvidenceIds : AddEvidence(c, e)
        \/ \E to \in Targets : Decide(c, to)
        \/ \E refs \in SUBSET EvidenceIds : AddAuthorized(c, refs)
        \/ \E event \in CallerEvents : Record(c, event)

Spec == Init /\ [][Next]_vars
-----------------------------------------------------------------------------
(* No two authorized claims state contradictory facts. *)
NoContradiction ==
    \A c, d \in ClaimIds :
        status[c] = "AUTHORIZED" /\ status[d] = "AUTHORIZED"
            => ~ClaimsContradict(c, d)

(* An authorized claim is backed by admissible evidence of its own worldline,
   also long after the review that looked at it. *)
AuthorityIsEvidenced ==
    \A c \in ClaimIds :
        status[c] = "AUTHORIZED" =>
            StoredShapeValid(c) /\ EvidenceAdmissible(c, EvidenceOf(c))

(* Evidence rows belong to claims that have a row. *)
EvidenceHasOwner ==
    \A e \in EvidenceIds :
        evidence[e] \in ClaimIds => status[evidence[e]] # Absent

(* Position i of the trail holds the latest event that set the status of c. *)
IsStatusEvent(i, c) ==
    /\ trail[i].claim = c
    /\ trail[i].event \in {"claim.proposed", "claim.governance_decided"}

SetsStatus(i, c) ==
    /\ IsStatusEvent(i, c)
    /\ \A j \in i + 1 .. Len(trail) : ~IsStatusEvent(j, c)

(* The trail alone tells each claim's status and evidence. *)
TrailExplainsClaims ==
    \A c \in ClaimIds :
        /\ status[c] = Absent => \A i \in DOMAIN trail : ~IsStatusEvent(i, c)
        /\ status[c] # Absent =>
              \E i \in DOMAIN trail : SetsStatus(i, c) /\ trail[i].to = status[c]
        /\ EvidenceOf(c) =
              UNION {trail[i].refs : i \in {j \in DOMAIN trail : trail[j].claim = c}}
=============================================================================
