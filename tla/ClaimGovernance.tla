--------------------------- MODULE ClaimGovernance ---------------------------
(***************************************************************************)
(* Claim governance over a SQLite repository: ClaimGovernance              *)
(* (governance.py) and the claim operations of SQLiteStorage (storage.py). *)
(*                                                                         *)
(* Sessions, the write lock, savepoints and failures are those of          *)
(* Transactions; the tables and the statements of each call are here.      *)
(***************************************************************************)
EXTENDS ClaimMaterial, Transactions, Sequences

CONSTANTS
    Times,        \* readings of the wall clock, in no particular order
    MaxLedger     \* entries the disk has room for

ASSUME TimesAssumption == Times # {}
ASSUME MaxLedgerAssumption == MaxLedger \in Nat
-----------------------------------------------------------------------------
(* Tables. *)
NoRow == [status |-> Absent]

ClaimRow ==
    [status : Statuses, created : Times, updated : Times]

DecisionRow ==
    [claim : ClaimIds, from : Statuses, to : Statuses, at : Times]

(* What the digests of a material event determine: claim and evidence content
   goes with the identifiers, so the row's own part and the evidence set
   remain.  status and updated_at are left out of the digest.               *)
MaterialType == [created : Times, refs : SUBSET EvidenceIds]

NoMaterial == [refs |-> {}]

(* decision is the row number of the decision an entry names, or 0. *)
LedgerEntry ==
    [event : EventTypes, claim : ClaimIds, refs : SUBSET EvidenceIds,
     material : MaterialType \cup {NoMaterial}, decision : Nat,
     from : Statuses \cup {Absent}, to : Statuses \cup {Absent}, at : Times]

Image ==
    [claims    : [ClaimIds -> ClaimRow \cup {NoRow}],
     evidence  : [EvidenceIds -> ClaimIds \cup {NoClaim}],
     decisions : Seq(DecisionRow),
     ledger    : Seq(LedgerEntry)]

EmptyImage ==
    [claims    |-> [c \in ClaimIds |-> NoRow],
     evidence  |-> [e \in EvidenceIds |-> NoClaim],
     decisions |-> <<>>,
     ledger    |-> <<>>]

StatusIn(image, c) == image.claims[c].status
EvidenceIn(image, c) == {e \in EvidenceIds : image.evidence[e] = c}

(* claim_material_digests of the stored rows. *)
MaterialOf(image, c) ==
    [created |-> image.claims[c].created, refs |-> EvidenceIn(image, c)]

(* find_conflicts: authorized claims that contradict c. *)
ConflictsIn(image, c) ==
    {d \in ClaimIds :
        StatusIn(image, d) = "AUTHORIZED" /\ ClaimsContradict(c, d)}

(* The row of the decision that authorizes a status change: the guard of the
   trigger continuityforge_claims_status_transition.                        *)
HasDecision(image, c, from, to, at) ==
    \E i \in DOMAIN image.decisions :
        image.decisions[i] = [claim |-> c, from |-> from, to |-> to, at |-> at]
-----------------------------------------------------------------------------
(* Calls. *)
Operations == {"propose", "human", "evidence", "review", "append"}

NoEvent == ""

(* at is the clock reading of a call's material and custom entries, decided
   that of its decision.                                                    *)
CallType ==
    [op : Operations, claim : ClaimIds, refs : SUBSET EvidenceIds,
     to : Targets \cup {Absent}, event : CallerEvents \cup {NoEvent},
     at : Times, decided : Times]

(* storage.transaction(): entered and left at these points of a call. *)
AfterEnter ==
    [enter_human    |-> "enter_propose",
     enter_propose  |-> "insert_claim",
     enter_review   |-> "gate",
     enter_decision |-> "insert_decision",
     enter_evidence |-> "insert_evidence",
     enter_append   |-> "append_custom"]

AfterExit(op) ==
    [exit_propose  |-> IF op = "human" THEN "enter_review" ELSE "idle",
     exit_decision |-> "exit_review",
     exit_review   |-> IF op = "human" THEN "exit_human" ELSE "idle",
     exit_human    |-> "idle",
     exit_evidence |-> "idle",
     exit_append   |-> "idle"]

EnterLabels ==
    {"enter_human", "enter_propose", "enter_review", "enter_decision",
     "enter_evidence", "enter_append"}

ExitLabels ==
    {"exit_propose", "exit_decision", "exit_review", "exit_human",
     "exit_evidence", "exit_append"}

StatementLabels ==
    {"insert_claim", "attach_evidence", "append_proposed", "gate",
     "insert_decision", "update_status", "append_decided",
     "insert_evidence", "append_evidence", "append_custom"}

Labels ==
    EnterLabels \cup ExitLabels \cup StatementLabels \cup {"idle", "broken"}

(* Committed and uncommitted rows satisfy the schema's constraints, and blocks
   are left as often as they are entered. *)
TypeOK ==
    /\ db \in Image
    /\ work \in Image
    /\ lock \in Sessions \cup {NoSession}
    /\ depth \in [Sessions -> Nat]
    /\ pc \in [Sessions -> Labels]
    /\ call \in [Sessions -> CallType \cup {NoCall}]
-----------------------------------------------------------------------------
Init == StartIn(EmptyImage)

(* A public call up to its first transaction().  Proposals and evidence take
   their timestamp here, before they wait for the lock.                     *)
Begin(s, op, c, refs, to, event, label) ==
    /\ pc[s] = "idle"
    /\ \E at \in Times :
           call' = [call EXCEPT ![s] =
                       [op |-> op, claim |-> c, refs |-> refs, to |-> to,
                        event |-> event, at |-> at, decided |-> at]]
    /\ Goto(s, label)
    /\ UNCHANGED <<db, work, lock, depth>>

CallPropose(s, c, refs) ==
    /\ SubmittedShapeValid(c)
    /\ Begin(s, "propose", c, refs, Absent, NoEvent, "enter_propose")

CallHuman(s, c, refs) ==
    Begin(s, "human", c, refs, "AUTHORIZED", NoEvent, "enter_human")

CallAddEvidence(s, c, e) ==
    Begin(s, "evidence", c, {e}, Absent, NoEvent, "enter_evidence")

CallReview(s, c, to) ==
    Begin(s, "review", c, {}, to, NoEvent, "enter_review")

CallAppend(s, c, event) ==
    /\ event \notin ReservedEvents
    /\ Begin(s, "append", c, {}, Absent, event, "enter_append")
-----------------------------------------------------------------------------
(* Mutant of Enter: review() reads claim, evidence and conflicts without a
   transaction, as with a storage that has none.                            *)
EnterReviewUnlocked(s) ==
    /\ pc[s] \in EnterLabels
    /\ IF pc[s] = "enter_review"
       THEN UNCHANGED <<db, work, lock, depth>>
       ELSE EnterTransaction(s)
    /\ IF pc[s] = "enter_decision"
       THEN \E at \in Times : call' = [call EXCEPT ![s].decided = at]
       ELSE UNCHANGED call
    /\ Goto(s, AfterEnter[pc[s]])

Enter(s) ==
    /\ pc[s] \in EnterLabels
    /\ EnterTransaction(s)
    /\ IF pc[s] = "enter_decision"
       THEN \E at \in Times : call' = [call EXCEPT ![s].decided = at]
       ELSE UNCHANGED call
    /\ Goto(s, AfterEnter[pc[s]])

Exit(s) ==
    /\ pc[s] \in ExitLabels
    /\ ExitTransaction(s)
    /\ Goto(s, AfterExit(call[s].op)[pc[s]])

CommitBusy(s) == pc[s] \in ExitLabels /\ CommitFails(s)

BusyTimeout(s) == pc[s] \in EnterLabels /\ GiveUpWaiting(s)
-----------------------------------------------------------------------------
(* Statements.  Each has a guard; a call whose guard fails raises (Refuse). *)
HasRoom(image) == Len(image.ledger) < MaxLedger

WithEntry(image, event, c, refs, material, decision, from, to, at) ==
    [image EXCEPT !.ledger =
        Append(@, [event |-> event, claim |-> c, refs |-> refs,
                   material |-> material, decision |-> decision,
                   from |-> from, to |-> to, at |-> at])]

CanInsertClaim(image, k) ==
    /\ image.claims[k.claim] = NoRow
    /\ SubmittedShapeValid(k.claim)

(* Mutant of WithClaim: the status the caller asked for is stored. *)
WithRequestedStatus(image, k) ==
    [image EXCEPT !.claims[k.claim] =
        [status |-> k.to, created |-> k.at, updated |-> k.at]]

WithClaim(image, k) ==
    [image EXCEPT !.claims[k.claim] =
        [status |-> "PROPOSED", created |-> k.at, updated |-> k.at]]

(* _insert_evidence_ref for each reference, with the triggers that guard
   the table.                                                               *)
CanAttach(image, k) ==
    /\ StatusIn(image, k.claim) \in Reviewable
    /\ \A e \in k.refs : /\ image.evidence[e] = NoClaim
                         /\ EvidenceInsertable(k.claim, e)

WithEvidence(image, k) ==
    [image EXCEPT !.evidence =
        [e \in EvidenceIds |-> IF e \in k.refs THEN k.claim ELSE @[e]]]

WithMaterialEntry(image, k, event) ==
    WithEntry(image, event, k.claim, k.refs, MaterialOf(image, k.claim),
              0, Absent, Absent, k.at)

(* Mutant of GateOpen: one admissible reference is enough. *)
GateOnOneReference(image, k) ==
    /\ k.to \in AllowedTransitions(StatusIn(image, k.claim))
    /\ k.to = "AUTHORIZED" =>
          /\ StoredShapeValid(k.claim)
          /\ \E e \in EvidenceIn(image, k.claim) :
                 EvidenceAdmissible(k.claim, {e})
          /\ ConflictsIn(image, k.claim) = {}

(* review(): the gate between reading the claim and deciding. *)
GateOpen(image, k) ==
    /\ k.to \in AllowedTransitions(StatusIn(image, k.claim))
    /\ k.to = "AUTHORIZED" =>
          /\ StoredShapeValid(k.claim)
          /\ EvidenceAdmissible(k.claim, EvidenceIn(image, k.claim))
          /\ ConflictsIn(image, k.claim) = {}

(* _commit_governance_decision re-reads the status. *)
CanDecide(image, k) == k.to \in AllowedTransitions(StatusIn(image, k.claim))

WithDecision(image, k) ==
    [image EXCEPT !.decisions =
        Append(@, [claim |-> k.claim, from |-> StatusIn(image, k.claim),
                   to |-> k.to, at |-> k.decided])]

CanUpdateStatus(image, k) ==
    /\ k.to \in AllowedTransitions(StatusIn(image, k.claim))
    /\ HasDecision(image, k.claim, StatusIn(image, k.claim), k.to, k.decided)

WithStatus(image, k) ==
    [image EXCEPT !.claims[k.claim].status = k.to,
                  !.claims[k.claim].updated = k.decided]

(* Mutant of WithDecidedEntry: the statuses are swapped. *)
WithSwappedEntry(image, k) ==
    LET last == Len(image.decisions)
    IN  WithEntry(image, "claim.governance_decided", k.claim, {},
                  NoMaterial, last, k.to, image.decisions[last].from, k.decided)

WithDecidedEntry(image, k) ==
    LET last == Len(image.decisions)
    IN  WithEntry(image, "claim.governance_decided", k.claim, {},
                  NoMaterial, last, image.decisions[last].from, k.to, k.decided)

WithCustomEntry(image, k) ==
    WithEntry(image, k.event, k.claim, {}, NoMaterial, 0, Absent, Absent, k.at)
-----------------------------------------------------------------------------
InsertClaim(s) ==
    Statement(s, "insert_claim", "attach_evidence",
              CanInsertClaim(work, call[s]), WithClaim(work, call[s]))

AttachEvidence(s) ==
    Statement(s, "attach_evidence", "append_proposed",
              CanAttach(work, call[s]), WithEvidence(work, call[s]))

AppendProposed(s) ==
    Statement(s, "append_proposed", "exit_propose", HasRoom(work),
              WithMaterialEntry(work, call[s], "claim.proposed"))

(* Read only: everything it decides on is read inside the transaction. *)
Gate(s) ==
    /\ pc[s] = "gate"
    /\ GateOpen(View(s), call[s])
    /\ Goto(s, "enter_decision")
    /\ UNCHANGED <<db, work, lock, depth, call>>

InsertDecision(s) ==
    Statement(s, "insert_decision", "update_status",
              CanDecide(work, call[s]), WithDecision(work, call[s]))

UpdateStatus(s) ==
    Statement(s, "update_status", "append_decided",
              CanUpdateStatus(work, call[s]), WithStatus(work, call[s]))

AppendDecided(s) ==
    Statement(s, "append_decided", "exit_decision", HasRoom(work),
              WithDecidedEntry(work, call[s]))

InsertEvidence(s) ==
    Statement(s, "insert_evidence", "append_evidence",
              CanAttach(work, call[s]), WithEvidence(work, call[s]))

AppendEvidence(s) ==
    Statement(s, "append_evidence", "exit_evidence", HasRoom(work),
              WithMaterialEntry(work, call[s], "claim.evidence_added"))

AppendCustom(s) ==
    Statement(s, "append_custom", "exit_append", HasRoom(work),
              WithCustomEntry(work, call[s]))

(* The guard of the statement at pc[s]. *)
GuardHolds(s) ==
    CASE pc[s] = "insert_claim"    -> CanInsertClaim(work, call[s])
      [] pc[s] = "attach_evidence" -> CanAttach(work, call[s])
      [] pc[s] = "insert_evidence" -> CanAttach(work, call[s])
      [] pc[s] = "gate"            -> GateOpen(View(s), call[s])
      [] pc[s] = "insert_decision" -> CanDecide(work, call[s])
      [] pc[s] = "update_status"   -> CanUpdateStatus(work, call[s])
      [] OTHER                     -> HasRoom(work)

Refuse(s) ==
    /\ pc[s] \in StatementLabels
    /\ ~GuardHolds(s)
    /\ Rollback(s)
-----------------------------------------------------------------------------
Calls(s) ==
    \E c \in ClaimIds :
        \/ \E refs \in SUBSET EvidenceIds : CallPropose(s, c, refs)
        \/ \E refs \in SUBSET EvidenceIds : CallHuman(s, c, refs)
        \/ \E e \in EvidenceIds : CallAddEvidence(s, c, e)
        \/ \E to \in Targets : CallReview(s, c, to)
        \/ \E event \in CallerEvents : CallAppend(s, c, event)

Statements(s) ==
    \/ InsertClaim(s)
    \/ AttachEvidence(s)
    \/ AppendProposed(s)
    \/ Gate(s)
    \/ InsertDecision(s)
    \/ UpdateStatus(s)
    \/ AppendDecided(s)
    \/ InsertEvidence(s)
    \/ AppendEvidence(s)
    \/ AppendCustom(s)
    \/ Refuse(s)

(* What a session does by itself once it is in a call. *)
Progress(s) == Enter(s) \/ Statements(s) \/ Exit(s) \/ BusyTimeout(s)

Failures(s) == CommitBusy(s) \/ Interrupt(s)

Next ==
    \E s \in Sessions : Calls(s) \/ Progress(s) \/ Failures(s) \/ Close(s)

Spec == Init /\ [][Next]_vars

(* A process that runs a call goes on running it; SQLite's busy timeout ends a
   wait; `with Storage(...)` closes a connection whose COMMIT failed.        *)
FairSpec ==
    /\ Spec
    /\ \A s \in Sessions : WF_vars(Progress(s)) /\ WF_vars(Close(s))
-----------------------------------------------------------------------------
(* The promise: seen from outside, every call is one step or none. *)
TrailEntry(entry) ==
    [event |-> entry.event, claim |-> entry.claim, refs |-> entry.refs,
     to |-> IF entry.event = "claim.proposed" THEN "PROPOSED" ELSE entry.to]

TrailOf(image) ==
    [i \in DOMAIN image.ledger |-> TrailEntry(image.ledger[i])]

Governed ==
    INSTANCE GovernedClaims WITH
        status   <- [c \in ClaimIds |-> StatusIn(db, c)],
        evidence <- db.evidence,
        trail    <- TrailOf(db)

(* Sessions, statements, savepoints, failures and deaths are invisible: the
   committed repository changes only as the atomic operations allow. *)
GovernedSpec == Governed!Spec

(* Two reviewers never authorize contradictory claims (governance.py:122). *)
NoContradiction == Governed!NoContradiction

(* Authority always rests on admissible evidence of the claim's worldline. *)
AuthorityIsEvidenced == Governed!AuthorityIsEvidenced

(* The ledger alone tells status and evidence of every claim. *)
TrailExplainsClaims == Governed!TrailExplainsClaims

(* add_authorized_human_claim is proposal and authorization or nothing: what
   it commits is an authorized claim.                                       *)
HumanAddIsAtomic ==
    [][\A s \in Sessions :
          lock = s /\ call[s] # NoCall /\ call[s].op = "human" /\ db' # db
              => StatusIn(db', call[s].claim) = "AUTHORIZED"]_vars
=============================================================================
