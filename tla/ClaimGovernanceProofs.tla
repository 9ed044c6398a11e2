------------------------- MODULE ClaimGovernanceProofs -------------------------
(***************************************************************************)
(* ClaimGovernance for any number of sessions, claims and references, with *)
(* any clock and a disk of any size: sessions keep SQLite's discipline,    *)
(* and what the lock holder sees is at every statement the committed       *)
(* repository plus exactly what the call has done so far.  Only the commit *)
(* of an outermost transaction() changes the repository, and what it       *)
(* commits is the outcome of one atomic operation of GovernedClaims.       *)
(***************************************************************************)
EXTENDS ClaimGovernance, SequenceTheorems, TLAPS

-----------------------------------------------------------------------------
(* Which statements a call runs, and how many blocks it is in at each. *)
ProposeLabels ==
    {"enter_propose", "insert_claim", "attach_evidence", "append_proposed",
     "exit_propose"}

ReviewLabels ==
    {"enter_review", "gate", "enter_decision", "insert_decision",
     "update_status", "append_decided", "exit_decision", "exit_review"}

LabelsOf(op) ==
    IF op = "propose" THEN ProposeLabels
    ELSE IF op = "review" THEN ReviewLabels
    ELSE IF op = "human"
         THEN {"enter_human", "exit_human"} \cup ProposeLabels \cup ReviewLabels
    ELSE IF op = "evidence"
         THEN {"enter_evidence", "insert_evidence", "append_evidence",
               "exit_evidence"}
    ELSE {"enter_append", "append_custom", "exit_append"}

Resting == {"idle", "broken"}

Outer(op) == IF op = "human" THEN 1 ELSE 0

DepthAt(label, op) ==
    IF label \in Resting \cup {"enter_human", "enter_evidence", "enter_append"}
    THEN 0
    ELSE IF label \in {"enter_propose", "enter_review"} THEN Outer(op)
    ELSE IF label \in {"insert_decision", "update_status", "append_decided",
                       "exit_decision"}
         THEN Outer(op) + 2
    ELSE IF label \in {"insert_claim", "attach_evidence", "append_proposed",
                       "exit_propose", "gate", "enter_decision", "exit_review"}
         THEN Outer(op) + 1
    ELSE 1

(* What the public entry points make of their arguments. *)
WellFormed(k) ==
    /\ k \in CallType
    /\ k.op = "human" => k.to = "AUTHORIZED"
    /\ k.op = "review" => k.to \in Targets
    /\ k.op = "evidence" => \E e \in EvidenceIds : k.refs = {e}
    /\ k.op = "append" => k.event \in CallerEvents \ ReservedEvents

SessionOK(s) ==
    /\ pc[s] \in Resting => call[s] = NoCall
    /\ pc[s] \notin Resting =>
          WellFormed(call[s]) /\ pc[s] \in LabelsOf(call[s].op)
    /\ depth[s] = DepthAt(pc[s], call[s].op)
    /\ lock = s <=> depth[s] > 0 \/ pc[s] = "broken"

Discipline ==
    /\ lock \in Sessions \cup {NoSession}
    /\ depth \in [Sessions -> Nat]
    /\ pc \in [Sessions -> Labels]
    /\ call \in [Sessions -> CallType \cup {NoCall}]
    /\ \A s \in Sessions : SessionOK(s)

LEMMA NoCallIsNoCall == NoCall \notin CallType
<1>1. \A k \in CallType : "claim" \in DOMAIN k
  BY DEF CallType
<1>2. "claim" \notin DOMAIN NoCall
  BY DEF NoCall
<1> QED
  BY <1>1, <1>2

(* Session s and nobody else takes a step; it takes only a free lock and gives
   up only its own. *)
Moves(s) ==
    /\ pc' = [pc EXCEPT ![s] = pc'[s]]
    /\ call' = [call EXCEPT ![s] = call'[s]]
    /\ depth' = [depth EXCEPT ![s] = depth'[s]]
    /\ lock' = lock \/ (lock \in {s, NoSession} /\ lock' \in {s, NoSession})

(* What session s does leaves the others in order. *)
LEMMA OthersKeepDiscipline ==
    ASSUME Discipline, NEW s \in Sessions, NEW t \in Sessions, t # s, Moves(s)
    PROVE  /\ SessionOK(t)'
           /\ pc'[t] = pc[t] /\ call'[t] = call[t]
           /\ lock' = t <=> lock = t
<1>1. pc'[t] = pc[t] /\ call'[t] = call[t] /\ depth'[t] = depth[t]
  BY DEF Discipline, Moves
<1>2. lock' = t <=> lock = t
  BY SessionsAssumption DEF Moves
<1> QED
  BY <1>1, <1>2 DEF Discipline, SessionOK

(* So the discipline is kept if the session that steps is in order after it. *)
LEMMA StepKeepsDiscipline ==
    ASSUME Discipline, NEW s \in Sessions, Moves(s),
           pc'[s] \in Labels, call'[s] \in CallType \cup {NoCall},
           depth'[s] \in Nat, SessionOK(s)'
    PROVE  Discipline'
<1>1. \A t \in Sessions : SessionOK(t)'
  BY OthersKeepDiscipline
<1>2. /\ pc' \in [Sessions -> Labels]
      /\ call' \in [Sessions -> CallType \cup {NoCall}]
      /\ depth' \in [Sessions -> Nat]
      /\ lock' \in Sessions \cup {NoSession}
  BY DEF Discipline, Moves
<1> QED
  BY <1>1, <1>2 DEF Discipline

-----------------------------------------------------------------------------
(* What a call has made of an image after each of its statements. *)
Proposed(image, k) ==
    WithMaterialEntry(WithEvidence(WithClaim(image, k), k), k, "claim.proposed")

Reviewed(image, k) == IF k.op = "human" THEN Proposed(image, k) ELSE image

Decided(image, k) ==
    WithDecidedEntry(WithStatus(WithDecision(image, k), k), k)

Added(image, k) ==
    WithMaterialEntry(WithEvidence(image, k), k, "claim.evidence_added")

(* Both statements that insert rows passed their guards. *)
Proposable(image, k) ==
    /\ CanInsertClaim(image, k)
    /\ CanAttach(WithClaim(image, k), k)

(* The gate was passed, after the proposal if there was one. *)
Decidable(image, k) ==
    /\ k.op = "human" => Proposable(image, k)
    /\ GateOpen(Reviewed(image, k), k)

(* What work holds when a session in call k stands at label. *)
ImageAt(label, k) ==
    /\ label = "broken" => work \in Image
    /\ label \in {"enter_propose", "insert_claim", "insert_evidence",
                  "append_custom"} => work = db
    /\ label = "attach_evidence" =>
          CanInsertClaim(db, k) /\ work = WithClaim(db, k)
    /\ label = "append_proposed" =>
          Proposable(db, k) /\ work = WithEvidence(WithClaim(db, k), k)
    /\ label = "exit_propose" => Proposable(db, k) /\ work = Proposed(db, k)
    /\ label \in {"enter_review", "gate"} =>
          /\ k.op = "human" => Proposable(db, k)
          /\ work = Reviewed(db, k)
    /\ label \in {"enter_decision", "insert_decision"} =>
          Decidable(db, k) /\ work = Reviewed(db, k)
    /\ label = "update_status" =>
          Decidable(db, k) /\ work = WithDecision(Reviewed(db, k), k)
    /\ label = "append_decided" =>
          /\ Decidable(db, k)
          /\ work = WithStatus(WithDecision(Reviewed(db, k), k), k)
    /\ label \in {"exit_decision", "exit_review", "exit_human"} =>
          Decidable(db, k) /\ work = Decided(Reviewed(db, k), k)
    /\ label = "append_evidence" => CanAttach(db, k) /\ work = WithEvidence(db, k)
    /\ label = "exit_evidence" => CanAttach(db, k) /\ work = Added(db, k)
    /\ label = "exit_append" => work = WithCustomEntry(db, k)

ImageInv ==
    /\ db \in Image
    /\ lock = NoSession => work = db
    /\ \A s \in Sessions : lock = s => ImageAt(pc[s], call[s])

IInv == Discipline /\ ImageInv
-----------------------------------------------------------------------------
(* A session keeps its place while it runs a statement; View, db and work do
   not matter to the discipline. *)
LEMMA LabelFacts ==
    /\ Resting \subseteq Labels
    /\ ProposeLabels \subseteq Labels
    /\ ReviewLabels \subseteq Labels
    /\ \A op \in Operations : LabelsOf(op) \subseteq Labels /\ LabelsOf(op) \cap Resting = {}
  BY DEF Labels, EnterLabels, ExitLabels, StatementLabels, ProposeLabels,
         ReviewLabels, LabelsOf, Resting, Operations

LEMMA SessionTyped ==
    ASSUME Discipline, NEW s \in Sessions
    PROVE  /\ call[s] \in CallType \cup {NoCall}
           /\ depth[s] \in Nat
           /\ pc[s] \in Labels
           /\ pc[s] \notin Resting =>
                 call[s] \in CallType /\ call[s].op \in Operations
  BY DEF Discipline, SessionOK, WellFormed, CallType

(* A public call starts outside all blocks. *)
LEMMA BeginKeepsDiscipline ==
    ASSUME Discipline, NEW s \in Sessions,
           NEW op \in Operations, NEW c \in ClaimIds,
           NEW refs \in SUBSET EvidenceIds, NEW to \in Targets \cup {Absent},
           NEW event \in CallerEvents \cup {NoEvent}, NEW label,
           op = "human" => to = "AUTHORIZED",
           op = "review" => to \in Targets,
           op = "evidence" => \E e \in EvidenceIds : refs = {e},
           op = "append" => event \in CallerEvents \ ReservedEvents,
           label \in LabelsOf(op), DepthAt(label, op) = 0,
           Begin(s, op, c, refs, to, event, label)
    PROVE  Discipline' /\ Moves(s)
<1>1. PICK at \in Times :
          call' = [call EXCEPT ![s] =
                      [op |-> op, claim |-> c, refs |-> refs, to |-> to,
                       event |-> event, at |-> at, decided |-> at]]
  BY DEF Begin
<1> DEFINE k == [op |-> op, claim |-> c, refs |-> refs, to |-> to,
                 event |-> event, at |-> at, decided |-> at]
<1>2. WellFormed(k) /\ k.op = op
  BY DEF WellFormed, CallType
<1>3. label \in Labels /\ label \notin Resting /\ k \in CallType
  BY <1>2, LabelFacts DEF WellFormed
<1>4. /\ pc[s] = "idle"
      /\ pc' = [pc EXCEPT ![s] = label]
      /\ UNCHANGED <<lock, depth>>
  BY DEF Begin, Goto
<1>5. depth[s] = 0 /\ lock # s
  BY <1>4 DEF Discipline, SessionOK, DepthAt, Resting
<1>6. depth' = [depth EXCEPT ![s] = 0]
  BY <1>4, <1>5 DEF Discipline
<1>7. lock' = s <=> 0 > 0 \/ label = "broken"
  BY <1>3, <1>4, <1>5 DEF Resting
<1>8. pc'[s] = label /\ call'[s] = k /\ depth'[s] = 0
  BY <1>1, <1>4, <1>6 DEF Discipline
<1>9. Moves(s)
  BY <1>1, <1>4, <1>6, <1>8 DEF Moves
<1> HIDE DEF k
<1>10. SessionOK(s)'
  BY <1>2, <1>3, <1>4, <1>7, <1>8 DEF SessionOK
<1> QED
  BY <1>3, <1>8, <1>9, <1>10, StepKeepsDiscipline

LEMMA CallsKeepDiscipline ==
    ASSUME Discipline, NEW s \in Sessions, Calls(s)
    PROVE  Discipline' /\ Moves(s)
<1>1. PICK c \in ClaimIds :
          \/ \E refs \in SUBSET EvidenceIds : CallPropose(s, c, refs)
          \/ \E refs \in SUBSET EvidenceIds : CallHuman(s, c, refs)
          \/ \E e \in EvidenceIds : CallAddEvidence(s, c, e)
          \/ \E to \in Targets : CallReview(s, c, to)
          \/ \E event \in CallerEvents : CallAppend(s, c, event)
  BY DEF Calls
<1> USE DEF Operations, LabelsOf, ProposeLabels, ReviewLabels, DepthAt,
            Resting, Outer
<1>2. ASSUME NEW refs \in SUBSET EvidenceIds, CallPropose(s, c, refs)
      PROVE  Discipline' /\ Moves(s)
  BY <1>2, BeginKeepsDiscipline DEF CallPropose
<1>3. ASSUME NEW refs \in SUBSET EvidenceIds, CallHuman(s, c, refs)
      PROVE  Discipline' /\ Moves(s)
  BY <1>3, BeginKeepsDiscipline DEF CallHuman, Targets, Statuses
<1>4. ASSUME NEW e \in EvidenceIds, CallAddEvidence(s, c, e)
      PROVE  Discipline' /\ Moves(s)
  BY <1>4, BeginKeepsDiscipline DEF CallAddEvidence
<1>5. ASSUME NEW to \in Targets, CallReview(s, c, to)
      PROVE  Discipline' /\ Moves(s)
  BY <1>5, BeginKeepsDiscipline DEF CallReview
<1>6. ASSUME NEW event \in CallerEvents, CallAppend(s, c, event)
      PROVE  Discipline' /\ Moves(s)
  BY <1>6, BeginKeepsDiscipline DEF CallAppend
<1> QED
  BY <1>1, <1>2, <1>3, <1>4, <1>5, <1>6

(* An exception ends the call, whatever blocks it is in. *)
LEMMA RollbackKeepsDiscipline ==
    ASSUME Discipline, NEW s \in Sessions, Rollback(s)
    PROVE  Discipline' /\ Moves(s)
<1>1. /\ pc' = [pc EXCEPT ![s] = "idle"]
      /\ call' = [call EXCEPT ![s] = NoCall]
      /\ depth' = [depth EXCEPT ![s] = 0]
  BY DEF Rollback, Goto
<1>2. /\ lock' = lock \/ (lock = s /\ lock' = NoSession)
      /\ lock' # s
  BY SessionsAssumption DEF Rollback
<1>3. pc'[s] = "idle" /\ call'[s] = NoCall /\ depth'[s] = 0
  BY <1>1 DEF Discipline
<1>4. Moves(s)
  BY <1>1, <1>2, <1>3 DEF Moves
<1>5. SessionOK(s)'
  BY <1>2, <1>3 DEF SessionOK, Resting, DepthAt
<1> QED
  BY <1>3, <1>4, <1>5, LabelFacts, StepKeepsDiscipline DEF Resting

LEMMA EnterKeepsDiscipline ==
    ASSUME Discipline, NEW s \in Sessions, Enter(s)
    PROVE  Discipline' /\ Moves(s)
<1> DEFINE label == AfterEnter[pc[s]]
           k == call'[s]
           op == call[s].op
<1>1. /\ pc[s] \in EnterLabels
      /\ pc[s] \notin Resting
      /\ call[s] \in CallType
      /\ WellFormed(call[s])
      /\ pc[s] \in LabelsOf(op)
      /\ op \in Operations
      /\ depth[s] = DepthAt(pc[s], op)
      /\ depth[s] \in Nat
      /\ lock = s <=> depth[s] > 0
  BY SessionTyped
     DEF Enter, EnterTransaction, EnterLabels, Resting, Discipline, SessionOK
<1>2. /\ pc' = [pc EXCEPT ![s] = label]
      /\ depth' = [depth EXCEPT ![s] = depth[s] + 1]
  BY DEF Enter, EnterTransaction, Goto, Discipline
<1>3. label \in LabelsOf(op) /\ DepthAt(label, op) = depth[s] + 1
  BY <1>1 DEF AfterEnter, EnterLabels, LabelsOf, ProposeLabels, ReviewLabels,
              DepthAt, Resting, Outer, Operations
<1>4. \/ call' = call
      \/ \E at \in Times : call' = [call EXCEPT ![s].decided = at]
  BY DEF Enter, EnterTransaction
<1>5. /\ call' = [call EXCEPT ![s] = k]
      /\ WellFormed(k)
      /\ k.op = op
  BY <1>1, <1>4 DEF Discipline, WellFormed, CallType
<1>6. /\ lock' = lock \/ (lock = NoSession /\ lock' = s)
      /\ lock' = s
  BY <1>1 DEF Enter, EnterTransaction
<1>7. label \in Labels /\ label \notin Resting
  BY <1>1, <1>3, LabelFacts
<1>8. pc'[s] = label /\ call'[s] = k /\ depth'[s] = depth[s] + 1
  BY <1>2 DEF Discipline
<1> HIDE DEF label, op
<1>9. Moves(s)
  BY <1>2, <1>5, <1>6, <1>8 DEF Moves
<1>10. SessionOK(s)'
  BY <1>1, <1>3, <1>5, <1>6, <1>7, <1>8 DEF SessionOK
<1> QED
  BY <1>1, <1>5, <1>7, <1>8, <1>9, <1>10, StepKeepsDiscipline DEF WellFormed

LEMMA StatementKeepsDiscipline ==
    ASSUME Discipline, NEW s \in Sessions, NEW from, NEW to,
           pc[s] = from, Goto(s, to), UNCHANGED <<lock, depth, call>>,
           from \notin Resting, to \notin Resting,
           \A op \in Operations : from \in LabelsOf(op) => to \in LabelsOf(op),
           \A op \in Operations : DepthAt(to, op) = DepthAt(from, op)
    PROVE  Discipline' /\ Moves(s)
<1>1. /\ call[s] \in CallType
      /\ WellFormed(call[s])
      /\ pc[s] \in LabelsOf(call[s].op)
      /\ call[s].op \in Operations
      /\ depth[s] = DepthAt(pc[s], call[s].op)
      /\ depth[s] \in Nat
      /\ lock = s <=> depth[s] > 0
  BY SessionTyped DEF Discipline, SessionOK, Resting
<1>2. /\ pc' = [pc EXCEPT ![s] = to]
      /\ call' = [call EXCEPT ![s] = call[s]]
      /\ depth' = [depth EXCEPT ![s] = depth[s]]
  BY DEF Goto, Discipline
<1>3. to \in Labels
  BY <1>1, LabelFacts
<1>4. lock' = s <=> depth[s] > 0 \/ to = "broken"
  BY <1>1 DEF Resting
<1>5. pc'[s] = to /\ call'[s] = call[s] /\ depth'[s] = depth[s]
  BY <1>2 DEF Discipline
<1>6. Moves(s)
  BY <1>2, <1>5 DEF Moves
<1>7. SessionOK(s)'
  BY <1>1, <1>4, <1>5 DEF SessionOK
<1> QED
  BY <1>1, <1>3, <1>5, <1>6, <1>7, StepKeepsDiscipline

LEMMA StatementsKeepDiscipline ==
    ASSUME Discipline, NEW s \in Sessions, Statements(s)
    PROVE  Discipline' /\ Moves(s)
<1> USE DEF Statement, LabelsOf, ProposeLabels, ReviewLabels, Operations,
            Resting, DepthAt
<1>1. CASE InsertClaim(s) \/ AttachEvidence(s) \/ AppendProposed(s)
  BY <1>1, StatementKeepsDiscipline
     DEF InsertClaim, AttachEvidence, AppendProposed
<1>2. CASE Gate(s)
  BY <1>2, StatementKeepsDiscipline DEF Gate
<1>3. CASE InsertDecision(s) \/ UpdateStatus(s) \/ AppendDecided(s)
  BY <1>3, StatementKeepsDiscipline
     DEF InsertDecision, UpdateStatus, AppendDecided
<1>4. CASE InsertEvidence(s) \/ AppendEvidence(s) \/ AppendCustom(s)
  BY <1>4, StatementKeepsDiscipline
     DEF InsertEvidence, AppendEvidence, AppendCustom
<1>5. CASE Refuse(s)
  BY <1>5, RollbackKeepsDiscipline DEF Refuse
<1> QED
  BY <1>1, <1>2, <1>3, <1>4, <1>5 DEF Statements

LEMMA ExitKeepsDiscipline ==
    ASSUME Discipline, NEW s \in Sessions, Exit(s)
    PROVE  Discipline' /\ Moves(s)
<1> DEFINE op == call[s].op
           label == AfterExit(op)[pc[s]]
<1>1. /\ pc[s] \in ExitLabels
      /\ pc[s] \notin Resting
      /\ call[s] \in CallType
      /\ WellFormed(call[s])
      /\ pc[s] \in LabelsOf(op)
      /\ op \in Operations
      /\ depth[s] = DepthAt(pc[s], op)
      /\ depth[s] \in Nat
      /\ lock = s <=> depth[s] > 0
  BY SessionTyped
     DEF Exit, ExitTransaction, ExitLabels, Resting, Discipline, SessionOK
<1>2. /\ pc' = [pc EXCEPT ![s] = label]
      /\ depth' = [depth EXCEPT ![s] = depth[s] - 1]
  BY DEF Exit, ExitTransaction, Goto, Discipline
<1>3. /\ depth[s] = 1 <=> label = "idle"
      /\ depth[s] # 1 => label \in LabelsOf(op)
      /\ depth[s] \in Nat \ {0}
      /\ DepthAt(label, op) = depth[s] - 1
  BY <1>1 DEF AfterExit, ExitLabels, LabelsOf, ProposeLabels, ReviewLabels,
              DepthAt, Resting, Outer, Operations
<1>4. CASE depth[s] = 1
  <2>1. /\ call' = [call EXCEPT ![s] = NoCall]
        /\ lock = s
        /\ lock' = NoSession
    BY <1>1, <1>4 DEF Exit, ExitTransaction
  <2>2. pc'[s] = "idle" /\ call'[s] = NoCall /\ depth'[s] = 0
    BY <1>2, <1>3, <1>4, <2>1 DEF Discipline
  <2>3. Moves(s)
    BY <1>2, <1>3, <1>4, <2>1, <2>2 DEF Moves
  <2>4. SessionOK(s)'
    BY <2>1, <2>2, SessionsAssumption DEF SessionOK, Resting, DepthAt
  <2> QED
    BY <2>2, <2>3, <2>4, LabelFacts, StepKeepsDiscipline DEF Resting
<1>5. CASE depth[s] # 1
  <2>1. call' = [call EXCEPT ![s] = call[s]] /\ lock' = lock
    BY <1>5 DEF Exit, ExitTransaction, Discipline
  <2>2. label \in Labels /\ label \notin Resting
    BY <1>1, <1>3, <1>5, LabelFacts
  <2>3. lock' = s <=> depth[s] - 1 > 0 \/ label = "broken"
    BY <1>1, <1>3, <1>5, <2>1, <2>2 DEF Resting
  <2>4. /\ pc'[s] = label /\ call'[s] = call[s]
        /\ depth'[s] = depth[s] - 1 /\ depth'[s] \in Nat
    BY <1>2, <1>3, <2>1 DEF Discipline
  <2> HIDE DEF label
  <2>5. Moves(s)
    BY <1>2, <2>1, <2>4 DEF Moves
  <2>6. SessionOK(s)'
    BY <1>1, <1>3, <1>5, <2>1, <2>2, <2>3, <2>4 DEF SessionOK
  <2> QED
    BY <1>1, <2>2, <2>4, <2>5, <2>6, StepKeepsDiscipline
<1> QED
  BY <1>4, <1>5

LEMMA CommitBusyKeepsDiscipline ==
    ASSUME Discipline, NEW s \in Sessions, CommitBusy(s)
    PROVE  Discipline' /\ Moves(s)
<1>1. lock = s
  BY DEF CommitBusy, CommitFails, Discipline, SessionOK
<1>2. /\ pc' = [pc EXCEPT ![s] = "broken"]
      /\ call' = [call EXCEPT ![s] = NoCall]
      /\ depth' = [depth EXCEPT ![s] = 0]
      /\ lock' = lock
  BY DEF CommitBusy, CommitFails, Goto
<1>3. pc'[s] = "broken" /\ call'[s] = NoCall /\ depth'[s] = 0
  BY <1>2 DEF Discipline
<1>4. Moves(s)
  BY <1>2, <1>3 DEF Moves
<1>5. SessionOK(s)'
  BY <1>1, <1>2, <1>3 DEF SessionOK, Resting, DepthAt
<1> QED
  BY <1>3, <1>4, <1>5, LabelFacts, StepKeepsDiscipline DEF Resting

LEMMA DisciplineAtStart == Init => Discipline
  BY SessionsAssumption, LabelFacts
     DEF Init, StartIn, Discipline, SessionOK, DepthAt, Resting

LEMMA DisciplineIsKept == Discipline /\ [Next]_vars => Discipline'
<1> SUFFICES ASSUME Discipline, [Next]_vars PROVE Discipline'
  OBVIOUS
<1>1. ASSUME NEW s \in Sessions, Calls(s) PROVE Discipline'
  BY <1>1, CallsKeepDiscipline
<1>2. ASSUME NEW s \in Sessions, Progress(s) PROVE Discipline'
  BY <1>2, EnterKeepsDiscipline, StatementsKeepDiscipline,
     ExitKeepsDiscipline, RollbackKeepsDiscipline
     DEF Progress, BusyTimeout, GiveUpWaiting
<1>3. ASSUME NEW s \in Sessions, Failures(s) \/ Close(s) PROVE Discipline'
  BY <1>3, CommitBusyKeepsDiscipline, RollbackKeepsDiscipline
     DEF Failures, Interrupt, Close
<1>4. ASSUME UNCHANGED vars PROVE Discipline'
  BY <1>4 DEF vars, Discipline, SessionOK
<1> QED
  BY <1>1, <1>2, <1>3, <1>4 DEF Next


-----------------------------------------------------------------------------
(* The rows a statement writes satisfy the schema. *)
LEMMA RowFacts ==
    ASSUME NEW image \in Image, NEW c \in ClaimIds
    PROVE  /\ StatusIn(image, c) \in Statuses \cup {Absent}
           /\ StatusIn(image, c) \in Statuses <=> image.claims[c] \in ClaimRow
           /\ StatusIn(image, c) = Absent <=> image.claims[c] = NoRow
           /\ StatusIn(image, c) \in Statuses => image.claims[c].created \in Times
<1>1. image.claims[c] \in ClaimRow \cup {NoRow}
  BY DEF Image
<1>2. NoRow.status = Absent
  BY DEF NoRow
<1>3. \A row \in ClaimRow : row.status \in Statuses /\ row.created \in Times
  BY DEF ClaimRow
<1>4. Absent \notin Statuses
  BY DEF Absent, Statuses
<1> QED
  BY <1>1, <1>2, <1>3, <1>4 DEF StatusIn

LEMMA StatusFacts ==
    /\ Absent \notin Statuses
    /\ Targets \subseteq Statuses
    /\ Reviewable \subseteq Statuses
    /\ "PROPOSED" \in Reviewable
    /\ "AUTHORIZED" \in Targets
    /\ \A st : AllowedTransitions(st) \subseteq Targets
    /\ \A st : AllowedTransitions(st) # {} => st \in Statuses
  BY DEF Absent, Statuses, Targets, Reviewable, AllowedTransitions, Transitions

LEMMA WithEntryTyped ==
    ASSUME NEW image \in Image, NEW event \in EventTypes, NEW c \in ClaimIds,
           NEW refs \in SUBSET EvidenceIds,
           NEW material \in MaterialType \cup {NoMaterial}, NEW decision \in Nat,
           NEW from \in Statuses \cup {Absent}, NEW to \in Statuses \cup {Absent},
           NEW at \in Times
    PROVE  WithEntry(image, event, c, refs, material, decision, from, to, at)
               \in Image
<1> DEFINE entry == [event |-> event, claim |-> c, refs |-> refs,
                     material |-> material, decision |-> decision,
                     from |-> from, to |-> to, at |-> at]
<1>1. entry \in LedgerEntry
  BY DEF LedgerEntry
<1>2. image.ledger \in Seq(LedgerEntry)
  BY DEF Image
<1>3. Append(image.ledger, entry) \in Seq(LedgerEntry)
  BY <1>1, <1>2
<1>4. WithEntry(image, event, c, refs, material, decision, from, to, at)
          = [image EXCEPT !.ledger = Append(image.ledger, entry)]
  BY DEF WithEntry
<1> HIDE DEF entry
<1> QED
  BY <1>3, <1>4 DEF Image

LEMMA WithClaimTyped ==
    ASSUME NEW image \in Image, NEW k \in CallType
    PROVE  /\ WithClaim(image, k) \in Image
           /\ StatusIn(WithClaim(image, k), k.claim) = "PROPOSED"
           /\ WithClaim(image, k).claims =
                 [image.claims EXCEPT ![k.claim] =
                     [status |-> "PROPOSED", created |-> k.at, updated |-> k.at]]
           /\ WithClaim(image, k).evidence = image.evidence
           /\ WithClaim(image, k).decisions = image.decisions
           /\ WithClaim(image, k).ledger = image.ledger
<1> DEFINE row == [status |-> "PROPOSED", created |-> k.at, updated |-> k.at]
<1>1. k.claim \in ClaimIds /\ k.at \in Times
  BY DEF CallType
<1>2. row \in ClaimRow
  BY <1>1 DEF ClaimRow, Statuses
<1>3. WithClaim(image, k) =
          [image EXCEPT !.claims = [image.claims EXCEPT ![k.claim] = row]]
  BY DEF WithClaim, Image
<1>4. row.status = "PROPOSED"
  OBVIOUS
<1> HIDE DEF row
<1>5. [image.claims EXCEPT ![k.claim] = row] \in [ClaimIds -> ClaimRow \cup {NoRow}]
  BY <1>1, <1>2 DEF Image
<1>6. [image.claims EXCEPT ![k.claim] = row][k.claim].status = "PROPOSED"
  BY <1>1, <1>4 DEF Image
<1>7. /\ WithClaim(image, k) \in Image
      /\ WithClaim(image, k).claims = [image.claims EXCEPT ![k.claim] = row]
      /\ WithClaim(image, k).evidence = image.evidence
      /\ WithClaim(image, k).decisions = image.decisions
      /\ WithClaim(image, k).ledger = image.ledger
  BY <1>3, <1>5 DEF Image
<1> QED
  BY <1>6, <1>7 DEF StatusIn, row

LEMMA WithEvidenceTyped ==
    ASSUME NEW image \in Image, NEW k \in CallType
    PROVE  /\ WithEvidence(image, k) \in Image
           /\ WithEvidence(image, k).claims = image.claims
           /\ WithEvidence(image, k).evidence =
                 [e \in EvidenceIds |->
                     IF e \in k.refs THEN k.claim ELSE image.evidence[e]]
           /\ WithEvidence(image, k).decisions = image.decisions
           /\ WithEvidence(image, k).ledger = image.ledger
<1>1. k.claim \in ClaimIds
  BY DEF CallType
<1> DEFINE owner == [e \in EvidenceIds |->
                        IF e \in k.refs THEN k.claim ELSE image.evidence[e]]
<1>2. owner \in [EvidenceIds -> ClaimIds \cup {NoClaim}]
  BY <1>1 DEF Image
<1>3. WithEvidence(image, k) = [image EXCEPT !.evidence = owner]
  BY DEF WithEvidence
<1> HIDE DEF owner
<1>4. /\ WithEvidence(image, k) \in Image
      /\ WithEvidence(image, k).claims = image.claims
      /\ WithEvidence(image, k).evidence = owner
      /\ WithEvidence(image, k).decisions = image.decisions
      /\ WithEvidence(image, k).ledger = image.ledger
  BY <1>2, <1>3 DEF Image
<1> QED
  BY <1>4 DEF owner

LEMMA WithMaterialEntryTyped ==
    ASSUME NEW image \in Image, NEW k \in CallType, NEW event \in EventTypes,
           StatusIn(image, k.claim) \in Statuses
    PROVE  WithMaterialEntry(image, k, event) \in Image
<1>1. k.claim \in ClaimIds /\ k.at \in Times /\ k.refs \in SUBSET EvidenceIds
  BY DEF CallType
<1>2. MaterialOf(image, k.claim) \in MaterialType
  BY <1>1, RowFacts DEF MaterialOf, MaterialType, EvidenceIn
<1> QED
  BY <1>1, <1>2, WithEntryTyped DEF WithMaterialEntry

LEMMA WithDecisionTyped ==
    ASSUME NEW image \in Image, NEW k \in CallType,
           StatusIn(image, k.claim) \in Statuses, k.to \in Targets
    PROVE  /\ WithDecision(image, k) \in Image
           /\ WithDecision(image, k).claims = image.claims
           /\ WithDecision(image, k).evidence = image.evidence
           /\ WithDecision(image, k).ledger = image.ledger
           /\ WithDecision(image, k).decisions # <<>>
<1> DEFINE row == [claim |-> k.claim, from |-> StatusIn(image, k.claim),
                   to |-> k.to, at |-> k.decided]
<1>1. row \in DecisionRow
  BY StatusFacts DEF CallType, DecisionRow
<1>2. image.decisions \in Seq(DecisionRow)
  BY DEF Image
<1>3. WithDecision(image, k) =
          [image EXCEPT !.decisions = Append(image.decisions, row)]
  BY DEF WithDecision
<1> HIDE DEF row
<1>4. /\ Append(image.decisions, row) \in Seq(DecisionRow)
      /\ Append(image.decisions, row) # <<>>
  BY <1>1, <1>2
<1> QED
  BY <1>3, <1>4 DEF Image

LEMMA WithStatusTyped ==
    ASSUME NEW image \in Image, NEW k \in CallType,
           StatusIn(image, k.claim) \in Statuses, k.to \in Targets
    PROVE  /\ WithStatus(image, k) \in Image
           /\ WithStatus(image, k).evidence = image.evidence
           /\ WithStatus(image, k).decisions = image.decisions
           /\ WithStatus(image, k).ledger = image.ledger
           /\ \A c \in ClaimIds :
                 StatusIn(WithStatus(image, k), c) =
                     IF c = k.claim THEN k.to ELSE StatusIn(image, c)
<1> DEFINE row == [image.claims[k.claim] EXCEPT !.status = k.to,
                                                !.updated = k.decided]
           rows == [image.claims EXCEPT ![k.claim] = row]
<1>1. k.claim \in ClaimIds /\ k.decided \in Times /\ k.to \in Statuses
  BY StatusFacts DEF CallType
<1>2. image.claims[k.claim] \in ClaimRow
  BY <1>1, RowFacts
<1>3. row \in ClaimRow /\ row.status = k.to
  BY <1>1, <1>2 DEF ClaimRow
<1>4. WithStatus(image, k) = [image EXCEPT !.claims = rows]
  BY <1>1, <1>2 DEF WithStatus, Image, ClaimRow
<1> HIDE DEF row
<1>5. /\ rows \in [ClaimIds -> ClaimRow \cup {NoRow}]
      /\ \A c \in ClaimIds :
            rows[c] = IF c = k.claim THEN row ELSE image.claims[c]
  BY <1>1, <1>3 DEF Image
<1> HIDE DEF rows
<1>6. /\ WithStatus(image, k) \in Image
      /\ WithStatus(image, k).claims = rows
      /\ WithStatus(image, k).evidence = image.evidence
      /\ WithStatus(image, k).decisions = image.decisions
      /\ WithStatus(image, k).ledger = image.ledger
  BY <1>4, <1>5 DEF Image
<1> QED
  BY <1>3, <1>5, <1>6 DEF StatusIn

LEMMA WithDecidedEntryTyped ==
    ASSUME NEW image \in Image, NEW k \in CallType, k.to \in Targets,
           image.decisions # <<>>
    PROVE  WithDecidedEntry(image, k) \in Image
<1> DEFINE last == Len(image.decisions)
<1>1. image.decisions \in Seq(DecisionRow)
  BY DEF Image
<1>2. last \in Nat /\ image.decisions[last] \in DecisionRow
  BY <1>1
<1>3. image.decisions[last].from \in Statuses
  BY <1>2 DEF DecisionRow
<1>4. /\ k.claim \in ClaimIds /\ k.decided \in Times /\ k.to \in Statuses
      /\ "claim.governance_decided" \in EventTypes
      /\ {} \in SUBSET EvidenceIds
  BY StatusFacts DEF CallType, EventTypes
<1> HIDE DEF last
<1> QED
  BY <1>2, <1>3, <1>4, WithEntryTyped DEF WithDecidedEntry, last

LEMMA WithCustomEntryTyped ==
    ASSUME NEW image \in Image, NEW k \in CallType, k.event \in CallerEvents
    PROVE  WithCustomEntry(image, k) \in Image
<1>1. /\ k.claim \in ClaimIds /\ k.at \in Times /\ k.event \in EventTypes
      /\ {} \in SUBSET EvidenceIds
  BY DEF CallType, EventTypes
<1> QED
  BY <1>1, WithEntryTyped DEF WithCustomEntry

(* Appending an entry changes the ledger alone. *)
LEMMA MaterialEntryFields ==
    ASSUME NEW image \in Image, NEW k, NEW event
    PROVE  /\ WithMaterialEntry(image, k, event).claims = image.claims
           /\ WithMaterialEntry(image, k, event).evidence = image.evidence
  BY DEF WithMaterialEntry, WithEntry, Image

LEMMA WithEntryFields ==
    ASSUME NEW image \in Image, NEW k
    PROVE  /\ WithDecidedEntry(image, k).claims = image.claims
           /\ WithDecidedEntry(image, k).evidence = image.evidence
           /\ WithCustomEntry(image, k).claims = image.claims
           /\ WithCustomEntry(image, k).evidence = image.evidence
  BY DEF WithDecidedEntry, WithCustomEntry, WithEntry, Image

(* A proposal that passed its guards, statement by statement. *)
LEMMA ProposalTyped ==
    ASSUME NEW image \in Image, NEW k \in CallType
    PROVE  /\ WithEvidence(WithClaim(image, k), k) \in Image
           /\ Proposed(image, k) \in Image
           /\ Proposed(image, k).claims = WithClaim(image, k).claims
           /\ Proposed(image, k).evidence = WithEvidence(image, k).evidence
           /\ StatusIn(Proposed(image, k), k.claim) = "PROPOSED"
<1> DEFINE inserted == WithClaim(image, k)
           attached == WithEvidence(inserted, k)
<1>1. /\ inserted \in Image
      /\ StatusIn(inserted, k.claim) = "PROPOSED"
      /\ inserted.evidence = image.evidence
  BY WithClaimTyped
<1> HIDE DEF inserted
<1>2. /\ attached \in Image
      /\ attached.claims = inserted.claims
      /\ attached.evidence = WithEvidence(image, k).evidence
  <2>1. /\ attached \in Image
        /\ attached.claims = inserted.claims
        /\ attached.evidence =
              [e \in EvidenceIds |->
                  IF e \in k.refs THEN k.claim ELSE inserted.evidence[e]]
    BY <1>1, WithEvidenceTyped
  <2>2. WithEvidence(image, k).evidence =
            [e \in EvidenceIds |->
                IF e \in k.refs THEN k.claim ELSE image.evidence[e]]
    BY WithEvidenceTyped
  <2> QED
    BY <1>1, <2>1, <2>2
<1> HIDE DEF attached
<1>3. StatusIn(attached, k.claim) = "PROPOSED"
  BY <1>1, <1>2 DEF StatusIn
<1>4. WithMaterialEntry(attached, k, "claim.proposed") \in Image
  BY <1>2, <1>3, WithMaterialEntryTyped, StatusFacts DEF EventTypes, Statuses
<1>5. /\ WithMaterialEntry(attached, k, "claim.proposed").claims = attached.claims
      /\ WithMaterialEntry(attached, k, "claim.proposed").evidence
             = attached.evidence
  BY <1>2, MaterialEntryFields
<1>6. Proposed(image, k) = WithMaterialEntry(attached, k, "claim.proposed")
  BY DEF Proposed, attached, inserted
<1> QED
  BY <1>1, <1>2, <1>3, <1>4, <1>5, <1>6 DEF StatusIn, inserted, attached

(* A decision that passed the gate, statement by statement. *)
LEMMA DecisionTyped ==
    ASSUME NEW image \in Image, NEW k \in CallType,
           StatusIn(image, k.claim) \in Statuses, k.to \in Targets
    PROVE  /\ WithDecision(image, k) \in Image
           /\ WithStatus(WithDecision(image, k), k) \in Image
           /\ Decided(image, k) \in Image
           /\ Decided(image, k).evidence = image.evidence
           /\ \A c \in ClaimIds :
                 StatusIn(Decided(image, k), c) =
                     IF c = k.claim THEN k.to ELSE StatusIn(image, c)
<1> DEFINE deciding == WithDecision(image, k)
           updated == WithStatus(deciding, k)
<1>1. /\ deciding \in Image
      /\ deciding.claims = image.claims
      /\ deciding.evidence = image.evidence
      /\ deciding.decisions # <<>>
  BY WithDecisionTyped
<1> HIDE DEF deciding
<1>2. \A c : StatusIn(deciding, c) = StatusIn(image, c)
  BY <1>1 DEF StatusIn
<1>3. /\ updated \in Image
      /\ updated.evidence = deciding.evidence
      /\ updated.decisions = deciding.decisions
      /\ \A c \in ClaimIds :
            StatusIn(updated, c) =
                IF c = k.claim THEN k.to ELSE StatusIn(deciding, c)
  BY <1>1, <1>2, WithStatusTyped
<1> HIDE DEF updated
<1>4. WithDecidedEntry(updated, k) \in Image
  BY <1>1, <1>3, WithDecidedEntryTyped
<1>5. /\ WithDecidedEntry(updated, k).claims = updated.claims
      /\ WithDecidedEntry(updated, k).evidence = updated.evidence
  BY <1>3, WithEntryFields
<1>6. \A c : StatusIn(WithDecidedEntry(updated, k), c) = StatusIn(updated, c)
  BY <1>5 DEF StatusIn
<1>7. Decided(image, k) = WithDecidedEntry(updated, k)
  BY DEF Decided, updated, deciding
<1> QED
  BY <1>1, <1>2, <1>3, <1>4, <1>5, <1>6, <1>7 DEF deciding, updated

LEMMA ReviewTyped ==
    ASSUME NEW image \in Image, NEW k \in CallType
    PROVE  /\ Reviewed(image, k) \in Image
           /\ Decidable(image, k) =>
                 /\ StatusIn(Reviewed(image, k), k.claim) \in Statuses
                 /\ k.to \in Targets
                 /\ k.to \in AllowedTransitions(StatusIn(Reviewed(image, k), k.claim))
<1>1. Reviewed(image, k) \in Image
  BY ProposalTyped DEF Reviewed
<1>2. ASSUME Decidable(image, k)
      PROVE  /\ StatusIn(Reviewed(image, k), k.claim) \in Statuses
             /\ k.to \in Targets
             /\ k.to \in AllowedTransitions(StatusIn(Reviewed(image, k), k.claim))
  BY <1>2, StatusFacts DEF Decidable, GateOpen
<1> QED
  BY <1>1, <1>2

(* Attached evidence leaves the claim reviewable, so its entry has material. *)
LEMMA AdditionTyped ==
    ASSUME NEW image \in Image, NEW k \in CallType, CanAttach(image, k)
    PROVE  /\ WithEvidence(image, k) \in Image
           /\ Added(image, k) \in Image
           /\ Added(image, k).claims = image.claims
           /\ Added(image, k).evidence = WithEvidence(image, k).evidence
<1> DEFINE attached == WithEvidence(image, k)
<1>1. attached \in Image /\ attached.claims = image.claims
  BY WithEvidenceTyped
<1> HIDE DEF attached
<1>2. StatusIn(attached, k.claim) \in Statuses
  BY <1>1, StatusFacts DEF CanAttach, StatusIn
<1>3. WithMaterialEntry(attached, k, "claim.evidence_added") \in Image
  BY <1>1, <1>2, WithMaterialEntryTyped DEF EventTypes
<1>4. /\ WithMaterialEntry(attached, k, "claim.evidence_added").claims
             = attached.claims
      /\ WithMaterialEntry(attached, k, "claim.evidence_added").evidence
             = attached.evidence
  BY <1>1, MaterialEntryFields
<1>5. Added(image, k) = WithMaterialEntry(attached, k, "claim.evidence_added")
  BY DEF Added, attached
<1> QED
  BY <1>1, <1>3, <1>4, <1>5 DEF attached

(* Where a session stands tells whether it holds the lock. *)
LEMMA HolderFacts ==
    ASSUME Discipline, NEW s \in Sessions
    PROVE  /\ pc[s] \in StatementLabels \cup ExitLabels => lock = s
           /\ pc[s] = "enter_decision" => lock = s
           /\ pc[s] = "broken" => lock = s
           /\ pc[s] = "idle" => lock # s
           /\ pc[s] \in StatementLabels \cup ExitLabels \cup EnterLabels =>
                 WellFormed(call[s]) /\ pc[s] \in LabelsOf(call[s].op)
<1>1. /\ pc[s] \in Labels
      /\ depth[s] = DepthAt(pc[s], call[s].op)
      /\ lock = s <=> depth[s] > 0 \/ pc[s] = "broken"
      /\ pc[s] \notin Resting =>
             WellFormed(call[s]) /\ pc[s] \in LabelsOf(call[s].op)
  BY DEF Discipline, SessionOK
<1>2. pc[s] \in StatementLabels \cup ExitLabels \cup {"enter_decision"}
          => depth[s] > 0
  BY <1>1 DEF DepthAt, StatementLabels, ExitLabels, Resting, Outer
<1>3. pc[s] = "idle" => ~(depth[s] > 0)
  BY <1>1 DEF DepthAt, Resting
<1> QED
  BY <1>1, <1>2, <1>3 DEF Resting, StatementLabels, ExitLabels, EnterLabels

(* Uncommitted rows satisfy the schema, too. *)
LEMMA WorkTyped ==
    ASSUME IInv
    PROVE  work \in Image
<1>1. CASE lock = NoSession
  BY <1>1 DEF IInv, ImageInv
<1>2. ASSUME NEW s \in Sessions, lock = s
      PROVE  work \in Image
  <2> DEFINE k == call[s]
  <2>1. /\ ImageAt(pc[s], k)
        /\ db \in Image
        /\ pc[s] \in Labels
        /\ pc[s] # "idle"
        /\ pc[s] = "broken" \/ WellFormed(k)
        /\ pc[s] \in LabelsOf(k.op) \/ pc[s] = "broken"
    BY <1>2, HolderFacts DEF IInv, ImageInv, Discipline, SessionOK, Resting
  <2>2. lock = s => pc[s] \notin {"enter_human", "enter_evidence", "enter_append"}
    BY <1>2 DEF IInv, Discipline, SessionOK, DepthAt, Resting
  <2>3. CASE pc[s] = "broken"
    BY <2>1, <2>3 DEF ImageAt
  <2>4. CASE pc[s] # "broken"
    <3>1. k \in CallType
      BY <2>1, <2>4 DEF WellFormed
    <3>2. CASE pc[s] \in {"enter_propose", "insert_claim", "insert_evidence",
                          "append_custom"}
      BY <2>1, <3>2 DEF ImageAt
    <3>3. CASE pc[s] \in {"attach_evidence", "append_proposed", "exit_propose"}
      BY <2>1, <3>1, <3>3, WithClaimTyped, ProposalTyped DEF ImageAt
    <3>4. CASE pc[s] \in {"enter_review", "gate", "enter_decision",
                          "insert_decision"}
      BY <2>1, <3>1, <3>4, ReviewTyped DEF ImageAt
    <3>5. CASE pc[s] \in {"update_status", "append_decided", "exit_decision",
                          "exit_review", "exit_human"}
      BY <2>1, <3>1, <3>5, ReviewTyped, DecisionTyped DEF ImageAt
    <3>6. CASE pc[s] \in {"append_evidence", "exit_evidence"}
      BY <2>1, <3>1, <3>6, AdditionTyped DEF ImageAt
    <3>7. CASE pc[s] = "exit_append"
      <4>1. k.event \in CallerEvents
        BY <2>1, <2>4, <3>7
           DEF WellFormed, LabelsOf, ProposeLabels, ReviewLabels, CallType,
               Operations
      <4> QED
        BY <2>1, <3>1, <3>7, <4>1, WithCustomEntryTyped DEF ImageAt
    <3> QED
      BY <1>2, <2>1, <2>2, <2>4, <3>2, <3>3, <3>4, <3>5, <3>6, <3>7
         DEF Labels, EnterLabels, ExitLabels, StatementLabels
  <2> QED
    BY <2>3, <2>4
<1> QED
  BY <1>1, <1>2 DEF IInv, Discipline

-----------------------------------------------------------------------------
(* The image a session works on is nobody else's business, so the invariant
   is kept if the session that steps leaves its own image in order. *)
LEMMA StepKeepsImage ==
    ASSUME IInv, NEW s \in Sessions, Moves(s), db' \in Image,
           lock \notin {s, NoSession} => UNCHANGED <<db, work>>,
           lock' = NoSession => work' = db',
           lock' = s => ImageAt(pc[s], call[s])'
    PROVE  ImageInv'
<1>1. ASSUME NEW t \in Sessions, t # s, lock' = t
      PROVE  ImageAt(pc[t], call[t])'
  <2>1. lock = t /\ pc'[t] = pc[t] /\ call'[t] = call[t]
    BY <1>1, OthersKeepDiscipline DEF IInv
  <2>2. UNCHANGED <<db, work>>
    BY <1>1, <2>1, SessionsAssumption
  <2>3. ImageAt(pc[t], call[t])
    BY <2>1 DEF IInv, ImageInv
  <2> QED
    BY <2>1, <2>2, <2>3 DEF ImageAt
<1> QED
  BY <1>1 DEF ImageInv

(* What a call did so far does not depend on the time of its decision. *)
LEMMA DecisionTimeOpen ==
    ASSUME NEW image, NEW k \in CallType, NEW at \in Times
    PROVE  /\ Reviewed(image, [k EXCEPT !.decided = at]) = Reviewed(image, k)
           /\ Decidable(image, [k EXCEPT !.decided = at]) <=> Decidable(image, k)
<1> DEFINE j == [k EXCEPT !.decided = at]
<1>1. /\ j.op = k.op /\ j.claim = k.claim /\ j.refs = k.refs
      /\ j.to = k.to /\ j.at = k.at
  BY DEF CallType
<1> HIDE DEF j
<1>2. WithClaim(image, j) = WithClaim(image, k)
  BY <1>1 DEF WithClaim
<1>3. WithEvidence(WithClaim(image, j), j) = WithEvidence(WithClaim(image, k), k)
  BY <1>1, <1>2 DEF WithEvidence
<1>4. Reviewed(image, j) = Reviewed(image, k)
  BY <1>1, <1>3 DEF Reviewed, Proposed, WithMaterialEntry
<1>5. Proposable(image, j) <=> Proposable(image, k)
  BY <1>1, <1>2 DEF Proposable, CanInsertClaim, CanAttach
<1>6. Decidable(image, j) <=> Decidable(image, k)
  BY <1>1, <1>4, <1>5 DEF Decidable, GateOpen
<1> QED
  BY <1>4, <1>6 DEF j

LEMMA CallsKeepImage ==
    ASSUME IInv, NEW s \in Sessions, Calls(s)
    PROVE  ImageInv'
<1>1. UNCHANGED <<db, work, lock>> /\ pc[s] = "idle"
  BY DEF Calls, CallPropose, CallHuman, CallAddEvidence, CallReview, CallAppend,
         Begin
<1>2. lock # s
  BY <1>1, HolderFacts DEF IInv
<1> QED
  BY <1>1, <1>2, CallsKeepDiscipline, StepKeepsImage DEF IInv, ImageInv

LEMMA RollbackKeepsImage ==
    ASSUME IInv, NEW s \in Sessions, Rollback(s)
    PROVE  ImageInv'
<1>1. /\ db' = db
      /\ lock = s => lock' = NoSession /\ work' = db
      /\ lock # s => UNCHANGED <<lock, work>>
  BY DEF Rollback
<1> QED
  BY <1>1, RollbackKeepsDiscipline, StepKeepsImage, SessionsAssumption
     DEF IInv, ImageInv

LEMMA CommitBusyKeepsImage ==
    ASSUME IInv, NEW s \in Sessions, CommitBusy(s)
    PROVE  ImageInv'
<1>1. UNCHANGED <<db, work, lock>> /\ pc[s] \in ExitLabels /\ pc'[s] = "broken"
  BY DEF CommitBusy, CommitFails, Goto, IInv, Discipline
<1>2. lock = s /\ work' \in Image
  BY <1>1, HolderFacts, WorkTyped DEF IInv
<1>3. ImageAt(pc[s], call[s])'
  BY <1>1, <1>2 DEF ImageAt
<1> QED
  BY <1>1, <1>2, <1>3, CommitBusyKeepsDiscipline, StepKeepsImage,
     SessionsAssumption DEF IInv, ImageInv

LEMMA EnterKeepsImage ==
    ASSUME IInv, NEW s \in Sessions, Enter(s)
    PROVE  ImageInv'
<1> DEFINE k == call[s]
<1>1. /\ pc[s] \in EnterLabels
      /\ db' = db /\ db \in Image
      /\ pc'[s] = AfterEnter[pc[s]]
      /\ WellFormed(k) /\ pc[s] \in LabelsOf(k.op) /\ k \in CallType
      /\ k.op \in Operations
      /\ depth[s] = DepthAt(pc[s], k.op)
  BY HolderFacts, SessionTyped
     DEF Enter, EnterTransaction, Goto, IInv, Discipline, SessionOK, ImageInv,
         WellFormed, Resting,
         EnterLabels, CallType
<1>2. CASE depth[s] = 0
  <2>1. lock = NoSession /\ lock' = s /\ work' = db
    BY <1>2 DEF Enter, EnterTransaction
  <2>2. /\ pc[s] # "enter_decision"
        /\ pc[s] = "enter_review" => k.op # "human"
    BY <1>1, <1>2 DEF DepthAt, Resting, Outer
  <2>3. call'[s] = k
    BY <2>2 DEF Enter, EnterTransaction
  <2>4. ImageAt(pc[s], call[s])'
    BY <1>1, <2>1, <2>2, <2>3 DEF ImageAt, AfterEnter, EnterLabels, Reviewed
  <2> QED
    BY <1>1, <2>1, <2>4, EnterKeepsDiscipline, StepKeepsImage,
       SessionsAssumption DEF IInv
<1>3. CASE depth[s] # 0
  <2>1. lock = s /\ lock' = s /\ work' = work
    BY <1>3 DEF Enter, EnterTransaction, IInv, Discipline, SessionOK
  <2>2. ImageAt(pc[s], k)
    BY <2>1 DEF IInv, ImageInv
  <2>3. pc[s] \in {"enter_propose", "enter_review", "enter_decision"}
    BY <1>1, <1>3 DEF DepthAt, Resting, EnterLabels
  <2>4. CASE pc[s] # "enter_decision"
    <3>1. call'[s] = k
      BY <2>4 DEF Enter, EnterTransaction
    <3> QED
      <4>1. ImageAt(pc[s], call[s])'
        BY <1>1, <2>1, <2>2, <2>3, <2>4, <3>1 DEF ImageAt, AfterEnter
      <4> QED
        BY <1>1, <2>1, <4>1, EnterKeepsDiscipline, StepKeepsImage,
           SessionsAssumption DEF IInv
  <2>5. CASE pc[s] = "enter_decision"
    <3>1. PICK at \in Times : call'[s] = [k EXCEPT !.decided = at]
      BY <2>5 DEF Enter, EnterTransaction, IInv, Discipline
    <3>2. Decidable(db, k) /\ work = Reviewed(db, k)
      BY <2>2, <2>5 DEF ImageAt
    <3>3. Decidable(db, call'[s]) /\ work = Reviewed(db, call'[s])
      BY <1>1, <3>1, <3>2, DecisionTimeOpen
    <3>4. Decidable(db', call'[s]) /\ work' = Reviewed(db', call'[s])
      BY <1>1, <2>1, <3>3
    <3>5. pc'[s] = "insert_decision"
      BY <1>1, <2>5 DEF AfterEnter
    <3>6. ImageAt(pc[s], call[s])'
      BY <3>4, <3>5 DEF ImageAt
    <3> QED
      BY <1>1, <2>1, <3>6, EnterKeepsDiscipline, StepKeepsImage,
         SessionsAssumption DEF IInv
  <2> QED
    BY <2>4, <2>5
<1> QED
  BY <1>2, <1>3

LEMMA StatementsKeepImage ==
    ASSUME IInv, NEW s \in Sessions, Statements(s)
    PROVE  ImageInv'
<1> DEFINE k == call[s]
<1>1. CASE Refuse(s)
  BY <1>1, RollbackKeepsImage DEF Refuse
<1>2. CASE ~Refuse(s)
  <2>1. /\ pc[s] \in StatementLabels
        /\ UNCHANGED <<db, lock, call>>
    BY <1>2 DEF Statements, Statement, StatementLabels, InsertClaim,
                AttachEvidence, AppendProposed, Gate, InsertDecision,
                UpdateStatus, AppendDecided, InsertEvidence, AppendEvidence,
                AppendCustom
  <2>2. lock = s /\ db \in Image
    BY <2>1, HolderFacts DEF IInv, ImageInv
  <2>3. /\ ImageAt(pc[s], k)
        /\ WellFormed(k) /\ pc[s] \in LabelsOf(k.op)
    BY <2>1, <2>2, HolderFacts DEF IInv, ImageInv
  <2>4. /\ pc \in [Sessions -> Labels]
        /\ call'[s] = k /\ db' = db /\ View(s) = work
    BY <2>1, <2>2 DEF IInv, Discipline, View
  <2> HIDE DEF k
  <2>5. ImageAt(pc[s], call[s])'
    <3> USE DEF Statement, Goto
    <3>1. CASE InsertClaim(s)
      BY <2>3, <2>4, <3>1 DEF InsertClaim, ImageAt, k
    <3>2. CASE AttachEvidence(s)
      BY <2>3, <2>4, <3>2 DEF AttachEvidence, ImageAt, Proposable, k
    <3>3. CASE AppendProposed(s)
      BY <2>3, <2>4, <3>3 DEF AppendProposed, ImageAt, Proposed, k
    <3>4. CASE Gate(s)
      BY <2>3, <2>4, <3>4 DEF Gate, ImageAt, Decidable, k
    <3>5. CASE InsertDecision(s)
      BY <2>3, <2>4, <3>5 DEF InsertDecision, ImageAt, k
    <3>6. CASE UpdateStatus(s)
      BY <2>3, <2>4, <3>6 DEF UpdateStatus, ImageAt, k
    <3>7. CASE AppendDecided(s)
      BY <2>3, <2>4, <3>7 DEF AppendDecided, ImageAt, Decided, k
    <3>8. CASE InsertEvidence(s)
      BY <2>3, <2>4, <3>8 DEF InsertEvidence, ImageAt, k
    <3>9. CASE AppendEvidence(s)
      BY <2>3, <2>4, <3>9 DEF AppendEvidence, ImageAt, Added, k
    <3>10. CASE AppendCustom(s)
      BY <2>3, <2>4, <3>10 DEF AppendCustom, ImageAt, k
    <3> QED
      BY <1>2, <3>1, <3>2, <3>3, <3>4, <3>5, <3>6, <3>7, <3>8, <3>9, <3>10
         DEF Statements
  <2> QED
    BY <2>1, <2>2, <2>5, StatementsKeepDiscipline, StepKeepsImage,
       SessionsAssumption DEF IInv
<1> QED
  BY <1>1, <1>2

LEMMA ExitKeepsImage ==
    ASSUME IInv, NEW s \in Sessions, Exit(s)
    PROVE  ImageInv'
<1> DEFINE k == call[s]
<1>1. /\ pc[s] \in ExitLabels /\ lock = s /\ db \in Image
      /\ work' = work /\ work \in Image
  BY HolderFacts, WorkTyped DEF Exit, ExitTransaction, IInv, ImageInv
<1>2. CASE depth[s] = 1
  <2>1. db' = work /\ lock' = NoSession
    BY <1>2 DEF Exit, ExitTransaction
  <2> QED
    BY <1>1, <2>1, ExitKeepsDiscipline, StepKeepsImage, SessionsAssumption
       DEF IInv
<1>3. CASE depth[s] # 1
  <2>1. UNCHANGED <<db, lock, call>> /\ pc'[s] = AfterExit(k.op)[pc[s]]
    BY <1>3 DEF Exit, ExitTransaction, Goto, IInv, Discipline
  <2>2. /\ ImageAt(pc[s], k)
        /\ pc[s] \in LabelsOf(k.op)
        /\ depth[s] = DepthAt(pc[s], k.op)
        /\ k.op \in Operations
    BY <1>1, HolderFacts
       DEF IInv, ImageInv, Discipline, SessionOK, WellFormed, CallType
  <2>3. \/ k.op = "human" /\ pc[s] \in {"exit_propose", "exit_review"}
        \/ pc[s] = "exit_decision"
    BY <1>1, <1>3, <2>2
       DEF DepthAt, ExitLabels, LabelsOf, Resting, Outer, Operations,
           ProposeLabels, ReviewLabels
  <2>4. ImageAt(pc[s], call[s])'
    <3>1. CASE pc[s] = "exit_propose"
      BY <1>1, <2>1, <2>2, <2>3, <3>1 DEF ImageAt, AfterExit, Reviewed
    <3>2. CASE pc[s] = "exit_decision"
      BY <1>1, <2>1, <2>2, <3>2 DEF ImageAt, AfterExit
    <3>3. CASE pc[s] = "exit_review"
      BY <1>1, <2>1, <2>2, <2>3, <3>3 DEF ImageAt, AfterExit
    <3> QED
      BY <2>3, <3>1, <3>2, <3>3
  <2> QED
    BY <1>1, <2>1, <2>4, ExitKeepsDiscipline, StepKeepsImage,
       SessionsAssumption DEF IInv
<1> QED
  BY <1>2, <1>3

LEMMA EmptyImageTyped == EmptyImage \in Image
  BY DEF EmptyImage, Image

LEMMA InvariantAtStart == Init => IInv
<1>1. Init => ImageInv
  BY EmptyImageTyped, SessionsAssumption DEF Init, StartIn, ImageInv
<1> QED
  BY <1>1, DisciplineAtStart DEF IInv

LEMMA InvariantIsKept == IInv /\ [Next]_vars => IInv'
<1> SUFFICES ASSUME IInv, [Next]_vars PROVE ImageInv'
  BY DisciplineIsKept DEF IInv
<1>1. ASSUME NEW s \in Sessions, Calls(s) PROVE ImageInv'
  BY <1>1, CallsKeepImage
<1>2. ASSUME NEW s \in Sessions, Progress(s) PROVE ImageInv'
  BY <1>2, EnterKeepsImage, StatementsKeepImage, ExitKeepsImage,
     RollbackKeepsImage DEF Progress, BusyTimeout, GiveUpWaiting
<1>3. ASSUME NEW s \in Sessions, Failures(s) \/ Close(s) PROVE ImageInv'
  BY <1>3, CommitBusyKeepsImage, RollbackKeepsImage
     DEF Failures, Interrupt, Close
<1>4. ASSUME UNCHANGED vars PROVE ImageInv'
  BY <1>4 DEF vars, IInv, ImageInv, ImageAt
<1> QED
  BY <1>1, <1>2, <1>3, <1>4 DEF Next

LEMMA InvariantHolds == Spec => []IInv
  BY InvariantAtStart, InvariantIsKept, PTL DEF Spec

(* Whatever the interleaving, the failures and the clock: sessions, locks and
   savepoints stay in step, and every row, committed or not, satisfies the
   constraints of the schema. *)
THEOREM TypeOKHolds == Spec => []TypeOK
<1>1. IInv => TypeOK
  BY WorkTyped DEF IInv, ImageInv, Discipline, TypeOK
<1> QED
  BY <1>1, InvariantHolds, PTL

-----------------------------------------------------------------------------
(* The repository changes only when an outermost block commits. *)
LEMMA OnlyCommitsChange ==
    ASSUME [Next]_vars, db' # db
    PROVE  \E s \in Sessions : Exit(s) /\ depth[s] = 1 /\ db' = work
  BY DEF Next, vars, Calls, CallPropose, CallHuman, CallAddEvidence, CallReview,
         CallAppend, Begin, Progress, Enter, EnterTransaction, Statements,
         Statement, InsertClaim,
         AttachEvidence, AppendProposed, Gate, InsertDecision, UpdateStatus,
         AppendDecided, InsertEvidence, AppendEvidence, AppendCustom, Refuse,
         Exit, ExitTransaction, BusyTimeout, GiveUpWaiting, Failures,
         CommitBusy, CommitFails, Interrupt, Close, Rollback

(* What a failed COMMIT left behind on its connection never gets durable, by
   no step of any session. *)
THEOREM FailedCommitIsForgotten == Spec => FailedCommitLeavesNoTrace
<1> DEFINE NoTrace == \A s \in Sessions :
                      pc[s] = "broken" /\ lock = s => db' = db
<1>1. IInv /\ [Next]_vars => [NoTrace]_vars
  <2> SUFFICES ASSUME IInv, [Next]_vars, NEW s \in Sessions,
                      pc[s] = "broken", lock = s, db' # db
               PROVE  FALSE
    OBVIOUS
  <2>1. PICK t \in Sessions : Exit(t)
    BY OnlyCommitsChange
  <2>2. lock = t /\ pc[t] \in ExitLabels
    BY <2>1, HolderFacts DEF Exit, ExitTransaction, IInv
  <2> QED
    BY <2>2 DEF ExitLabels
<1> QED
  BY <1>1, InvariantHolds, PTL DEF Spec, FailedCommitLeavesNoTrace

(* A call of add_authorized_human_claim that changes the repository leaves its
   claim authorized: no commit, and no other session's step, comes between
   proposal and authorization. *)
THEOREM HumanAddIsOneStep == Spec => HumanAddIsAtomic
<1> DEFINE OneStep ==
        \A s \in Sessions :
            lock = s /\ call[s] # NoCall /\ call[s].op = "human" /\ db' # db
                => StatusIn(db', call[s].claim) = "AUTHORIZED"
<1>1. IInv /\ [Next]_vars => [OneStep]_vars
  <2> SUFFICES ASSUME IInv, [Next]_vars, NEW s \in Sessions, lock = s,
                      call[s] # NoCall, call[s].op = "human", db' # db
               PROVE  StatusIn(db', call[s].claim) = "AUTHORIZED"
    OBVIOUS
  <2> DEFINE k == call[s]
  <2>1. PICK t \in Sessions : Exit(t) /\ depth[t] = 1 /\ db' = work
    BY OnlyCommitsChange
  <2>2. t = s /\ pc[s] \in ExitLabels
    BY <2>1, HolderFacts DEF Exit, ExitTransaction, IInv
  <2>3. /\ ImageAt(pc[s], k) /\ db \in Image
        /\ WellFormed(k) /\ k \in CallType /\ k.claim \in ClaimIds
        /\ pc[s] \in LabelsOf(k.op)
        /\ depth[s] = DepthAt(pc[s], k.op)
    BY <2>2, HolderFacts
       DEF IInv, ImageInv, Discipline, SessionOK, WellFormed, CallType
  <2>4. pc[s] = "exit_human"
    BY <2>1, <2>2, <2>3
       DEF ExitLabels, LabelsOf, ProposeLabels, ReviewLabels, DepthAt, Resting,
           Outer
  <2>5. /\ Decidable(db, k) /\ db' = Decided(Reviewed(db, k), k)
        /\ k.to = "AUTHORIZED"
    BY <2>1, <2>3, <2>4 DEF ImageAt, WellFormed
  <2> HIDE DEF k
  <2>6. /\ Reviewed(db, k) \in Image
        /\ StatusIn(Reviewed(db, k), k.claim) \in Statuses
        /\ k.to \in Targets
    BY <2>3, <2>5, ReviewTyped
  <2>7. StatusIn(db', k.claim) = k.to
    BY <2>3, <2>5, <2>6, DecisionTyped
  <2> QED
    BY <2>5, <2>7 DEF k
<1> QED
  BY <1>1, InvariantHolds, PTL DEF Spec, HumanAddIsAtomic
-----------------------------------------------------------------------------
(* The abstract state an image stands for. *)
StatusOf(image) == [c \in ClaimIds |-> StatusIn(image, c)]

Abstract(event, c, refs, to) ==
    [event |-> event, claim |-> c, refs |-> refs, to |-> to]

AbstractEntry ==
    [event : EventTypes, claim : ClaimIds, refs : SUBSET EvidenceIds,
     to : Statuses \cup {Absent}]

LEMMA TrailTyped ==
    ASSUME NEW image \in Image
    PROVE  TrailOf(image) \in Seq(AbstractEntry)
<1>1. image.ledger \in Seq(LedgerEntry)
  BY DEF Image
<1>2. \A entry \in LedgerEntry : TrailEntry(entry) \in AbstractEntry
  BY DEF LedgerEntry, TrailEntry, AbstractEntry, Statuses
<1>3. DOMAIN image.ledger = 1 .. Len(image.ledger) /\ Len(image.ledger) \in Nat
  BY <1>1
<1>4. TrailOf(image) \in [1 .. Len(image.ledger) -> AbstractEntry]
  BY <1>1, <1>2, <1>3 DEF TrailOf
<1> QED
  BY <1>3, <1>4

(* One entry more in the ledger is one entry more in the trail. *)
LEMMA TrailGrows ==
    ASSUME NEW old \in Image, NEW new \in Image, NEW entry \in LedgerEntry,
           new.ledger = Append(old.ledger, entry)
    PROVE  TrailOf(new) = Append(TrailOf(old), TrailEntry(entry))
<1> DEFINE n == Len(old.ledger)
           trail == TrailOf(old)
           seen == TrailEntry(entry)
<1>1. old.ledger \in Seq(LedgerEntry) /\ n \in Nat
  BY DEF Image
<1>2. /\ DOMAIN new.ledger = 1 .. n + 1
      /\ \A i \in 1 .. n : new.ledger[i] = old.ledger[i]
      /\ new.ledger[n + 1] = entry
  BY <1>1
<1>3. /\ trail \in Seq(AbstractEntry)
      /\ Len(trail) = n
      /\ \A i \in 1 .. n : trail[i] = TrailEntry(old.ledger[i])
  <2>1. trail = [i \in 1 .. n |-> TrailEntry(old.ledger[i])]
    BY <1>1 DEF TrailOf
  <2>2. trail \in Seq(AbstractEntry)
    BY TrailTyped
  <2> HIDE DEF trail
  <2>3. Len(trail) = n
    BY <1>1, <2>1, <2>2
  <2> QED
    BY <2>1, <2>2, <2>3
<1>4. seen \in AbstractEntry
  BY DEF LedgerEntry, TrailEntry, AbstractEntry, Statuses
<1>5. TrailOf(new) = [i \in 1 .. n + 1 |-> TrailEntry(new.ledger[i])]
  BY <1>2 DEF TrailOf
<1> HIDE DEF n, trail, seen
<1>6. /\ Append(trail, seen) \in Seq(AbstractEntry)
      /\ Len(Append(trail, seen)) = n + 1
      /\ \A i \in 1 .. n : Append(trail, seen)[i] = trail[i]
      /\ Append(trail, seen)[n + 1] = seen
  BY <1>1, <1>3, <1>4
<1>7. Append(trail, seen) = [i \in 1 .. n + 1 |-> Append(trail, seen)[i]]
  <2> DEFINE longer == Append(trail, seen)
  <2>1. longer \in Seq(AbstractEntry) /\ Len(longer) = n + 1
    BY <1>6
  <2> HIDE DEF longer
  <2>2. longer = [i \in 1 .. Len(longer) |-> longer[i]]
    BY <2>1
  <2> QED
    BY <2>1, <2>2 DEF longer
<1>8. \A i \in 1 .. n + 1 :
          TrailEntry(new.ledger[i]) = Append(trail, seen)[i]
  BY <1>1, <1>2, <1>3, <1>6 DEF seen
<1> QED
  BY <1>5, <1>7, <1>8 DEF trail, seen

(* Nothing but the ledger makes the trail. *)
LEMMA TrailIsLedger ==
    ASSUME NEW old, NEW new, new.ledger = old.ledger
    PROVE  TrailOf(new) = TrailOf(old)
  BY DEF TrailOf

LEMMA MaterialTrail ==
    ASSUME NEW image \in Image, NEW k \in CallType,
           NEW event \in {"claim.proposed", "claim.evidence_added"},
           StatusIn(image, k.claim) \in Statuses
    PROVE  TrailOf(WithMaterialEntry(image, k, event)) =
               Append(TrailOf(image),
                      Abstract(event, k.claim, k.refs,
                               IF event = "claim.proposed"
                               THEN "PROPOSED" ELSE Absent))
<1> DEFINE entry == [event |-> event, claim |-> k.claim, refs |-> k.refs,
                     material |-> MaterialOf(image, k.claim), decision |-> 0,
                     from |-> Absent, to |-> Absent, at |-> k.at]
           new == WithMaterialEntry(image, k, event)
<1>1. k.claim \in ClaimIds /\ k.at \in Times /\ k.refs \in SUBSET EvidenceIds
  BY DEF CallType
<1>2. MaterialOf(image, k.claim) \in MaterialType
  BY <1>1, RowFacts DEF MaterialOf, MaterialType, EvidenceIn
<1>3. entry \in LedgerEntry
  BY <1>1, <1>2 DEF LedgerEntry, EventTypes
<1>4. new \in Image
  BY WithMaterialEntryTyped DEF EventTypes
<1>5. new.ledger = Append(image.ledger, entry)
  BY DEF WithMaterialEntry, WithEntry, Image
<1>6. TrailEntry(entry) =
          Abstract(event, k.claim, k.refs,
                   IF event = "claim.proposed" THEN "PROPOSED" ELSE Absent)
  BY DEF TrailEntry, Abstract
<1> HIDE DEF entry, new
<1>7. TrailOf(new) = Append(TrailOf(image), TrailEntry(entry))
  BY <1>3, <1>4, <1>5, TrailGrows
<1> QED
  BY <1>6, <1>7 DEF new

LEMMA DecidedTrail ==
    ASSUME NEW image \in Image, NEW k \in CallType, k.to \in Targets,
           image.decisions # <<>>
    PROVE  TrailOf(WithDecidedEntry(image, k)) =
               Append(TrailOf(image),
                      Abstract("claim.governance_decided", k.claim, {}, k.to))
<1> DEFINE last == Len(image.decisions)
           from == image.decisions[last].from
           entry == [event |-> "claim.governance_decided", claim |-> k.claim,
                     refs |-> {}, material |-> NoMaterial, decision |-> last,
                     from |-> from, to |-> k.to, at |-> k.decided]
           new == WithDecidedEntry(image, k)
<1>1. image.decisions \in Seq(DecisionRow)
  BY DEF Image
<1>2. last \in Nat /\ from \in Statuses
  <2>1. last \in Nat /\ image.decisions[last] \in DecisionRow
    BY <1>1
  <2> QED
    BY <2>1 DEF DecisionRow
<1>3. k.claim \in ClaimIds /\ k.decided \in Times /\ k.to \in Statuses
  BY StatusFacts DEF CallType
<1>4. new.ledger = Append(image.ledger, entry)
  BY DEF WithDecidedEntry, WithEntry, Image
<1>5. new \in Image
  BY WithDecidedEntryTyped
<1> HIDE DEF last, from, new
<1>6. entry \in LedgerEntry
  BY <1>2, <1>3 DEF LedgerEntry, EventTypes
<1>7. TrailEntry(entry) =
          Abstract("claim.governance_decided", k.claim, {}, k.to)
  BY DEF TrailEntry, Abstract
<1> HIDE DEF entry
<1>8. TrailOf(new) = Append(TrailOf(image), TrailEntry(entry))
  BY <1>4, <1>5, <1>6, TrailGrows
<1> QED
  BY <1>7, <1>8 DEF new

LEMMA CustomTrail ==
    ASSUME NEW image \in Image, NEW k \in CallType,
           k.event \in CallerEvents \ ReservedEvents
    PROVE  TrailOf(WithCustomEntry(image, k)) =
               Append(TrailOf(image), Abstract(k.event, k.claim, {}, Absent))
<1> DEFINE entry == [event |-> k.event, claim |-> k.claim, refs |-> {},
                     material |-> NoMaterial, decision |-> 0,
                     from |-> Absent, to |-> Absent, at |-> k.at]
           new == WithCustomEntry(image, k)
<1>1. k.claim \in ClaimIds /\ k.at \in Times
  BY DEF CallType
<1>2. entry \in LedgerEntry
  BY <1>1 DEF LedgerEntry, EventTypes
<1>3. new \in Image
  BY WithCustomEntryTyped
<1>4. new.ledger = Append(image.ledger, entry)
  BY DEF WithCustomEntry, WithEntry, Image
<1>5. TrailEntry(entry) = Abstract(k.event, k.claim, {}, Absent)
  BY DEF TrailEntry, Abstract, ReservedEvents
<1> HIDE DEF entry, new
<1>6. TrailOf(new) = Append(TrailOf(image), TrailEntry(entry))
  BY <1>2, <1>3, <1>4, TrailGrows
<1> QED
  BY <1>5, <1>6 DEF new

-----------------------------------------------------------------------------
(* What the statements of a call add up to. *)
LEMMA ProposedFacts ==
    ASSUME NEW image \in Image, NEW k \in CallType
    PROVE  /\ \A c \in ClaimIds :
                 StatusIn(Proposed(image, k), c) =
                     IF c = k.claim THEN "PROPOSED" ELSE StatusIn(image, c)
           /\ Proposed(image, k).evidence =
                 [e \in EvidenceIds |->
                     IF e \in k.refs THEN k.claim ELSE image.evidence[e]]
           /\ TrailOf(Proposed(image, k)) =
                 Append(TrailOf(image),
                        Abstract("claim.proposed", k.claim, k.refs, "PROPOSED"))
<1> DEFINE inserted == WithClaim(image, k)
           attached == WithEvidence(inserted, k)
           row == [status |-> "PROPOSED", created |-> k.at, updated |-> k.at]
<1>1. /\ inserted \in Image
      /\ StatusIn(inserted, k.claim) = "PROPOSED"
      /\ inserted.claims = [image.claims EXCEPT ![k.claim] = row]
      /\ inserted.evidence = image.evidence
      /\ inserted.ledger = image.ledger
  BY WithClaimTyped
<1> HIDE DEF inserted
<1>2. /\ attached \in Image
      /\ attached.claims = inserted.claims
      /\ attached.ledger = inserted.ledger
  BY <1>1, WithEvidenceTyped
<1>3. attached = WithEvidence(WithClaim(image, k), k)
  BY DEF inserted
<1> HIDE DEF attached
<1>4. StatusIn(attached, k.claim) \in Statuses
  BY <1>1, <1>2, StatusFacts DEF StatusIn
<1>5. Proposed(image, k) = WithMaterialEntry(attached, k, "claim.proposed")
  BY <1>3 DEF Proposed
<1>6. TrailOf(Proposed(image, k)) =
          Append(TrailOf(attached),
                 Abstract("claim.proposed", k.claim, k.refs, "PROPOSED"))
  BY <1>2, <1>4, <1>5, MaterialTrail
<1>7. TrailOf(attached) = TrailOf(image)
  BY <1>1, <1>2, TrailIsLedger
<1>8. Proposed(image, k).claims = inserted.claims
  BY ProposalTyped DEF inserted
<1>9. \A c \in ClaimIds :
          StatusIn(Proposed(image, k), c) =
              IF c = k.claim THEN "PROPOSED" ELSE StatusIn(image, c)
  BY <1>1, <1>8 DEF StatusIn, Image, row
<1>10. Proposed(image, k).evidence =
          [e \in EvidenceIds |->
              IF e \in k.refs THEN k.claim ELSE image.evidence[e]]
  BY ProposalTyped, WithEvidenceTyped
<1> QED
  BY <1>6, <1>7, <1>9, <1>10

LEMMA DecidedFacts ==
    ASSUME NEW image \in Image, NEW k \in CallType,
           StatusIn(image, k.claim) \in Statuses, k.to \in Targets
    PROVE  TrailOf(Decided(image, k)) =
               Append(TrailOf(image),
                      Abstract("claim.governance_decided", k.claim, {}, k.to))
<1> DEFINE deciding == WithDecision(image, k)
           updated == WithStatus(deciding, k)
<1>1. /\ deciding \in Image
      /\ deciding.claims = image.claims
      /\ deciding.ledger = image.ledger
      /\ deciding.decisions # <<>>
  BY WithDecisionTyped
<1> HIDE DEF deciding
<1>2. StatusIn(deciding, k.claim) \in Statuses
  BY <1>1 DEF StatusIn
<1>3. /\ updated \in Image
      /\ updated.decisions # <<>>
      /\ updated.ledger = image.ledger
  BY <1>1, <1>2, WithStatusTyped
<1>4. Decided(image, k) = WithDecidedEntry(updated, k)
  BY DEF Decided, deciding
<1> HIDE DEF updated
<1>5. TrailOf(Decided(image, k)) =
          Append(TrailOf(updated),
                 Abstract("claim.governance_decided", k.claim, {}, k.to))
  BY <1>3, <1>4, DecidedTrail
<1>6. TrailOf(updated) = TrailOf(image)
  BY <1>3, TrailIsLedger
<1> QED
  BY <1>5, <1>6

LEMMA AddedFacts ==
    ASSUME NEW image \in Image, NEW k \in CallType, CanAttach(image, k)
    PROVE  TrailOf(Added(image, k)) =
               Append(TrailOf(image),
                      Abstract("claim.evidence_added", k.claim, k.refs, Absent))
<1> DEFINE attached == WithEvidence(image, k)
<1>1. /\ attached \in Image
      /\ attached.claims = image.claims
      /\ attached.ledger = image.ledger
  BY WithEvidenceTyped
<1>2. Added(image, k) = WithMaterialEntry(attached, k, "claim.evidence_added")
  BY DEF Added
<1> HIDE DEF attached
<1>3. StatusIn(attached, k.claim) \in Statuses
  BY <1>1, StatusFacts DEF CanAttach, StatusIn
<1>4. TrailOf(Added(image, k)) =
          Append(TrailOf(attached),
                 Abstract("claim.evidence_added", k.claim, k.refs, Absent))
  BY <1>1, <1>2, <1>3, MaterialTrail
<1>5. TrailOf(attached) = TrailOf(image)
  BY <1>1, TrailIsLedger
<1> QED
  BY <1>4, <1>5

-----------------------------------------------------------------------------
(* Both specifications speak of the same claims and evidence. *)
LEMMA SharedMaterial ==
    /\ Governed!Absent = Absent
    /\ Governed!Reviewable = Reviewable
    /\ Governed!Targets = Targets
    /\ Governed!ReservedEvents = ReservedEvents
    /\ \A status : Governed!AllowedTransitions(status) = AllowedTransitions(status)
    /\ \A c : Governed!SubmittedShapeValid(c) <=> SubmittedShapeValid(c)
    /\ \A c : Governed!StoredShapeValid(c) <=> StoredShapeValid(c)
    /\ \A c, d : Governed!ClaimsContradict(c, d) <=> ClaimsContradict(c, d)
    /\ \A c, e : Governed!EvidenceInsertable(c, e) <=> EvidenceInsertable(c, e)
    /\ \A c, refs : Governed!EvidenceAdmissible(c, refs)
                        <=> EvidenceAdmissible(c, refs)
<1>1. /\ Governed!Absent = Absent
      /\ Governed!Statuses = Statuses
      /\ Governed!Targets = Targets
      /\ Governed!Reviewable = Reviewable
      /\ Governed!Transitions = Transitions
      /\ Governed!ReservedEvents = ReservedEvents
  BY DEF Governed!Absent, Absent, Governed!Statuses, Statuses, Governed!Targets,
         Targets, Governed!Reviewable, Reviewable, Governed!Transitions,
         Transitions, Governed!ReservedEvents, ReservedEvents
<1>2. \A status : Governed!AllowedTransitions(status) = AllowedTransitions(status)
  BY <1>1 DEF Governed!AllowedTransitions, AllowedTransitions
<1>3. /\ \A from, to : Governed!ValidInterval(from, to) <=> ValidInterval(from, to)
      /\ \A from, to : Governed!Below(from, to) <=> Below(from, to)
      /\ \A bound : Governed!StoredBound(bound) = StoredBound(bound)
  BY DEF Governed!ValidInterval, ValidInterval, Governed!Below, Below,
         Governed!StoredBound, StoredBound, Governed!StoredInstant, StoredInstant
<1>4. /\ \A c : Governed!StoredFrom(c) = StoredFrom(c)
      /\ \A c : Governed!StoredTo(c) = StoredTo(c)
  BY <1>3 DEF Governed!StoredFrom, StoredFrom, Governed!StoredTo, StoredTo
<1>5. /\ \A c : Governed!SubmittedShapeValid(c) <=> SubmittedShapeValid(c)
      /\ \A c : Governed!StoredShapeValid(c) <=> StoredShapeValid(c)
  BY <1>3, <1>4 DEF Governed!SubmittedShapeValid, SubmittedShapeValid,
                    Governed!StoredShapeValid, StoredShapeValid
<1>6. \A c, d : Governed!ClaimsContradict(c, d) <=> ClaimsContradict(c, d)
  BY <1>3, <1>4 DEF Governed!ClaimsContradict, ClaimsContradict,
                    Governed!IntervalsOverlap, IntervalsOverlap
<1>7. \A c, e : Governed!EvidenceInsertable(c, e) <=> EvidenceInsertable(c, e)
  BY DEF Governed!EvidenceInsertable, EvidenceInsertable
<1>8. \A c, refs : Governed!EvidenceAdmissible(c, refs)
                      <=> EvidenceAdmissible(c, refs)
  BY <1>7 DEF Governed!EvidenceAdmissible, EvidenceAdmissible
<1> QED
  BY <1>1, <1>2, <1>5, <1>6, <1>7, <1>8

(* Each outcome is an atomic operation. *)
LEMMA ProposalImplements ==
    ASSUME db \in Image, NEW k \in CallType, Proposable(db, k),
           db' = Proposed(db, k)
    PROVE  Governed!Propose(k.claim, k.refs)
<1>1. k.claim \in ClaimIds
  BY DEF CallType
<1>2. Governed!CanPropose(k.claim, k.refs)
  <2>1. StatusIn(db, k.claim) = Absent /\ SubmittedShapeValid(k.claim)
    BY <1>1, RowFacts DEF Proposable, CanInsertClaim
  <2>2. \A e \in k.refs : db.evidence[e] = NoClaim /\ EvidenceInsertable(k.claim, e)
    BY WithClaimTyped DEF Proposable, CanAttach
  <2> QED
    BY <1>1, <2>1, <2>2, SharedMaterial DEF Governed!CanPropose
<1>3. [c \in ClaimIds |-> StatusIn(db', c)] =
          [[c \in ClaimIds |-> StatusIn(db, c)] EXCEPT ![k.claim] = "PROPOSED"]
  BY <1>1, ProposedFacts
<1>4. db'.evidence = Governed!Attach(k.claim, k.refs)
  BY ProposedFacts DEF Governed!Attach
<1>5. TrailOf(db') =
          Append(TrailOf(db),
                 Governed!Entry("claim.proposed", k.claim, k.refs, "PROPOSED"))
  BY ProposedFacts DEF Abstract, Governed!Entry
<1> QED
  BY <1>2, <1>3, <1>4, <1>5 DEF Governed!Propose

LEMMA DecisionImplements ==
    ASSUME db \in Image, NEW k \in CallType, GateOpen(db, k),
           db' = Decided(db, k)
    PROVE  Governed!Decide(k.claim, k.to) /\ k.to \in Targets
<1>1. k.claim \in ClaimIds
  BY DEF CallType
<1>2. /\ k.to \in AllowedTransitions(StatusIn(db, k.claim))
      /\ k.to \in Targets
      /\ StatusIn(db, k.claim) \in Statuses
  BY StatusFacts DEF GateOpen
<1>3. k.to = "AUTHORIZED" =>
          Governed!Authorizable(k.claim, Governed!EvidenceOf(k.claim))
  <2>1. Governed!EvidenceOf(k.claim) = EvidenceIn(db, k.claim)
    BY DEF Governed!EvidenceOf, EvidenceIn
  <2>2. Governed!Conflicts(k.claim) = ConflictsIn(db, k.claim)
    BY SharedMaterial DEF Governed!Conflicts, ConflictsIn
  <2> QED
    BY <2>1, <2>2, SharedMaterial DEF GateOpen, Governed!Authorizable
<1>4. [c \in ClaimIds |-> StatusIn(db', c)] =
          [[c \in ClaimIds |-> StatusIn(db, c)] EXCEPT ![k.claim] = k.to]
  BY <1>1, <1>2, DecisionTyped
<1>5. db'.evidence = db.evidence
  BY <1>2, DecisionTyped
<1>6. TrailOf(db') =
          Append(TrailOf(db),
                 Governed!Entry("claim.governance_decided", k.claim, {}, k.to))
  BY <1>2, DecidedFacts DEF Abstract, Governed!Entry
<1> QED
  BY <1>1, <1>2, <1>3, <1>4, <1>5, <1>6, SharedMaterial DEF Governed!Decide

LEMMA AdditionImplements ==
    ASSUME db \in Image, NEW k \in CallType, CanAttach(db, k),
           NEW e \in EvidenceIds, k.refs = {e}, db' = Added(db, k)
    PROVE  Governed!AddEvidence(k.claim, e)
<1>1. k.claim \in ClaimIds
  BY DEF CallType
<1>2. /\ db'.claims = db.claims
      /\ db'.evidence = [d \in EvidenceIds |->
                            IF d \in k.refs THEN k.claim ELSE db.evidence[d]]
  BY AdditionTyped, WithEvidenceTyped
<1>3. TrailOf(db') =
          Append(TrailOf(db),
                 Governed!Entry("claim.evidence_added", k.claim, {e}, Absent))
  BY AddedFacts DEF Abstract, Governed!Entry
<1>4. /\ StatusIn(db, k.claim) \in Reviewable
      /\ db.evidence[e] = NoClaim
      /\ EvidenceInsertable(k.claim, e)
  BY DEF CanAttach
<1> QED
  BY <1>1, <1>2, <1>3, <1>4, SharedMaterial
     DEF Governed!AddEvidence, Governed!Attach, StatusIn

LEMMA RecordImplements ==
    ASSUME db \in Image, NEW k \in CallType,
           k.event \in CallerEvents \ ReservedEvents,
           db' = WithCustomEntry(db, k)
    PROVE  Governed!Record(k.claim, k.event)
<1>1. db'.claims = db.claims /\ db'.evidence = db.evidence
  BY WithEntryFields
<1>2. TrailOf(db') =
          Append(TrailOf(db), Governed!Entry(k.event, k.claim, {}, Absent))
  BY CustomTrail DEF Abstract, Governed!Entry
<1> QED
  BY <1>1, <1>2, SharedMaterial DEF Governed!Record, StatusIn

LEMMA TwoEntries ==
    ASSUME NEW S, NEW seq \in Seq(S), NEW a \in S, NEW b \in S
    PROVE  Append(Append(seq, a), b) = seq \o <<a, b>>
<1> DEFINE left == Append(Append(seq, a), b)
           right == seq \o <<a, b>>
<1>1. /\ left \in Seq(S) /\ right \in Seq(S)
      /\ Len(left) = Len(seq) + 2 /\ Len(right) = Len(seq) + 2
      /\ Len(seq) \in Nat
  OBVIOUS
<1>2. \A i \in 1 .. Len(seq) + 2 : left[i] = right[i]
  OBVIOUS
<1> HIDE DEF left, right
<1>3. /\ left = [i \in 1 .. Len(left) |-> left[i]]
      /\ right = [i \in 1 .. Len(right) |-> right[i]]
  BY <1>1
<1>4. left = right
  BY <1>1, <1>2, <1>3
<1> QED
  BY <1>4 DEF left, right

(* Proposal and authorization in one: the gate saw the proposal's own evidence
   and nothing else, because a claim without a row owns none. *)
LEMMA HumanImplements ==
    ASSUME db \in Image, Governed!EvidenceHasOwner, NEW k \in CallType,
           Proposable(db, k), GateOpen(Proposed(db, k), k), k.to = "AUTHORIZED",
           db' = Decided(Proposed(db, k), k)
    PROVE  Governed!AddAuthorized(k.claim, k.refs)
<1> DEFINE mid == Proposed(db, k)
<1>1. k.claim \in ClaimIds /\ k.refs \in SUBSET EvidenceIds
  BY DEF CallType
<1>2. /\ mid \in Image
      /\ \A c \in ClaimIds :
            StatusIn(mid, c) = IF c = k.claim THEN "PROPOSED" ELSE StatusIn(db, c)
      /\ mid.evidence = [e \in EvidenceIds |->
                            IF e \in k.refs THEN k.claim ELSE db.evidence[e]]
      /\ TrailOf(mid) =
            Append(TrailOf(db),
                   Abstract("claim.proposed", k.claim, k.refs, "PROPOSED"))
  BY ProposalTyped, ProposedFacts
<1> HIDE DEF mid
<1>3. StatusIn(mid, k.claim) \in Statuses /\ k.to \in Targets
  BY <1>1, <1>2, StatusFacts
<1>4. /\ db'.evidence = mid.evidence
      /\ \A c \in ClaimIds :
            StatusIn(db', c) = IF c = k.claim THEN k.to ELSE StatusIn(mid, c)
      /\ TrailOf(db') =
            Append(TrailOf(mid),
                   Abstract("claim.governance_decided", k.claim, {}, k.to))
  BY <1>2, <1>3, DecisionTyped, DecidedFacts DEF mid
<1>5. Governed!CanPropose(k.claim, k.refs)
  <2>1. StatusIn(db, k.claim) = Absent /\ SubmittedShapeValid(k.claim)
    BY <1>1, RowFacts DEF Proposable, CanInsertClaim
  <2>2. \A e \in k.refs : db.evidence[e] = NoClaim /\ EvidenceInsertable(k.claim, e)
    BY WithClaimTyped DEF Proposable, CanAttach
  <2> QED
    BY <1>1, <2>1, <2>2, SharedMaterial DEF Governed!CanPropose
<1>6. EvidenceIn(mid, k.claim) = k.refs
  <2>1. \A e \in EvidenceIds : db.evidence[e] # k.claim
    <3>1. StatusIn(db, k.claim) = Absent
      BY <1>1, RowFacts DEF Proposable, CanInsertClaim
    <3> QED
      BY <1>1, <3>1, SharedMaterial DEF Governed!EvidenceHasOwner
  <2> QED
    BY <1>1, <1>2, <2>1 DEF EvidenceIn
<1>7. Governed!Conflicts(k.claim) = {}
  <2>1. ConflictsIn(mid, k.claim) = {}
    BY DEF GateOpen, mid
  <2>2. ConflictsIn(mid, k.claim) = ConflictsIn(db, k.claim)
    BY <1>2 DEF ConflictsIn, ClaimsContradict
  <2>3. Governed!Conflicts(k.claim) = ConflictsIn(db, k.claim)
    BY SharedMaterial DEF Governed!Conflicts, ConflictsIn
  <2> QED
    BY <2>1, <2>2, <2>3
<1>8. Governed!Authorizable(k.claim, k.refs)
  <2>1. StoredShapeValid(k.claim) /\ EvidenceAdmissible(k.claim, k.refs)
    BY <1>6 DEF GateOpen, mid
  <2> QED
    BY <1>7, <2>1, SharedMaterial DEF Governed!Authorizable
<1>9. [c \in ClaimIds |-> StatusIn(db', c)] =
          [[c \in ClaimIds |-> StatusIn(db, c)] EXCEPT ![k.claim] = "AUTHORIZED"]
  BY <1>1, <1>2, <1>4
<1>10. db'.evidence = Governed!Attach(k.claim, k.refs)
  BY <1>2, <1>4 DEF Governed!Attach
<1>11. TrailOf(db') =
          TrailOf(db) \o
              << Governed!Entry("claim.proposed", k.claim, k.refs, "PROPOSED"),
                 Governed!Entry("claim.governance_decided", k.claim, {},
                                "AUTHORIZED") >>
  <2> DEFINE a == Abstract("claim.proposed", k.claim, k.refs, "PROPOSED")
             b == Abstract("claim.governance_decided", k.claim, {}, k.to)
  <2>1. a \in AbstractEntry /\ b \in AbstractEntry
    BY <1>1, <1>3, StatusFacts
       DEF Abstract, AbstractEntry, EventTypes, Statuses
  <2>2. TrailOf(db) \in Seq(AbstractEntry)
    BY TrailTyped
  <2>3. /\ a = Governed!Entry("claim.proposed", k.claim, k.refs, "PROPOSED")
        /\ b = Governed!Entry("claim.governance_decided", k.claim, {}, "AUTHORIZED")
    BY DEF Abstract, Governed!Entry
  <2>4. TrailOf(db') = Append(Append(TrailOf(db), a), b)
    BY <1>2, <1>4
  <2> HIDE DEF a, b
  <2>5. Append(Append(TrailOf(db), a), b) = TrailOf(db) \o <<a, b>>
    BY <2>1, <2>2, TwoEntries
  <2> QED
    BY <2>3, <2>4, <2>5
<1> QED
  BY <1>1, <1>5, <1>8, <1>9, <1>10, <1>11 DEF Governed!AddAuthorized

-----------------------------------------------------------------------------
(* A commit is one operation, anything else none. *)
LEMMA CommitImplements ==
    ASSUME IInv, Governed!EvidenceHasOwner, NEW s \in Sessions, Exit(s),
           depth[s] = 1
    PROVE  Governed!Next
<1> DEFINE k == call[s]
<1>1. /\ pc[s] \in ExitLabels /\ lock = s /\ db \in Image
      /\ db' = work
      /\ WellFormed(k) /\ k \in CallType /\ k.op \in Operations
      /\ pc[s] \in LabelsOf(k.op)
      /\ depth[s] = DepthAt(pc[s], k.op)
  BY HolderFacts
     DEF Exit, ExitTransaction, IInv, ImageInv, Discipline, SessionOK,
         WellFormed,
                     CallType
<1>2. /\ ImageAt(pc[s], k)
      /\ k.claim \in ClaimIds /\ k.refs \in SUBSET EvidenceIds
  BY <1>1 DEF IInv, ImageInv, CallType
<1>3. \/ pc[s] = "exit_propose" /\ k.op = "propose"
      \/ pc[s] = "exit_review" /\ k.op = "review"
      \/ pc[s] = "exit_human" /\ k.op = "human"
      \/ pc[s] = "exit_evidence" /\ k.op = "evidence"
      \/ pc[s] = "exit_append" /\ k.op = "append"
  BY <1>1 DEF ExitLabels, LabelsOf, ProposeLabels, ReviewLabels, Operations,
              DepthAt, Resting, Outer
<1> HIDE DEF k
<1>4. CASE pc[s] = "exit_propose" /\ k.op = "propose"
  <2>1. Proposable(db, k) /\ db' = Proposed(db, k)
    BY <1>1, <1>2, <1>4 DEF ImageAt
  <2>2. Governed!Propose(k.claim, k.refs)
    BY <1>1, <2>1, ProposalImplements
  <2> QED
    BY <1>2, <2>2 DEF Governed!Next
<1>5. CASE pc[s] = "exit_review" /\ k.op = "review"
  <2>1. GateOpen(db, k) /\ db' = Decided(db, k)
    BY <1>1, <1>2, <1>5 DEF ImageAt, Decidable, Reviewed
  <2>2. Governed!Decide(k.claim, k.to) /\ k.to \in Targets
    BY <1>1, <2>1, DecisionImplements
  <2> QED
    BY <1>2, <2>2, SharedMaterial DEF Governed!Next
<1>6. CASE pc[s] = "exit_human" /\ k.op = "human"
  <2>1. /\ Proposable(db, k) /\ GateOpen(Proposed(db, k), k)
        /\ k.to = "AUTHORIZED"
        /\ db' = Decided(Proposed(db, k), k)
    BY <1>1, <1>2, <1>6 DEF ImageAt, Decidable, Reviewed, WellFormed
  <2>2. Governed!AddAuthorized(k.claim, k.refs)
    BY <1>1, <2>1, HumanImplements
  <2> QED
    BY <1>2, <2>2 DEF Governed!Next
<1>7. CASE pc[s] = "exit_evidence" /\ k.op = "evidence"
  <2>1. CanAttach(db, k) /\ db' = Added(db, k)
    BY <1>1, <1>2, <1>7 DEF ImageAt
  <2>2. PICK e \in EvidenceIds : k.refs = {e}
    BY <1>1, <1>7 DEF WellFormed
  <2>3. Governed!AddEvidence(k.claim, e)
    BY <1>1, <2>1, <2>2, AdditionImplements
  <2> QED
    BY <1>2, <2>3 DEF Governed!Next
<1>8. CASE pc[s] = "exit_append" /\ k.op = "append"
  <2>1. /\ db' = WithCustomEntry(db, k)
        /\ k.event \in CallerEvents \ ReservedEvents
    BY <1>1, <1>2, <1>8 DEF ImageAt, WellFormed
  <2>2. Governed!Record(k.claim, k.event)
    BY <1>1, <2>1, RecordImplements
  <2> QED
    BY <1>2, <2>1, <2>2 DEF Governed!Next
<1> QED
  BY <1>3, <1>4, <1>5, <1>6, <1>7, <1>8

LEMMA StepImplements ==
    IInv /\ Governed!EvidenceHasOwner /\ [Next]_vars
        => [Governed!Next]_(Governed!vars)
<1> SUFFICES ASSUME IInv, Governed!EvidenceHasOwner, [Next]_vars, db' # db
             PROVE  Governed!Next
  <2>1. db' = db => UNCHANGED Governed!vars
    BY DEF Governed!vars
  <2> QED
    BY <2>1
<1>1. PICK s \in Sessions : Exit(s) /\ depth[s] = 1
  BY OnlyCommitsChange
<1> QED
  BY <1>1, CommitImplements

-----------------------------------------------------------------------------
(* What GovernedClaimsProofs proves of the atomic operations, for the
   abstract state of this module. *)
Atomic ==
    INSTANCE GovernedClaimsProofs WITH
        status   <- [c \in ClaimIds |-> StatusIn(db, c)],
        evidence <- db.evidence,
        trail    <- TrailOf(db)

LEMMA SameStep ==
    /\ Governed!Init <=> Atomic!Init
    /\ [Governed!Next]_(Governed!vars) => [Atomic!Next]_(Atomic!vars)
<1>1. Governed!Init <=> Atomic!Init
  BY DEF Governed!Init, Atomic!Init, Governed!Absent, Atomic!Absent
<1>2. Governed!Next <=> Atomic!Next
  BY DEF Governed!Next, Atomic!Next, Governed!Propose, Atomic!Propose,
         Governed!AddEvidence, Atomic!AddEvidence, Governed!Decide,
         Atomic!Decide, Governed!AddAuthorized, Atomic!AddAuthorized,
         Governed!Record, Atomic!Record, Governed!CanPropose, Atomic!CanPropose,
         Governed!Authorizable, Atomic!Authorizable, Governed!Conflicts,
         Atomic!Conflicts, Governed!EvidenceOf, Atomic!EvidenceOf,
         Governed!Attach, Atomic!Attach, Governed!Entry, Atomic!Entry,
         Governed!Absent, Atomic!Absent, Governed!Statuses, Atomic!Statuses,
         Governed!Targets, Atomic!Targets, Governed!Reviewable, Atomic!Reviewable,
         Governed!Transitions, Atomic!Transitions, Governed!ReservedEvents,
         Atomic!ReservedEvents, Governed!AllowedTransitions,
         Atomic!AllowedTransitions, Governed!ValidInterval, Atomic!ValidInterval,
         Governed!Below, Atomic!Below, Governed!StoredBound, Atomic!StoredBound,
         Governed!StoredInstant, Atomic!StoredInstant, Governed!StoredFrom,
         Atomic!StoredFrom, Governed!StoredTo, Atomic!StoredTo,
         Governed!SubmittedShapeValid, Atomic!SubmittedShapeValid,
         Governed!StoredShapeValid, Atomic!StoredShapeValid,
         Governed!ClaimsContradict, Atomic!ClaimsContradict,
         Governed!IntervalsOverlap, Atomic!IntervalsOverlap,
         Governed!EvidenceInsertable, Atomic!EvidenceInsertable,
         Governed!EvidenceAdmissible, Atomic!EvidenceAdmissible
<1> QED
  BY <1>1, <1>2 DEF Governed!vars, Atomic!vars

LEMMA AbstractTyped ==
    ASSUME db \in Image
    PROVE  Atomic!TypeOK
<1>1. [c \in ClaimIds |-> StatusIn(db, c)] \in [ClaimIds -> Statuses \cup {Absent}]
  BY RowFacts
<1>2. db.evidence \in [EvidenceIds -> ClaimIds \cup {NoClaim}]
  BY DEF Image
<1>3. Atomic!EntryType = AbstractEntry
  BY DEF Atomic!EntryType, AbstractEntry, Atomic!EventTypes, EventTypes,
         Atomic!Statuses, Statuses, Atomic!Absent, Absent
<1>4. Atomic!Statuses = Statuses /\ Atomic!Absent = Absent
  BY DEF Atomic!Statuses, Statuses, Atomic!Absent, Absent
<1> QED
  BY <1>1, <1>2, <1>3, <1>4, TrailTyped DEF Atomic!TypeOK

LEMMA OwnersHold == Spec => [](IInv /\ Governed!EvidenceHasOwner)
<1>1. Init => Governed!EvidenceHasOwner
  BY NoClaimAssumption DEF Init, StartIn, EmptyImage, Governed!EvidenceHasOwner
<1>2. IInv /\ Governed!EvidenceHasOwner /\ [Next]_vars
          => Governed!EvidenceHasOwner'
  <2> SUFFICES ASSUME IInv, Governed!EvidenceHasOwner, [Next]_vars
               PROVE  Governed!EvidenceHasOwner'
    OBVIOUS
  <2>1. [Atomic!Next]_(Atomic!vars)
    BY StepImplements, SameStep
  <2>2. Atomic!TypeOK
    BY AbstractTyped DEF IInv, ImageInv
  <2>3. Atomic!EvidenceHasOwner
    BY DEF Governed!EvidenceHasOwner, Atomic!EvidenceHasOwner, Governed!Absent,
           Atomic!Absent
  <2>4. Atomic!TypeOK /\ Atomic!EvidenceHasOwner /\ [Atomic!Next]_(Atomic!vars)
            => Atomic!EvidenceHasOwner'
    BY Atomic!StepKeepsOwners, TicksAssumption, UnboundedAssumption,
       MissingAssumption, ProposalAssumption, SpanAssumption, NoClaimAssumption
       DEF Atomic!ProposalType, ProposalType, Atomic!SpanType, SpanType,
           Atomic!Bound, Bound
  <2>5. Atomic!EvidenceHasOwner'
    BY <2>1, <2>2, <2>3, <2>4
  <2> QED
    BY <2>5 DEF Governed!EvidenceHasOwner, Atomic!EvidenceHasOwner,
                Governed!Absent, Atomic!Absent
<1> QED
  BY <1>1, <1>2, InvariantHolds, PTL DEF Spec

(* Seen from outside every public call takes effect in one step or not at all:
   sessions, statements, savepoints, exceptions, failing commits and dying
   processes add nothing to what the atomic operations can do. *)
THEOREM GovernanceIsAtomic == Spec => GovernedSpec
<1>1. Init => Governed!Init
  BY DEF Init, StartIn, EmptyImage, Governed!Init, StatusIn, NoRow, TrailOf,
         Governed!Absent, Absent
<1> QED
  BY <1>1, StepImplements, OwnersHold, PTL DEF Spec, GovernedSpec, Governed!Spec

LEMMA AtomicHolds == Spec => Atomic!Spec
  BY GovernanceIsAtomic, SameStep, PTL
     DEF GovernedSpec, Governed!Spec, Atomic!Spec

(* However many reviewers decide at once, no two authorized claims of the
   committed repository contradict each other. *)
THEOREM NoContradictionForSessions == Spec => []NoContradiction
<1>1. Atomic!NoContradiction => NoContradiction
  BY DEF Atomic!NoContradiction, NoContradiction, Governed!NoContradiction,
         Atomic!ClaimsContradict, Governed!ClaimsContradict,
         Governed!Below, Atomic!Below, Governed!StoredBound, Atomic!StoredBound,
         Governed!StoredInstant, Atomic!StoredInstant, Governed!StoredFrom,
         Atomic!StoredFrom, Governed!StoredTo, Atomic!StoredTo,
         Governed!IntervalsOverlap, Atomic!IntervalsOverlap
<1>2. Atomic!Spec => []Atomic!NoContradiction
  BY Atomic!NoContradictionHolds, TicksAssumption, UnboundedAssumption,
     MissingAssumption, ProposalAssumption, SpanAssumption, NoClaimAssumption
     DEF Atomic!ProposalType, ProposalType, Atomic!SpanType, SpanType,
         Atomic!Bound, Bound
<1> QED
  BY <1>1, <1>2, AtomicHolds, PTL

(* Whatever evidence sessions append, and whenever: an authorized claim of the
   committed repository rests on admissible evidence. *)
THEOREM AuthorityIsEvidencedForSessions == Spec => []AuthorityIsEvidenced
<1>1. Atomic!AuthorityIsEvidenced => AuthorityIsEvidenced
  BY DEF Atomic!AuthorityIsEvidenced, AuthorityIsEvidenced,
         Governed!AuthorityIsEvidenced, Atomic!StoredShapeValid,
         Governed!StoredShapeValid, Governed!ValidInterval, Atomic!ValidInterval,
         Governed!Below, Atomic!Below, Governed!StoredBound, Atomic!StoredBound,
         Governed!StoredInstant, Atomic!StoredInstant, Governed!StoredFrom,
         Atomic!StoredFrom, Governed!StoredTo, Atomic!StoredTo,
         Governed!EvidenceAdmissible, Atomic!EvidenceAdmissible,
         Governed!EvidenceInsertable, Atomic!EvidenceInsertable,
         Governed!EvidenceOf, Atomic!EvidenceOf
<1>2. Atomic!Spec => []Atomic!AuthorityIsEvidenced
  BY Atomic!AuthorityIsEvidencedHolds, TicksAssumption, UnboundedAssumption,
     MissingAssumption, ProposalAssumption, SpanAssumption, NoClaimAssumption
     DEF Atomic!ProposalType, ProposalType, Atomic!SpanType, SpanType,
         Atomic!Bound, Bound
<1> QED
  BY <1>1, <1>2, AtomicHolds, PTL

(* Whatever sessions do at once and however they fail, the committed ledger
   alone tells status and evidence of every claim, unless callers append
   decisions that are none. *)
THEOREM TrailExplainsClaimsForSessions ==
    ASSUME "claim.governance_decided" \notin CallerEvents
    PROVE  Spec => []TrailExplainsClaims
<1>1. Atomic!TrailExplainsClaims => TrailExplainsClaims
  BY DEF Atomic!TrailExplainsClaims, TrailExplainsClaims,
         Governed!TrailExplainsClaims, Atomic!SetsStatus, Governed!SetsStatus,
         Atomic!IsStatusEvent, Governed!IsStatusEvent,
         Governed!EvidenceOf, Atomic!EvidenceOf, Atomic!Absent, Governed!Absent
<1>2. Atomic!Spec => []Atomic!TrailExplainsClaims
  BY Atomic!TrailExplainsClaimsHolds, TicksAssumption, UnboundedAssumption,
     MissingAssumption, ProposalAssumption, SpanAssumption, NoClaimAssumption
     DEF Atomic!ProposalType, ProposalType, Atomic!SpanType, SpanType,
         Atomic!Bound, Bound
<1> QED
  BY <1>1, <1>2, AtomicHolds, PTL
=============================================================================
