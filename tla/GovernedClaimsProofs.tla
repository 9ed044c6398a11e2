------------------------- MODULE GovernedClaimsProofs -------------------------
(***************************************************************************)
(* What the atomic operations of GovernedClaims guarantee, for any claims, *)
(* evidence, and content.                                                  *)
(***************************************************************************)
EXTENDS GovernedClaims, TLAPS

LEMMA StatusFacts ==
    /\ Absent \notin Statuses
    /\ Targets \subseteq Statuses
    /\ Reviewable \subseteq Statuses
    /\ "AUTHORIZED" \notin Reviewable
    /\ "REJECTED" \notin Reviewable
    /\ {"PROPOSED", "AUTHORIZED", "REJECTED", "DISPUTED"} = Statuses
  BY DEF Absent, Statuses, Targets, Reviewable

LEMMA TransitionFacts ==
    \A st \in Statuses \cup {Absent} :
        /\ AllowedTransitions(st) \subseteq Targets
        /\ AllowedTransitions(st) # {} => st \in Statuses
        /\ "AUTHORIZED" \in AllowedTransitions(st) => st \in Reviewable
  BY DEF Absent, Statuses, Targets, Reviewable, AllowedTransitions,
         Transitions

(* Contradiction is mutual. *)
LEMMA ContradictionIsSymmetric ==
    \A c, d \in ClaimIds : ClaimsContradict(c, d) <=> ClaimsContradict(d, c)
  BY DEF ClaimsContradict, IntervalsOverlap

(* A claim that takes only free references changes no other claim's set. *)
LEMMA AttachKeepsOthers ==
    ASSUME TypeOK, NEW c \in ClaimIds, NEW refs \in SUBSET EvidenceIds,
           \A e \in refs : evidence[e] = NoClaim,
           evidence' = Attach(c, refs), NEW d \in ClaimIds
    PROVE  EvidenceOf(d)' = IF d = c THEN EvidenceOf(d) \cup refs
                                     ELSE EvidenceOf(d)
  BY NoClaimAssumption DEF EvidenceOf, Attach, TypeOK

LEMMA EvidenceTyped ==
    ASSUME TypeOK, NEW c \in ClaimIds, NEW refs
    PROVE  Attach(c, refs) \in [EvidenceIds -> ClaimIds \cup {NoClaim}]
  BY DEF Attach, TypeOK

(* The abstract state keeps its types. *)
THEOREM TypesHold == Spec => []TypeOK
<1>1. Init => TypeOK
  BY DEF Init, TypeOK
<1>2. TypeOK /\ [Next]_vars => TypeOK'
  <2> SUFFICES ASSUME TypeOK, [Next]_vars PROVE TypeOK'
    OBVIOUS
  <2>1. ASSUME NEW c \in ClaimIds, NEW refs \in SUBSET EvidenceIds,
               Propose(c, refs)
        PROVE  TypeOK'
    <3>1. Entry("claim.proposed", c, refs, "PROPOSED") \in EntryType
      BY StatusFacts DEF Entry, EntryType, EventTypes
    <3> QED
      BY <2>1, <3>1, EvidenceTyped, StatusFacts DEF Propose, TypeOK
  <2>2. ASSUME NEW c \in ClaimIds, NEW e \in EvidenceIds, AddEvidence(c, e)
        PROVE  TypeOK'
    <3>1. Entry("claim.evidence_added", c, {e}, Absent) \in EntryType
      BY DEF Entry, EntryType, EventTypes
    <3> QED
      BY <2>2, <3>1, EvidenceTyped DEF AddEvidence, TypeOK
  <2>3. ASSUME NEW c \in ClaimIds, NEW to \in Targets, Decide(c, to)
        PROVE  TypeOK'
    <3>1. Entry("claim.governance_decided", c, {}, to) \in EntryType
      BY StatusFacts DEF Entry, EntryType, EventTypes
    <3>2. to \in Statuses
      BY StatusFacts
    <3> QED
      BY <2>3, <3>1, <3>2 DEF Decide, TypeOK
  <2>4. ASSUME NEW c \in ClaimIds, NEW refs \in SUBSET EvidenceIds,
               AddAuthorized(c, refs)
        PROVE  TypeOK'
    <3>1. /\ Entry("claim.proposed", c, refs, "PROPOSED") \in EntryType
          /\ Entry("claim.governance_decided", c, {}, "AUTHORIZED")
                 \in EntryType
      BY StatusFacts DEF Entry, EntryType, EventTypes
    <3>2. <<Entry("claim.proposed", c, refs, "PROPOSED"),
            Entry("claim.governance_decided", c, {}, "AUTHORIZED")>>
              \in Seq(EntryType)
      BY <3>1
    <3>3. trail' \in Seq(EntryType)
      BY <2>4, <3>2 DEF AddAuthorized, TypeOK
    <3> QED
      BY <2>4, <3>3, EvidenceTyped, StatusFacts DEF AddAuthorized, TypeOK
  <2>5. ASSUME NEW c \in ClaimIds, NEW event \in CallerEvents,
               Record(c, event)
        PROVE  TypeOK'
    <3>1. Entry(event, c, {}, Absent) \in EntryType
      BY DEF Entry, EntryType, EventTypes
    <3> QED
      BY <2>5, <3>1 DEF Record, TypeOK
  <2>6. ASSUME UNCHANGED vars PROVE TypeOK'
    BY <2>6 DEF vars, TypeOK
  <2> QED
    BY <2>1, <2>2, <2>3, <2>4, <2>5, <2>6 DEF Next
<1> QED
  BY <1>1, <1>2, PTL DEF Spec

(***************************************************************************)
(* An operation authorizes at most one claim, and only when no authorized  *)
(* claim contradicts it.                                                   *)
(***************************************************************************)
LEMMA StepKeepsNoContradiction ==
    TypeOK /\ NoContradiction /\ [Next]_vars => NoContradiction'
<1> SUFFICES ASSUME TypeOK, NoContradiction, [Next]_vars
             PROVE  NoContradiction'
  OBVIOUS
<1>1. ASSUME NEW c \in ClaimIds, status' = [status EXCEPT ![c] = "AUTHORIZED"],
             Conflicts(c) = {}
      PROVE  NoContradiction'
  BY <1>1, ContradictionIsSymmetric
     DEF NoContradiction, Conflicts, TypeOK, ClaimsContradict
<1>2. ASSUME NEW c \in ClaimIds, NEW to \in Statuses \ {"AUTHORIZED"},
             status' = [status EXCEPT ![c] = to]
      PROVE  NoContradiction'
  BY <1>2 DEF NoContradiction, TypeOK
<1>3. ASSUME status' = status PROVE NoContradiction'
  BY <1>3 DEF NoContradiction
<1>4. ASSUME NEW c \in ClaimIds, NEW refs \in SUBSET EvidenceIds,
             Propose(c, refs)
      PROVE  NoContradiction'
  BY <1>4, <1>2, StatusFacts DEF Propose
<1>5. ASSUME NEW c \in ClaimIds, NEW to \in Targets, Decide(c, to)
      PROVE  NoContradiction'
  BY <1>5, <1>1, <1>2, StatusFacts DEF Decide, Authorizable
<1>6. ASSUME NEW c \in ClaimIds, NEW refs \in SUBSET EvidenceIds,
             AddAuthorized(c, refs)
      PROVE  NoContradiction'
  BY <1>6, <1>1 DEF AddAuthorized, Authorizable
<1> QED
  BY <1>3, <1>4, <1>5, <1>6 DEF Next, vars, AddEvidence, Record

(* Authorized claims never contradict each other. *)
THEOREM NoContradictionHolds == Spec => []NoContradiction
<1>1. Init => NoContradiction
  BY StatusFacts DEF Init, NoContradiction
<1> QED
  BY <1>1, StepKeepsNoContradiction, TypesHold, PTL DEF Spec

(***************************************************************************)
(* Evidence enters only while a claim is new or reviewable, so what a      *)
(* decision saw is what an authorized claim keeps.                         *)
(***************************************************************************)
LEMMA StepKeepsOwners ==
    TypeOK /\ EvidenceHasOwner /\ [Next]_vars => EvidenceHasOwner'
<1> SUFFICES ASSUME TypeOK, EvidenceHasOwner, [Next]_vars
             PROVE  EvidenceHasOwner'
  OBVIOUS
<1>1. ASSUME NEW c \in ClaimIds, NEW refs \in SUBSET EvidenceIds,
             NEW to \in Statuses,
             status' = [status EXCEPT ![c] = to], evidence' = Attach(c, refs)
      PROVE  EvidenceHasOwner'
  BY <1>1, StatusFacts DEF EvidenceHasOwner, Attach, TypeOK
<1>2. ASSUME NEW c \in ClaimIds, NEW e \in EvidenceIds, AddEvidence(c, e)
      PROVE  EvidenceHasOwner'
  BY <1>2, StatusFacts DEF AddEvidence, EvidenceHasOwner, Attach, TypeOK
<1>3. ASSUME NEW c \in ClaimIds, NEW to \in Targets, Decide(c, to)
      PROVE  EvidenceHasOwner'
  BY <1>3, StatusFacts DEF Decide, EvidenceHasOwner, TypeOK
<1>4. ASSUME UNCHANGED <<status, evidence>> PROVE EvidenceHasOwner'
  BY <1>4 DEF EvidenceHasOwner
<1> QED
  BY <1>1, <1>2, <1>3, <1>4, StatusFacts
     DEF Next, vars, Propose, AddAuthorized, Record

LEMMA StepKeepsEvidenced ==
    TypeOK /\ EvidenceHasOwner /\ AuthorityIsEvidenced /\ [Next]_vars
        => AuthorityIsEvidenced'
<1> SUFFICES ASSUME TypeOK, EvidenceHasOwner, AuthorityIsEvidenced, [Next]_vars,
                    NEW d \in ClaimIds, status'[d] = "AUTHORIZED"
             PROVE  StoredShapeValid(d) /\ EvidenceAdmissible(d, EvidenceOf(d)')
  BY DEF AuthorityIsEvidenced
<1> USE StatusFacts DEF AuthorityIsEvidenced
<1>1. ASSUME NEW c \in ClaimIds, NEW refs \in SUBSET EvidenceIds,
             Propose(c, refs)
      PROVE  StoredShapeValid(d) /\ EvidenceAdmissible(d, EvidenceOf(d)')
  <2>1. d # c /\ status[d] = "AUTHORIZED"
    BY <1>1 DEF Propose, TypeOK
  <2>2. EvidenceOf(d)' = EvidenceOf(d)
    BY <1>1, <2>1, AttachKeepsOthers DEF Propose, CanPropose
  <2> QED
    BY <2>1, <2>2
<1>2. ASSUME NEW c \in ClaimIds, NEW e \in EvidenceIds, AddEvidence(c, e)
      PROVE  StoredShapeValid(d) /\ EvidenceAdmissible(d, EvidenceOf(d)')
  <2>1. d # c /\ status[d] = "AUTHORIZED"
    BY <1>2 DEF AddEvidence, TypeOK
  <2>2. EvidenceOf(d)' = EvidenceOf(d)
    BY <1>2, <2>1, AttachKeepsOthers DEF AddEvidence
  <2> QED
    BY <2>1, <2>2
<1>3. ASSUME NEW c \in ClaimIds, NEW to \in Targets, Decide(c, to)
      PROVE  StoredShapeValid(d) /\ EvidenceAdmissible(d, EvidenceOf(d)')
  <2>1. EvidenceOf(d)' = EvidenceOf(d)
    BY <1>3 DEF Decide, EvidenceOf
  <2>2. CASE d = c
    BY <1>3, <2>1, <2>2 DEF Decide, Authorizable, TypeOK
  <2>3. CASE d # c
    BY <1>3, <2>1, <2>3 DEF Decide, TypeOK
  <2> QED
    BY <2>2, <2>3
<1>4. ASSUME NEW c \in ClaimIds, NEW refs \in SUBSET EvidenceIds,
             AddAuthorized(c, refs)
      PROVE  StoredShapeValid(d) /\ EvidenceAdmissible(d, EvidenceOf(d)')
  <2>1. CASE d # c
    <3>1. EvidenceOf(d)' = EvidenceOf(d)
      BY <1>4, <2>1, AttachKeepsOthers DEF AddAuthorized, CanPropose
    <3> QED
      BY <1>4, <2>1, <3>1 DEF AddAuthorized, TypeOK
  <2>2. CASE d = c
    <3>1. EvidenceOf(d)' = EvidenceOf(d) \cup refs
      BY <1>4, <2>2, AttachKeepsOthers DEF AddAuthorized, CanPropose
    <3>2. EvidenceOf(d) = {}
      BY <1>4, <2>2 DEF AddAuthorized, CanPropose, EvidenceHasOwner, EvidenceOf
    <3> QED
      BY <1>4, <2>2, <3>1, <3>2 DEF AddAuthorized, Authorizable
  <2> QED
    BY <2>1, <2>2
<1>5. ASSUME UNCHANGED <<status, evidence>>
      PROVE  StoredShapeValid(d) /\ EvidenceAdmissible(d, EvidenceOf(d)')
  BY <1>5 DEF EvidenceOf
<1> QED
  BY <1>1, <1>2, <1>3, <1>4, <1>5 DEF Next, vars, Record

(* Every authorized claim rests on admissible evidence, at all times. *)
THEOREM AuthorityIsEvidencedHolds == Spec => []AuthorityIsEvidenced
<1>1. Init => EvidenceHasOwner /\ AuthorityIsEvidenced
  BY StatusFacts, NoClaimAssumption
     DEF Init, EvidenceHasOwner, AuthorityIsEvidenced
<1> QED
  BY <1>1, StepKeepsOwners, StepKeepsEvidenced, TypesHold, PTL DEF Spec
-----------------------------------------------------------------------------
(***************************************************************************)
(* TrailExplainsClaims of any status, evidence and trail, because an       *)
(* operation that appends two entries has no state between them.           *)
(***************************************************************************)
StatusEvents == {"claim.proposed", "claim.governance_decided"}

Tells(tr, i, c) == tr[i].claim = c /\ tr[i].event \in StatusEvents

LastTells(tr, i, c) ==
    /\ Tells(tr, i, c)
    /\ \A j \in i + 1 .. Len(tr) : ~Tells(tr, j, c)

RefsIn(tr, c) ==
    UNION {tr[i].refs : i \in {j \in DOMAIN tr : tr[j].claim = c}}

ExplainsClaim(st, ev, tr, c) ==
    /\ st[c] = Absent => \A i \in DOMAIN tr : ~Tells(tr, i, c)
    /\ st[c] # Absent =>
          \E i \in DOMAIN tr : LastTells(tr, i, c) /\ tr[i].to = st[c]
    /\ {e \in EvidenceIds : ev[e] = c} = RefsIn(tr, c)

Explains(st, ev, tr) == \A c \in ClaimIds : ExplainsClaim(st, ev, tr, c)

LEMMA ExplainsMeansTrailExplains ==
    TrailExplainsClaims <=> Explains(status, evidence, trail)
  BY DEF TrailExplainsClaims, Explains, ExplainsClaim, Tells, LastTells, RefsIn,
         StatusEvents, SetsStatus, IsStatusEvent, EvidenceOf

(* An entry about another claim tells nothing of c. *)
LEMMA AppendKeepsOtherClaims ==
    ASSUME NEW tr \in Seq(EntryType), NEW n \in EntryType,
           NEW c \in ClaimIds, n.claim # c
    PROVE  /\ \A i \in DOMAIN tr :
                  /\ Append(tr, n)[i] = tr[i]
                  /\ LastTells(tr, i, c) => LastTells(Append(tr, n), i, c)
           /\ (\A i \in DOMAIN tr : ~Tells(tr, i, c))
                  => \A i \in DOMAIN Append(tr, n) : ~Tells(Append(tr, n), i, c)
           /\ RefsIn(Append(tr, n), c) = RefsIn(tr, c)
<1>1. /\ DOMAIN Append(tr, n) = DOMAIN tr \cup {Len(tr) + 1}
      /\ Len(Append(tr, n)) = Len(tr) + 1
      /\ Len(tr) \in Nat
      /\ DOMAIN tr = 1 .. Len(tr)
      /\ \A i \in DOMAIN tr : Append(tr, n)[i] = tr[i]
      /\ Append(tr, n)[Len(tr) + 1] = n
  OBVIOUS
<1>2. {j \in DOMAIN Append(tr, n) : Append(tr, n)[j].claim = c}
          = {j \in DOMAIN tr : tr[j].claim = c}
  BY <1>1
<1>3. RefsIn(Append(tr, n), c) = RefsIn(tr, c)
  BY <1>1, <1>2 DEF RefsIn
<1>4. \A i \in DOMAIN Append(tr, n) :
          Tells(Append(tr, n), i, c) => i \in DOMAIN tr /\ Tells(tr, i, c)
  BY <1>1 DEF Tells
<1>5. ASSUME NEW i \in DOMAIN tr, LastTells(tr, i, c)
      PROVE  LastTells(Append(tr, n), i, c)
  <2>1. Tells(Append(tr, n), i, c)
    BY <1>1, <1>5 DEF LastTells, Tells
  <2>2. ASSUME NEW j \in i + 1 .. Len(Append(tr, n)), Tells(Append(tr, n), j, c)
        PROVE  FALSE
    <3>1. j \in DOMAIN Append(tr, n)
      BY <1>1, <2>2
    <3>2. j \in DOMAIN tr /\ Tells(tr, j, c)
      BY <1>4, <2>2, <3>1
    <3>3. j \in i + 1 .. Len(tr)
      BY <1>1, <2>2, <3>2
    <3> QED
      BY <1>5, <3>2, <3>3 DEF LastTells
  <2> QED
    BY <2>1, <2>2 DEF LastTells
<1> QED
  BY <1>1, <1>3, <1>4, <1>5

(* The status and the owners that an entry reports. *)
StatusAfter(st, n) ==
    IF n.event \in StatusEvents THEN [st EXCEPT ![n.claim] = n.to] ELSE st

OwnersAfter(ev, n) ==
    [e \in EvidenceIds |-> IF e \in n.refs THEN n.claim ELSE ev[e]]

LEMMA AppendExplains ==
    ASSUME NEW st \in [ClaimIds -> Statuses \cup {Absent}],
           NEW ev \in [EvidenceIds -> ClaimIds \cup {NoClaim}],
           NEW tr \in Seq(EntryType), NEW n \in EntryType,
           Explains(st, ev, tr),
           n.event \in StatusEvents => n.to # Absent,
           \A e \in n.refs : ev[e] = NoClaim
    PROVE  Explains(StatusAfter(st, n), OwnersAfter(ev, n), Append(tr, n))
<1> DEFINE st2 == StatusAfter(st, n)
           ev2 == OwnersAfter(ev, n)
           tr2 == Append(tr, n)
<1> SUFFICES ASSUME NEW c \in ClaimIds
             PROVE  ExplainsClaim(st2, ev2, tr2, c)
  BY DEF Explains
<1>1. ExplainsClaim(st, ev, tr, c)
  BY DEF Explains
<1>2. n.claim \in ClaimIds /\ n.refs \subseteq EvidenceIds
  BY DEF EntryType
<1>3. /\ DOMAIN tr2 = DOMAIN tr \cup {Len(tr) + 1}
      /\ Len(tr2) = Len(tr) + 1
      /\ Len(tr) \in Nat
      /\ DOMAIN tr = 1 .. Len(tr)
      /\ \A i \in DOMAIN tr : tr2[i] = tr[i]
      /\ tr2[Len(tr) + 1] = n
  OBVIOUS
<1>4. CASE n.claim # c
  <2>1. st2[c] = st[c]
    BY <1>2, <1>4 DEF StatusAfter
  <2>2. {e \in EvidenceIds : ev2[e] = c} = {e \in EvidenceIds : ev[e] = c}
    BY <1>4, NoClaimAssumption DEF OwnersAfter
  <2>3. /\ \A i \in DOMAIN tr : LastTells(tr, i, c) => LastTells(tr2, i, c)
        /\ (\A i \in DOMAIN tr : ~Tells(tr, i, c))
               => \A i \in DOMAIN tr2 : ~Tells(tr2, i, c)
        /\ RefsIn(tr2, c) = RefsIn(tr, c)
    BY <1>4, AppendKeepsOtherClaims
  <2> QED
    BY <1>1, <1>3, <2>1, <2>2, <2>3 DEF ExplainsClaim
<1>5. CASE n.claim = c
  <2>1. {e \in EvidenceIds : ev2[e] = c}
            = {e \in EvidenceIds : ev[e] = c} \cup n.refs
    BY <1>2, <1>5 DEF OwnersAfter
  <2>2. {j \in DOMAIN tr2 : tr2[j].claim = c}
            = {j \in DOMAIN tr : tr[j].claim = c} \cup {Len(tr) + 1}
    BY <1>3, <1>5
  <2>3. RefsIn(tr2, c) = RefsIn(tr, c) \cup n.refs
    BY <1>3, <2>2 DEF RefsIn
  <2>4. CASE n.event \in StatusEvents
    <3>1. st2[c] = n.to /\ n.to # Absent
      BY <1>5, <2>4 DEF StatusAfter
    <3>2. LastTells(tr2, Len(tr) + 1, c)
      BY <1>3, <1>5, <2>4 DEF LastTells, Tells
    <3> QED
      BY <1>1, <1>3, <2>1, <2>3, <3>1, <3>2 DEF ExplainsClaim
  <2>5. CASE n.event \notin StatusEvents
    <3>1. st2[c] = st[c]
      BY <2>5 DEF StatusAfter
    <3>2. \A i \in DOMAIN tr2 :
              Tells(tr2, i, c) => i \in DOMAIN tr /\ Tells(tr, i, c)
      BY <1>3, <2>5 DEF Tells
    <3>3. ASSUME NEW i \in DOMAIN tr, LastTells(tr, i, c)
          PROVE  LastTells(tr2, i, c)
      <4>1. Tells(tr2, i, c)
        BY <1>3, <3>3 DEF LastTells, Tells
      <4>2. \A j \in i + 1 .. Len(tr2) :
                /\ j \in DOMAIN tr2
                /\ j \in DOMAIN tr => j \in i + 1 .. Len(tr)
        BY <1>3, <3>3
      <4> QED
        BY <3>2, <3>3, <4>1, <4>2 DEF LastTells
    <3> QED
      BY <1>1, <1>3, <2>1, <2>3, <3>1, <3>2, <3>3 DEF ExplainsClaim
  <2> QED
    BY <2>4, <2>5
<1> QED
  BY <1>4, <1>5

(***************************************************************************)
(* Every operation appends what it does.  append_ledger lets a caller      *)
(* append a "claim.governance_decided" of its own, which tells a status    *)
(* that nobody decided: the callers must not.                              *)
(***************************************************************************)
LEMMA StepKeepsTrail ==
    ASSUME "claim.governance_decided" \notin CallerEvents,
           TypeOK, Explains(status, evidence, trail), [Next]_vars
    PROVE  Explains(status, evidence, trail)'
<1> USE DEF TypeOK
<1>1. ASSUME NEW n \in EntryType,
             n.event \in StatusEvents => n.to # Absent,
             \A e \in n.refs : evidence[e] = NoClaim,
             status' = StatusAfter(status, n),
             evidence' = OwnersAfter(evidence, n),
             trail' = Append(trail, n)
      PROVE  Explains(status', evidence', trail')
  BY <1>1, AppendExplains
<1>2. ASSUME NEW c \in ClaimIds, NEW refs \in SUBSET EvidenceIds,
             Propose(c, refs)
      PROVE  Explains(status', evidence', trail')
  <2> DEFINE n == Entry("claim.proposed", c, refs, "PROPOSED")
  <2>1. n \in EntryType
    BY StatusFacts DEF Entry, EntryType, EventTypes
  <2>2. /\ n.event = "claim.proposed" /\ n.claim = c
        /\ n.refs = refs /\ n.to = "PROPOSED"
    BY DEF Entry
  <2>3. /\ status' = StatusAfter(status, n)
        /\ evidence' = OwnersAfter(evidence, n)
        /\ trail' = Append(trail, n)
    BY <1>2, <2>2 DEF Propose, StatusAfter, OwnersAfter, Attach, StatusEvents
  <2> QED
    BY <1>1, <1>2, <2>1, <2>2, <2>3 DEF Propose, CanPropose, Absent
<1>3. ASSUME NEW c \in ClaimIds, NEW e \in EvidenceIds, AddEvidence(c, e)
      PROVE  Explains(status', evidence', trail')
  <2> DEFINE n == Entry("claim.evidence_added", c, {e}, Absent)
  <2>1. n \in EntryType
    BY DEF Entry, EntryType, EventTypes
  <2>2. n.event = "claim.evidence_added" /\ n.claim = c /\ n.refs = {e}
    BY DEF Entry
  <2>3. /\ status' = StatusAfter(status, n)
        /\ evidence' = OwnersAfter(evidence, n)
        /\ trail' = Append(trail, n)
    BY <1>3, <2>2 DEF AddEvidence, StatusAfter, OwnersAfter, Attach, StatusEvents
  <2> QED
    BY <1>1, <1>3, <2>1, <2>2, <2>3 DEF AddEvidence, StatusEvents
<1>4. ASSUME NEW c \in ClaimIds, NEW to \in Targets, Decide(c, to)
      PROVE  Explains(status', evidence', trail')
  <2> DEFINE n == Entry("claim.governance_decided", c, {}, to)
  <2>1. n \in EntryType /\ to # Absent
    BY StatusFacts DEF Entry, EntryType, EventTypes
  <2>2. /\ n.event = "claim.governance_decided" /\ n.claim = c
        /\ n.refs = {} /\ n.to = to
    BY DEF Entry
  <2>3. /\ status' = StatusAfter(status, n)
        /\ evidence' = OwnersAfter(evidence, n)
        /\ trail' = Append(trail, n)
    BY <1>4, <2>2 DEF Decide, StatusAfter, OwnersAfter, StatusEvents
  <2> QED
    BY <1>1, <2>1, <2>2, <2>3
<1>5. ASSUME NEW c \in ClaimIds, NEW refs \in SUBSET EvidenceIds,
             AddAuthorized(c, refs)
      PROVE  Explains(status', evidence', trail')
  <2> DEFINE n == Entry("claim.proposed", c, refs, "PROPOSED")
             m == Entry("claim.governance_decided", c, {}, "AUTHORIZED")
             st == StatusAfter(status, n)
             ev == OwnersAfter(evidence, n)
             tr == Append(trail, n)
  <2>1. n \in EntryType /\ m \in EntryType
    BY StatusFacts DEF Entry, EntryType, EventTypes
  <2>2. /\ n.event = "claim.proposed" /\ n.claim = c
        /\ n.refs = refs /\ n.to = "PROPOSED"
        /\ m.event = "claim.governance_decided" /\ m.claim = c
        /\ m.refs = {} /\ m.to = "AUTHORIZED"
    BY DEF Entry
  <2>3. Explains(st, ev, tr)
    BY <1>5, <2>1, <2>2, AppendExplains
       DEF AddAuthorized, CanPropose, Absent
  <2>4. /\ st \in [ClaimIds -> Statuses \cup {Absent}]
        /\ ev \in [EvidenceIds -> ClaimIds \cup {NoClaim}]
        /\ tr \in Seq(EntryType)
    BY <2>1, <2>2, StatusFacts DEF StatusAfter, OwnersAfter
  <2>5. Explains(StatusAfter(st, m), OwnersAfter(ev, m), Append(tr, m))
    <3>1. m.to # Absent /\ \A e \in m.refs : ev[e] = NoClaim
      BY <2>2 DEF Absent
    <3> HIDE DEF n, m, st, ev, tr
    <3> QED
      BY <2>1, <2>3, <2>4, <3>1, AppendExplains
  <2>6. status' = StatusAfter(st, m)
    BY <1>5, <2>2 DEF AddAuthorized, StatusAfter, StatusEvents
  <2>7. evidence' = OwnersAfter(ev, m)
    BY <1>5, <2>2 DEF AddAuthorized, OwnersAfter, Attach
  <2>8. trail' = Append(tr, m)
    BY <1>5, <2>1 DEF AddAuthorized
  <2> QED
    BY <2>5, <2>6, <2>7, <2>8
<1>6. ASSUME NEW c \in ClaimIds, NEW event \in CallerEvents, Record(c, event)
      PROVE  Explains(status', evidence', trail')
  <2> DEFINE n == Entry(event, c, {}, Absent)
  <2>1. n \in EntryType
    BY DEF Entry, EntryType, EventTypes
  <2>2. n.event = event /\ n.claim = c /\ n.refs = {}
    BY DEF Entry
  <2>3. n.event \notin StatusEvents
    BY <1>6, <2>2 DEF Record, StatusEvents, ReservedEvents
  <2>4. /\ status' = StatusAfter(status, n)
        /\ evidence' = OwnersAfter(evidence, n)
        /\ trail' = Append(trail, n)
    BY <1>6, <2>2, <2>3 DEF Record, StatusAfter, OwnersAfter
  <2> QED
    BY <1>1, <2>1, <2>2, <2>3, <2>4
<1>7. CASE UNCHANGED vars
  BY <1>7 DEF vars
<1> QED
  BY <1>2, <1>3, <1>4, <1>5, <1>6, <1>7 DEF Next

(* The trail alone tells each claim's status and evidence, unless callers
   append decisions that are none. *)
THEOREM TrailExplainsClaimsHolds ==
    ASSUME "claim.governance_decided" \notin CallerEvents
    PROVE  Spec => []TrailExplainsClaims
<1>1. Init => Explains(status, evidence, trail)
  BY NoClaimAssumption DEF Init, Explains, ExplainsClaim, RefsIn, Absent
<1>2. TypeOK /\ Explains(status, evidence, trail) /\ [Next]_vars
          => Explains(status, evidence, trail)'
  BY StepKeepsTrail
<1> QED
  BY <1>1, <1>2, TypesHold, ExplainsMeansTrailExplains, PTL DEF Spec
=============================================================================
