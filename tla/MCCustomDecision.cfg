CONSTANTS
    Sessions = {s1}
    NoSession = NoSession
    ClaimIds = {"blue"}
    EvidenceIds = {"quote1"}
    NoClaim = NoClaim
    Continuities = {"alpha", "beta"}
    Subjects = {"eyes"}
    Objects = {"blue", "green", "brown"}
    Missing = Missing
    Proposal <- MCProposal
    Span <- MCSpan
    TicksPerSecond = 2
    Unbounded = Unbounded
    CallerEvents = {"claim.governance_decided"}
    Times = {0}
    MaxLedger = 3
SPECIFICATION Spec
INVARIANTS
    CommittedClaimsReplay
