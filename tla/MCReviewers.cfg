CONSTANTS
    Sessions = {s1, s2}
    NoSession = NoSession
    ClaimIds = {"blue", "green"}
    EvidenceIds = {quote1, quote2}
    NoClaim = NoClaim
    Continuities = {"alpha", "beta"}
    Subjects = {"eyes"}
    Objects = {"blue", "green", "brown"}
    Missing = Missing
    Proposal <- MCProposal
    Span <- MCSpan
    TicksPerSecond = 2
    Unbounded = Unbounded
    CallerEvents = {}
    Times = {0}
    MaxLedger = 4
SPECIFICATION Spec
SYMMETRY MCSymmetry
INVARIANTS
    TypeOK
    NoContradiction
PROPERTIES
    FailedCommitLeavesNoTrace
    HumanAddIsAtomic
