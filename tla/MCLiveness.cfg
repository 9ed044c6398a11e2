CONSTANTS
    Sessions = {s1, s2}
    NoSession = NoSession
    ClaimIds = {"blue", "blink"}
    EvidenceIds = {"quote1", "misquote"}
    NoClaim = NoClaim
    Continuities = {"alpha", "beta"}
    Subjects = {"eyes"}
    Objects = {"blue", "green", "brown"}
    Missing = Missing
    Proposal <- MCProposal
    Span <- MCSpan
    TicksPerSecond = 2
    Unbounded = Unbounded
    CallerEvents = {"note"}
    Times = {0}
    MaxLedger = 2
SPECIFICATION FairSpec
INVARIANTS
    AuthorityIsEvidenced
    TrailExplainsClaims
PROPERTIES
    CallsEnd
    GovernedSpec
