CONSTANTS
    Sessions = {s1}
    NoSession = NoSession
    ClaimIds = {"blue"}
    EvidenceIds = {quote1, quote2}
    NoClaim = NoClaim
    Continuities = {"alpha", "beta"}
    Subjects = {"eyes"}
    Objects = {"blue", "green", "brown"}
    Missing = Missing
    Proposal <- MCProposal
    Span <- MCSpan
    TicksPerSecond = 2
    Unbounded = Unbounded
    CallerEvents = {}
    Times = {0, 1}
    MaxLedger = 5
SPECIFICATION LegacySpec
SYMMETRY MCSymmetry
CHECK_DEADLOCK FALSE
INVARIANTS
    AdmittedClaimsReplay
    ReleasesAreAdmitted
    CurrentClaimsReplay
    CurrentEditIsNoticed
