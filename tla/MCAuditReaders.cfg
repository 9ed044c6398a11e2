CONSTANTS
    Sessions = {s1, s2}
    NoSession = NoSession
    Keys = {k1, k2}
    Texts = {draft, final}
    Times = {1, 2}
    MaxLedger = 4
SPECIFICATION ReadersSpec
SYMMETRY MCSymmetry
INVARIANTS
    SchemaNeverObjects
    CommittedSourcesReplay
    CompilerSeesOneState
    ValidatorBlamesNoRevision
PROPERTIES
    HistorySpec
    IngestLeavesItsText
    SourceEditIsNoticed
