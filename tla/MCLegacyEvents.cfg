CONSTANTS
    Sessions = {s1, s2}
    NoSession = NoSession
    EventIds = {e1, e2}
    EvidenceIds = {r1, r2, r3}
    Unfit = {r3}
    Times = {1, 2}
    MaxLedger = 2
SPECIFICATION LegacySpec
SYMMETRY MCSymmetry
CHECK_DEADLOCK FALSE
INVARIANTS
    ReaderBlamesNoEvent
    AdmittedEventsReplay
    EventEditIsNoticed
