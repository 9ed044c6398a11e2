CONSTANTS
    Sessions = {s1}
    NoSession = NoSession
    Keys = {k1}
    Texts = {draft, final}
    Times = {1, 2}
    MaxLedger = 3
SPECIFICATION ReadersSpec
INVARIANTS
    ReadersAgreeOnValidity
