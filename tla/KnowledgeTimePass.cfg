CONSTANTS
    TicksPerSecond = 3
    Unbounded = Unbounded
    MaxTick = 9
SPECIFICATION Spec
INVARIANTS
    ReadersAgree
    LessThanASecondEarly
    ClosedKnowledgeStaysClosed
