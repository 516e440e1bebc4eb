SPECIFICATION Spec
CONSTANTS
    Session = s1
    Messages = {m1, m2}
    Prompters = {p1, p2}
    Entries = {e1, e2}
    Callers = {c1}
    None = None
    Steps = 2
SYMMETRY Symmetry
INVARIANTS
    NothingLeftWhenIdle
    PromotionOrder
    SteersJoinTheRequest
    NoOpenToolInRequest
    StepBound
PROPERTIES
    QueuedAtBoundary
    AdmissionIsFinal
