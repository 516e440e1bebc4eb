SPECIFICATION FairSpec
CONSTANTS
    Keys = {k1}
    Callers = {c1, c2, c3}
    Entries = {e1, e2, e3}
    None = None
INVARIANTS
    NoLostWake
PROPERTIES
    ImplementsKeyedWorker
    WakesAreAnswered
    CallersReturn
