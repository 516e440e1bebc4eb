SPECIFICATION Desk
CONSTANTS
    a1 = a1
    a2 = a2
    b1 = b1
    s1 = s1
    s2 = s2
    None = None
    Askers = {a1, a2, b1}
    Repliers = {u1, u2}
    SessionOf <- MCSessionOf
    Covers <- MCCovers
CHECK_DEADLOCK FALSE
INVARIANTS
    ListedWhileAwaited
PROPERTIES
    RejectionSweepsTheSession
