SPECIFICATION FairSpec
CONSTANTS
    c1 = c1
    c2 = c2
    s1 = s1
    None = None
    Askers = {c1, c2}
    Repliers = {u1}
    Hosted = {h1}
    SessionOf <- MCSessionOf
    Covers <- MCCovers
CHECK_DEADLOCK FALSE
INVARIANTS
    TurnSettlesItsCalls
PROPERTIES
    ResultsAreKept
    InterruptedTurnsReturn
