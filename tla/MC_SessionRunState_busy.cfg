SPECIFICATION Spec
CONSTANTS
    Callers = {c1, c2}
    Cancellers = {x1}
    Leavers = {}
    Runners = {r1, r2, r3}
    Runs = {w1, w2, w3}
    Shells = {s1}
    None = None
INVARIANTS
    BusyWhileLoopRuns
