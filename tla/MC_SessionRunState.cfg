SPECIFICATION FairSpec
CONSTANTS
    Callers = {c1, c2}
    Cancellers = {x1}
    Leavers = {c1}
    Runners = {r1, r2}
    Runs = {w1, w2}
    Shells = {s1}
    None = None
INVARIANTS
    RunnerKnowsItsWork
    NobodyIsLeftBehind
    QuietMeansIdle
PROPERTIES
    WithdrawnRunsNeverStart
    AbortsReturn
