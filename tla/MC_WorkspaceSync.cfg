SPECIFICATION Spec
CONSTANTS
    Control = control
    Remotes = {r1, r2}
    Locals = {l1}
    Project = project
    None = None
    Births = {r1, r2, None}
    MaxEvents = 4
    MaxWarps = 2
SYMMETRY Symmetry
INVARIANTS
    SameNumberEverywhere
    ClaimFences
    StealsTheWholeLog
