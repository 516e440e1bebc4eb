SPECIFICATION Spec
CONSTANTS
    Control = control
    Remotes = {r1, r2}
    Locals = {l1}
    Project = project
    None = None
    Births = {r1, None}
    MaxEvents = 5
    MaxWarps = 1
PROPERTIES
    FailedCopyLeavesTheSession
