SPECIFICATION FollowedFairSpec
CONSTANTS
    Control = control
    Remotes = {r1}
    Locals = {}
    Project = project
    None = None
    Births = {r1}
    MaxEvents = 4
    MaxWarps = 0
    Streams = {s1}
INVARIANTS
    MirrorsTheWriter
    StreamsFollowTheLog
PROPERTIES
    EveryEventArrives
    FollowersSeeEveryEvent
