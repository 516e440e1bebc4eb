SPECIFICATION FairSpec
CONSTANTS
    Ids = {a}
    MaxJobs = 2
    MaxRuns = 2
CHECK_DEADLOCK FALSE
INVARIANTS
    RunningJobsAreWorked
    CompletesWithTheLastOutput
    ResultsArriveOnce
PROPERTIES
    EndedJobsStayEnded
    AbortLeavesNoForegroundJob
    CallsReturn
