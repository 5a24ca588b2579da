\* All four loops, with timeouts shorter than, equal to and longer than the poll
\* interval, requests that take up to one unit and a wall clock stepped by one.
SPECIFICATION FairSpec
CONSTANTS
    Loops = {"task", "report", "query", "browse"}
    Timeouts = {0, 1, 2, 3, 5}
    PollInterval = 2
    MaxPoll = 1
    MaxSkew = 1
INVARIANTS
    TypeOK
    ReturnMeansFinished
    FailureIsRaised
    TimeoutIsHonest
    WaitIsBounded
    PromptJobNeverTimesOut
PROPERTIES
    WaitsEnd
CHECK_DEADLOCK FALSE
