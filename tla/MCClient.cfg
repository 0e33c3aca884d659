SPECIFICATION FairClientSpec
CONSTANTS
    w1 = w1
    w2 = w2
    Writer = {w1, w2}
    Delay = 2
    None = None
    MaxRetries = 0
    BaseDelay = 2
    MaxDelay = 3
    MaxDuration = 5
    MaxAttempt = 4
    MaxRuns = 2
    MaxListed = 2
INVARIANTS
    FlagFollowsLink
    BackoffInRange
    JoinedIsListed
PROPERTIES
    WaitKeepsPace
    EveryMessageIsSent
