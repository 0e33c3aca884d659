SPECIFICATION FairSpec
CONSTANTS
    s1 = s1
    s2 = s2
    s3 = s3
    Sender = {s1, s2, s3}
    MaxTokens = 2
    RefillRate = 3
    MaxWindow = 7
INVARIANTS
    RateBound
    QuietEarnsToken
PROPERTY
    SomebodyPasses
