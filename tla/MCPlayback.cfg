SPECIFICATION PlayFairSpec
CONSTANTS
    a1 = a1
    a2 = a2
    c1 = c1
    c2 = c2
    Sender = {a1, a2}
    Client = {c1, c2}
    Lists <- MCLists
    Lines = 3
    FloodDelay = 3
    MinGap = 1
    MaxTokens = 1
    RefillRate = 2
    MaxWindow = 0
    Never = Never
PROPERTIES
    PlayKeepsPace
    EveryPlayEnds
