SPECIFICATION Spec
CONSTANTS
    k1 = k1
    k2 = k2
    home = home
    efnet = efnet
    test = test
    side = side
    dragon = dragon
    hello = hello
    random = random
    MaxTries = 1
    Embedded = Embedded
    NicksArg <- MCNicksArg
    Ssl = Ssl
    Cmd = {k1, k2}
    Known = {home, efnet}
    Home = home
    Chan = {test, side}
    HashChan = {test, side}
    Word = {dragon, hello}
    Count = {0, 1, 2}
    All = All
    Clear = Clear
    Messages <- MCMessages
    MaxWords = 3
    None = None
    File = {dragon}
INVARIANTS
    ActsInOneContext
    FoundArtLoads
    FormsAreRead
    ConfigsStart
    NicksFit
    RepeatsAreFallbacks
