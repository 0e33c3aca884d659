SPECIFICATION FairSpec
CONSTANTS
    home = home
    efnet = efnet
    m1 = m1
    m2 = m2
    k1 = k1
    k2 = k2
    none = none
    Name = {home, efnet}
    Home = home
    AutoNet = {efnet}
    Mgr = {m1, m2}
    Cmd = {k1, k2}
    None = none
INVARIANTS
    ReachableUnlessRaced
    ConfiguredUnlessRaced
    StoppedByOne
PROPERTIES
    CommandsReturn
    SignalEnds
