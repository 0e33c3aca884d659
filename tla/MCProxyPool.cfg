SPECIFICATION Spec
CONSTANTS
    p1 = p1
    p2 = p2
    efnet = efnet
    undernet = undernet
    e1 = e1
    e2 = e2
    u1 = u1
    Addr = {p1, p2}
    Network = {efnet, undernet}
    Caller = {e1, e2, u1}
    NetOf <- MCNetOf
    MaxRetries = 1
    MinPoolSize = 2
    MaxNeed = 2
    NoAddr = NoAddr
SYMMETRY PoolSymmetry
INVARIANTS
    TypeOK
    IdleIsForgiven
    NoLeakedMark
    ExclusiveUnlessPurged
PROPERTIES
    InUsePreserved
    LeaseSpec
