SPECIFICATION FairSpec
CONSTANTS
    p1 = p1
    p2 = p2
    c1 = c1
    c2 = c2
    c3 = c3
    k1 = k1
    k2 = k2
    efnet = efnet
    Addr = {p1}
    Network = {efnet}
    Sources = {"api", "rotating"}
    Endpoint = Endpoint
    Net = efnet
    Client = {c1, c2}
    Cmd = {k1, k2}
    MaxRetries = 1
    MaxAdd = 1
    None = None
PROPERTIES
    UniqueUndisturbed
    RotationEnds
    CommandsReturn
