SPECIFICATION Spec
CONSTANTS
    p1 = p1
    p2 = p2
    c1 = c1
    c2 = c2
    c3 = c3
    k1 = k1
    k2 = k2
    efnet = efnet
    Addr = {p1, p2}
    Network = {efnet}
    Sources = {"api"}
    Endpoint = Endpoint
    Net = efnet
    Client = {c1}
    Cmd = {k1}
    MaxRetries = 2
    MaxAdd = 2
    None = None
PROPERTY
    RemovedStaysDown
