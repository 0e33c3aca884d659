SPECIFICATION Spec
CONSTANTS
    kn1 = kn1
    kn2 = kn2
    own = own
    goal = goal
    Proc = {kn1, kn2}
    Nick = {own, goal}
    Own = own
    Desired = {goal}
    Elsewhere = Elsewhere
    NoProc = NoProc
    MaxResets = 0
    MaxRuns = 1
SYMMETRY ProcSymmetry
INVARIANTS
    OneProcess
    EndsWithNick
