SPECIFICATION Spec
CONSTANTS
    kn1 = kn1
    kn2 = kn2
    own = own
    goal = goal
    Proc = {kn1}
    Nick = {own, goal}
    Own = own
    Desired = {goal}
    Elsewhere = Elsewhere
    NoProc = NoProc
    MaxResets = 1
    MaxRuns = 1
INVARIANT
    HandlersSurvive
