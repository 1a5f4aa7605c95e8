CONSTANTS
    Operators = {o1}
    Requests = {r1, r2}
    Profilers <- MCProfilers
    Specs <- EnabledOnly
    Edits = {e1, e2}
    MaxChanges = 1
    MaxCrashes = 0
    o1 = o1
    e1 = e1
    e2 = e2
    r1 = r1
    r2 = r2
SPECIFICATION Spec
INVARIANTS
    ActiveGaugeExact
SYMMETRY Symmetry
CHECK_DEADLOCK FALSE
