\* Two workers race for two assignments.
CONSTANTS
    MaxRevision = 5
    Workers = {w1, w2}
    Proposals = {p1}
    Assignments = {a1, a2}
    Executions = {x1, x2}
    Results = {o1, o2}
    None = None
SPECIFICATION Spec
SYMMETRY Symmetry
INVARIANTS OneChain ReviewedAfterEnd
PROPERTIES RefinesLifecycle
CHECK_DEADLOCK FALSE
