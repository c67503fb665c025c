\* One thread settles a proposal, one worker assigns and executes under it.
CONSTANTS
    MaxRevision = 5
    Callers = {c1}
    Authors = {}
    Proposals = {p1}
    Reviews = {r1}
    Decisions = {d1}
    Participants = {human}
    CanPropose = {human}
    CanReview = {human}
    CanDecide = {human}
    AtomicContext = FALSE
    Workers = {w1}
    Assignments = {a1}
    Executions = {x1}
    Results = {o1}
    None = None
SPECIFICATION Spec
SYMMETRY Symmetry
INVARIANTS
    WorkUnderMandate
PROPERTIES
    RefinesExecutionStore
CHECK_DEADLOCK FALSE
