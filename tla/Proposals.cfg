CONSTANTS
    MaxRevision = 4
    Callers = {c1, c2}
    Authors = {}
    Proposals = {p1}
    Reviews = {r1, r2}
    Decisions = {d1, d2}
    Participants = {human, agent}
    CanPropose = {human, agent}
    CanReview = {human, agent}
    CanDecide = {human}
    AtomicContext = FALSE
    None = None
SPECIFICATION Spec
SYMMETRY Symmetry
INVARIANTS TypeOK ApprovalChain
PROPERTIES RecordStands RefinesLifecycle
CHECK_DEADLOCK FALSE
