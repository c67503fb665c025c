\* A human who may decide and an agent who may not.
CONSTANTS
    MaxRevision = 3
    Callers = {c1}
    Authors = {}
    Proposals = {p1}
    Reviews = {r1}
    Decisions = {d1}
    Participants = {human, agent}
    CanPropose = {human, agent}
    CanReview = {human, agent}
    CanDecide = {human}
    AtomicContext = TRUE
    None = None
SPECIFICATION Spec
INVARIANTS
    DecidedByDeciders
CHECK_DEADLOCK FALSE
