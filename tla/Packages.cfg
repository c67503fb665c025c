\* A thread and an author; nothing writes while a package is rendered (every
\* caller of context() in crates/combe has the store to itself).
CONSTANTS
    MaxRevision = 4
    Callers = {c1}
    Authors = {a1}
    Proposals = {p1}
    Reviews = {r1, r2}
    Decisions = {d1, d2}
    Participants = {human}
    CanPropose = {human}
    CanReview = {human}
    CanDecide = {human}
    AtomicContext = TRUE
    None = None
SPECIFICATION Spec
SYMMETRY Symmetry
INVARIANTS OncePerPackage
PROPERTIES AcceptedOnShownState
CHECK_DEADLOCK TRUE
