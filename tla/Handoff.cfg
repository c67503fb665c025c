\* Two processes, two assignments; a package and an output of two units through
\* pipes of one.
CONSTANTS
    Processes = {p1, p2}
    Assignments = {a1, a2}
    PackageSize = 2
    MaxOutput = 2
    PipeSize = 1
    None = None
SPECIFICATION FairSpec
INVARIANTS OneLaunch OutcomesAreTrue
PROPERTIES RefinesLifecycle HandoffEnds
CHECK_DEADLOCK FALSE
