\* Two worktrees, one with a Work.
CONSTANTS
    Workspaces = {A, B}
    Works = {A}
    MaxTabs = 2
    MaxRevision = 3
    MaxOrphans = 1
    None = None
SPECIFICATION Spec
INVARIANTS OneOverview
CHECK_DEADLOCK FALSE
