\* Two worktrees, one with a Work; two repositories; two logs; two clients.
CONSTANTS
    Workspaces = {A, B}
    Works = {A}
    MaxTabs = 2
    MaxRevision = 3
    MaxOrphans = 1
    Paths = {p1, p2}
    Commands = {c1, c2}
    Window = Window
    Logs = {l1, l2}
    Claude = Claude
    Candidates = 1
    Budget = 3
    MaxTime = 2
    MaxWrites = 5
    Clients = {c1, c2}
    Rooms = {w1, w2}
    Tabs = {t1}
    Panes = {x1}
    Repos = {p1, p2}
    Folder = Folder
    MaxCalls = 4
    None = None
SPECIFICATION ApplicationSpec
INVARIANTS PanelAgrees QuotasAreCurrent StoresKeep
PROPERTIES DecidesOnWhatIsShown  
CHECK_DEADLOCK FALSE
