\* Two worktrees, three tabs, three panes; two repositories; two requests of a wait.
CONSTANTS
    Workspaces = {w1, w2}
    MaxTabs = 3
    MaxPanes = 3
    Repos = {r1, r2}
    Home = Home
    MaxPolls = 2
    None = None
SPECIFICATION AllSpec
INVARIANTS TabsAgree PanelsAgree
PROPERTIES NoSilentKill EndedPanesGo  RequestIsServed CheckedWhileLive
CHECK_DEADLOCK FALSE
