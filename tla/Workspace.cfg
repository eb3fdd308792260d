\* Two scanners' tabs and the user's own in one window, two requests at once.
SPECIFICATION WorkspaceSpec
CONSTANTS
    t1 = t1
    t2 = t2
    r1 = r1
    r2 = r2
    ScannerTabs = {t1, t2}
    Manual = "manual"
    Requests = {r1, r2}
    MAX_LATE = 1
    MAX_LEASES = 2
    MAX_DISTURBANCES = 1
SYMMETRY Symmetric
CHECK_DEADLOCK FALSE
INVARIANTS
    WorkspaceInvariant
    NobodyIsOvertaken
PROPERTIES
    UserTabIsLeftAlone
