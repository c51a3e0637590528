SPECIFICATION BackgroundSpec
CONSTANTS
    \* cascade
    a = a
    b = b
    go = go
    back = back
    r1 = r1
    r2 = r2
    Steps <- MCSteps
    Start = a
    RuleSeq <- MCRuleSeq
    Shape <- MCShape
    Callers = {c1}
    Nothing = Nothing
    MaxDepth = 2
    \* edge
    Tokens = {t1, t2}
    Commands = {c1}
    Polls = {p1, p2}
    Events = {e1, e2}
    Storable = {e1}
    Batch = 2
    Troubles = 1
    \* feed
    Granters = {o1, o2}
    Screens = {s1}
    MaxChanges = 3
    NotYet = NotYet
    \* reminders
    f1 = f1
    f2 = f2
    i1 = i1
    i2 = i2
    Firms = {f1, f2}
    Items = {i1, i2}
    FirmOf <- MCFirmOf
    Parts = 2
    Mishaps = 1
    \* reports
    Reports = {p1, p2}
    Restarts = 1
    NoReport = NoReport
    \* scheduler
    Rules = {r1, r2}
    Runs = {n1, n2, n3}
    Owners = {o1}
    Cap = 1
    Patches <- MCPatches
    None = None
    Deleted = Deleted
    Faults = 1
INVARIANTS
    BackgroundTypeOK
    OneRunAhead
PROPERTIES
    ClaimSettles
    AgentsAreServed
    ScreensCatchUp
    ScheduleServed
    CascadesKeepBounds
    TimersServe
CHECK_DEADLOCK FALSE
