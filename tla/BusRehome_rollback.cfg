SPECIFICATION Spec
CONSTANTS
    s1 = s1  m1 = m1
    Sessions = {s1}
    Buses = {general, team}
    Mail = {m1}
    Target <- MCTarget
    general = general  team = team
    MaxWindow = 2
    MaxChanges = 3
    MaxCrashes = 0
    MaxFailures = 1
INVARIANTS RollbackReachable
CHECK_DEADLOCK FALSE
