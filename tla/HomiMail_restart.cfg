SPECIFICATION Spec
CONSTANTS
    Names = {n, m}
    Ids = {x}
    Handlers = {}
    SEEN_TAIL = 1
    MaxLines = 1
    MaxChanges = 2
    MaxTroubles = 2
INVARIANTS ClaimSurvivesRestart
CHECK_DEADLOCK FALSE
