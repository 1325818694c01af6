SPECIFICATION FairSpec
CONSTANTS
    Names = {n}
    Ids = {x, y}
    Handlers = {h}
    SEEN_TAIL = 1
    MaxLines = 3
    MaxChanges = 1
    MaxTroubles = 1
INVARIANTS CursorTellsTheTruth InOrderOncePerTrouble StoredOnce
PROPERTIES MailReachesSession
CHECK_DEADLOCK FALSE
