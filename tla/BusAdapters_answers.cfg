SPECIFICATION MCSpec
CONSTANTS
    admin = admin  dev = dev  peer = peer  a = a  b = b  c = c
    general = general  team = team  k = k
    Principals = {admin, dev, peer}
    Admins = {admin}
    Agents = {a, c}
    Owner <- MCOwner
    Buses = {general, team}
    General = general
    Device = dev
    Keys = {}
    NoKey = NoKey
    Outcomes = {"delivered"}
    MESSAGE_TTL = 2
    LEASE_TTL = 1
    RECEIPT_RETENTION = 2
    MAX_PENDING = 2
    POLL_LIMIT = 1
    MaxId = 1
    MaxTime = 2
    Budgets <- MCBudgets
    MaxFaults = 1
INVARIANTS AnswersReachable PublishedIsPolled
CHECK_DEADLOCK FALSE
