SPECIFICATION MCSpec
CONSTANTS
    admin = admin  dev = dev  peer = peer  a = a  b = b  c = c
    general = general  team = team  k = k
    Principals = {admin, dev, peer}
    Admins = {admin}
    Agents = {a, b}
    Owner <- MCOwner
    Buses = {general, team}
    General = general
    Device = dev
    Keys = {}
    NoKey = NoKey
    Outcomes = {"delivered"}
    MESSAGE_TTL = 1
    LEASE_TTL = 1
    RECEIPT_RETENTION = 1
    MAX_PENDING = 2
    POLL_LIMIT = 1
    MaxId = 1
    MaxTime = 3
    Budgets <- MCRemoval
    MaxFaults = 0
INVARIANTS OtherBusesUnaffected
CHECK_DEADLOCK FALSE
