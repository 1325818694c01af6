SPECIFICATION MCSpec
CONSTANTS
    admin = admin  p = p  q = q  a = a  b = b
    general = general  team = team  k = k
    Principals = {admin, p, q}
    Admins = {admin}
    Agents = {a, b}
    Owner <- MCOwner
    Buses = {general, team}
    General = general
    Keys = {k}
    NoKey = NoKey
    Outcomes = {"delivered"}
    MESSAGE_TTL = 2
    LEASE_TTL = 1
    RECEIPT_RETENTION = 2
    MAX_PENDING = 2
    POLL_LIMIT = 1
    MaxId = 3
    MaxTime = 5
    Budgets <- MCBudgets
SYMMETRY Swap
INVARIANTS NoDangling MailAdmitted HeadOfLine ReplyConfined BoundedQueue AnsweredOnce
PROPERTIES ImplementsQueue ClosedForGood UnpublishedEnds
CHECK_DEADLOCK FALSE
