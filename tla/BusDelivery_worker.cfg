SPECIFICATION MCSpec
CONSTANTS
    a = a  b = b
    Agents = {a, b}
    MaxMsg = 2
    MaxCrashes = 1
    MaxStops = 1
    MaxLosses = 1
    Tokens = 2
INVARIANTS OncePerCrash InQueueOrder ReceiptIsTrue
PROPERTIES IsQueue AllSettle
CHECK_DEADLOCK FALSE
