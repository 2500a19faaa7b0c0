SPECIFICATION Spec
CONSTANTS
    Jobs = {1, 2}
    Concurrency = 2
    MaxAttempts = 2
    Budget = 2
    Delays = {1}
    DayLength = 1
    Unreported = Unreported
    MaxNow = 1
INVARIANTS BudgetKept OnceOnly
PROPERTY ChargesSettled
CHECK_DEADLOCK FALSE
