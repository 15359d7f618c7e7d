CONSTANTS
    Clients = {o, c}
    Owner = o
    NumWorkers = 1
    Thunks = {t1}
    NoOne = NoOne
    NoThunk = NoThunk
    MaxWaits = 1
    MaxSpurious = 0
    FreedSlotSurvives = FALSE
SPECIFICATION Spec
INVARIANT RunsScheduledClosure
CHECK_DEADLOCK FALSE
