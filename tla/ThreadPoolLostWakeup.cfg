CONSTANTS
    Clients = {o, c}
    Owner = o
    NumWorkers = 1
    Thunks = {t1}
    NoOne = NoOne
    NoThunk = NoThunk
    MaxWaits = 1
    MaxSpurious = 0
    FreedSlotSurvives = TRUE
SPECIFICATION FairSpec
PROPERTY WaitReturns
CHECK_DEADLOCK FALSE
