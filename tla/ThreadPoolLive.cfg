CONSTANTS
    Clients = {o, c}
    Owner = o
    NumWorkers = 2
    Thunks = {t1, t2}
    NoOne = NoOne
    NoThunk = NoThunk
    MaxWaits = 1
    MaxSpurious = 0
    FreedSlotSurvives = TRUE
SPECIFICATION FairSpec
PROPERTIES SleeperWoken ShutdownCompletes ImplementsFairWorkPool
CHECK_DEADLOCK FALSE
