CONSTANTS
    Clients = {o, c}
    Owner = o
    NumWorkers = 2
    Thunks = {t1, t2, t3}
    NoOne = NoOne
    NoThunk = NoThunk
    MaxWaits = 2
    MaxSpurious = 1
    FreedSlotSurvives = TRUE
SPECIFICATION Spec
SYMMETRY Symmetry
INVARIANTS TypeOK AssertsHold RunsEachOnce StopLosesNothing StopsOnlyByLostWakeup
PROPERTY WaitSound
CHECK_DEADLOCK FALSE
