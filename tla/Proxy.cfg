CONSTANTS
    Sends <- SomeSends
    BlockedFile <- SomeBlocked
    Own = {"p1", "p2"}
    Answers <- SomeAnswers
    ProxyAddress = "p"
    Garbage = "g"
    MutexOf <- SomeMutex
    NumThreads = 4
    Arguments <- SomeArguments
    Bad = Bad
    NoServer = "none"
    MaxClients = 2
    MaxConnections = 6
    MaxTime = 2
    MaxMisreads = 1
    MaxKills = 1
SPECIFICATION Spec
INVARIANTS HitsAreOwn AloneMeansSafe AnswersOnce LoopsAreCut StuckOnlyInLoop
PROPERTIES HitsAreFresh
CHECK_DEADLOCK FALSE
