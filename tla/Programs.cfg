CONSTANTS
    NumberLines <- SomeNumberLines
    ErrorLines <- SomeErrorLines
    SourceTrees <- SomeSourceTrees
    Pointers <- SomePointers
    NoFile = NoFile
    Calls <- SomeCalls
    CommandLines <- SomeCommandLines
    ExitGroup = 231
    Half = 8
    MaxCalls = 2
    MaxSignals = 2
    MaxRuns = 2
SPECIFICATION Programs
INVARIANTS InodesDumped PathsDumped SearchExact ShownInOrder SignaturesTrue TraceExact MessageExact MessageKept
CHECK_DEADLOCK FALSE
