CONSTANTS
    d1 = d1
    d2 = d2
    d3 = d3
    Data = {d1, d2, d3}
    NumThreads = 3
    Input <- SomeInput
    NoOne = NoOne
    NoDatum = NoDatum
    MaxSpurious = 1
SPECIFICATION FairSpec
INVARIANTS PrintsInOrder RegisteredOnce
PROPERTY AllPrinted
CHECK_DEADLOCK FALSE
