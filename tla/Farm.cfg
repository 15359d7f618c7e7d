CONSTANTS
    NumCPUs = 3
    MaxNumbers = 4
SPECIFICATION FairSpec
INVARIANTS AbortsOnlyInRace CountExact OnlyIdleGetWork EachNumberOnce
PROPERTY FarmEnds
CHECK_DEADLOCK FALSE
