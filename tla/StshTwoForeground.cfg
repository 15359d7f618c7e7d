CONSTANTS
    MaxProcs = 2
    MaxJobs = 2
SPECIFICATION Spec
INVARIANT AtMostOneForeground
CHECK_DEADLOCK FALSE
