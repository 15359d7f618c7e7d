CONSTANTS
    NumCPUs = 2
    MaxNumbers = 1
SPECIFICATION Spec
INVARIANT WorkerFound
CHECK_DEADLOCK FALSE
