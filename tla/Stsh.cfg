CONSTANTS
    MaxProcs = 2
    MaxJobs = 2
SPECIFICATION Spec
INVARIANTS
    ListMatchesKernel
    PromptMeansBackground
    TerminalAtPrompt
    SleepJustified
    EchoesOnlyForEmptyJob
CHECK_DEADLOCK FALSE
