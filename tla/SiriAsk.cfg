\* Three tasks, two at a time, one process that ignores SIGTERM.
CONSTANTS
    MaxInflight = 2
    MaxTasks = 3
    Stubborn = {1}
    Resident = TRUE
SPECIFICATION AskFairSpec
INVARIANTS FewProcesses PromiseIsKept DelegatedMeansHanded
PROPERTIES EveryAskIsAnswered
CHECK_DEADLOCK FALSE
