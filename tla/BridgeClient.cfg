SPECIFICATION BridgeFairSpec
CONSTANTS
    MaxPending = 2
    MaxRetries = 2
    Faults = {"refuse", "close", "api"}
    MaxSends = 6
    MaxFaults = 3
INVARIANTS InOrder TimersMatchConnection ProbeBudget NeverShownDownWhileUp
PROPERTIES Reconnects
