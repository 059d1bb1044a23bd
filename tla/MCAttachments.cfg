CONSTANTS
    f1 = f1
    g1 = g1
    x = x
    u = u
    v = v
    Files = {f1, g1}
    External = {x}
    Bubbles = {u, v}
    Picked <- TwoAndOne
    NameOf <- SameName
    MaxSuffix = 2
    MaxTries = 3
    MaxFaults = 1
SPECIFICATION FairSpec
INVARIANTS HandedFilesAreWhole NoHalfFileStays ToldOnceWhenSent
PROPERTY EveryUploadEnds
CHECK_DEADLOCK FALSE
