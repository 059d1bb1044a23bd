CONSTANTS
    Dirs <- SomeDirs
    Ignored = {"n"}
    MaxDepth = 2
    MaxDirs = 2
    MaxChanged = 2
SPECIFICATION GitSpec
INVARIANTS DiffIsOfListedFile ListedScopesShowTheirRepository ScanFindsRepositories
CHECK_DEADLOCK FALSE
