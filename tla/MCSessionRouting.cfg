CONSTANTS
    o = o
    n = n
    Sessions = {o, n}
    Existing = {o}
    Default = Default
    None = None
    MaxEvents = 2
SPECIFICATION Spec
VIEW View
INVARIANTS RoutedFramesStayHome WorkingHasAReason ActiveIsListed
CHECK_DEADLOCK FALSE
