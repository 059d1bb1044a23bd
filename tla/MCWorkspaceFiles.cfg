CONSTANTS
    c1 = c1
    t1 = t1
    s1 = s1
    s2 = s2
    Conns = {c1}
    Tabs = {t1}
    Paths <- TwoFiles
    Slots = {s1, s2}
    Kinds <- SavesBesideAll
    MaxVersion = 3
SPECIFICATION FilesSpec
INVARIANTS OverwritesAreRaced EtagIsOfContent
CHECK_DEADLOCK FALSE

