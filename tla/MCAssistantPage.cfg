CONSTANTS
    j = j
    k = k
    d = d
    i = i
    s = s
    t = t
    Tabs = {Page, other}
    other = other
    Page = Page
    Items = {i}
    Deliverables = {d}
    Timers = {s, t}
    ItemChats = {j, k}
    MaxEvents = 4
SPECIFICATION Spec
SYMMETRY Alike
INVARIANTS UnreadReachesEveryTab DismissedStaysAway PromptedOnce 
CHECK_DEADLOCK FALSE
