\* One chat, pages of one row, two backfills at a time, every fault.
CONSTANTS
    c1 = c1
    Chats = {c1}
    PageSize = 1
    Faults = {"drop", "crash", "fetch", "clear", "delete"}
    MaxReplies = 3
    MaxFaults = 2
    MaxRuns = 2
SPECIFICATION FairSpec
INVARIANTS NothingElseMissed AtMostTwice
PROPERTIES BackfillEnds CatchesUp
CHECK_DEADLOCK FALSE
