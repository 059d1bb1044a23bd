\* One page with a message of each kind, and an end to its faults.
CONSTANTS
    a = a
    q = q
    b = b
    t1 = t1
    t2 = t2
    Msgs = {a, q, b}
    Tabs = {t1}
    Faults = {"drop", "close", "crash"}
    MaxFaults = 1
    Policy <- MCPolicy
    Big <- MCBig
SPECIFICATION FairSpec
INVARIANTS StubStaysFailed NothingLost
PROPERTIES ManualNotReplayedLate AutoDelivered
