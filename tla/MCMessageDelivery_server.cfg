\* Two tabs with the same entries, and every kind of trouble.
CONSTANTS
    a = a
    q = q
    b = b
    t1 = t1
    t2 = t2
    Msgs = {a}
    Tabs = {t1, t2}
    Faults = {"drop", "close", "crash", "save", "bridge", "clear", "quota"}
    MaxFaults = 3
    Policy <- MCPolicy
    Big <- MCBig
SPECIFICATION Spec
SYMMETRY TabSymmetry
INVARIANTS PromptedOncePerRow
PROPERTIES IntakeSpec
