SPECIFICATION Spec
CONSTANTS
    Tabs = {t1, t2}
    None = None
    Rotates = TRUE
    MaxSignIns = 2
    MaxDue = 1
    MaxRevocations = 1
    MaxFaults = 1
INVARIANTS EndedIsTrue StaysEnded
PROPERTY TabsGoOn
CHECK_DEADLOCK FALSE
