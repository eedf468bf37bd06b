SPECIFICATION Spec
CONSTANTS
    Writers = {r1, r2, w}
    Requests = {r1, r2}
    Tabs = {t1, t2}
    Panels = {p, q}
    Titles = {a, b}
    Keep = 2
    Overtaking = FALSE
    Before = 2
    MaxVersion = 3
    None = None
CHECK_DEADLOCK FALSE
PROPERTY SavedHoldsDraft
