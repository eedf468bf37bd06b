SPECIFICATION Spec
CONSTANTS
    Writers = {r1, w}
    Requests = {r1}
    Tabs = {t1, t2}
    Panels = {p, q}
    Titles = {a, b}
    Keep = 2
    Overtaking = FALSE
    Before = 2
    MaxVersion = 3
    None = None
SYMMETRY Symmetry
INVARIANTS EditingTypeOK LostToAnother DraftHoldsWork
PROPERTIES IsAHistory NoSilentWin
CHECK_DEADLOCK FALSE
CONSTRAINT OnePage
