SPECIFICATION Spec
CONSTANTS
    Writers = {r1}
    Requests = {r1}
    Tabs = {t1}
    Panels = {p, q}
    Titles = {a}
    Keep = 2
    Overtaking = FALSE
    Before = 1
    MaxVersion = 2
    None = None
PROPERTY NavigationLosesNothing
CHECK_DEADLOCK FALSE
