\* Rotations of a webhook's secret one after the other, on either backend.
SPECIFICATION Spec
CONSTANTS
    Backends = {"sqlite", "postgresql"}
    Subjects = {"secret"}
    Calls = {c1}
    Delays = {2}
    Never = 9
    MaxRows = 4
    MaxClock = 2
    None = None
PROPERTY PreviousKeepsSigning
CHECK_DEADLOCK FALSE
