\* Two calls to issue an assertion key, on PostgreSQL.
SPECIFICATION Spec
CONSTANTS
    Backends = {"postgresql"}
    Subjects = {"keys"}
    Calls = {c1, c2}
    Delays = {0, 1}
    Never = 9
    MaxRows = 4
    MaxClock = 1
    None = None
INVARIANT NeverMoreThanTwoLive
CHECK_DEADLOCK FALSE
