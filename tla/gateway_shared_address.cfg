\* Two applications whose https origins may share an address; nothing changes.
CONSTANTS
    Applications = {a, b}
    Hostnames = {h1, h2}
    Names = {1, 2}
    Addresses = {1, 2}
    Targets = {t1, t2}
    EdgeTarget = t1
    Ranges = {r}
    None = None
    MaxChanges = 0
SPECIFICATION Spec
INVARIANT ReconcilerConfigAccepted
CHECK_DEADLOCK FALSE
