\* Two open requests for a link to one domain, whose window allows one.
SPECIFICATION Spec
CONSTANTS
    Backends = {"sqlite", "postgresql"}
    Calls = {c1, c2}
    None = None
    SettingsSigner = local
    OperatorSigners = {remote}
    Window = 1
    MaxClock = 1
    MaxLinks = 1
    MaxSessions = 1
    FastWindow = 2
    FastInterval = 1
    Backoff = 3
    Lease = 2
    Ttls = {2}
    MaxTokens = 2
    MaxIssued = 2
    MaxPages = 1
INVARIANT LinksLimited
CHECK_DEADLOCK FALSE
