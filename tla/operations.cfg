\* Two calls at a time, on either backend.
CONSTANTS
    Backends = {"sqlite", "postgresql"}
    Subjects = {"keys", "credentials", "secret", "origins"}
    Calls = {c1, c2}
    Delays = {0, 2}
    Never = 9
    MaxRows = 4
    MaxClock = 2
    None = None
    SettingsSigner = local
    OperatorSigners = {remote}
    Window = 1
    ConnectClock = 1
    MaxLinks = 1
    MaxSessions = 1
    FastWindow = 2
    FastInterval = 1
    Backoff = 3
    Lease = 2
    Ttls = {2}
    MaxTokens = 2
    MaxIssued = 2
    MaxPages = 1
    Kinds = {"origin", "key", "domain", "credential", "webhook", "gates"}
    Tokens = {1, 2}
    Passwords = {"p1", "p2"}
    MaxApps = 2
    MaxChildren = 2
    Ttl = 1
SPECIFICATION OperationsSpec
SYMMETRY Symmetry
CHECK_DEADLOCK FALSE
INVARIANTS
    TrustedIsInForce
    LinksKeepTheirPromise
    DeletionSticks
    GatesFollowTheSecrets
PROPERTIES
    RotationIsSafe
    LinksFollowTheDomain
    CommitsAsMeant
