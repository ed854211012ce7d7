\* Registration with two applications, two requests at a time, three names and
\* one key each; the throttles with the bounds MCRequests gives them.
CONSTANTS
    Applications = {a1, a2}
    Hostnames = {h1, h2, h3}
    Keys = {k1}
    Requests = {r1, r2}
    None = None
    MAX_DOMAINS = 2
    ApplicationLimits = {1, None}
    IDEMPOTENCY_TTL = 2
    REGISTRATION_WINDOW = 2
    REGISTRATION_MAX_PER_WINDOW = 2
    MaxClock = 2
    MaxRows = 3
    Clients = {c1, c2, c3}
    V6Clients = {c1, c2}
    Prefix48 = p
    LegacyHosts = {l1, l2}
    Upstreams = {u1, u2}
    BadUpstream = bad
    Absent = absent
    Torn = torn
    Unknown = unknown
    MaxRequests = 4
SPECIFICATION RequestsSpec
SYMMETRY Symmetry
CHECK_DEADLOCK FALSE
INVARIANTS
    KeysHonoured
    RegistrationsPaced
    SomeoneGoesOn
    ThrottledByTheWindow
    AnsweredIsSaved
PROPERTIES
    LimitsHold
