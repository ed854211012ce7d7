\* SQLite: one domain, two tokens, a worker beside a re-issue or deletion,
\* or two workers; the queue of checks with the bounds MCChecks gives it.
CONSTANTS
    Applications = {a1}
    Hostnames = {h1}
    Domains = {d1}
    Claims = {c1, c2}
    Workers = {w1, w2}
    Requests = {r1}
    Backend = "sqlite"
    SlowRuns = TRUE
    None = None
    Names = {host, target, a, b}
    Host = host
    Target = target
    Unavailable = unavailable
    MaxHops = 2
    BackoffFirst = 1
    BackoffLast = 2
    RevalidateInterval = 3
    Grace = 4
    ExpiryWarning = 4
    Lifetimes = {6, 12}
    LongLived = 24
    MaxOutChanges = 3
    MaxOutClock = 13
    ZoneWorkers = {z1, z2}
    ZoneHosts <- NestedHosts
    Suffixes <- PublicSuffix
    Templates = {t1, t2}
    ZoneTtl = 2
    RetryTtl = 1
    Retention = 1
    MaxChanges = 1
    MaxClock = 2
    EdgeApps = {e1, e2}
    MaxServed = 3
    MaxRuns = 3
    EdgeHosts = {f1, f2}
    OriginNames = {1, 2}
    Addresses = {1, 2}
    Targets = {g1, g2}
    EdgeTarget = g1
    Ranges = {range}
SPECIFICATION ChecksSpec
SYMMETRY Symmetry
CHECK_DEADLOCK FALSE
INVARIANTS
    ReadyMeansChecked
    TombstoneIsFinal
    ServedIsCurrent
    RoutingIsReachability
    CheckedInTurn
    OfferedWasProven
    TrafficIsAccurate
    EdgeAgrees
PROPERTIES
    StatusMovesAllowed
    SuspendedAfterGrace
    ZonesKept
    AcceptedIsVouched
