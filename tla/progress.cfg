\* One delivery and two webhook workers, one replay and one crash; SQLite with one
\* domain, two tokens and one checks worker; one hostname that two applications take
\* from each other and two reconcilers.  Liveness, so no symmetry.
CONSTANTS
    Subscriptions = {s1}
    EventTypes = {"domain.deleted"}
    Workers = {w1, w2}
    Requests = {r1}
    MAX_ATTEMPTS = 2
    MAX_SUBSCRIPTIONS = 1
    MaxEvents = 1
    MaxReplays = 1
    MaxCrashes = 1
    None = None
    Applications = {a1}
    Hostnames = {h1}
    Domains = {d1}
    Claims = {c1, c2}
    CheckWorkers = {w1}
    CheckRequests = {r1}
    Backend = "sqlite"
    SlowRuns = FALSE
    FirstClaim = c1
    EdgeApps = {a1, a2}
    EdgeHosts = {h1}
    Reconcilers = {p1, p2}
    MaxEdgeChanges = 7
    MaxEdgeFaults = 1
    FirstApp = a1
SPECIFICATION FairProgress
INVARIANTS
    TypeOK
    HonestOutcome
    DeletionAnnounced
    NoForeignOrigin
PROPERTIES
    DeliveredStays
    EverythingSettles
    Recovers
    SnapshotsInOrder
    EdgeConverges
CHECK_DEADLOCK FALSE
