\* PostgreSQL: a deletion commits inside a worker's applying transaction.
CONSTANTS
    Applications = {a1}
    Hostnames = {h1}
    Domains = {d1}
    Claims = {c1}
    Workers = {w1}
    Requests = {r1}
    Backend = "postgresql"
    SlowRuns = FALSE
    None = None
SPECIFICATION Spec
CHECK_DEADLOCK FALSE
INVARIANTS
    TombstoneIsFinal
