\* PostgreSQL: one domain, two tokens, a worker beside a re-issue or deletion,
\* or two re-issues or deletions and a third token.
CONSTANTS
    Applications = {a1}
    Hostnames = {h1}
    Domains = {d1}
    Claims = {c1, c2, c3}
    Workers = {w1}
    Requests = {r1, r2}
    Backend = "postgresql"
    SlowRuns = FALSE
    None = None
    SpareClaim = c3
    SpareRequest = r2
SPECIFICATION MCSpec
SYMMETRY Symmetry
CHECK_DEADLOCK FALSE
INVARIANTS
    TypeOK
    AuthorizedIsProven
    OneLiveClaim
PROPERTIES
    KeepsContract
