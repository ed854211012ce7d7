\* Two hostnames; Caddy may refuse an upstream, restart or lose its answer.
SPECIFICATION Spec
CONSTANTS
    Hosts = {h1, h2}
    Upstreams = {u1, u2}
    BadUpstream = bad
    None = none
    Absent = absent
    Torn = torn
    Unknown = unknown
    MaxRequests = 4
INVARIANT RefusedChangesNothing
CHECK_DEADLOCK FALSE
