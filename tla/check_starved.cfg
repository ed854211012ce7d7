\* Three of four domains wait for their DNS records; one domain per interval.
SPECIFICATION FairSpec
CONSTANTS
    NumDomains = 4
    MaxUnpublished = 3
    Batch = 1
    Lease = 3
    BackoffFirst = 3
    BackoffLast = 5
    RevalidateInterval = 8
PROPERTY EveryDueCheckRuns
CHECK_DEADLOCK FALSE
