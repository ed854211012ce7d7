----------------------------- MODULE CheckQueue -----------------------------
(***************************************************************************)
(* How a checks worker goes through its domains: every interval it takes   *)
(* the first few of those with a check due, in the order of their ids.     *)
(* The unit of time is the interval; times are kept as what is left of     *)
(* them.                                                                   *)
(***************************************************************************)
EXTENDS Integers, FiniteSets

CONSTANTS
    NumDomains,     \* domains, in the order of their ids
    MaxUnpublished, \* how many of them may wait for their DNS records
    Batch,          \* DNS_WORKER_BATCH
    Lease,          \* LEASE
    BackoffFirst, BackoffLast,      \* BACKOFF
    RevalidateInterval

VARIABLES
    published,      \* domains whose DNS records exist
    eligible,       \* domains whose edge checks may run
    left,           \* the time until each pair of checks is due
    attempts,       \* of the DNS checks
    overdue         \* history: intervals a domain with a check due was passed over

vars == <<published, eligible, left, attempts, overdue>>

DomainIds == 1..NumDomains

TypeOK ==
    /\ published \subseteq DomainIds /\ eligible \subseteq published
    /\ left \in [DomainIds -> [dns : 0..RevalidateInterval, edge : 0..RevalidateInterval]]
    /\ attempts \in [DomainIds -> 0..1]
    /\ overdue \in [DomainIds -> 0..(2 * NumDomains)]

\* All registered together, each with its checks never run.
Init ==
    /\ published \in {p \in SUBSET DomainIds : Cardinality(DomainIds \ p) <= MaxUnpublished}
    /\ eligible = {}
    /\ left = [d \in DomainIds |-> [dns |-> 0, edge |-> 0]]
    /\ attempts = [d \in DomainIds |-> 0] /\ overdue = [d \in DomainIds |-> 0]

Least(a, b) == IF a < b THEN a ELSE b

Due(d) == left[d].dns = 0 \/ left[d].edge = 0

due_domain_ids == {d \in DomainIds : Due(d) /\ Cardinality({e \in 1..(d - 1) : Due(e)}) < Batch}

\* The next time for the edge checks of a domain that may have none: the
\* lease the run began with.
PutOff_Not == 0
PutOff == Lease

\* What is left after a domain's run, the checks' outcomes being what the
\* DNS records make them.
process_domain(d) ==
    [dns |-> IF left[d].dns > 0 THEN left[d].dns
             ELSE IF d \in published THEN RevalidateInterval
             ELSE IF attempts[d] = 0 THEN BackoffFirst ELSE BackoffLast,
     edge |-> IF d \in eligible' /\ (left[d].edge = 0 \/ d \notin eligible) THEN RevalidateInterval
              ELSE IF left[d].edge = 0 THEN PutOff ELSE left[d].edge]

Elapsed(l) == [dns |-> IF l.dns = 0 THEN 0 ELSE l.dns - 1, edge |-> IF l.edge = 0 THEN 0 ELSE l.edge - 1]

run_due_checks ==
    /\ eligible' = eligible \cup {d \in due_domain_ids : d \in published /\ left[d].dns = 0}
    /\ left' = [d \in DomainIds |-> Elapsed(IF d \in due_domain_ids THEN process_domain(d) ELSE left[d])]
    /\ attempts' = [d \in DomainIds |->
                      IF d \in due_domain_ids /\ left[d].dns = 0
                      THEN IF d \in published THEN 0 ELSE 1
                      ELSE attempts[d]]
    /\ overdue' = [d \in DomainIds |-> IF Due(d) /\ d \notin due_domain_ids
                                     THEN Least(overdue[d] + 1, 2 * NumDomains) ELSE 0]
    /\ UNCHANGED published

\* A customer creates the records.
Publish(d) ==
    /\ d \notin published
    /\ published' = published \cup {d}
    /\ UNCHANGED <<eligible, left, attempts, overdue>>

Next == run_due_checks \/ \E d \in DomainIds : Publish(d)

Spec == Init /\ [][Next]_vars

\* The worker runs in every interval, for ever (run_forever).
FairSpec == Spec /\ WF_vars(run_due_checks)

-----------------------------------------------------------------------------
(* Properties. *)

\* As long as the worker can lease every waiting domain again in time, no
\* domain with a check due is passed over more often than there are domains.
CheckedInTurn == \A d \in DomainIds : overdue[d] <= NumDomains

\* Every check that is due is run, however many other domains wait for their
\* DNS records ("Check passing: every 6 hours (revalidation)").
EveryDueCheckRuns == \A d \in DomainIds : Due(d) ~> d \in due_domain_ids
=============================================================================
