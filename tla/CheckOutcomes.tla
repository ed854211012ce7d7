--------------------------- MODULE CheckOutcomes ---------------------------
(***************************************************************************)
(* One registered hostname, the checks of it, and the clock: what each     *)
(* check makes of DNS, the edge and the origin, when it runs again, and    *)
(* what the outcomes do to the status.  DomainLifecycle has the races; here *)
(* a check runs as soon as it is due and the outside world changes at any  *)
(* time.  A behaviour is about one part of that world, its subject.        *)
(***************************************************************************)
EXTENDS Integers, Sequences

CONSTANTS
    Names, Host, Target,    \* DNS names: the hostname and the claim's cname_target are two
    None, Unavailable,      \* no record; no answer
    MaxHops,                \* MAX_CNAME_HOPS
    BackoffFirst, BackoffLast,      \* BACKOFF
    RevalidateInterval,     \* REVALIDATE_INTERVAL
    Grace,                  \* OWNERSHIP_LOSS_GRACE
    ExpiryWarning,          \* CERTIFICATE_EXPIRY_WARNING
    Lifetimes,              \* of certificates; thirds are whole
    LongLived,              \* one that outlasts the behaviour
    MaxChanges, MaxClock

VARIABLES
    subject,
    txt,            \* the TXT records
    cname,          \* the CNAME record of each name
    cert,           \* the certificate the edge serves for the hostname
    edge,           \* who answers the health path
    origin,         \* what the workspace path answers
    status, verified,
    check,          \* domain_checks: status, attempts, failing_since
    next,           \* when a pair of checks is due
    now, changes,
    owned,          \* history: when the ownership check last passed
    broken          \* history: since when each check would fail, or -1

world == <<txt, cname, cert, edge, origin>>
row == <<status, verified, check, next>>
vars == <<subject, world, row, now, changes, owned, broken>>

\* What is asked of the constants: the service's target is not the customer's
\* hostname, times are numbers, and the backoff grows.
OutcomesConstants ==
    /\ Host \in Names /\ Host # Target /\ MaxHops \in Nat
    /\ BackoffFirst \in Nat /\ BackoffLast \in Nat /\ BackoffFirst <= BackoffLast
    /\ RevalidateInterval \in Nat /\ Grace \in Nat /\ ExpiryWarning \in Nat
    /\ Lifetimes \cup {LongLived} \subseteq Nat

Pairs == {"dns", "edge"}
DnsTypes == {"ownership", "routing"}
EdgeTypes == {"certificate", "origin"}
CheckType == DnsTypes \cup EdgeTypes
Subjects == {"answers", "routing", "certificate"}
TxtAnswers == {"current", "other", "unavailable"}   \* other: stale, foreign or no records
EdgeAnswers == {"ours", "other"}    \* other: another server, an untrusted certificate, nobody
OriginAnswers == {"right", "wrong", "error"}    \* wrong: another workspace or application
BACKOFF == <<BackoffFirst, BackoffLast>>
Horizon == MaxClock + RevalidateInterval

TypeOK ==
    /\ subject \in Subjects
    /\ txt \in TxtAnswers
    /\ cname \in [Names -> Names \cup {None, Unavailable}]
    /\ cert.not_after - cert.not_before \in Lifetimes \cup {LongLived} /\ cert.not_before \in 0..now
    /\ edge \in EdgeAnswers /\ origin \in OriginAnswers
    /\ status \in {"pending_dns", "provisioning", "ready", "attention_required", "suspended"}
    /\ verified \in BOOLEAN
    /\ check \in [CheckType -> [status : {"pending", "passing", "failing"},
                                attempts : 0..Len(BACKOFF), since : -1..now]]
    /\ \A t \in CheckType : (check[t].status = "failing") = (check[t].since >= 0)
    /\ next \in [Pairs -> 0..Horizon]
    /\ now \in 0..MaxClock /\ changes \in 0..MaxChanges
    /\ owned \in -1..now
    /\ broken \in [CheckType -> -1..now]

-----------------------------------------------------------------------------
(* Outcomes. *)

\* The claim's value is among the TXT records.
ownership_outcome == txt = "current"

\* The names a chain of CNAMEs from the hostname goes through: hop by hop,
\* until there is no answer or none that is new, or the target is met.
Hops_OneMore == MaxHops + 1
Hops == MaxHops

cname_chain(record) ==
    LET chain[k \in 0..Hops] ==
            IF k = 0 THEN <<Host>>
            ELSE LET before == chain[k - 1]
                     at == before[Len(before)]
                     to == record[at]
                 IN IF Len(before) # k \/ to \notin Names \/ to = at \/ at = Target
                       \/ \E i \in 2..Len(before) : before[i] = to
                    THEN before ELSE Append(before, to)
    IN Tail(chain[Hops])

Leads(chain) == \E i \in DOMAIN chain : chain[i] = Target
routing_outcome == Leads(cname_chain(cname))

Least(a, b) == IF a < b THEN a ELSE b

\* Expiring: within a week, or within a third of a short lifetime.
Warning(c) == Least(ExpiryWarning, (c.not_after - c.not_before) \div 3)
Expiring(c) == c.not_after - now <= 0 \/ c.not_after - now < Warning(c)
certificate_outcome == edge = "ours" /\ ~Expiring(cert)

\* Error: the application has no verified active origin, the edge cannot be
\* reached, or the answer is not the origin's reference of the domain.
origin_outcome == origin = "right"

Outcome(t) == CASE t = "ownership" -> ownership_outcome
                [] t = "routing" -> routing_outcome
                [] t = "certificate" -> certificate_outcome
                [] t = "origin" -> origin_outcome

-----------------------------------------------------------------------------
(* Recording an outcome. *)

Attempt(n) == BACKOFF[Least(n, Len(BACKOFF))]

Since_Kept(before, passes) == IF before.since >= 0 THEN before.since ELSE IF passes THEN -1 ELSE now
Since_Restarted(before, passes) == IF passes THEN -1 ELSE now
Since(before, passes) == IF passes THEN -1 ELSE IF before.since >= 0 THEN before.since ELSE now

\* The row record_check writes, with the details of schedule_next.
record_check(before, passes) ==
    [status |-> IF passes THEN "passing" ELSE "failing",
     attempts |-> IF passes THEN 0 ELSE Least(before.attempts + 1, Len(BACKOFF)),
     since |-> Since(before, passes)]

schedule_next(before, passes) ==
    IF passes THEN now + RevalidateInterval ELSE now + Attempt(before.attempts + 1)

\* A pair is due when one of its checks is.
DuePair(a, b) == Least(schedule_next(check[a], Outcome(a)), schedule_next(check[b], Outcome(b)))

AfterDns(recorded) ==
    LET seen == IF status = "ready" /\ ~(ownership_outcome /\ routing_outcome)
                THEN "attention_required" ELSE status
        lost == /\ ~ownership_outcome /\ verified
                /\ now - recorded["ownership"].since >= Grace
    IN IF ownership_outcome /\ routing_outcome
       THEN CASE seen \in {"pending_dns", "suspended"} -> "provisioning"
              [] seen = "attention_required" /\ \A t \in CheckType : recorded[t].status = "passing"
                   -> "ready"
              [] OTHER -> seen
       ELSE CASE seen = "provisioning" -> "pending_dns"
              [] seen = "attention_required" /\ lost -> "suspended"
              [] OTHER -> seen

\* The edge checks follow a change of status at once.
apply_dns_outcomes ==
    /\ next["dns"] <= now
    /\ check' = [t \in CheckType |->
                   IF t \in DnsTypes THEN record_check(check[t], Outcome(t)) ELSE check[t]]
    /\ status' = AfterDns(check')
    /\ verified' = (verified \/ (ownership_outcome /\ routing_outcome))
    /\ next' = [next EXCEPT !["dns"] = DuePair("ownership", "routing"),
                            !["edge"] = IF status' # status THEN now ELSE @]
    /\ owned' = IF ownership_outcome THEN now ELSE owned
    /\ UNCHANGED <<subject, world, now, changes, broken>>

certificate_authorized == status \notin {"pending_dns", "suspended"} /\ verified

apply_edge_outcomes ==
    /\ next["edge"] <= now /\ next["dns"] > now
    /\ certificate_authorized
    /\ check' = [t \in CheckType |->
                   IF t \in EdgeTypes THEN record_check(check[t], Outcome(t)) ELSE check[t]]
    /\ LET seen == IF status = "ready" /\ ~(certificate_outcome /\ origin_outcome)
                   THEN "attention_required" ELSE status
       IN status' = IF seen \in {"provisioning", "attention_required"}
                       /\ \A t \in CheckType : check'[t].status = "passing"
                    THEN "ready" ELSE seen
    /\ next' = [next EXCEPT !["edge"] = DuePair("certificate", "origin")]
    /\ UNCHANGED <<subject, world, verified, now, changes, owned, broken>>

-----------------------------------------------------------------------------
(* The world and the clock. *)

\* Since when each check would fail, once the world has changed.
StillBroken == [t \in CheckType |-> IF Outcome(t)' THEN -1 ELSE IF broken[t] < 0 THEN now' ELSE broken[t]]

Unchecked == [status |-> "pending", attempts |-> 0, since |-> -1]
GoodCnames == [n \in Names |-> IF n = Host THEN Target ELSE None]

Init ==
    /\ subject \in Subjects
    /\ txt = "current"
    /\ cname \in IF subject = "routing"
                  THEN {c \in [Names -> Names \cup {None, Unavailable}] : c[Target] = None}
                  ELSE {GoodCnames}
    /\ \E l \in IF subject = "certificate" THEN Lifetimes ELSE {LongLived} :
         cert = [not_before |-> 0, not_after |-> l]
    /\ edge = "ours" /\ origin = "right"
    /\ status = "pending_dns" /\ verified = FALSE
    /\ check = [t \in CheckType |-> Unchecked]
    /\ next = [p \in Pairs |-> 0]
    /\ now = 0 /\ changes = 0 /\ owned = -1
    /\ broken = [t \in CheckType |-> IF Outcome(t) THEN -1 ELSE 0]

\* The customer, the network, the certificate authority or the origin.
Changes ==
    /\ changes < MaxChanges /\ changes' = changes + 1
    /\ \/ subject \in {"answers", "certificate"} /\ txt' \in TxtAnswers /\ UNCHANGED <<cname, cert, edge, origin>>
       \/ subject = "routing"
          /\ cname \in {GoodCnames, [GoodCnames EXCEPT ![Host] = None]}
          /\ \E to \in {Target, None} : cname' = [cname EXCEPT ![Host] = to]
          /\ UNCHANGED <<txt, cert, edge, origin>>
       \/ subject = "certificate"
          /\ \E l \in Lifetimes : cert' = [not_before |-> now, not_after |-> now + l]
          /\ cert'.not_after > cert.not_after
          /\ UNCHANGED <<txt, cname, edge, origin>>
       \/ subject = "answers" /\ edge' \in EdgeAnswers /\ UNCHANGED <<txt, cname, cert, origin>>
       \/ subject = "answers" /\ origin' \in OriginAnswers /\ UNCHANGED <<txt, cname, cert, edge>>
    /\ world' # world
    /\ UNCHANGED <<subject, row, now, owned>>
    /\ broken' = StillBroken

\* Checks run when they are due; those of a domain that may have no
\* certificate are put off.
Tick ==
    /\ now < MaxClock
    /\ next["dns"] > now /\ (next["edge"] > now \/ ~certificate_authorized)
    /\ now' = now + 1
    /\ UNCHANGED <<subject, world, row, changes, owned>>
    /\ broken' = StillBroken

Next == apply_dns_outcomes \/ apply_edge_outcomes \/ Changes \/ Tick

Spec == Init /\ [][Next]_vars

-----------------------------------------------------------------------------
(* Properties. *)

\* A domain is not ready for longer than REVALIDATE_INTERVAL after one of its
\* checks would have failed: DNS taken away, a certificate about to expire,
\* another server answering, or an origin serving another workspace.
DriftCaught ==
    status = "ready" => \A t \in CheckType : broken[t] >= 0 => now - broken[t] <= RevalidateInterval

\* However long renewal fails, the certificate of a ready domain has not expired
\* if the warning is given a whole REVALIDATE_INTERVAL before; a certificate of
\* so short a life that it is not (the internal authority's twelve hours, of
\* which four are the warning) has expired for less than what is missing.
ReadyIsCertified ==
    status = "ready" /\ next["edge"] > now
        => now - cert.not_after < RevalidateInterval - Warning(cert)

\* What SuspendedAfterGrace asks of one step.
SuspendedAfterGraceStep ==
    status' = "suspended" /\ status # "suspended" => owned >= 0 /\ now - owned >= Grace

\* Service is suspended for loss of ownership only when no check has seen
\* the record for the whole grace period: failures before a pass do not count.
SuspendedAfterGrace == [][SuspendedAfterGraceStep]_vars

\* A customer who removes the ownership record loses the service for good no
\* later than the next revalidation, the grace period and one backoff.
LossEnforced ==
    status \in {"ready", "attention_required"} /\ broken["ownership"] >= 0
        => now - broken["ownership"] <= RevalidateInterval + Grace + BackoffLast

\* A domain stays in service no longer than the world justifies: drift of its
\* records, certificate, edge or origin is found within REVALIDATE_INTERVAL,
\* its certificate has not expired by more than that interval exceeds the
\* warning, and a lost ownership record ends the service after the grace period.
ServedIsCurrent == DriftCaught /\ ReadyIsCertified /\ LossEnforced

\* The routing check passes exactly when following CNAMEs from the hostname
\* leads to the target in at most MAX_CNAME_HOPS steps, loops or not.
RoutingIsReachability ==
    LET to[k \in 0..MaxHops] == IF k = 0 THEN {Host}
                                ELSE {cname[n] : n \in to[k - 1]} \cap Names
    IN routing_outcome = (\E k \in 1..MaxHops : Target \in to[k])
=============================================================================
