------------------------------ MODULE MCChecks ------------------------------
(***************************************************************************)
(* DomainLifecycle on SQLite, with a worker beside a request or with two   *)
(* workers on one domain; and the work of the checks worker and the        *)
(* reconciler that DomainLifecycle abstracts and that shares no state with *)
(* it: what a check concludes and when it is due again, the order in which *)
(* due checks are run, the detection of zones, the traffic counters, and   *)
(* the configuration of the edge with its gateway. A behaviour is one of   *)
(* the part in focus; the others stay as they began.                       *)
(***************************************************************************)
EXTENDS LifecycleContract, TLC

CONSTANTS
    Names, Host, Target, Unavailable, MaxHops, BackoffFirst, BackoffLast,
    RevalidateInterval, Grace, ExpiryWarning, Lifetimes, LongLived,
    MaxOutChanges, MaxOutClock,                             \* CheckOutcomes
    ZoneWorkers, ZoneHosts, Suffixes, Templates, ZoneTtl, RetryTtl, Retention,
    MaxChanges, MaxClock,                                   \* ZoneDetection
    EdgeApps, MaxServed, MaxRuns,                           \* Traffic
    EdgeHosts, OriginNames, Addresses, Targets, EdgeTarget, Ranges  \* EdgeConfig

VARIABLES
    focus,
    subject, txt, cname, cert, edge, origin, outStatus, verified, outCheck, next,
    outNow, outChanges, owned, broken,
    published, eligible, left, attempts, overdue,
    ns, template, rows, zone, zoneWorker, zoneProven, zoneChanges, zoneNow,
    total, counter, traffic, trafficOwner, run, posted, served, lost, faulty, runs,
    apps, domains, dns, settings, payload, verdict, running, changes

outcomesVars == <<subject, txt, cname, cert, edge, origin, outStatus, verified,
                  outCheck, next, outNow, outChanges, owned, broken>>
queueVars == <<published, eligible, left, attempts, overdue>>
zonesVars == <<ns, template, rows, zone, zoneWorker, zoneProven, zoneChanges,
               zoneNow>>
trafficVars == <<total, counter, traffic, trafficOwner, run, posted, served, lost,
                 faulty, runs>>
gatewayVars == <<apps, domains, dns, settings, payload, verdict, running, changes>>
checksVars == <<focus, vars, outcomesVars, queueVars, zonesVars, trafficVars, gatewayVars>>

Out == INSTANCE CheckOutcomes WITH
        MaxChanges <- MaxOutChanges, MaxClock <- MaxOutClock, status <- outStatus,
        check <- outCheck, now <- outNow, changes <- outChanges

Qu == INSTANCE CheckQueue WITH
        NumDomains <- 4, MaxUnpublished <- 2, Batch <- 1, Lease <- 4,
        BackoffFirst <- 4, BackoffLast <- 6, RevalidateInterval <- 12

Zo == INSTANCE ZoneDetection WITH
        Workers <- ZoneWorkers, Hosts <- ZoneHosts, worker <- zoneWorker,
        proven <- zoneProven, changes <- zoneChanges, now <- zoneNow

Tr == INSTANCE Traffic WITH Apps <- EdgeApps, owner <- trafficOwner

Ga == INSTANCE EdgeConfig WITH
        Applications <- EdgeApps, Hostnames <- EdgeHosts, Names <- OriginNames

\* What the theorems about the parts ask of their constants.
ASSUME PartsAssumption ==
    /\ Out!OutcomesConstants /\ Zo!ZonesConstants
    /\ Ga!ConfigConstants /\ Tr!TrafficConstants

-----------------------------------------------------------------------------
\* The part in focus begins as it does, the others have no state.
NoOut ==
    /\ subject = None /\ txt = None /\ cname = None /\ cert = None /\ edge = None
    /\ origin = None /\ outStatus = None /\ verified = None /\ outCheck = None
    /\ next = None /\ outNow = None /\ outChanges = None /\ owned = None
    /\ broken = None

NoQu ==
    /\ published = None /\ eligible = None /\ left = None /\ attempts = None
    /\ overdue = None

NoZo ==
    /\ ns = None /\ template = None /\ rows = None /\ zone = None
    /\ zoneWorker = None /\ zoneProven = None /\ zoneChanges = None
    /\ zoneNow = None

NoTr ==
    /\ total = None /\ counter = None /\ traffic = None /\ trafficOwner = None
    /\ run = None /\ posted = None /\ served = None /\ lost = None /\ faulty = None
    /\ runs = None

NoGa ==
    /\ apps = None /\ domains = None /\ dns = None /\ settings = None
    /\ payload = None /\ verdict = None /\ running = None /\ changes = None

\* One worker beside a request; or two, on a domain to which nothing else is
\* done and within the grace period.
OneWorker == CHOOSE w \in Workers : TRUE
Busy == {w \in Workers : worker[w] # Idle}
Registered == \E d \in Domains : phase[d] = "live"
OnlyWorkers ==
    /\ app' = app /\ request' = request
    /\ Registered => /\ authed' = authed /\ claimRow' = claimRow
                     /\ since' # since => worker' # worker

ChecksInit ==
    /\ focus \in {"lifecycle", "workers", "outcomes", "queue", "zones", "traffic", "gateway"}
    /\ Init
    /\ IF focus = "outcomes" THEN Out!Init ELSE NoOut
    /\ IF focus = "queue" THEN Qu!Init ELSE NoQu
    /\ IF focus = "zones" THEN Zo!Init ELSE NoZo
    /\ IF focus = "traffic" THEN Tr!Init ELSE NoTr
    /\ IF focus = "gateway" THEN Ga!Init ELSE NoGa

ChecksNext ==
    /\ UNCHANGED focus
    /\ \/ /\ \/ focus = "lifecycle" /\ Next /\ Busy' \subseteq {OneWorker}
             \/ focus = "workers" /\ Next /\ OnlyWorkers
          /\ UNCHANGED <<outcomesVars, queueVars, zonesVars, trafficVars, gatewayVars>>
       \/ /\ focus = "outcomes" /\ Out!Next
          /\ UNCHANGED <<vars, queueVars, zonesVars, trafficVars, gatewayVars>>
       \/ /\ focus = "queue" /\ Qu!Next
          /\ UNCHANGED <<vars, outcomesVars, zonesVars, trafficVars, gatewayVars>>
       \/ /\ focus = "zones" /\ Zo!Next
          /\ UNCHANGED <<vars, outcomesVars, queueVars, trafficVars, gatewayVars>>
       \/ /\ focus = "traffic" /\ Tr!Next
          /\ UNCHANGED <<vars, outcomesVars, queueVars, zonesVars, gatewayVars>>
       \/ /\ focus = "gateway" /\ Ga!Next
          /\ UNCHANGED <<vars, outcomesVars, queueVars, zonesVars, trafficVars>>

ChecksSpec == ChecksInit /\ [][ChecksNext]_checksVars

\* Values of ZoneHosts and Suffixes: names are sequences of labels.
NestedHosts == {<<"forms", "eu", "acme", "uk">>, <<"www", "acme", "uk">>}
PublicSuffix == {<<"uk">>}

\* Identifiers are only compared, and every property is a safety property.
Symmetry == UNION {Permutations(S) : S \in {Claims, ZoneWorkers, Templates, EdgeApps}}

-----------------------------------------------------------------------------
(* Properties: those of the extended module, and those of the part in focus. *)

\* A domain stays in service no longer than the world justifies: drift of its
\* records, certificate, edge or origin is found within REVALIDATE_INTERVAL,
\* its certificate has not expired by more than that interval exceeds the
\* warning, and a lost ownership record ends the service after the grace period
\* (record_check, certificate_outcome).
ServedIsCurrent ==
    focus = "outcomes" => Out!ServedIsCurrent

\* The service is not suspended before the whole grace period has passed
\* since a check last saw the record.
SuspendedAfterGrace == [][focus = "outcomes" => Out!SuspendedAfterGraceStep]_outcomesVars

\* cname_chain and routing_outcome decide whether CNAMEs lead to the target.
RoutingIsReachability == focus = "outcomes" => Out!RoutingIsReachability

\* With few domains waiting for their records, run_due_checks passes no due
\* domain over for long.
CheckedInTurn == focus = "queue" => Qu!CheckedInTurn

\* select_method offers Domain Connect only for a template the provider of
\* the zone said it supports.
OfferedWasProven == focus = "zones" => Zo!OfferedWasProven

\* Caddy runs only routes to origins that were verified and active.
AcceptedIsVouched == [][focus = "gateway" => Ga!AcceptedIsVouchedStep]_gatewayVars

\* find_zone finds the smallest customer zone that encloses the hostname, and
\* neither purge_zones nor a late refresh takes it from a domain again.
ZonesKept == [][focus = "zones" => Zo!NearestZoneStep /\ Zo!ShownStaysShownStep]_zonesVars

\* record_totals never counts what was not served, and without faults misses
\* only what falls between a reading and a POST.
TrafficIsAccurate ==
    focus = "traffic" => Tr!TrafficIsAccurate

\* The parts of the edge agree: the gateway accepts what the reconciler built
\* unless two origins share an address; what is served is routed and may
\* have a certificate; and an assertion is accepted only by an origin of the
\* hostname's owner, whatever Caddy still runs.
EdgeAgrees ==
    focus = "gateway" =>
        Ga!EdgeAgrees
=============================================================================
