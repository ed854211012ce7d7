# Verification of the custom domain service

TLA+ modules for the service under `app/`: customers of a SaaS product point
their own hostnames at it, the service proves that they control the hostname,
obtains certificates through Caddy, and routes requests to the product's
origin.

## The system

| Part | State | Operations | Talks to |
| --- | --- | --- | --- |
| Domain lifecycle, `services/domains.py`, `services/applications.py`, `legacy.py` | domain rows, ownership claims (tokens), four checks per domain, application status, events | register, import, re-issue a claim, recheck, delete, delete application, suspend, purge | database; events feed the webhook outbox |
| Checks worker, `dns/worker.py`, `dns/resolver.py`, `services/dns_checks.py`, `services/edge_checks.py` | leases (`next_check_at`) on check rows, what a run holds in memory | find due domains, lease, query DNS, apply, probe the edge, apply | lifecycle rows, DNS, edge; calls the reconciler after a status change |
| Webhooks, `services/webhooks.py`, `webhooks/worker.py` | subscriptions, secrets, deliveries | subscribe, revoke, rotate, enqueue, lease, send, retry, replay, settle | outbox rows written by lifecycle transactions; the consumer's endpoint |
| Limits and idempotency, `services/limits.py`, `services/idempotency.py` | idempotency keys, lock rows | begin and complete a create, enforce limits, purge | registration |
| Throttles, `v1/throttle.py`, `portal/auth.py` | windows in an API process's memory | ask, record a failure, take | every authenticated request |
| Edge, `edge/reconcile.py`, `edge/lock.py`, `edge/config.py`, `edge/gateway.py`, `v1/internal.py` | Caddy's configuration, the lock row | reconcile, validate, authorize a certificate, assert a request | lifecycle rows, Caddy's admin API, the origins |
| Keys, credentials, origins, operator token | rows with times of validity, verification of origins | issue, rotate, revoke, verify, activate, retire | the product's origin |
| Domain Connect and setup pages, `services/domain_connect.py`, `services/connect_sessions.py` | sessions, signed links, the signer | prepare, sign, record, return | DNS providers; makes checks due |
| Zone detection, `services/dns_setup.py`, `dns/zones.py` | cache of zones | find the zone, discover, store, purge | DNS, providers; run by the checks worker |
| Traffic counters, `services/traffic.py` | totals, baselines | fold Caddy's counters, reset | Caddy's metrics, inside a reconciler run |
| API, operator API, portal, connect page, CLI | sessions, cookies | call the services | all of the above |
| Legacy API, `api.py`, `caddy/` | one configuration in memory and in a file | add and remove hostnames, save, load | Caddy |
| SDKs, MCP server | none | call the API, verify assertions and webhook signatures | the API |

What is hard in it:

* The checks worker talks to DNS and to the edge outside any transaction and
  applies what it saw later, under an application lock that re-issues and
  deletions do not take.  PostgreSQL and SQLite make different things of that.
* A lease on the check rows is only a time stamp; rechecks, Domain Connect
  returns, the forced lease after a status change, and the passing of two
  minutes all override it.  The order in which due domains are taken is fixed.
* Workers and processes die between any two transactions.
* Requests authenticate in one transaction and act in a later one; tokens,
  passwords and slugs change hands in between.
* A webhook attempt, the signing of a Domain Connect link and the verification
  of an origin go on, after their request, from rows they loaded before it.
* Configurations travel to Caddy through a gateway that judges them by newer
  facts; answers are lost, POSTs are applied late, counters start again.
* Limits are counted at one moment and used up at another.
* Four checks, six statuses and a claim are written by several actors; `ready`
  must stay consistent with all of them.

What makes the parts correct:

* lifecycle: nothing is served or given a certificate unless the token that is
  live now was seen in DNS; one token is live per domain; a tombstone stays
  one; a revoked token never counts again; a domain whose records are right
  ends up served, and one whose records went wrong is found out in time;
* webhooks: every event is delivered or visibly given up, and only after the
  promised attempts; the deletion of an application still reaches the product;
* requests: limits hold under concurrency, a retry does not create twice, and
  nobody waits in a circle;
* edge: snapshots are applied in order and converge to the database; a hostname
  is answered only by its owner; traffic is never over-counted;
* operations: rotating or revoking a key never leaves a hole or gives trust
  back; what was deleted stays deleted; a replaced token or password is out.

## The modules

`DomainLifecycle` is the core.  Its variables are the columns that matter of
the applications, domains, checks and claims tables, plus what each process has
in memory:

* `app`, `phase`, `owner`, `host`, `status`, `check`, `since`, `due`,
  `claimRow`, `claimStatus`: the database.  `phase` is the row's existence
  (unborn, live, tombstone, purged).  Of `next_check_at` the model keeps whether
  it has passed, for the DNS pair and for the edge pair of checks, which
  `process_domain` always runs together.  Of `failing_since` it keeps whether
  the grace period is over.
* `worker`: one `process_domain` run per worker: the pairs it leased, the claim
  its queries are about, their outcomes, and the row as it was reloaded.
* `request`: a transaction of `reissue_claim`, `delete_domain` or
  `delete_application` between its reads and its commit.
* `authed`: applications that a request loaded as active before its own
  transaction began.
* `proven`, `seen`: history, read by no action: the claims a DNS pass vouched
  for, and which claim the run behind each passing check had queried.

Each service operation and each step of `process_domain` is an action, named
after the code where it is one function.  `Load`, `apply_dns_outcomes`,
`apply_edge_outcomes`, `record_checks` and `schedule_next` are operators on the
row a session has in memory; `Flush` is the ORM's commit, which writes the
columns that differ from what was loaded.  Which checks pass is free: DNS, the
edge and the origin may answer anything at any time.

`Backend` tells the two databases apart.  On SQLite `lock_application` takes
the database's only write lock, and a transaction that read before somebody
else's commit fails when it writes, so only transactions that have the database
to themselves are followed (`CanWrite`).  On PostgreSQL (READ COMMITTED)
`lock_application` locks one application row, which the re-issue and the
deletion of a domain never do; the deletion of an application does when it
flushes that row.  The unique index on live claims is checked at commit in both
(`IndexAdmits`).

`ServiceContract` is the abstract specification: tokens, proof and service,
without workers, checks or transactions.  `LifecycleContract` maps
`DomainLifecycle` to it.  `DomainRecovery` adds the moment from which the
outside world is well-behaved; `MCProgress` adds fairness.
`DomainLifecycleProofs` holds the theorems.

`WebhookDelivery` is one application's webhooks: `sub` and `wants` are the
subscriptions, `queued` and `row` the deliveries, `log` the
domain events that have a webhook type; `worker` is `attempt_delivery` of each
worker and `request` an open transaction of anybody else, the lifecycle's
transactions that record an event included.  An attempt is four steps: lease,
load, send, record; the session keeps the row it loaded before the send, so the
outcome counts on from that row and the flush writes only the columns it
changed (`Outcome`, `Reset`).  The model is that of PostgreSQL; SQLite admits
those of its behaviours in which nobody commits between a request's reads and
its commit.  `sends`, `accepted`, `dismissed` and `farewell` are
history.  `WebhookDeliveryProofs` has the theorems.  What the outbox sees of the
lifecycle is a transaction that records an event (`OpenEvent`, `record_event`),
and the deletion of the application.

The other modules are about one part each, and share no state with these:

* `CheckOutcomes`: one hostname, its DNS records, certificate, edge and origin,
  and a clock.  What each check concludes (`ownership_outcome`,
  `routing_outcome` with its CNAME chain, `certificate_outcome`,
  `origin_outcome`), when it runs again, and the grace period.
  `DomainLifecycle` leaves all of that free and has the races instead.
* `CheckQueue`: which domains a worker takes in each interval.
* `ZoneDetection`: two workers that look for zones and refresh the cache while
  the DNS, the configured template and the domains change.  Names are sequences
  of labels, because finding the zone is about what encloses what.
* `Traffic`: Caddy's running total, the baseline and the owner's count.
* `EdgeConfig`: `build_apps`, the gateway's `validate_apps`, and the decisions of
  `tls_ask`, `edge_assert` and of the origin that verifies an assertion.  The
  state between building and judging may change (`Change`).
* `EdgeReconciler`: runs of several instances under the lock row, POSTs on their
  way to Caddy, timeouts, crashes, restarts.  Configurations are abstracted to
  the owner each hostname is routed to.  An origin check goes through Caddy, or
  passes without when the workspace probe is disabled (`unprobed` remembers it).
* `Registration`: `POST /v1/domains` on PostgreSQL, step by step between its
  locks; key, application, deployment and hostname, in this order.
* `Throttle`: the three limiters in memory; asking, judging and reporting are
  separate steps because requests run in threads.  A report is a loop over the
  client's buckets, and each turn may drop the bucket that failed least recently,
  the client's own /48 included (`Turn`); `forgotten` is history, what a dropped
  bucket had seen.
* `Administration`: overlapping calls on assertion keys, credentials, the webhook
  secret or origins, on both backends; `seen` is what a call loaded and `fresh`
  whether nobody committed since.  A secret and an origin remember, as history,
  that their last writer was overtaken.
* `Connect`: one domain's links, setup pages and faster rechecks, with the claim,
  the signer and the domain changing between preparing and recording a link, and
  a checks worker whose runs may fail.  A transaction under `lock_application`
  (`tx`) reads and commits in two steps: on PostgreSQL re-issues, deletions and
  leases, which never take that lock, commit in between, and the flush writes
  only what differs from the row it had loaded (`Flushed`).
* `Surfaces`: the forms of the portal, the calls of the operator API and the
  commands of the CLI.  Each is a name and its effect on an application's rows;
  what the module follows is who is let in, what slug and id find, and what is
  committed after the application, the token or the password has changed.
* `LegacyApi`: the deprecated endpoints, with Caddy refusing, restarting or not
  answering, refusing the saved file when the process starts (`init_config`), and
  the process dying while it writes.

A module with the suffix `Proofs` has theorems.  Each extends the module of the
run that checks the properties, so that theorem and run speak of the same
definition: `SurfacesProofs` and `ConnectProofs` extend `MCOperations`,
`ChecksProofs` (with `CheckOutcomes`, `ZoneDetection`, `EdgeConfig` and `Traffic`)
extends `MCChecks`, `RegistrationProofs` (with `LegacyApi`) extends `MCRequests`,
`EdgeReconcilerProofs` extends `MCProgress`, `DomainLifecycleProofs` extends
`LifecycleContract`; the others extend the module they are named after.

`MCChecks`, `MCRequests`, `MCOperations` and `MCProgress` check several parts in
one run.  Each behaviour is one of the part in `focus`; the others have no state
in it, so the run is the union of the parts' runs and nothing is multiplied.
Their constants have values in the configuration, except those of `CheckQueue`
and `Throttle`, which are given with INSTANCE.  `MCDomainLifecycle` chooses
between a worker beside one request and two requests without a worker (`crowd`),
and adds symmetry.

Operators with a suffix (`IndexAdmits_Always`) are bugs the code could have
had.  No action uses them; replacing the operator they are named after by them
must break the property they are listed with in `PROJECT.json`, which shows that
the property can fail.

## The runs

Runs that find no error:

| Run | Instance | Shows |
| --- | --- | --- |
| `lifecycle_postgres` | 1 domain on PostgreSQL; 1 worker, 1 request and 2 tokens, or 2 requests and 3 tokens | `AuthorizedIsProven`, `OneLiveClaim`, and that the contract is implemented (`KeepsContract`), with the one-sided lock |
| `checks`, lifecycle and workers | 1 domain, 2 tokens on SQLite, leases may run out; 1 worker beside 1 request, or 2 workers | `ReadyMeansChecked`, `TombstoneIsFinal`, `StatusMovesAllowed` |
| `checks`, outcomes | 4 names, 2 hops, 3 changes of the world, 13 units of time | `ServedIsCurrent` (`DriftCaught`, `ReadyIsCertified`, `LossEnforced`), `SuspendedAfterGrace`, `RoutingIsReachability` |
| `checks`, queue | 4 domains of which 2 may wait, one per interval | `CheckedInTurn` |
| `checks`, zones | 2 hostnames under 3 nested names, 2 workers, 2 templates | `OfferedWasProven`, `ZonesKept` (`NearestZone`, `ShownStaysShown`) |
| `checks`, traffic | 2 owners, 3 requests served, 3 runs | `TrafficIsAccurate` (`NeverOvercounts`, `NothingElseIsLost`) |
| `checks`, gateway | 2 applications, 2 hostnames, 2 addresses, 1 change | `EdgeAgrees` (`AcceptedUnlessShared`, `AdmissionNests`, `OnlyTheOwnerAnswers`), `AcceptedIsVouched` |
| `progress`, webhooks | 1 event, 2 workers, 1 request, 2 attempts, 1 replay, 1 crash | `HonestOutcome`, `DeliveredStays`, `DeletionAnnounced`, `EverythingSettles` |
| `progress`, domains | 1 domain, 2 tokens, 1 worker, 1 request | `Recovers` |
| `progress`, edge | 2 applications, 1 hostname, 2 instances, 7 changes, 1 fault | `NoForeignOrigin`, `SnapshotsInOrder`, `EdgeConverges` |
| `requests`, registration | 2 applications, 3 hostnames, 2 requests, 1 key each, limits 1 and 2 | `LimitsHold`, `KeysHonoured` (`OneDomainPerKey`, `ReplayIsTheOriginal`), `RegistrationsPaced`, `SomeoneGoesOn` |
| `requests`, throttle | 3 clients, two of one /48, 2 tracked buckets | `ThrottledByTheWindow` (`DecidesByTheWindow`, `DroppedForOthers`, `WaitSuffices`, `OvershootBounded`) |
| `requests`, legacy | 2 hostnames, 4 requests | `AnsweredIsSaved` |
| `operations`, administration | 2 calls at a time, 4 rows, delays of 0 and 2 units in 2 units of time, both backends | `RotationIsSafe` (`IssuingNeverUnsigns`, `NeverExtended`), `TrustedIsInForce` (`LiveKeysBounded`, `ToldSecretsSign`, `FailedIsNotServed`) |
| `operations`, connect | 2 calls, 2 tokens, 2 signers, 2 links, 1 page, 1 worker, both backends | `LinksFollowTheDomain` (`LinkNamesLiveClaim`, `DeletedStaysQuiet`), `LinksKeepTheirPromise` (`LinksOvershootBounded`, `FastWhileConnecting`) |
| `operations`, surfaces | 2 calls, 2 applications with one slug, every kind of row, 2 tokens, 2 passwords, both backends | `CommitsAsMeant` (`ArchiveIsFrozen`, `NothingDroppedUnasked`, `CurrentTokenCommits`), `DeletionSticks`, `GatesFollowTheSecrets` (`TokenIsTheLastSet`, `PasswordSignsOut`) |

In brackets are the parts a property is the conjunction of, each stated in its
module.  The runs `lifecycle_postgres` and `progress` also check `TypeOK`, which
is proved too; the `TypeOK` of the other modules says what their variables range
over.  A property with `OnSqlite` promises less on PostgreSQL, where READ
COMMITTED lets a call that loaded its rows earlier commit.  `Surfaces` promises
nothing there; `Administration` and `Connect` say how far the code may then
depart from what it promises, and a departure from a documented promise has a
run below or is in the list after them.

Runs that find a disagreement between the code and what it says of itself:

| Run | Property | What happens |
| --- | --- | --- |
| `deleted_while_applying` | `TombstoneIsFinal` on PostgreSQL | `delete_domain` commits between a worker's reload and its commit; the worker verifies the tombstone's claim or moves its status |
| `check_starved` | `EveryDueCheckRuns` | domains that wait for their records come due every two minutes and, with lower ids, fill every batch |
| `gateway_shared_address` | `ReconcilerConfigAccepted` | two origins share an address under different names; the gateway, which keeps one name per address, rejects the whole configuration |
| `legacy_rollback` | `RefusedChangesNothing` | the configuration put back after a refusal is the changed one, because the copy is shallow |
| `links_overshoot` | `LinksLimited` | requests whose links are being signed at the same time were all counted before any was recorded, and exceed "at most 10 links per domain" |
| `third_live_key` | `NeverMoreThanTwoLive` | on PostgreSQL two overlapping issues do not see each other's key, and three are live |
| `secret_dropped` | `PreviousKeepsSigning` | a second rotation within 24 hours drops the secret the first one kept, on either backend |

`CheckedInTurn` and `AcceptedUnlessShared` (in `EdgeAgrees`) are the other sides
of the second and the third: what holds while few domains wait, or no address is
shared.  `LinksOvershootBounded`, `LiveKeysBounded` and `ToldSecretsSign` are
those of the last three: how far it goes.

Also visible in the models, and left without a run of its own:

* on PostgreSQL a re-issue inside a worker's applying transaction keeps checks
  observed for the old token, and, for a domain being connected, a check due
  later than the fast interval (`FastWhileConnecting`);
* on PostgreSQL a re-issue or a deletion commits inside `record_connect` or
  `connect_returned`: a link is recorded for a token just revoked, and the
  schedule of a tombstone is written (`LinksFollowTheDomain` says that it is no
  more than that);
* a run of the checks worker that fails leaves its two-minute lease inside the
  window in which checks are promised every 30 seconds (`FastWhileConnecting`);
* on PostgreSQL a rotation that loaded a credential before another one shortened
  it gives it its own grace (`NeverExtended`), although
  `app/services/applications.py:445` says that it "is not extended if it already
  expires sooner";
* an assertion key whose `active_from` passes while `issue_key` is open counts as
  waiting in the call's memory and is revoked, so that for the length of the new
  key's delay none signs, although `app/services/assertion_keys.py:8` says that
  issuing "never breaks a working origin" (`IssuingNeverUnsigns` speaks of the key
  that signed when the call read it);
* an internal 12-hour certificate is warned of four hours before its end, and
  checks may be six hours apart: it can have expired for up to two hours while its
  domain is ready (`ReadyIsCertified` has the bound);
* with the workspace probe disabled a new owner's domain is ready while Caddy
  still dials the former owner's origin, until the next run of a reconciler
  (`NoForeignOrigin`);
* when the table of the failed-credential limiter is full, a client's /64 can
  push out its own /48, which then counts from nothing
  (`DecidesByTheWindow` speaks of failures since a bucket was last dropped);
* a legacy process that finds its file refused by Caddy goes on with an empty
  configuration, and its next save overwrites the file with it; one that dies
  while it writes leaves half a file (`Torn`);
* `make_checks_due` gives a check that was never run a time, which may be later
  than at once;
* a registration that authenticated before its application was deleted commits
  after; a recheck asked for during a run is written over by that run's schedule;
  the last attempt of a delivery, failing after a replay re-queued it, abandons
  it; two open creates exceed the limit on subscriptions; when an NS lookup fails
  the zone falls back to the registrable domain.

### Bounds

Every lifecycle property is about one row and the tokens, runs and transactions
that touch it.  Two tokens are enough for an old and a new one, a third only
repeats the re-issue; one worker and one request give every interleaving of a
run with a transaction, two workers are in `checks` and two requests, with a
third token, in `lifecycle_postgres`.  Rows are never
reused, so the number of registrations is the number of `Domains`;
`Authenticate` stops when they are used up, so that requests that can no longer
do anything are not followed.

The webhook properties are about one delivery and the attempts, replays and
transactions on it.  Two workers give every overlap of two attempts; two
attempts per delivery tell the last from the others; one replay and one crash
suffice for each to hit any point of an attempt, and `MaxReplays` and
`MaxCrashes` also say that the disturbances `EverythingSettles` speaks of are
finitely many.

Elsewhere two actors race on one thing, which gives every order of their steps,
and a third row, name or application is there where a property needs a
bystander.  Times are scaled so that every comparison in the code has both
outcomes: in `CheckOutcomes` the grace period is longer than the revalidation
interval, and a third of a certificate's lifetime is shorter than that interval
or as long as the expiry warning; in `CheckQueue` the lease is as long as the round of all
domains (`checks`) or shorter (`check_starved`); in `Throttle` the window is
shorter than the clock, so failures leave it.  `MaxChanges` in `EdgeReconciler`
is enough for a hostname to be claimed, provisioned, deleted and claimed and
provisioned by the other application, with changes of the origins in between; that
the first takes it back and is ready within one run, the last exception of
`NoForeignOrigin`, takes one more and is covered by the theorem.  In
`Administration` four rows are room for two issues or rotations beside the rows
there are, and one more of each.

Deadlock is not checked: every behaviour ends when its bounded supply of rows,
tokens, requests or time is used up.  Where waiting on one another is possible,
in `Registration`, `SomeoneGoesOn` says that it does not happen.

Symmetry is used in the runs without liveness, for identifiers that are only
compared with each other.

### Fairness

Of `MCProgress`, each for the loop in focus:

* webhooks: an attempt ends, because every socket operation has a timeout
  (weak fairness of `Attempt`); leases and backoffs run out;
  `settle_deleted_applications` runs in every pass; and a delivery that is due
  again and again is taken up (strong fairness), because each pass takes the due
  deliveries oldest first.  Nothing is assumed of requests, crashes or the
  endpoint.
* domains: workers poll for ever and each of their steps is a function call
  that returns or a query with a timeout, open transactions end, and time
  passes, so that each `next_check_at` is reached: weak fairness of each.
  Nothing is assumed of the customer, of requests or of crashes before the
  moment `calm`; after it, the records are right and nobody interferes.
* edge: every instance starts a run each interval (`run_forever`) and gets the
  lock row in its turn, because the database queues those who wait for it:
  strong fairness of a run's steps, which the other instance's runs interrupt
  again and again.  A POST that arrived is processed, and its answer is read:
  weak fairness.  Faults and changes are bounded, not fair.

Of `check_starved`: the worker runs in every interval.  The counterexample is one
in which it does.

## The proofs

For all constants: any number of applications, domains, tokens, workers and
requests, and the assumptions stated with the constants (`ConstantAssumption`,
`WebhookAssumption`, `RegistrationAssumption`,
`NoRowAssumption`, `AdministrationAssumption`), which TLC evaluates in the runs.
The parts that a run has as instances state what they ask of their constants as
an operator (`OutcomesConstants`, `ZonesConstants`, `ConfigConstants`,
`TrafficConstants`, `EdgeConstants`, `LegacyConstants`, `ConnectConstants`,
`SurfacesConstants`);
it is the hypothesis of the lemma that states the part's result for the part's
own specification (`DeletedAlways` is `Su!Spec => []Su!DeletionSticks`).  The
run's module assumes it of its constants (`PartsAssumption`), and a lemma that a
behaviour of the run with the part in focus is a behaviour of the part
(`SurfacesInFocus` and the like) turns the result into a theorem about the run's
specification (`OperationsSpec`, `ChecksSpec`, `RequestsSpec`, `ProgressSpec`).
All of it is that sets are finite, lengths of time are numbers and None is none
of them.

Hardly any of the invariants is inductive as it stands; what each needs beside
it is the interesting part, and was checked with TLC before it was proved.

Lifecycle, on both backends (`DomainLifecycleProofs`):

* `TypeCorrect`: `Spec => []TypeOK`.  Inductive with `RunHasDomain`: a run that
  is not idle is about a row, so what it loads is a view of one.
* `AuthorizationSound`: `Spec => []AuthorizedIsProven`.  The invariant says that
  every verified claim is proven, that a worker holding two passing DNS results
  holds them for a proven claim, and that in its applying transaction the claim
  it reloaded is the one it queried (that is what comparing `claim_version`
  buys).  No lock is needed for it.
* `OneLiveClaimAlways`: `Spec => []OneLiveClaim`.  The invariant adds which
  claims an open request will revoke and which claim a worker may verify: they
  belong to the request's rows and to the worker's domain.  With the unique
  index this excludes both a second live claim and a live domain with none.
* `ContractKept`: `Spec => KeepsContract`, the refinement of `ServiceContract`.
  From the two invariants above, and that proven claims and claims that are
  asked about were issued, every step maps to a step of the contract or to none.

Lifecycle, with the hypothesis `Backend = "sqlite"`:

* `ReadyIsChecked`: `Spec => []ReadyMeansChecked`; `TombstonesStay`: `Spec =>
  []TombstoneIsFinal`; `MovesAreAllowed`: `Spec => StatusMovesAllowed`.  The
  invariant `SqliteInv` adds to `ClaimInv` that one transaction is open at a time
  (`Alone`) and that what it has loaded is what the rows hold (`RunsCurrent`,
  `RequestsCurrent`); then the flush, which leaves columns out, writes the row it
  computed, and what `apply_dns_outcomes` and `apply_edge_outcomes` make of a
  sound row is sound (`ApplyDnsSound`, `ApplyEdgeSound`).  On PostgreSQL the
  first two fail, and `deleted_while_applying` is how.

Webhooks (`WebhookDeliveryProofs`):

* `TypesHold`: `Spec => []TypeOK`.
* `OutcomesHonest`: `Spec => []HonestOutcome`.  An attempt writes a count it took
  from a row it loaded earlier.  The invariant says that no count, in a row or in
  an attempt's stale copy, is ahead of the requests made, and that an attempt
  that has its answer is one behind.
* `DeliveredUntilReplayed`: `Spec => DeliveredStays`, with the invariant that
  rows belong to logged events, so that no insert meets an existing row.
* `DeletionIsAnnounced`: `Spec => []DeletionAnnounced`.  The invariant says that
  before the deletion only a request revokes a subscription (and is on record as
  having asked), that an event goes to subscriptions that existed when its
  request read them, and that a farewell's subscription stays active until the
  farewell was accepted, tried often enough or dismissed.

Checks (`ChecksProofs`, part `Out`):

* `StaysCurrent`: `ChecksSpec => []ServedIsCurrent`, and `SuspendedInTime`:
  `ChecksSpec => SuspendedAfterGrace`.  `CheckInv` follows the schedule: no due check is passed
  by (`Punctual`), one that passed is repeated within an interval of the moment
  from which it would fail (`Revalidated`) and no later after its certificate's end
  than the warning falls short of the interval (`Outlasts`), and one that fails is repeated before the grace period ends or
  one backoff after (`InGrace`), however the status moved in between (`Earned`).
* `RoutingDecided`: `ChecksSpec => []RoutingIsReachability`: `cname_chain` finds
  the target exactly if CNAMEs lead to it within the allowed hops, loops included.
  The chain and the reference are computed by recursion on the number of hops.
  `Repeats` shows that such a repetition is a function at all.  What holds after
  each hop (`Sound`: the names visited are those CNAMEs lead to, and the chain
  ended only at the target or where CNAMEs lead to nothing it has not visited) is
  shown by taking the least number of hops at which it fails; so a chain that
  stopped at a name it had seen misses nothing (`Routed`).

Zones (`ChecksProofs`, part `Zo`):

* `OffersAreProven`: `ChecksSpec => []OfferedWasProven`, and `ZonesAreKept`:
  `ChecksSpec => ZonesKept`.  `ZoneInv` says that every row's support was seen for a provider of
  that zone (`RowsProven`), and the same of what each worker carries between
  looking and storing (`Knows`).

Edge (`EdgeReconcilerProofs`):

* `SnapshotsNeverGoBack`: `ProgressSpec => SnapshotsInOrder`, and `OwnOriginOnly`:
  `ProgressSpec => []NoForeignOrigin`.  `EdgeInv` says that a POST whose
  sender waits carries the snapshot of that run, that a run's snapshot is at
  least as new as what Caddy runs (until a POST is late), that every
  configuration, running, wanted or on its way, names the owners of its time,
  and that the check of a new owner, if it probed, went through routes built since
  its claim.

Edge configuration and traffic (`ChecksProofs`, parts `Ga` and `Tr`):

* `EdgePartsAgree`: `ChecksSpec => []EdgeAgrees`, and `OnlyVouchedAccepted`:
  `ChecksSpec => AcceptedIsVouched`.  They need hardly an invariant; the argument
  is that the routes `build_apps` makes, which it groups by origin and by address,
  are the ones `validate_apps` finds when it groups them again, unless two origins
  share an address.
* `TrafficCounted`: `ChecksSpec => []TrafficIsAccurate`.  `Within` says that the
  totals, with all that the next reading can add to them, are at most what was
  served, for the rows and for the copy a run carries; `Exact` that without faults
  nothing but what is called lost is missing.  The sum over applications is a
  fold, about which the provers know nothing; `SumsAdd`, `SumsZero` and `SumIs`
  are what is needed of it.

Registration (`RegistrationProofs`):

* `Locks`: the key, the application and the deployment lock have one holder
  each.  The lock is not a variable but a state of the requests, so this is an
  invariant of their steps.
* `LimitsAreKept`: `Spec => LimitsHold`, and `PaceIsKept`: `Spec =>
  []RegistrationsPaced`.  `Counted` says that what `enforce` and
  `_enforce_registration_limit` counted is still an upper bound when the insert
  commits, because only a holder of the same lock adds to it.
* `KeysAreHonoured`: `Spec => []KeysHonoured`.  `KeyInv` says that a key that
  created a domain is remembered for the whole of its time, that a request that
  holds the key holds it after that time, and that the row names the domain the
  key and the body created.

Legacy API (`RegistrationProofs`, part `Le`):

* `LegacyAnswersSaved`: `RequestsSpec => []AnsweredIsSaved`.  `MemoryAgrees` says
  that as long as there was nothing worse than a restart, the configuration in
  memory says of each hostname what was answered, or nothing once a start found the
  file refused, and what is being written is that configuration.

Keys, credentials, secrets and origins (`AdministrationProofs`):

* `TrustHolds`: `Spec => []TrustedIsInForce`, and `RotationsAreSafe`: `Spec =>
  RotationIsSafe`.  `CallInv` says which rows an open call is about and that if
  nobody committed since, its copy is current; on SQLite only such a call commits.
  `SecretsInOrder` and `OriginsProven` are the strengthenings for the secret and
  the origins.  The bound on live keys on PostgreSQL is a count: a live key that
  an open `issue_key` will not revoke is one it did not read, or the one that signs
  for it (`Spared`).  Every key it did not read was inserted by a call that read no
  more keys than it did, so those keys and the open calls that read no more keys
  than it did (`Earlier`) are together never more than the calls (`Fits`), and when
  it commits one live key for each call and the one that signs are left at most
  (`KeysCounted`; `ReadBefore` says that what a call read is a prefix of the rows).

Domain Connect (`ConnectProofs`):

* `LinksFollow`: `OperationsSpec => LinksFollowTheDomain`, and `PromisesKept`:
  `OperationsSpec => []LinksKeepTheirPromise`.  `Held` says who is in the one
  transaction under the lock, that on SQLite the row it read is the row there is,
  and how late a domain in the fast window can be due.  The bound on links is
  inductive when the requests that have counted and not yet recorded are counted
  with the links of the window (`Overshoot`).

Forms, operator calls and commands (`SurfacesProofs`):

* `DeletedForGood`: `OperationsSpec => []DeletionSticks`, and `CommittedAsMeant`:
  `OperationsSpec => CommitsAsMeant`.  `CallInv` says which rows an open call is about, that they are
  there, and that on SQLite what the call loaded is what they hold if it can still
  commit (`Snapshots`).
* `GatesFollow`: `OperationsSpec => []GatesFollowTheSecrets`.  `GateInv` adds that
  every cookie is signed with the password it was issued under, unless the
  deployment has a session secret of its own.

Some properties had to be restated because their first form had no proof, and TLC
or the failed step showed why.  `NoForeignOrigin` has the exception of an
application that takes a hostname back and passes all its checks within one run of
a reconciler: it is ready while Caddy is given the routes of the tenure in between,
until the next run.  `IssuingNeverUnsigns` speaks of a key that signed when the call
read it.  And `NearestZone` speaks of the zones above a hostname: the lookup begins
at its parent, so a zone that the hostname itself is the apex of is not found.

The proofs go through lemmas that say which steps write claims (`ClaimFrame`) or
rows (`WriteFrame`), put a worker into the position to apply results
(`RunFrame`, `TxFrame`), or open a request (`RequestFrame`), so that each
invariant is argued only about the steps that can disturb it.

Induction is not available to the provers for operators, so where a proof needs
one (the hops of a chain, the fold of `Traffic`, the last label that is a zone)
it assumes a counterexample and takes the least.

Only model-checked:

* liveness (`Recovers`, `EverythingSettles`, `EdgeConverges`), which is out of the
  prover's reach, and `SomeoneGoesOn`, which is about ENABLED;
* `ThrottledByTheWindow`: the windows are sequences filtered with `SelectSeq`, of
  which the provers know neither the length nor the elements;
* `CheckedInTurn`, a bound on the intervals a domain waits, which is counted out
  for the domains and the lease of the instance.

## Not modelled

Rendering and parsing in the API, portal, CLI and presenters, network I/O of
probes and resolvers, hostnames' syntax, ciphers and signatures, backup, doctor
and metrics, the SDKs and the MCP server.  None of them has state that another
part decides on.

Of the parts that are modelled: the bulk re-issue after a change of target, which
is many re-issues in one transaction; the registration of an origin and its host
header beyond being a row; the limits on links and pages per application, which
count what its other domains issued (a request they refuse changes nothing); the
names of the edge beyond the applications' current targets (`EDGE_HOSTNAME`, former
targets); a commit between the two reads of `issue_key`, which are one here;
registrations through the API in `Surfaces`, whose authentication commits before
the domain is written (they are in `DomainLifecycle` and `Registration`); and the
three hazards that `PROJECT.json` lists
without a property, with the reason for each.
