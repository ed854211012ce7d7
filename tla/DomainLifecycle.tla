-------------------------- MODULE DomainLifecycle --------------------------
(***************************************************************************)
(* The life of a customer hostname: the service operations on domain rows, *)
(* ownership claims and checks (app/services/domains.py and                *)
(* applications.py) running beside the checks workers (app/dns/worker.py), *)
(* which query DNS and probe the edge outside any transaction and apply    *)
(* what they saw later.                                                    *)
(*                                                                         *)
(* A transaction is two steps, its reads and its commit, because           *)
(* reissue_claim, delete_domain and delete_application do not take the     *)
(* application lock the workers apply their results under.  Backend says   *)
(* what the database makes of that:                                        *)
(*   "sqlite"      lock_application takes the only write lock, and a       *)
(*                 transaction whose snapshot is no longer current fails   *)
(*                 when it first writes (WAL mode);                        *)
(*   "postgresql"  READ COMMITTED: the transaction commits, and the flush  *)
(*                 writes the columns that differ from what it had read.   *)
(*                                                                         *)
(* Time is abstract: of next_check_at only "due or not" is kept, for the   *)
(* DNS pair and the edge pair of checks, which process_domain always runs  *)
(* together; a pair is due when one of its checks is, and that may happen  *)
(* at any moment.  failing_since is "before or after the grace period".    *)
(*                                                                         *)
(* An operator Op_Flaw is Op with a bug this code could have; no action    *)
(* uses it, the properties below are tried against it.                     *)
(***************************************************************************)
EXTENDS FiniteSets

CONSTANTS
    Applications, Hostnames,
    Domains,     \* primary keys of domain rows; rows are never reused
    Claims,      \* ownership claims, each with its own token
    Workers,     \* checks workers (one per API process)
    Requests,    \* sessions that re-issue or delete
    Backend,     \* "sqlite" or "postgresql"
    SlowRuns,    \* may a worker's run outlast its two-minute lease?
    None

ASSUME ConstantAssumption ==
    /\ Backend \in {"sqlite", "postgresql"}
    /\ SlowRuns \in BOOLEAN
    /\ None \notin Claims \cup Domains \cup Applications \cup Hostnames

DNS_CHECK_TYPES  == {"ownership", "routing"}
EDGE_CHECK_TYPES == {"certificate", "origin"}
CheckType == DNS_CHECK_TYPES \cup EDGE_CHECK_TYPES
\* The pairs of checks a run takes on: due_check_types, as process_domain uses it.
CheckPair == {"dns", "edge"}
CheckStatus == {"pending", "passing", "failing"}
ClaimStatus == {"pending", "verified", "revoked"}
DomainStatus == {"pending_dns", "provisioning", "ready",
                 "attention_required", "suspended", "deleting"}
\* failing_since of the ownership check, against OWNERSHIP_LOSS_GRACE.
FailingSince == {"never", "recently", "beyond_grace"}

VARIABLES
    app,          \* application: active, suspended, deleted (hidden), purged
    authed,       \* applications some request has loaded as active
    phase,        \* domain row: unborn, live, tombstone, purged
    owner, host,  \* application_id and hostname of the row
    status,       \* domains.status
    check,        \* domain_checks.status by check type
    since,        \* failing_since of the ownership check
    due,          \* pairs with a check whose next_check_at is NULL or past
    claimRow, claimStatus,  \* ownership_claims
    worker,       \* process_domain of each worker
    request,      \* the open transaction of each request
    \* History, read by no action:
    proven,       \* claims one DNS pass (or an operator's import) vouched for
    seen          \* the claim a passing check was observed under

dbVars == <<app, phase, owner, host, status, check, since, due, claimRow, claimStatus>>
vars == <<dbVars, authed, worker, request, proven, seen>>

(***************************************************************************)
(* Reading a row                                                           *)
(***************************************************************************)
LiveClaims(d) == {c \in Claims : claimRow[c] = d /\ claimStatus[c] \in {"pending", "verified"}}

active_claim(d) == IF LiveClaims(d) = {} THEN None ELSE CHOOSE c \in LiveClaims(d) : TRUE

checks_passing(checks) == \A t \in CheckType : checks[t] = "passing"

\* What a session holds in memory once it has loaded the row.
View == [status : DomainStatus, claim : Claims \cup {None}, claimStatus : ClaimStatus,
         active : BOOLEAN, checks : [CheckType -> CheckStatus], since : FailingSince]

Load(d) ==
    [status      |-> status[d],
     claim       |-> active_claim(d),
     claimStatus |-> IF LiveClaims(d) = {} THEN "revoked" ELSE claimStatus[active_claim(d)],
     active      |-> app[owner[d]] = "active",
     checks      |-> check[d],
     since       |-> since[d]]

Unloaded == [t \in CheckType |-> "pending"]
NoView == [status |-> "deleting", claim |-> None, claimStatus |-> "revoked",
           active |-> FALSE, checks |-> Unloaded, since |-> "never"]

\* Edge authorization, on a loaded live row.
certificate_authorized(v) ==
    /\ v.status \notin {"pending_dns", "suspended", "deleting"}
    /\ v.active
    /\ v.claim # None
    /\ v.claimStatus = "verified"

is_serveable(d) ==
    /\ phase[d] = "live"
    /\ LET v == Load(d) IN
          /\ v.status = "ready"
          /\ v.active
          /\ v.claim # None
          /\ v.claimStatus = "verified"
          /\ checks_passing(v.checks)

(***************************************************************************)
(* Processes                                                               *)
(***************************************************************************)
Put(f, rows, x) == [d \in Domains |-> IF d \in rows THEN x ELSE f[d]]

InDnsTx(w)  == worker[w].pc = "dns_tx"
InEdgeTx(w) == worker[w].pc = "edge_tx"
InTx(w) == InDnsTx(w) \/ InEdgeTx(w)

\* A run: the pairs it found due, the status it began with, the claim it
\* asks DNS or the edge about, whether the domain it has in memory is eligible
\* for edge checks, the outcomes, and the row reloaded to apply them to.
Idle == [pc |-> "idle", domain |-> None, types |-> {}, before |-> "deleting",
         claim |-> None, eligible |-> FALSE, out |-> {}, view |-> NoView]

\* An open request: the rows it is about and what it will use of them as it
\* loaded them: the live claims, the checks that were not pending, and whether
\* the status was one that a re-issue leaves.
NoRequest == [op |-> "none", app |-> None, rows |-> {}, claims |-> {}, recorded |-> {}, leaves |-> FALSE]

\* A worker in its applying transaction holds the application lock.  On SQLite
\* that is the write lock of the database; and since a request fails if anyone
\* commits between its reads and its writes, only those are followed here that
\* have the database to themselves.
CanWrite_DespiteWorkers == Backend = "sqlite" => \A r \in Requests : request[r] = NoRequest

CanWrite == Backend = "sqlite" => /\ \A w \in Workers : ~InTx(w)
                                  /\ \A r \in Requests : request[r] = NoRequest
LockFree(a) == \A w \in Workers : InTx(w) => owner[worker[w].domain] # a
CanLock(a) == CanWrite /\ LockFree(a)

Init ==
    /\ app = [a \in Applications |-> "active"]
    /\ authed = {}
    /\ phase = [d \in Domains |-> "unborn"]
    /\ owner = [d \in Domains |-> None]
    /\ host = [d \in Domains |-> None]
    /\ status = [d \in Domains |-> "pending_dns"]
    /\ check = [d \in Domains |-> Unloaded]
    /\ since = [d \in Domains |-> "never"]
    /\ due = [d \in Domains |-> {}]
    /\ claimRow = [c \in Claims |-> None]
    /\ claimStatus = [c \in Claims |-> "unissued"]
    /\ worker = [w \in Workers |-> Idle]
    /\ request = [r \in Requests |-> NoRequest]
    /\ proven = {}
    /\ seen = [d \in Domains |-> [t \in CheckType |-> None]]

(***************************************************************************)
(* Registration                                                            *)
(***************************************************************************)
\* current_application: the credential's application is loaded, is active,
\* and stays in the session's memory while the request goes on.
\* Bounded: only while there is a row left to register.
RowsLeft == \E d \in Domains : phase[d] = "unborn"

Authenticate(a) ==
    /\ RowsLeft
    /\ app[a] = "active"
    /\ authed' = authed \cup {a}
    /\ UNCHANGED <<dbVars, worker, request, proven, seen>>

\* The live-hostname index refuses the insert.  A request of an active
\* application that is authenticated and refused with nothing in between
\* leaves no trace, so it needs no row left to register.
ClaimRefused(a, h) ==
    /\ a \in authed \/ app[a] = "active"
    /\ CanLock(a)
    /\ \E d \in Domains : phase[d] = "live" /\ host[d] = h
    /\ authed' = authed \ {a}
    /\ UNCHANGED <<dbVars, worker, request, proven, seen>>

\* A claim is issued with a random token that no claim ever had.
FreshToken(c) == claimStatus[c] = "unissued"

\* The rows claim_domain inserts; a grandfathered import also marks the claim
\* verified and the ownership check passing, on the operator's word.
InsertDomain(a, h, d, c, grandfather) ==
    /\ a \in authed
    /\ app[a] # "purged"
    /\ CanLock(a)
    /\ phase[d] = "unborn"
    /\ FreshToken(c)
    /\ \A e \in Domains : ~(phase[e] = "live" /\ host[e] = h)
    /\ authed' = authed \ {a}
    /\ phase' = [phase EXCEPT ![d] = "live"]
    /\ owner' = [owner EXCEPT ![d] = a]
    /\ host' = [host EXCEPT ![d] = h]
    /\ due' = [due EXCEPT ![d] = CheckPair]
    /\ claimRow' = [claimRow EXCEPT ![c] = d]
    /\ claimStatus' = [claimStatus EXCEPT ![c] = IF grandfather THEN "verified" ELSE "pending"]
    /\ status' = [status EXCEPT ![d] = IF grandfather THEN "provisioning" ELSE "pending_dns"]
    /\ check' = [check EXCEPT ![d] =
                   [Unloaded EXCEPT !["ownership"] = IF grandfather THEN "passing" ELSE "pending"]]
    /\ seen' = [seen EXCEPT ![d]["ownership"] = IF grandfather THEN c ELSE None]
    /\ proven' = IF grandfather THEN proven \cup {c} ELSE proven
    /\ UNCHANGED <<app, since, worker, request>>

claim_domain(a, h, d, c) == InsertDomain(a, h, d, c, FALSE)

\* Reads the application in the transaction that inserts.
import_legacy_domains(a, h, d, c) ==
    /\ Backend = "sqlite" => app[a] = "active"
    /\ InsertDomain(a, h, d, c, TRUE)

(***************************************************************************)
(* Requests that write without the application lock                        *)
(***************************************************************************)
Open(r, req) ==
    /\ request[r] = NoRequest
    /\ CanWrite
    /\ request' = [request EXCEPT ![r] = req]
    /\ UNCHANGED <<dbVars, authed, worker, proven, seen>>

RESET_ON_REISSUE == {"provisioning", "ready", "attention_required"}

OpenReissue(r, d) ==
    /\ phase[d] = "live"
    /\ Open(r, [op |-> "reissue", app |-> owner[d], rows |-> {d}, claims |-> LiveClaims(d),
                recorded |-> {t \in CheckType : check[d][t] # "pending"},
                leaves |-> status[d] \in RESET_ON_REISSUE])

OpenDelete(r, d) ==
    /\ phase[d] = "live"
    /\ Open(r, [NoRequest EXCEPT !.op = "delete", !.app = owner[d], !.rows = {d},
                                 !.claims = LiveClaims(d)])

OpenDeleteApplication(r, a) ==
    LET rows == {d \in Domains : phase[d] = "live" /\ owner[d] = a} IN
    /\ app[a] \in {"active", "suspended"}
    /\ Open(r, [NoRequest EXCEPT !.op = "delete_application", !.app = a, !.rows = rows,
                                 !.claims = UNION {LiveClaims(d) : d \in rows}])

\* ux_ownership_claims_one_live: a claim becomes or stays live only if every other
\* live claim of the row is among those the same transaction revokes.
IndexAdmits_Always(d, mine) == TRUE

IndexAdmits(d, mine) == LiveClaims(d) \subseteq mine

Revoke(claims) == [c \in Claims |-> IF c \in claims THEN "revoked" ELSE claimStatus[c]]

\* reissue_claim: revoke the live claim it loaded, reset the checks, leave
\* RESET_ON_REISSUE for pending_dns and insert a claim with a new token.  The
\* flush writes "pending" only over a check it had loaded as something else,
\* and the one-live-claim index lets the insert through only if no other
\* re-issue came first.
reissue_claim(r, d, c) ==
    LET q == request[r] IN
    /\ q.op = "reissue"
    /\ d \in q.rows
    /\ IndexAdmits(d, q.claims)
    /\ FreshToken(c)
    /\ claimRow' = [claimRow EXCEPT ![c] = d]
    /\ claimStatus' = [Revoke(q.claims) EXCEPT ![c] = "pending"]
    /\ check' = [check EXCEPT ![d] = [t \in CheckType |->
                   IF t \in q.recorded THEN "pending" ELSE check[d][t]]]
    /\ seen' = [seen EXCEPT ![d] = [t \in CheckType |->
                   IF check'[d][t] = "passing" THEN seen[d][t] ELSE None]]
    /\ since' = [since EXCEPT ![d] = "never"]
    /\ due' = [due EXCEPT ![d] = CheckPair]
    /\ status' = [status EXCEPT ![d] = IF q.leaves THEN "pending_dns" ELSE @]
    /\ request' = [request EXCEPT ![r] = NoRequest]
    /\ UNCHANGED <<app, authed, phase, owner, host, worker, proven>>

\* The tombstones of delete_domain: terminal status, live claim revoked.
Entomb(r) ==
    /\ phase' = Put(phase, request[r].rows, "tombstone")
    /\ status' = Put(status, request[r].rows, "deleting")
    /\ claimStatus' = Revoke(request[r].claims)
    /\ request' = [request EXCEPT ![r] = NoRequest]
    /\ UNCHANGED <<authed, owner, host, check, since, due, claimRow, worker, proven, seen>>

delete_domain(r) ==
    /\ request[r].op = "delete"
    /\ Entomb(r)
    /\ UNCHANGED app

\* Every live domain it listed becomes a tombstone; the application is
\* suspended and hidden.
delete_application(r) ==
    LET a == request[r].app IN
    /\ request[r].op = "delete_application"
    /\ LockFree(a)
    /\ Entomb(r)
    /\ app' = [app EXCEPT ![a] = "deleted"]

\* The transaction fails or the process dies: nothing was written.
Abandon(r) ==
    /\ request[r] # NoRequest
    /\ request' = [request EXCEPT ![r] = NoRequest]
    /\ UNCHANGED <<dbVars, authed, worker, proven, seen>>

set_application_status(a, s) ==
    /\ CanLock(a)
    /\ app[a] \in {"active", "suspended"}
    /\ app' = [app EXCEPT ![a] = s]
    /\ UNCHANGED <<authed, phase, owner, host, status, check, since, due, claimRow, claimStatus,
                   worker, request, proven, seen>>

(***************************************************************************)
(* Requests that make checks due, under the application lock               *)
(***************************************************************************)
\* Every check of the domain, whoever has leased it.
request_recheck(d) ==
    /\ phase[d] = "live"
    /\ status[d] # "deleting"
    /\ CanLock(owner[d])
    /\ due' = [due EXCEPT ![d] = CheckPair]
    /\ UNCHANGED <<app, authed, phase, owner, host, status, check, since, claimRow, claimStatus,
                   worker, request, proven, seen>>

\* The customer is back from the DNS provider (record_connect does the same
\* for half a minute later).
CONNECTABLE == {"pending_dns", "provisioning", "ready", "attention_required"}

connect_returned(d) ==
    /\ phase[d] = "live"
    /\ status[d] \in CONNECTABLE
    /\ CanLock(owner[d])
    /\ due' = [due EXCEPT ![d] = @ \cup {"dns"}]
    /\ UNCHANGED <<app, authed, phase, owner, host, status, check, since, claimRow, claimStatus,
                   worker, request, proven, seen>>

\* Past the 90-day retention, longer than any transaction or run lasts.
InUse(d) == \/ \E w \in Workers : worker[w].domain = d
            \/ \E r \in Requests : d \in request[r].rows

purge_tombstones(rows, apps) ==
    /\ CanWrite
    /\ rows \cup apps # {}
    /\ \A d \in rows : phase[d] = "tombstone" /\ ~InUse(d)
    /\ \A a \in apps : /\ app[a] = "deleted"
                       /\ a \notin authed
                       /\ \A d \in Domains \ rows :
                            ~(owner[d] = a /\ phase[d] \in {"live", "tombstone"})
    /\ phase' = Put(phase, rows, "purged")
    /\ status' = Put(status, rows, "deleting")
    /\ check' = Put(check, rows, Unloaded)
    /\ since' = Put(since, rows, "never")
    /\ due' = Put(due, rows, {})
    /\ seen' = Put(seen, rows, [t \in CheckType |-> None])
    /\ claimStatus' = [c \in Claims |-> IF claimRow[c] \in rows THEN "purged" ELSE claimStatus[c]]
    /\ app' = [a \in Applications |-> IF a \in apps THEN "purged" ELSE app[a]]
    /\ UNCHANGED <<authed, owner, host, claimRow, worker, request, proven>>

(***************************************************************************)
(* The checks worker: process_domain                                       *)
(***************************************************************************)
\* due_domain_ids and due_check_types: a live domain with a due check.
ReadDue(w, d) ==
    /\ worker[w] = Idle
    /\ phase[d] = "live"
    /\ status[d] # "deleting"
    /\ due[d] # {}
    /\ worker' = [worker EXCEPT ![w] = [Idle EXCEPT !.pc = "chosen", !.domain = d, !.types = due[d]]]
    /\ UNCHANGED <<dbVars, authed, request, proven, seen>>

\* lease_domain commits; then the row is loaded, and with it the claim the
\* queries are about.  Without a due DNS check the run is at its edge phase.
LeaseDomain(w) ==
    LET d == worker[w].domain
        types == worker[w].types
        mine == types \cap due[d]
    IN
    /\ worker[w].pc = "chosen"
    /\ mine = {} \/ CanWrite
    /\ due' = [due EXCEPT ![d] = @ \ types]
    /\ worker' = [worker EXCEPT ![w] =
                    IF mine = {} \/ phase[d] # "live" \/ status[d] = "deleting" THEN Idle
                    ELSE IF "dns" \in types
                    THEN [@ EXCEPT !.pc = "leased", !.claim = active_claim(d), !.before = status[d]]
                    ELSE [@ EXCEPT !.pc = "edge", !.claim = active_claim(d),
                                   !.eligible = certificate_authorized(Load(d))]]
    /\ UNCHANGED <<app, authed, phase, owner, host, status, check, since, claimRow, claimStatus,
                   request, proven, seen>>

\* ownership_outcome and routing_outcome: the DNS checks that pass.  With no
\* live claim neither can.
QueryDns(w, passing) ==
    /\ worker[w].pc = "leased"
    /\ worker[w].claim = None => passing = {}
    /\ worker' = [worker EXCEPT ![w] = [@ EXCEPT !.pc = "queried", !.out = passing]]
    /\ proven' = IF passing = DNS_CHECK_TYPES THEN proven \cup {worker[w].claim} ELSE proven
    /\ UNCHANGED <<dbVars, authed, request, seen>>

\* claim_version: the live claim is not the one the queries were about.
ClaimChanged_Unnoticed(w, v) == FALSE

ClaimChanged(w, v) == v.claim # worker[w].claim

\* Take the application lock and reload: a deleted domain is left alone, and
\* observations about a claim that is no longer the live one are discarded,
\* with the DNS checks due again.
ReloadForDns(w) ==
    LET d == worker[w].domain
        v == Load(d)
        gone == phase[d] # "live" \/ status[d] = "deleting"
        stale == ClaimChanged(w, v)
    IN
    /\ worker[w].pc = "queried"
    /\ CanLock(owner[d])
    /\ worker' = [worker EXCEPT ![w] = IF gone \/ stale THEN Idle
                                       ELSE [@ EXCEPT !.pc = "dns_tx", !.view = v]]
    /\ due' = IF ~gone /\ stale THEN [due EXCEPT ![d] = @ \cup {"dns"}] ELSE due
    /\ UNCHANGED <<app, authed, phase, owner, host, status, check, since, claimRow, claimStatus,
                   request, proven, seen>>

Outcome_Misspelt(t, passing) == IF t \in passing THEN "passing" ELSE "failed"

Outcome(t, passing) == IF t \in passing THEN "passing" ELSE "failing"

\* record_check of each type in types: a failing check takes ready away.
record_checks(v, types, passing) ==
    [v EXCEPT !.checks = [t \in CheckType |-> IF t \in types THEN Outcome(t, passing) ELSE v.checks[t]],
              !.status = IF v.status = "ready" /\ ~(types \subseteq passing)
                         THEN "attention_required" ELSE v.status]

\* failing_since is kept while the ownership check goes on failing.
schedule_next(v, passing) ==
    IF "ownership" \in passing THEN "never"
    ELSE IF v.since = "never" THEN "recently"
    ELSE v.since

\* The status rules of apply_dns_outcomes, once both checks pass or one fails.
StatusAfterPass_SkipsProvisioning(r) ==
    IF r.status \in {"pending_dns", "suspended", "attention_required"}
    THEN IF checks_passing(r.checks) THEN "ready" ELSE "provisioning"
    ELSE r.status

StatusAfterPass_StaysSuspended(r) ==
    IF r.status = "pending_dns" THEN "provisioning"
    ELSE IF r.status = "attention_required" /\ checks_passing(r.checks) THEN "ready"
    ELSE r.status

StatusAfterPass(r) ==
    IF r.status \in {"pending_dns", "suspended"} THEN "provisioning"
    ELSE IF r.status = "attention_required" /\ checks_passing(r.checks) THEN "ready"
    ELSE r.status

StatusAfterFail(r, passing) ==
    IF r.status = "provisioning" THEN "pending_dns"
    ELSE IF /\ r.status = "attention_required"
            /\ "ownership" \notin passing
            /\ r.claimStatus = "verified"
            /\ r.since = "beyond_grace"
    THEN "suspended"
    ELSE r.status

\* The row as apply_dns_outcomes leaves it in memory.
apply_dns_outcomes(v, passing) ==
    LET r == [record_checks(v, DNS_CHECK_TYPES, passing) EXCEPT !.since = schedule_next(v, passing)]
    IN  IF DNS_CHECK_TYPES \subseteq passing
        THEN [r EXCEPT !.claimStatus = IF r.claimStatus = "pending" THEN "verified" ELSE r.claimStatus,
                       !.status = StatusAfterPass(r)]
        ELSE [r EXCEPT !.status = StatusAfterFail(r, passing)]

apply_edge_outcomes(v, passing) ==
    LET r == record_checks(v, EDGE_CHECK_TYPES, passing)
    IN  [r EXCEPT !.status = IF /\ r.status \in {"provisioning", "attention_required"}
                                /\ r.claim # None
                                /\ r.claimStatus = "verified"
                                /\ checks_passing(r.checks)
                             THEN "ready" ELSE r.status]

\* The flush at commit: each column that differs from what was loaded (v) is
\* written with its new value (n); the others keep what the database holds.
\* The results are evidence about the claim the run queried for.
Flush(d, v, n, types, queried) ==
    /\ status' = [status EXCEPT ![d] = IF n.status # v.status THEN n.status ELSE @]
    /\ check' = [check EXCEPT ![d] = [t \in CheckType |->
                   IF n.checks[t] # v.checks[t] THEN n.checks[t] ELSE check[d][t]]]
    /\ claimStatus' = [c \in Claims |->
                         IF c = v.claim /\ n.claimStatus # v.claimStatus
                         THEN n.claimStatus ELSE claimStatus[c]]
    /\ seen' = [seen EXCEPT ![d] = [t \in CheckType |->
                  IF t \notin types THEN seen[d][t]
                  ELSE IF check'[d][t] = "passing" /\ n.checks[t] = "passing" THEN queried
                  ELSE IF check'[d][t] = "passing" THEN seen[d][t]
                  ELSE None]]

\* Verifying a claim that is no longer the live one hits the one-live-claim
\* index if another claim is live; the whole transaction then rolls back.
ClaimConflict(d, v, n) == n.claimStatus # v.claimStatus /\ ~IndexAdmits(d, {v.claim})

\* A status change makes the edge checks follow in the same run: they are
\* leased whoever has them.
CommitDns(w) ==
    LET d == worker[w].domain
        v == worker[w].view
        n == apply_dns_outcomes(v, worker[w].out)
        forced == n.status # worker[w].before /\ "edge" \notin worker[w].types
    IN
    /\ InDnsTx(w)
    /\ ~ClaimConflict(d, v, n)
    /\ Flush(d, v, n, DNS_CHECK_TYPES, worker[w].claim)
    /\ since' = [since EXCEPT ![d] = n.since]
    /\ due' = [due EXCEPT ![d] = @ \ (IF forced THEN CheckPair ELSE {"dns"})]
    /\ worker' = [worker EXCEPT ![w] = 
                    [Idle EXCEPT !.pc = "edge", !.domain = d, !.claim = v.claim,
                                 !.types = IF forced THEN {"edge"} ELSE worker[w].types \ {"dns"},
                                 !.eligible = certificate_authorized(n)]]
    /\ UNCHANGED <<app, authed, phase, owner, host, claimRow, request, proven>>

ConflictDns(w) ==
    LET v == worker[w].view IN
    /\ InDnsTx(w)
    /\ ClaimConflict(worker[w].domain, v, apply_dns_outcomes(v, worker[w].out))
    /\ worker' = [worker EXCEPT ![w] = Idle]
    /\ UNCHANGED <<dbVars, authed, request, proven, seen>>

\* Between the phases the row is selected again, but the session keeps what it
\* has in memory: only a deletion is noticed.
EdgeWanted(w) ==
    /\ phase[worker[w].domain] = "live"
    /\ "edge" \in worker[w].types
    /\ worker[w].eligible

EndRun(w) ==
    /\ worker[w].pc = "edge"
    /\ ~EdgeWanted(w)
    /\ worker' = [worker EXCEPT ![w] = Idle]
    /\ UNCHANGED <<dbVars, authed, request, proven, seen>>

\* certificate_outcome and origin_outcome: the edge checks that pass.
ProbeEdge(w, passing) ==
    /\ worker[w].pc = "edge"
    /\ EdgeWanted(w)
    /\ worker' = [worker EXCEPT ![w] = [@ EXCEPT !.pc = "probed", !.out = passing]]
    /\ UNCHANGED <<dbVars, authed, request, proven, seen>>

\* As for DNS, but discarded results leave the checks leased.
ReloadForEdge(w) ==
    LET d == worker[w].domain
        v == Load(d)
        keep == /\ phase[d] = "live"
                /\ ~ClaimChanged(w, v)
                /\ certificate_authorized(v)
    IN
    /\ worker[w].pc = "probed"
    /\ CanLock(owner[d])
    /\ worker' = [worker EXCEPT ![w] = IF keep THEN [@ EXCEPT !.pc = "edge_tx", !.view = v] ELSE Idle]
    /\ UNCHANGED <<dbVars, authed, request, proven, seen>>

CommitEdge(w) ==
    LET d == worker[w].domain
        v == worker[w].view
    IN
    /\ InEdgeTx(w)
    /\ Flush(d, v, apply_edge_outcomes(v, worker[w].out), EDGE_CHECK_TYPES, worker[w].claim)
    /\ due' = [due EXCEPT ![d] = @ \ {"edge"}]
    /\ worker' = [worker EXCEPT ![w] = Idle]
    /\ UNCHANGED <<app, authed, phase, owner, host, since, claimRow, request, proven>>

\* The process dies or the run raises: an open transaction rolls back, its
\* lock goes, and the leases stay until they run out.
Crash(w) ==
    /\ worker[w] # Idle
    /\ worker' = [worker EXCEPT ![w] = Idle]
    /\ UNCHANGED <<dbVars, authed, request, proven, seen>>

(***************************************************************************)
(* Time                                                                    *)
(***************************************************************************)
Leased(d, p) == \E w \in Workers : /\ worker[w].domain = d
                                   /\ p \in worker[w].types
                                   /\ worker[w].pc # "chosen"

\* next_check_at passes: a retry or revalidation is due, or a lease ran out.
CheckDue(d, p) ==
    /\ phase[d] = "live"
    /\ p \notin due[d]
    /\ Leased(d, p) => SlowRuns
    /\ due' = [due EXCEPT ![d] = @ \cup {p}]
    /\ UNCHANGED <<app, authed, phase, owner, host, status, check, since, claimRow, claimStatus,
                   worker, request, proven, seen>>

GraceElapses(d) ==
    /\ phase[d] = "live"
    /\ since[d] = "recently"
    /\ since' = [since EXCEPT ![d] = "beyond_grace"]
    /\ UNCHANGED <<app, authed, phase, owner, host, status, check, due, claimRow, claimStatus,
                   worker, request, proven, seen>>

(***************************************************************************)
(* The specification                                                       *)
(***************************************************************************)
Registration ==
    \E a \in Applications :
        \/ Authenticate(a)
        \/ \E h \in Hostnames :
             \/ ClaimRefused(a, h)
             \/ \E d \in Domains, c \in Claims :
                  claim_domain(a, h, d, c) \/ import_legacy_domains(a, h, d, c)

Administration ==
    \/ \E r \in Requests :
         \/ \E d \in Domains : OpenReissue(r, d) \/ OpenDelete(r, d)
         \/ \E a \in Applications : OpenDeleteApplication(r, a)
         \/ \E d \in Domains, c \in Claims : reissue_claim(r, d, c)
         \/ delete_domain(r)
         \/ delete_application(r)
         \/ Abandon(r)
    \/ \E a \in Applications, s \in {"active", "suspended"} : set_application_status(a, s)
    \/ \E d \in Domains : request_recheck(d) \/ connect_returned(d)
    \/ \E rows \in SUBSET Domains, apps \in SUBSET Applications : purge_tombstones(rows, apps)

WorkerStep(w) ==
    \/ \E d \in Domains : ReadDue(w, d)
    \/ LeaseDomain(w)
    \/ \E passing \in SUBSET DNS_CHECK_TYPES : QueryDns(w, passing)
    \/ ReloadForDns(w)
    \/ CommitDns(w)
    \/ ConflictDns(w)
    \/ EndRun(w)
    \/ \E passing \in SUBSET EDGE_CHECK_TYPES : ProbeEdge(w, passing)
    \/ ReloadForEdge(w)
    \/ CommitEdge(w)

Time == \E d \in Domains : GraceElapses(d) \/ \E p \in CheckPair : CheckDue(d, p)

Next == Registration \/ Administration \/ (\E w \in Workers : WorkerStep(w) \/ Crash(w)) \/ Time

Spec == Init /\ [][Next]_vars
----------------------------------------------------------------------------
(***************************************************************************)
(* Properties                                                              *)
(***************************************************************************)
WorkerState ==
    [pc : {"idle", "chosen", "leased", "queried", "dns_tx", "edge", "probed", "edge_tx"},
     domain : Domains \cup {None}, types : SUBSET CheckPair, before : DomainStatus,
     claim : Claims \cup {None}, eligible : BOOLEAN, out : SUBSET CheckType, view : View]

RequestState ==
    [op : {"none", "reissue", "delete", "delete_application"}, app : Applications \cup {None},
     rows : SUBSET Domains, claims : SUBSET Claims, recorded : SUBSET CheckType, leaves : BOOLEAN]

\* Every column holds a value its CHECK constraint admits, and every session's
\* memory is a loaded row.
TypeOK ==
    /\ app \in [Applications -> {"active", "suspended", "deleted", "purged"}]
    /\ authed \in SUBSET Applications
    /\ phase \in [Domains -> {"unborn", "live", "tombstone", "purged"}]
    /\ owner \in [Domains -> Applications \cup {None}]
    /\ host \in [Domains -> Hostnames \cup {None}]
    /\ status \in [Domains -> DomainStatus]
    /\ check \in [Domains -> [CheckType -> CheckStatus]]
    /\ since \in [Domains -> FailingSince]
    /\ due \in [Domains -> SUBSET CheckPair]
    /\ claimRow \in [Claims -> Domains \cup {None}]
    /\ claimStatus \in [Claims -> ClaimStatus \cup {"unissued", "purged"}]
    /\ worker \in [Workers -> WorkerState]
    /\ request \in [Requests -> RequestState]
    /\ proven \in SUBSET Claims
    /\ seen \in [Domains -> [CheckType -> Claims \cup {None}]]

\* tls_ask and the edge's authorization: a certificate is authorized for a
\* domain only if one DNS pass saw the token and the CNAME target of the claim
\* that is live now (or an operator imported the domain as verified), however
\* re-issues, deletions and late worker results interleave.
AuthorizedIsProven ==
    \A d \in Domains :
        phase[d] = "live" /\ certificate_authorized(Load(d)) => active_claim(d) \in proven

\* data-model.md, "One live ownership claim per domain": a live domain has
\* exactly one claim that is not revoked, whatever commits after whose reads.
OneLiveClaim == \A d \in Domains : phase[d] = "live" => Cardinality(LiveClaims(d)) = 1

\* "ready" in the row means what the API documents: the live claim is verified
\* and all four checks pass, each observed under that claim.
ReadyMeansChecked ==
    \A d \in Domains :
        phase[d] = "live" /\ status[d] = "ready" =>
            /\ Load(d).claimStatus = "verified"
            /\ \A t \in CheckType : check[d][t] = "passing" /\ seen[d][t] = active_claim(d)

\* A tombstone stays as delete_domain left it: status deleting, no live claim,
\* even when a worker was in the middle of the domain's checks.
TombstoneIsFinal ==
    \A d \in Domains : phase[d] = "tombstone" => status[d] = "deleting" /\ LiveClaims(d) = {}

\* The moves of ALLOWED_TRANSITIONS; transition_status raises on any other.
ALLOWED_TRANSITIONS ==
    [pending_dns        |-> {"provisioning", "attention_required", "suspended", "deleting"},
     provisioning       |-> {"ready", "pending_dns", "attention_required", "suspended", "deleting"},
     ready              |-> {"pending_dns", "attention_required", "suspended", "deleting"},
     attention_required |-> {"pending_dns", "provisioning", "ready", "suspended", "deleting"},
     suspended          |-> {"pending_dns", "provisioning", "deleting"},
     deleting           |-> {}]

\* No handler ever asks transition_status for a move it refuses: what the
\* workers and requests write between them is a path of ALLOWED_TRANSITIONS.
StatusMove ==
    \A d \in Domains : phase[d] \in {"live", "tombstone"} /\ phase'[d] # "purged" =>
        status'[d] \in ALLOWED_TRANSITIONS[status[d]] \cup {status[d]}

\* So it is in every step: transition_status of a worker or a request never has to
\* raise on what another of them committed in between.
StatusMovesAllowed == [][StatusMove]_status
============================================================================
