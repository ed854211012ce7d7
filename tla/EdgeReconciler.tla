--------------------------- MODULE EdgeReconciler ---------------------------
(***************************************************************************)
(* The reconcilers of all instances, the gateway and Caddy: every run      *)
(* takes the lock row, builds the routes from the database, compares them  *)
(* with what Caddy runs and posts the difference through the gateway.      *)
(* Meanwhile hostnames are claimed, released and claimed by others, and an *)
(* application's origin comes and goes.  A request for a hostname is       *)
(* answered from two sources read at different times: Caddy's routes and   *)
(* the assertion, which the API decides from the database.                 *)
(***************************************************************************)
EXTENDS Integers, FiniteSets

CONSTANTS
    Applications, Hostnames, Reconcilers, None,
    MaxChanges,         \* bounds: commits that change the desired routes,
    MaxFaults           \* and timeouts, crashes, outages, restarts

\* What the module that gives them values assumes of the constants.
EdgeConstants ==
    /\ None \notin Applications \cup Hostnames \cup Reconcilers
    /\ MaxChanges \in Nat /\ MaxFaults \in Nat

VARIABLES
    owner,        \* the application of the live row of each hostname
    stage,        \* pending, routable, or ready (serveable: also probed)
    serving,      \* does the application have a serving_origin?
    lock,         \* holder of the row "reconcile" of edge_locks
    run,          \* each reconciler: pc and the snapshot it built
    caddy,        \* the routes Caddy runs, and the age of their snapshot
    posts,        \* POSTs sent and not yet processed
    version,      \* commits so far that could change the routes
    faults,
    unprobed,     \* hostnames whose origin check has "workspace_probe": "disabled"
    \* History, read by no action:
    late,         \* has a POST outlived its sender?
    claimedAt,    \* the commit that claimed each hostname last
    former        \* the applications that held each hostname and gave it up

vars == <<owner, stage, serving, lock, run, caddy, posts, version, faults, unprobed,
          late, claimedAt, former>>

Routes == [Hostnames -> Applications \cup {None}]
NoRoutes == [h \in Hostnames |-> None]
Config == [routes : Routes, at : 0..MaxChanges]

TypeOK ==
    /\ owner \in [Hostnames -> Applications \cup {None}]
    /\ stage \in [Hostnames -> {"none", "pending", "routable", "ready"}]
    /\ serving \in [Applications -> BOOLEAN]
    /\ lock \in Reconcilers \cup {None}
    /\ run \in [Reconcilers -> [pc : {"idle", "built", "differs", "posted"},
                                want : Config]]
    /\ \A r \in Reconcilers : run[r].pc # "idle" <=> lock = r
    /\ caddy \in Config
    /\ posts \subseteq [by : Reconcilers \cup {None}, want : Config]
    /\ version \in 0..MaxChanges /\ faults \in 0..MaxFaults /\ late \in BOOLEAN
    /\ unprobed \subseteq Hostnames
    /\ claimedAt \in [Hostnames -> 0..MaxChanges]
    /\ former \in [Hostnames -> SUBSET Applications]

-----------------------------------------------------------------------------
\* An application's routes all lead to its one serving origin, so a route is
\* named by the application whose origin it dials.
routable(h) == stage[h] \in {"routable", "ready"}

serveable_route_groups ==
    [h \in Hostnames |-> IF routable(h) /\ serving[owner[h]] THEN owner[h] ELSE None]

build_apps == [routes |-> serveable_route_groups, at |-> version]

\* The gateway asks the API for the origins in use now and refuses a route to
\* any other; which hostname leads to which of them it cannot tell.  That two of
\* these origins may not share an address under two names is EdgeConfig's.
validate_apps(want) ==
    \A h \in Hostnames : want.routes[h] # None => serving[want.routes[h]]

-----------------------------------------------------------------------------
(* The database. *)

Commits == version < MaxChanges /\ version' = version + 1
EdgeUnchanged == UNCHANGED <<lock, run, caddy, posts, faults, late>>

claim_domain(h, a) ==
    /\ owner[h] = None /\ Commits
    /\ owner' = [owner EXCEPT ![h] = a]
    /\ stage' = [stage EXCEPT ![h] = "pending"]
    /\ claimedAt' = [claimedAt EXCEPT ![h] = version + 1]
    /\ unprobed' = unprobed \ {h}
    /\ UNCHANGED <<serving, former>> /\ EdgeUnchanged

\* The DNS checks pass: the claim is verified and the domain provisioning.
Provision(h) ==
    /\ stage[h] = "pending" /\ Commits
    /\ stage' = [stage EXCEPT ![h] = "routable"]
    /\ UNCHANGED <<owner, serving, unprobed, claimedAt, former>> /\ EdgeUnchanged

\* The workspace probe goes through Caddy and finds the owner's own origin.
ProbeFinds_Any(h) == caddy.routes[h] # None
ProbeFinds(h) == caddy.routes[h] = owner[h]

\* A check of a hostname in service or about to be passes.  The probe may be
\* disabled (workspace_probe_enabled, which the operator may set at any time, or
\* no prober): then the origin is only asked for in the database, and the check
\* records that.
origin_outcome(h) ==
    /\ routable(h) /\ serving[owner[h]]
    /\ stage' = [stage EXCEPT ![h] = "ready"]
    /\ \/ ProbeFinds(h) /\ unprobed' = unprobed \ {h}
       \/ unprobed' = unprobed \cup {h}
    /\ UNCHANGED <<owner, serving, version, claimedAt, former>> /\ EdgeUnchanged

\* A check fails or the claim is re-issued.
FallBack(h) ==
    /\ routable(h) /\ Commits
    /\ stage' = [stage EXCEPT ![h] = "pending"]
    /\ UNCHANGED <<owner, serving, unprobed, claimedAt, former>> /\ EdgeUnchanged

delete_domain(h) ==
    /\ owner[h] # None /\ Commits
    /\ owner' = [owner EXCEPT ![h] = None]
    /\ stage' = [stage EXCEPT ![h] = "none"]
    /\ former' = [former EXCEPT ![h] = @ \cup {owner[h]}]
    /\ UNCHANGED <<serving, unprobed, claimedAt>> /\ EdgeUnchanged

\* activate_origin, retire_origin, a failed verification, suspension.
ChangeOrigin(a) ==
    /\ Commits
    /\ serving' = [serving EXCEPT ![a] = ~@]
    /\ UNCHANGED <<owner, stage, unprobed, claimedAt, former>> /\ EdgeUnchanged

-----------------------------------------------------------------------------
(* One run of a reconciler. *)

DatabaseUnchanged == UNCHANGED <<owner, stage, serving, version, unprobed, claimedAt, former>>
Fault == faults < MaxFaults /\ faults' = faults + 1

\* Leaving the transaction releases the lock, and forgets the POST if there
\* is one: its sender no longer waits for the answer.
Leave(r) ==
    /\ run' = [run EXCEPT ![r] = [pc |-> "idle", want |-> [routes |-> NoRoutes, at |-> 0]]]
    /\ lock' = IF lock = r THEN None ELSE lock

\* A POST without its sender is lost, or still under way and applied later.
Abandon(r) ==
    \/ posts' = {p \in posts : p.by # r} /\ UNCHANGED late
    \/ /\ \E p \in posts : p.by = r
       /\ posts' = {IF p.by = r THEN [p EXCEPT !.by = None] ELSE p : p \in posts}
       /\ late' = TRUE

LockFree_Ignored(r) == TRUE
LockFree(r) == lock = None

\* acquire_reconcile_lock is the first statement, the snapshot the second.
acquire_reconcile_lock(r) ==
    /\ run[r].pc = "idle" /\ LockFree(r)
    /\ lock' = r
    /\ run' = [run EXCEPT ![r] = [pc |-> "built", want |-> build_apps]]
    /\ DatabaseUnchanged /\ UNCHANGED <<caddy, posts, faults, late>>

SameConfig_Hostnames(r) ==
    \A h \in Hostnames : (caddy.routes[h] = None) <=> (run[r].want.routes[h] = None)
SameConfig(r) == caddy.routes = run[r].want.routes

\* get_config: nothing to do when Caddy already runs the wanted routes.
get_config(r) ==
    /\ run[r].pc = "built"
    /\ \/ SameConfig(r) /\ Leave(r)
       \/ /\ ~SameConfig(r)
          /\ run' = [run EXCEPT ![r] = [@ EXCEPT !.pc = "differs"]]
          /\ UNCHANGED lock
    /\ DatabaseUnchanged /\ UNCHANGED <<caddy, posts, faults, late>>

\* caddy_unavailable: the run ends and the next one tries again.
Unavailable(r) ==
    /\ run[r].pc \in {"built", "differs"} /\ Fault
    /\ Leave(r)
    /\ DatabaseUnchanged /\ UNCHANGED <<caddy, posts, late>>

set_apps(r) ==
    /\ run[r].pc = "differs"
    /\ posts' = posts \cup {[by |-> r, want |-> run[r].want]}
    /\ run' = [run EXCEPT ![r] = [@ EXCEPT !.pc = "posted"]]
    /\ DatabaseUnchanged /\ UNCHANGED <<lock, caddy, faults, late>>

\* The gateway validates the POST and hands it to Caddy; the sender, if it is
\* still there, gets the answer, applied or config_rejected, and leaves.
Process(p) ==
    /\ p \in posts
    /\ posts' = posts \ {p}
    /\ caddy' = IF validate_apps(p.want) THEN p.want ELSE caddy
    /\ IF p.by # None THEN Leave(p.by) ELSE UNCHANGED <<run, lock>>
    /\ DatabaseUnchanged /\ UNCHANGED <<faults, late>>

\* The client's timeout ends the run; what it sent may still be under way.
PostTimesOut(r) ==
    /\ run[r].pc = "posted" /\ Fault
    /\ Leave(r)
    /\ Abandon(r)
    /\ DatabaseUnchanged /\ UNCHANGED caddy

\* The process dies: the database ends its transaction.
Crash(r) ==
    /\ run[r].pc # "idle" /\ Fault
    /\ Leave(r)
    /\ Abandon(r)
    /\ DatabaseUnchanged /\ UNCHANGED caddy

\* Caddy starts from the bootstrap configuration, which has no routes.
RestartCaddy ==
    /\ Fault
    /\ caddy' = [caddy EXCEPT !.routes = NoRoutes]
    /\ DatabaseUnchanged /\ UNCHANGED <<lock, run, posts, late>>

-----------------------------------------------------------------------------
Init ==
    /\ owner = [h \in Hostnames |-> None]
    /\ stage = [h \in Hostnames |-> "none"]
    /\ serving = [a \in Applications |-> TRUE]
    /\ lock = None
    /\ run = [r \in Reconcilers |-> [pc |-> "idle", want |-> [routes |-> NoRoutes, at |-> 0]]]
    /\ caddy = [routes |-> NoRoutes, at |-> 0]
    /\ posts = {} /\ version = 0 /\ faults = 0
    /\ unprobed = {} /\ late = FALSE
    /\ claimedAt = [h \in Hostnames |-> 0] /\ former = [h \in Hostnames |-> {}]

Change ==
    \/ \E h \in Hostnames :
         \/ \E a \in Applications : claim_domain(h, a)
         \/ Provision(h) \/ FallBack(h) \/ delete_domain(h) \/ origin_outcome(h)
    \/ \E a \in Applications : ChangeOrigin(a)

Run(r) == acquire_reconcile_lock(r) \/ get_config(r) \/ set_apps(r)

Answered(r) == \E p \in posts : p.by = r /\ Process(p)

Next ==
    \/ Change
    \/ \E r \in Reconcilers : Run(r) \/ Unavailable(r) \/ PostTimesOut(r) \/ Crash(r)
    \/ \E p \in posts : Process(p)
    \/ RestartCaddy

Spec == Init /\ [][Next]_vars

-----------------------------------------------------------------------------
(* Properties. *)

\* What the assertion vouches for and what Caddy dials belong together: a ready
\* hostname is routed to another application's origin only by a snapshot from
\* before its owner claimed it, and then only if
\*   - a POST was applied after its sender's run had ended, or
\*   - the owner's origin check passed with the probe disabled, or
\*   - the owner held the hostname before, took it back, passed all its checks
\*     (the probe found the routes of the first time) and a snapshot from in
\*     between was applied, all within one run of a reconciler.
NoForeignOrigin ==
    \A h \in Hostnames :
        stage[h] = "ready" /\ caddy.routes[h] \notin {owner[h], None} =>
            /\ caddy.at < claimedAt[h]
            /\ late \/ h \in unprobed \/ owner[h] \in former[h]

\* The advisory lock is held from the snapshot to the end of the POST, so that a
\* snapshot is never applied over a newer one (the docstring of lock.py), until
\* a POST outlives its sender's timeout or its sender's connection.
SnapshotInOrder == ~late' => caddy'.at >= caddy.at

\* Once the changes and the faults end, Caddy comes to run what the database
\* asks for and keeps it: rejected, lost and late POSTs are all made up for.
UpToDate == caddy.routes = serveable_route_groups
=============================================================================
