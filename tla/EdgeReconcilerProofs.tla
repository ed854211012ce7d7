------------------------ MODULE EdgeReconcilerProofs ------------------------
(***************************************************************************)
(* Theorems about EdgeReconciler, as MCProgress instantiates it, for every *)
(* set of applications, hostnames and reconcilers and any number of        *)
(* commits and faults.                                                     *)
(***************************************************************************)
EXTENDS MCProgress, TLAPS

Running(r) == run[r].pc # "idle"

StageFollowsOwner == \A h \in EdgeHosts : stage[h] = "none" <=> eOwner[h] = None

ClaimedInThePast == \A h \in EdgeHosts : claimedAt[h] <= version

\* What a configuration built by some earlier commit says of the database now:
\* for a hostname claimed no later than that, at most its owner's route; and a
\* route of an application that never gave the hostname up is its owner's.
Faithful(config) ==
    /\ config.at <= version
    /\ \A h \in EdgeHosts :
         /\ eOwner[h] # None /\ config.at >= claimedAt[h]
              => config.routes[h] \in {eOwner[h], None}
         /\ config.routes[h] # None /\ config.routes[h] \notin former[h]
              => eOwner[h] = config.routes[h] /\ config.at >= claimedAt[h]

AllFaithful ==
    /\ Faithful(caddy)
    /\ \A r \in Reconcilers : Running(r) => Faithful(run[r].want)
    /\ \A p \in posts : Faithful(p.want)

\* A POST whose sender still waits carries the sender's snapshot.
PostsOfRuns ==
    \A p \in posts : \/ p.by = None /\ late
                     \/ /\ p.by \in Reconcilers
                        /\ run[p.by].pc = "posted" /\ p.want = run[p.by].want

\* A run's snapshot is at least as new as what Caddy runs.
RunsAreNewer ==
    ~late => \A r \in Reconcilers : Running(r) => caddy.at <= run[r].want.at

\* The probe of a new owner, if there was one, went through routes built since
\* its claim.
ProbedUnderClaim ==
    ~late => \A h \in EdgeHosts :
               stage[h] = "ready" /\ h \notin unprobed /\ eOwner[h] \notin former[h]
                   => caddy.at >= claimedAt[h]

EdgeInv ==
    /\ Ed!TypeOK
    /\ StageFollowsOwner
    /\ ClaimedInThePast
    /\ AllFaithful
    /\ PostsOfRuns
    /\ RunsAreNewer
    /\ ProbedUnderClaim

LEMMA EmptyConfig == [routes |-> Ed!NoRoutes, at |-> 0] \in Ed!Config
BY PartsAssumption DEF Ed!EdgeConstants, Ed!Config, Ed!Routes, Ed!NoRoutes

LEMMA InitEdge == Ed!Init => EdgeInv
<1> SUFFICES ASSUME Ed!Init PROVE EdgeInv
  OBVIOUS
<1> USE PartsAssumption DEF Ed!EdgeConstants, Ed!Init
<1>1. Ed!TypeOK
  <2>1. run \in [Reconcilers -> [pc : {"idle", "built", "differs", "posted"}, want : Ed!Config]]
        /\ caddy \in Ed!Config
    BY EmptyConfig
  <2>2. \A r \in Reconcilers : run[r].pc # "idle" <=> lock = r
    OBVIOUS
  <2>3. serving \in [EdgeApps -> BOOLEAN] /\ late \in BOOLEAN
    OBVIOUS
  <2> QED
    BY <2>1, <2>2, <2>3 DEF Ed!TypeOK
<1>2. Faithful(caddy)
  BY DEF Faithful, Ed!NoRoutes
<1> QED
  BY <1>1, <1>2 DEF EdgeInv, StageFollowsOwner, ClaimedInThePast, AllFaithful, Running,
                    PostsOfRuns, RunsAreNewer, ProbedUnderClaim

-----------------------------------------------------------------------------
(* The database. *)

\* A configuration that agrees with the database agrees with it after any
\* commit: a new claim is later than every configuration there is, and an
\* application that gives a hostname up is a former owner of it.
LEMMA FaithfulStays ==
    ASSUME EdgeInv, Ed!Change, NEW config \in Ed!Config, Faithful(config)
    PROVE  Faithful(config)'
<1> USE PartsAssumption DEF Ed!EdgeConstants, Ed!Config, Ed!Routes
<1>0. /\ eOwner \in [EdgeHosts -> EdgeApps \cup {None}] /\ version \in Nat
      /\ claimedAt \in [EdgeHosts -> Nat] /\ former \in [EdgeHosts -> SUBSET EdgeApps]
  BY DEF EdgeInv, Ed!TypeOK
<1>1. ASSUME NEW h \in EdgeHosts, NEW a \in EdgeApps, Ed!claim_domain(h, a)
      PROVE  Faithful(config)'
  BY <1>0, <1>1 DEF Ed!claim_domain, Ed!Commits, Faithful
<1>2. ASSUME NEW h \in EdgeHosts, Ed!Provision(h) \/ Ed!FallBack(h) \/ Ed!origin_outcome(h)
      PROVE  Faithful(config)'
  BY <1>0, <1>2 DEF Ed!Provision, Ed!FallBack, Ed!origin_outcome, Ed!Commits, Faithful
<1>3. ASSUME NEW h \in EdgeHosts, Ed!delete_domain(h) PROVE Faithful(config)'
  BY <1>0, <1>3 DEF Ed!delete_domain, Ed!Commits, Faithful
<1>4. ASSUME NEW a \in EdgeApps, Ed!ChangeOrigin(a) PROVE Faithful(config)'
  BY <1>0, <1>4 DEF Ed!ChangeOrigin, Ed!Commits, Faithful
<1> QED
  BY <1>1, <1>2, <1>3, <1>4 DEF Ed!Change

LEMMA ChangeRows ==
    ASSUME EdgeInv, Ed!Change
    PROVE  /\ Ed!TypeOK' /\ StageFollowsOwner' /\ ClaimedInThePast' /\ ProbedUnderClaim'
           /\ Ed!EdgeUnchanged
<1> USE PartsAssumption
    DEF Ed!EdgeConstants, EdgeInv, Ed!TypeOK, StageFollowsOwner, ClaimedInThePast, ProbedUnderClaim, Ed!EdgeUnchanged
<1>0. caddy.at \in Nat
  BY DEF Ed!Config
<1>1. ASSUME NEW h \in EdgeHosts, NEW a \in EdgeApps, Ed!claim_domain(h, a)
      PROVE  /\ Ed!TypeOK' /\ StageFollowsOwner' /\ ClaimedInThePast' /\ ProbedUnderClaim'
             /\ Ed!EdgeUnchanged
  BY <1>1, <1>0 DEF Ed!claim_domain, Ed!Commits
<1>2. ASSUME NEW h \in EdgeHosts, Ed!Provision(h) \/ Ed!FallBack(h)
      PROVE  /\ Ed!TypeOK' /\ StageFollowsOwner' /\ ClaimedInThePast' /\ ProbedUnderClaim'
             /\ Ed!EdgeUnchanged
  BY <1>2, <1>0 DEF Ed!Provision, Ed!FallBack, Ed!routable, Ed!Commits
<1>3. ASSUME NEW h \in EdgeHosts, Ed!delete_domain(h)
      PROVE  /\ Ed!TypeOK' /\ StageFollowsOwner' /\ ClaimedInThePast' /\ ProbedUnderClaim'
             /\ Ed!EdgeUnchanged
  BY <1>3, <1>0 DEF Ed!delete_domain, Ed!Commits
<1>4. ASSUME NEW h \in EdgeHosts, Ed!origin_outcome(h)
      PROVE  /\ Ed!TypeOK' /\ StageFollowsOwner' /\ ClaimedInThePast' /\ ProbedUnderClaim'
             /\ Ed!EdgeUnchanged
  <2>1. Ed!TypeOK' /\ StageFollowsOwner' /\ ClaimedInThePast' /\ Ed!EdgeUnchanged
    BY <1>4 DEF Ed!origin_outcome, Ed!routable
  <2>2. h \notin unprobed' /\ eOwner[h] \notin former[h] => caddy.at >= claimedAt[h]
    BY <1>4 DEF Ed!origin_outcome, Ed!routable, Ed!ProbeFinds, AllFaithful, Faithful
  <2> QED
    BY <1>4, <2>1, <2>2, <1>0 DEF Ed!origin_outcome
<1>5. ASSUME NEW a \in EdgeApps, Ed!ChangeOrigin(a)
      PROVE  /\ Ed!TypeOK' /\ StageFollowsOwner' /\ ClaimedInThePast' /\ ProbedUnderClaim'
             /\ Ed!EdgeUnchanged
  BY <1>5, <1>0 DEF Ed!ChangeOrigin, Ed!Commits
<1> QED
  BY <1>1, <1>2, <1>3, <1>4, <1>5 DEF Ed!Change

LEMMA ChangeStep == EdgeInv /\ Ed!Change => EdgeInv'
<1> SUFFICES ASSUME EdgeInv, Ed!Change PROVE EdgeInv'
  OBVIOUS
<1>1. /\ caddy \in Ed!Config /\ \A r \in Reconcilers : run[r].want \in Ed!Config
      /\ \A p \in posts : p.want \in Ed!Config
  BY DEF EdgeInv, Ed!TypeOK
<1>2. Ed!EdgeUnchanged
  BY ChangeRows
<1>3. AllFaithful'
  <2>1. Faithful(caddy)'
    BY <1>1, <1>2, FaithfulStays DEF EdgeInv, AllFaithful, Ed!EdgeUnchanged, Faithful
  <2>2. ASSUME NEW r \in Reconcilers, Running(r)' PROVE Faithful(run[r].want)'
    BY <1>1, <1>2, <2>2, FaithfulStays DEF EdgeInv, AllFaithful, Ed!EdgeUnchanged, Faithful, Running
  <2>3. ASSUME NEW p \in posts' PROVE Faithful(p.want)'
    BY <1>1, <1>2, FaithfulStays DEF EdgeInv, AllFaithful, Ed!EdgeUnchanged, Faithful
  <2> QED
    BY <2>1, <2>2, <2>3 DEF AllFaithful
<1>4. PostsOfRuns' /\ RunsAreNewer'
  BY <1>2 DEF EdgeInv, Ed!EdgeUnchanged, PostsOfRuns, RunsAreNewer, Running
<1> QED
  BY <1>3, <1>4, ChangeRows DEF EdgeInv

-----------------------------------------------------------------------------
(* The runs. *)

\* The routes built from the database agree with it.
LEMMA BuiltIsFaithful == EdgeInv => Ed!build_apps \in Ed!Config /\ Faithful(Ed!build_apps)
<1> SUFFICES ASSUME EdgeInv PROVE Ed!build_apps \in Ed!Config /\ Faithful(Ed!build_apps)
  OBVIOUS
<1> USE PartsAssumption DEF Ed!EdgeConstants, EdgeInv, Ed!TypeOK
<1>1. ASSUME NEW h \in EdgeHosts
      PROVE  Ed!serveable_route_groups[h] \in (EdgeApps \cap {eOwner[h]}) \cup {None}
  BY DEF Ed!serveable_route_groups, Ed!routable, StageFollowsOwner
<1>2. Ed!serveable_route_groups \in Ed!Routes
  BY <1>1 DEF Ed!serveable_route_groups, Ed!Routes
<1> QED
  BY <1>1, <1>2 DEF Ed!build_apps, Ed!Config, Faithful, ClaimedInThePast

\* A run that ends leaves the others as they are.
LEMMA LeaveType ==
    ASSUME EdgeInv, NEW r \in Reconcilers, Running(r), Ed!Leave(r)
    PROVE  /\ lock' = None
           /\ run' \in [Reconcilers -> [pc : {"idle", "built", "differs", "posted"}, want : Ed!Config]]
           /\ \A q \in Reconcilers : ~Running(q)'
BY EmptyConfig DEF EdgeInv, Ed!TypeOK, Ed!Leave, Running

\* Without the database and Caddy changing, and no new POST, what remains to
\* show is that the runs and their POSTs still belong together.
LEMMA FramedStep ==
    ASSUME EdgeInv, Ed!DatabaseUnchanged, Ed!TypeOK', PostsOfRuns', UNCHANGED caddy,
           late => late',
           \A r \in Reconcilers : Running(r)' => Running(r) /\ run'[r].want = run[r].want,
           \A p \in posts' : \E q \in posts : p.want = q.want
    PROVE  EdgeInv'
<1>1. AllFaithful'
  BY DEF EdgeInv, AllFaithful, Faithful, Ed!DatabaseUnchanged
<1>2. StageFollowsOwner' /\ ClaimedInThePast'
  BY DEF EdgeInv, StageFollowsOwner, ClaimedInThePast, Ed!DatabaseUnchanged
<1>3. RunsAreNewer' /\ ProbedUnderClaim'
  BY DEF EdgeInv, RunsAreNewer, ProbedUnderClaim, Ed!DatabaseUnchanged
<1> QED
  BY <1>1, <1>2, <1>3 DEF EdgeInv

LEMMA AcquireStep ==
    ASSUME EdgeInv, NEW r \in Reconcilers, Ed!acquire_reconcile_lock(r)
    PROVE  EdgeInv'
<1> USE PartsAssumption DEF Ed!EdgeConstants, Ed!acquire_reconcile_lock, Ed!DatabaseUnchanged
<1>1. Ed!build_apps \in Ed!Config /\ Faithful(Ed!build_apps)
  BY BuiltIsFaithful
<1>2. Ed!TypeOK'
  BY <1>1 DEF EdgeInv, Ed!TypeOK, Ed!LockFree
<1>3. /\ run'[r] = [pc |-> "built", want |-> Ed!build_apps]
      /\ \A q \in Reconcilers \ {r} : run'[q] = run[q]
  BY DEF EdgeInv, Ed!TypeOK
<1>4. AllFaithful'
  BY <1>1, <1>3 DEF EdgeInv, AllFaithful, Faithful, Running
<1>5. StageFollowsOwner' /\ ClaimedInThePast' /\ ProbedUnderClaim'
  BY DEF EdgeInv, StageFollowsOwner, ClaimedInThePast, ProbedUnderClaim
<1>6. PostsOfRuns'
  BY <1>3 DEF EdgeInv, PostsOfRuns
<1>7. RunsAreNewer'
  BY <1>3 DEF EdgeInv, RunsAreNewer, AllFaithful, Faithful, Running, Ed!build_apps
<1> QED
  BY <1>2, <1>4, <1>5, <1>6, <1>7 DEF EdgeInv

LEMMA RunStep ==
    ASSUME EdgeInv, NEW r \in Reconcilers, Ed!get_config(r) \/ Ed!set_apps(r) \/ Ed!Unavailable(r)
    PROVE  EdgeInv'
<1> USE PartsAssumption DEF Ed!EdgeConstants, Running
<1>0. \A p \in posts : p.by = r => run[r].pc = "posted"
  BY DEF EdgeInv, PostsOfRuns
<1>1. CASE run[r].pc \in {"built", "differs"} /\ Ed!Leave(r) /\ Ed!DatabaseUnchanged
           /\ faults' \in 0..MaxEdgeFaults /\ UNCHANGED <<caddy, posts, late>>
  <2>1. Ed!TypeOK'
    BY <1>1, LeaveType DEF EdgeInv, Ed!TypeOK, Ed!DatabaseUnchanged
  <2>2. PostsOfRuns'
    BY <1>0, <1>1 DEF EdgeInv, Ed!TypeOK, PostsOfRuns, Ed!Leave
  <2> QED
    BY <1>1, <2>1, <2>2, LeaveType, FramedStep
<1>2. CASE Ed!get_config(r) /\ ~Ed!SameConfig(r)
  <2>1. /\ run'[r] = [run[r] EXCEPT !.pc = "differs"]
        /\ \A q \in Reconcilers \ {r} : run'[q] = run[q]
        /\ run[r].pc = "built"
        /\ run'[r].pc = "differs" /\ run'[r].want = run[r].want
    BY <1>2 DEF Ed!get_config, EdgeInv, Ed!TypeOK
  <2>2. Ed!TypeOK'
    BY <1>2, <2>1 DEF Ed!get_config, EdgeInv, Ed!TypeOK, Ed!DatabaseUnchanged
  <2>3. PostsOfRuns'
    BY <1>0, <1>2, <2>1 DEF Ed!get_config, EdgeInv, PostsOfRuns
  <2> QED
    BY <1>2, <2>1, <2>2, <2>3, FramedStep DEF Ed!get_config
<1>3. CASE Ed!set_apps(r)
  <2>1. /\ \A q \in Reconcilers \ {r} : run'[q] = run[q]
        /\ run[r].pc = "differs"
        /\ run'[r].pc = "posted" /\ run'[r].want = run[r].want
    BY <1>3 DEF Ed!set_apps, EdgeInv, Ed!TypeOK
  <2>2. Ed!TypeOK'
    BY <1>3, <2>1 DEF Ed!set_apps, EdgeInv, Ed!TypeOK, Ed!DatabaseUnchanged
  <2>3. PostsOfRuns'
    BY <1>0, <1>3, <2>1 DEF Ed!set_apps, EdgeInv, PostsOfRuns
  <2>4. AllFaithful'
    BY <1>3, <2>1 DEF Ed!set_apps, EdgeInv, AllFaithful, Faithful, Ed!DatabaseUnchanged
  <2>5. StageFollowsOwner' /\ ClaimedInThePast' /\ ProbedUnderClaim' /\ RunsAreNewer'
    BY <1>3, <2>1 DEF Ed!set_apps, EdgeInv, StageFollowsOwner, ClaimedInThePast,
                      ProbedUnderClaim, RunsAreNewer, Ed!DatabaseUnchanged
  <2> QED
    BY <2>2, <2>3, <2>4, <2>5 DEF EdgeInv
<1> QED
  BY <1>1, <1>2, <1>3 DEF Ed!get_config, Ed!Unavailable, Ed!Fault, EdgeInv, Ed!TypeOK

\* A POST whose sender's run ends early is lost or goes on without it.
LEMMA AbandonedStep ==
    ASSUME EdgeInv, NEW r \in Reconcilers, Ed!PostTimesOut(r) \/ Ed!Crash(r)
    PROVE  EdgeInv'
<1> USE PartsAssumption DEF Ed!EdgeConstants, Running
<1>0. Running(r) /\ Ed!Leave(r) /\ Ed!Abandon(r) /\ Ed!DatabaseUnchanged /\ UNCHANGED caddy
      /\ faults' \in 0..MaxEdgeFaults
  BY DEF Ed!PostTimesOut, Ed!Crash, Ed!Fault, EdgeInv, Ed!TypeOK
<1>1. \A q \in Reconcilers : q # r => ~Running(q)
  BY <1>0 DEF EdgeInv, Ed!TypeOK
<1>2. \A p \in posts : p.by # r => p.by = None /\ late
  BY <1>1 DEF EdgeInv, PostsOfRuns
<1>3. /\ late' \in BOOLEAN /\ (late => late')
      /\ \A p \in posts' : \E q \in posts : p.want = q.want
      /\ posts' \subseteq [by : Reconcilers \cup {None}, want : Ed!Config]
      /\ \A p \in posts' : p.by = None /\ late'
  <2>1. posts \subseteq [by : Reconcilers \cup {None}, want : Ed!Config] /\ late \in BOOLEAN
    BY DEF EdgeInv, Ed!TypeOK
  <2>2. CASE posts' = {p \in posts : p.by # r} /\ UNCHANGED late
    BY <1>2, <2>1, <2>2
  <2>3. CASE /\ posts' = {IF p.by = r THEN [p EXCEPT !.by = None] ELSE p : p \in posts}
             /\ late' = TRUE
    BY <1>2, <2>1, <2>3
  <2> QED
    BY <1>0, <2>2, <2>3 DEF Ed!Abandon
<1>4. Ed!TypeOK'
  BY <1>0, <1>3, LeaveType DEF EdgeInv, Ed!TypeOK, Ed!DatabaseUnchanged
<1>5. PostsOfRuns'
  BY <1>3 DEF PostsOfRuns
<1> QED
  BY <1>0, <1>3, <1>4, <1>5, LeaveType, FramedStep

\* A POST whose sender waits has the only run there is, and its snapshot is at
\* least as new as what Caddy runs.
LEMMA ProcessStep ==
    ASSUME EdgeInv, NEW p \in posts, Ed!Process(p)
    PROVE  EdgeInv' /\ (~late' => caddy'.at >= caddy.at)
<1> USE PartsAssumption DEF Ed!EdgeConstants, Running
<1>0. /\ p \in [by : Reconcilers \cup {None}, want : Ed!Config] /\ Faithful(p.want)
      /\ caddy \in Ed!Config /\ Faithful(caddy) /\ caddy' \in {caddy, p.want}
      /\ caddy' \in Ed!Config /\ UNCHANGED late /\ Ed!DatabaseUnchanged
      /\ posts' = posts \ {p}
  BY DEF EdgeInv, Ed!TypeOK, AllFaithful, Ed!Process
<1>1. caddy.at \in Nat /\ caddy'.at \in Nat /\ \A h \in EdgeHosts : claimedAt[h] \in Nat
  BY <1>0 DEF Ed!Config, EdgeInv, Ed!TypeOK
<1>2. ~late => /\ p.by \in Reconcilers /\ Running(p.by) /\ p.want = run[p.by].want
               /\ caddy'.at >= caddy.at
  BY <1>0, <1>1 DEF EdgeInv, PostsOfRuns, RunsAreNewer
<1>3. p.by \in Reconcilers => Running(p.by) /\ Ed!Leave(p.by) /\ \A q \in posts' : q.by # p.by
  <2> SUFFICES ASSUME p.by \in Reconcilers, NEW q \in posts', q.by = p.by PROVE FALSE
    BY <1>0 DEF EdgeInv, PostsOfRuns, Ed!Process
  <2>1. q.want = p.want /\ q \in [by : Reconcilers \cup {None}, want : Ed!Config] /\ q # p
    BY <1>0 DEF EdgeInv, Ed!TypeOK, PostsOfRuns
  <2> QED
    BY <1>0, <2>1
<1>4. p.by = None => UNCHANGED <<run, lock>>
  BY DEF Ed!Process
<1>5. Ed!TypeOK'
  <2>1. CASE p.by \in Reconcilers
    BY <1>0, <1>3, <2>1, LeaveType DEF EdgeInv, Ed!TypeOK, Ed!DatabaseUnchanged, Ed!Process
  <2>2. CASE p.by = None
    BY <1>0, <1>4, <2>2 DEF EdgeInv, Ed!TypeOK, Ed!DatabaseUnchanged, Ed!Process
  <2> QED
    BY <1>0, <2>1, <2>2
<1>6. AllFaithful'
  <2>1. Faithful(caddy)' /\ \A q \in posts' : Faithful(q.want)'
    BY <1>0 DEF EdgeInv, AllFaithful, Faithful, Ed!DatabaseUnchanged
  <2>2. ASSUME NEW r \in Reconcilers, Running(r)' PROVE Faithful(run[r].want)'
    BY <1>0, <1>3, <1>4, <2>2, LeaveType DEF EdgeInv, AllFaithful, Faithful, Ed!DatabaseUnchanged
  <2> QED
    BY <2>1, <2>2 DEF AllFaithful
<1>7. StageFollowsOwner' /\ ClaimedInThePast'
  BY <1>0 DEF EdgeInv, StageFollowsOwner, ClaimedInThePast, Ed!DatabaseUnchanged
<1>8. PostsOfRuns'
  <2> SUFFICES ASSUME NEW q \in posts'
               PROVE  \/ q.by = None /\ late'
                      \/ /\ q.by \in Reconcilers
                         /\ run'[q.by].pc = "posted" /\ q.want = run'[q.by].want
    BY DEF PostsOfRuns
  <2>1. CASE p.by = None
    BY <1>0, <1>4, <2>1 DEF EdgeInv, PostsOfRuns
  <2>2. CASE p.by \in Reconcilers
    <3>1. run' = [run EXCEPT ![p.by] = [pc |-> "idle", want |-> [routes |-> Ed!NoRoutes, at |-> 0]]]
      BY <1>3, <2>2 DEF Ed!Leave
    <3> QED
      BY <1>0, <1>3, <2>2, <3>1 DEF EdgeInv, Ed!TypeOK, PostsOfRuns
  <2> QED
    BY <1>0, <2>1, <2>2
<1>9. RunsAreNewer' /\ ProbedUnderClaim'
  BY <1>0, <1>1, <1>2, <1>3, LeaveType
     DEF EdgeInv, RunsAreNewer, ProbedUnderClaim, Ed!DatabaseUnchanged
<1> QED
  BY <1>0, <1>2, <1>5, <1>6, <1>7, <1>8, <1>9 DEF EdgeInv

\* Caddy starts again without routes.
LEMMA RestartStep == EdgeInv /\ Ed!RestartCaddy => EdgeInv' /\ caddy'.at = caddy.at
<1> SUFFICES ASSUME EdgeInv, Ed!RestartCaddy PROVE EdgeInv' /\ caddy'.at = caddy.at
  OBVIOUS
<1> USE PartsAssumption DEF Ed!EdgeConstants, Ed!RestartCaddy, Ed!DatabaseUnchanged, Ed!Fault
<1>1. caddy' \in Ed!Config /\ caddy'.at = caddy.at /\ caddy'.routes = Ed!NoRoutes
  BY EmptyConfig DEF EdgeInv, Ed!TypeOK, Ed!Config
<1>2. Ed!TypeOK'
  BY <1>1 DEF EdgeInv, Ed!TypeOK
<1>3. AllFaithful'
  BY <1>1 DEF EdgeInv, AllFaithful, Faithful, Running, Ed!NoRoutes
<1>4. StageFollowsOwner' /\ ClaimedInThePast' /\ PostsOfRuns'
  BY DEF EdgeInv, StageFollowsOwner, ClaimedInThePast, PostsOfRuns
<1>5. RunsAreNewer' /\ ProbedUnderClaim'
  BY <1>1 DEF EdgeInv, RunsAreNewer, ProbedUnderClaim, Running
<1> QED
  BY <1>1, <1>2, <1>3, <1>4, <1>5 DEF EdgeInv

-----------------------------------------------------------------------------
LEMMA EdgeStep == EdgeInv /\ [Ed!Next]_(Ed!vars) => EdgeInv' /\ (~late' => caddy'.at >= caddy.at)
<1> SUFFICES ASSUME EdgeInv, [Ed!Next]_(Ed!vars) PROVE EdgeInv' /\ (~late' => caddy'.at >= caddy.at)
  OBVIOUS
<1>0. caddy.at \in Nat
  BY PartsAssumption DEF Ed!EdgeConstants, EdgeInv, Ed!TypeOK, Ed!Config
<1>1. CASE Ed!Change
  BY <1>0, <1>1, ChangeStep, ChangeRows DEF Ed!EdgeUnchanged
<1>2. ASSUME NEW r \in Reconcilers, Ed!Run(r) \/ Ed!Unavailable(r) \/ Ed!PostTimesOut(r) \/ Ed!Crash(r)
      PROVE  EdgeInv' /\ UNCHANGED caddy
  <2>1. CASE Ed!acquire_reconcile_lock(r)
    BY <2>1, AcquireStep DEF Ed!acquire_reconcile_lock
  <2>2. CASE Ed!get_config(r) \/ Ed!set_apps(r) \/ Ed!Unavailable(r)
    BY <2>2, RunStep DEF Ed!get_config, Ed!set_apps, Ed!Unavailable
  <2>3. CASE Ed!PostTimesOut(r) \/ Ed!Crash(r)
    BY <2>3, AbandonedStep DEF Ed!PostTimesOut, Ed!Crash
  <2> QED
    BY <1>2, <2>1, <2>2, <2>3 DEF Ed!Run
<1>3. ASSUME NEW p \in posts, Ed!Process(p) PROVE EdgeInv' /\ (~late' => caddy'.at >= caddy.at)
  BY <1>3, ProcessStep
<1>4. CASE Ed!RestartCaddy
  BY <1>0, <1>4, RestartStep
<1>5. CASE UNCHANGED Ed!vars
  <2>1. AllFaithful'
    BY <1>5 DEF Ed!vars, EdgeInv, AllFaithful, Faithful, Running
  <2> QED
    BY <1>0, <1>5, <2>1 DEF Ed!vars, EdgeInv, Ed!TypeOK, StageFollowsOwner, ClaimedInThePast, PostsOfRuns,
                            RunsAreNewer, ProbedUnderClaim, Running
<1> QED
  BY <1>0, <1>1, <1>2, <1>3, <1>4, <1>5 DEF Ed!Next

\* In the run's composition the reconcilers take their steps or none.
LEMMA EdgeInFocus ==
    /\ ProgressInit => EdgeInv
    /\ EdgeInv /\ [ProgressNext]_progressVars
         => EdgeInv' /\ (~late' => caddy'.at >= caddy.at)
<1>1. ProgressInit => Ed!Init
  BY DEF ProgressInit
<1>2. [ProgressNext]_progressVars => [Ed!Next]_(Ed!vars)
  BY DEF ProgressNext, progressVars, edgeVars, Ed!vars
<1> QED
  BY <1>1, <1>2, InitEdge, EdgeStep

\* However commits, runs, timeouts, crashes and restarts interleave, a ready
\* hostname is routed to another application's origin only by a snapshot from
\* before its owner's claim, and only if a POST outlived its sender, the check
\* passed with the probe disabled, or the owner had once given the hostname up.
THEOREM OwnOriginOnly == ProgressSpec => []NoForeignOrigin
<1>1. EdgeInv => NoForeignOrigin
  <2> SUFFICES ASSUME EdgeInv, NEW h \in EdgeHosts, stage[h] = "ready",
                      caddy.routes[h] \notin {eOwner[h], None}
               PROVE  /\ caddy.at < claimedAt[h]
                      /\ late \/ h \in unprobed \/ eOwner[h] \in former[h]
    BY DEF NoForeignOrigin, Ed!NoForeignOrigin
  <2>1. eOwner[h] # None
    BY DEF EdgeInv, StageFollowsOwner
  <2>2. ~(caddy.at >= claimedAt[h])
    BY <2>1 DEF EdgeInv, AllFaithful, Faithful
  <2>3. caddy.at \in Nat /\ claimedAt[h] \in Nat
    BY PartsAssumption DEF Ed!EdgeConstants, EdgeInv, Ed!TypeOK, Ed!Config
  <2> QED
    BY <2>2, <2>3 DEF EdgeInv, ProbedUnderClaim
<1> QED
  BY <1>1, EdgeInFocus, PTL DEF ProgressSpec

\* The lock row orders the snapshots: what Caddy runs is only ever replaced by
\* something built at least as late, until a POST outlives its sender.
THEOREM SnapshotsNeverGoBack == ProgressSpec => SnapshotsInOrder
<1>1. EdgeInv /\ [ProgressNext]_progressVars
        => [focus = "edge" => Ed!SnapshotInOrder]_edgeVars
  BY EdgeInFocus DEF Ed!SnapshotInOrder
<1> QED
  BY <1>1, EdgeInFocus, PTL DEF ProgressSpec, SnapshotsInOrder
=============================================================================
