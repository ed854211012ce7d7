------------------------------ MODULE Traffic ------------------------------
(***************************************************************************)
(* Traffic counts of one hostname.  Caddy keeps a running total, which a   *)
(* new configuration or a restart sets to zero; every reconciler run reads *)
(* it, adds the increase since the stored baseline to the owner's count,   *)
(* and sets the baseline to zero when it has applied a configuration.  Both *)
(* writes are savepoints of the run's transaction.                         *)
(***************************************************************************)
EXTENDS Integers, FiniteSets, Functions

CONSTANTS
    Apps,           \* applications the hostname may belong to
    None,
    MaxServed,      \* requests served in a behaviour
    MaxRuns         \* reconciler runs in a behaviour

VARIABLES
    total,          \* Caddy's [requests, bytes] for the hostname
    counter,        \* the committed EdgeTrafficCounter
    traffic,        \* the committed ApplicationTraffic of each application
    owner,          \* the application of the live domain, or None
    run,            \* the reconciler's run: its step and uncommitted writes
    posted,         \* a configuration sent and not yet applied
    served, lost,   \* history: requests served; read by no one
    faulty,         \* history: Caddy restarted, a POST timed out, a write failed
    runs

vars == <<total, counter, traffic, owner, run, posted, served, lost, faulty, runs>>

\* What is asked of the constants.
TrafficConstants == IsFiniteSet(Apps) /\ None \notin Apps

Zero == [requests |-> 0, bytes |-> 0]
Plus(x, y) == [requests |-> x.requests + y.requests, bytes |-> x.bytes + y.bytes]
Minus(x, y) == [requests |-> x.requests - y.requests, bytes |-> x.bytes - y.bytes]
Count == [requests : 0..MaxServed, bytes : 0..MaxServed]
Idle == [pc |-> "idle", counter |-> Zero, traffic |-> [a \in Apps |-> Zero]]

\* The run's own writes stay in its transaction until it commits.
TypeOK ==
    /\ total \in Count /\ counter \in Count /\ served \in Count /\ lost \in Count
    /\ traffic \in [Apps -> Count]
    /\ owner \in Apps \cup {None}
    /\ run \in [pc : {"idle", "locked", "applying", "changed", "committing"},
                counter : Count, traffic : [Apps -> Count]]
    /\ posted \in BOOLEAN /\ faulty \in BOOLEAN
    /\ runs \in 0..MaxRuns

Init ==
    /\ total = Zero /\ counter = Zero
    /\ traffic = [a \in Apps |-> Zero]
    /\ owner \in Apps
    /\ run = Idle
    /\ posted = FALSE
    /\ served = Zero /\ lost = Zero /\ faulty = FALSE
    /\ runs = 0

-----------------------------------------------------------------------------
(* The edge. *)

Serve(b) ==
    /\ served.requests < MaxServed
    /\ total' = Plus(total, [requests |-> 1, bytes |-> b])
    /\ served' = Plus(served, [requests |-> 1, bytes |-> b])
    /\ UNCHANGED <<counter, traffic, owner, run, posted, lost, faulty, runs>>

Restart ==
    /\ total' = Zero /\ faulty' = TRUE
    /\ UNCHANGED <<counter, traffic, owner, run, posted, served, lost, runs>>

\* A POST whose answer the reconciler did not wait for takes effect, or never.
AppliedLate ==
    /\ posted
    /\ posted' = FALSE
    /\ total' \in {total, Zero}
    /\ UNCHANGED <<counter, traffic, owner, run, served, lost, faulty, runs>>

\* The domain is deleted, or registered by another application.
OwnerChanges ==
    /\ owner' \in (Apps \cup {None}) \ {owner}
    /\ UNCHANGED <<total, counter, traffic, run, posted, served, lost, faulty, runs>>

-----------------------------------------------------------------------------
(* A run. *)

acquire_reconcile_lock ==
    /\ run.pc = "idle" /\ runs < MaxRuns
    /\ runs' = runs + 1
    /\ run' = [pc |-> "locked", counter |-> counter, traffic |-> traffic]
    /\ UNCHANGED <<total, counter, traffic, owner, posted, served, lost, faulty>>

\* Lower than before in either total: Caddy restarted, count from zero.
Added(reading, base) ==
    IF reading.requests < base.requests \/ reading.bytes < base.bytes
    THEN reading ELSE Minus(reading, base)

\* Caddy reports a hostname once it has served a request for it.  A baseline
\* it no longer reports is forgotten after COUNTER_EXPIRY.
record_totals ==
    /\ run.pc = "locked"
    /\ \/ /\ total.requests > 0
          /\ LET added == Added(total, run.counter) IN
             /\ run' = [pc |-> "applying", counter |-> total,
                        traffic |-> IF owner = None THEN run.traffic
                                    ELSE [run.traffic EXCEPT ![owner] = Plus(@, added)]]
             /\ lost' = IF owner = None /\ ~faulty THEN Plus(lost, added) ELSE lost
          /\ UNCHANGED faulty
       \/ /\ total.requests = 0
          /\ \E base \in {run.counter, Zero} :
               run' = [run EXCEPT !.pc = "applying", !.counter = base]
          /\ UNCHANGED <<lost, faulty>>
       \/ /\ run' = [run EXCEPT !.pc = "applying"]   \* not read, or not written
          /\ faulty' = TRUE /\ UNCHANGED lost
    /\ UNCHANGED <<total, counter, traffic, owner, posted, served, runs>>

\* The configuration is already as desired, or Caddy cannot be reached or
\* rejects it.
Unchanged ==
    /\ run.pc = "applying"
    /\ run' = [run EXCEPT !.pc = "committing"]
    /\ UNCHANGED <<total, counter, traffic, owner, posted, served, lost, faulty, runs>>

\* Accepted; what came in since the reading is read by no one.
Applied ==
    /\ run.pc = "applying"
    /\ run' = [run EXCEPT !.pc = "changed"]
    /\ lost' = IF faulty THEN lost ELSE Plus(lost, Minus(total, run.counter))
    /\ total' = Zero
    /\ UNCHANGED <<counter, traffic, owner, posted, served, faulty, runs>>

\* An error to the reconciler, whatever becomes of the POST.
AfterTimeout_Changed == "changed"
AfterTimeout == "committing"
TimedOut ==
    /\ run.pc = "applying"
    /\ run' = [run EXCEPT !.pc = AfterTimeout]
    /\ posted' = TRUE /\ faulty' = TRUE
    /\ UNCHANGED <<total, counter, traffic, owner, served, lost, runs>>


reset_baselines ==
    /\ run.pc = "changed"
    /\ \/ run' = [run EXCEPT !.pc = "committing", !.counter = Zero] /\ UNCHANGED faulty
       \/ run' = [run EXCEPT !.pc = "committing"] /\ faulty' = TRUE
    /\ UNCHANGED <<total, counter, traffic, owner, posted, served, lost, runs>>

Commit ==
    /\ run.pc = "committing"
    /\ run' = Idle
    /\ \/ counter' = run.counter /\ traffic' = run.traffic /\ UNCHANGED faulty
       \/ UNCHANGED <<counter, traffic>> /\ faulty' = TRUE
    /\ UNCHANGED <<total, owner, posted, served, lost, runs>>

Next ==
    \/ \E b \in {0, 1} : Serve(b)
    \/ Restart \/ AppliedLate \/ OwnerChanges
    \/ acquire_reconcile_lock \/ record_totals
    \/ Unchanged \/ Applied \/ TimedOut
    \/ reset_baselines \/ Commit

Spec == Init /\ [][Next]_vars

-----------------------------------------------------------------------------
(* Properties. *)

Recorded == FoldFunction(Plus, Zero, traffic)

\* No fault makes the service record traffic that was not served: restarts,
\* lost answers, late configurations, failed writes and changes of owner lose
\* counts at worst.
NeverOvercounts ==
    Recorded.requests <= served.requests /\ Recorded.bytes <= served.bytes

\* Without faults every request is recorded, or still to be read, or came in
\* between the reading and the configuration that followed it (or while the
\* hostname had no owner).
NothingElseIsLost ==
    run.pc = "idle" /\ ~faulty =>
        Plus(Plus(Recorded, lost), Minus(total, counter)) = served

\* record_totals never counts what was not served, and without faults misses
\* only what falls between a reading and a POST.
TrafficIsAccurate == NeverOvercounts /\ NothingElseIsLost
=============================================================================
