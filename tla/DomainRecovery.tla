-------------------------- MODULE DomainRecovery --------------------------
(***************************************************************************)
(* Whether the checks workers bring a domain into service by themselves.   *)
(* From some moment on (calm) the customer's records are right, the edge   *)
(* and the origin answer, nobody registers, re-issues, deletes or suspends *)
(* anything and no process dies; everything before that moment, crashes,   *)
(* lost leases and half-finished runs included, is DomainLifecycle's.      *)
(***************************************************************************)
EXTENDS DomainLifecycle

VARIABLE calm

\* Requests still open when things calm down finish, one way or the other.
Finish(r) ==
    \/ \E d \in Domains, c \in Claims : reissue_claim(r, d, c)
    \/ delete_domain(r)
    \/ delete_application(r)
    \/ Abandon(r)

\* A run's steps when DNS and the edge answer as they should.
Run(w) ==
    /\ WorkerStep(w)
    /\ worker'[w].pc = "queried" => worker'[w].out = DNS_CHECK_TYPES
    /\ worker'[w].pc = "probed" => worker'[w].out = EDGE_CHECK_TYPES

CalmNext ==
    \/ \E r \in Requests : Finish(r)
    \/ \E w \in Workers : Run(w)
    \/ Time

RecoveryNext ==
    \/ ~calm /\ Next /\ UNCHANGED calm
    \/ ~calm /\ calm' = TRUE /\ UNCHANGED vars
    \/ calm /\ CalmNext /\ UNCHANGED calm

\* The calm steps that are taken in the end.
Finishes(r) == calm /\ Finish(r) /\ UNCHANGED calm
Runs(w) == calm /\ Run(w) /\ UNCHANGED calm
ComesDue(d, p) == calm /\ CheckDue(d, p) /\ UNCHANGED calm

\* What the workers bring about: every live domain of an active application is served.
AllServed == \A d \in Domains : phase[d] = "live" /\ app[owner[d]] = "active" => is_serveable(d)
============================================================================
