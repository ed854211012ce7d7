----------------------------- MODULE MCProgress -----------------------------
(***************************************************************************)
(* The three background loops and what they must bring about: the webhook  *)
(* workers (WebhookDelivery, this module's own variables), the checks      *)
(* workers (DomainRecovery) and the reconcilers (EdgeReconciler).  They    *)
(* share no state; a behaviour is one of the loop in focus and the others  *)
(* stay as they began.                                                     *)
(***************************************************************************)
EXTENDS WebhookDelivery

CONSTANTS
    Applications, Hostnames, Domains, Claims, CheckWorkers, CheckRequests, Backend,
    SlowRuns, FirstClaim,                                           \* DomainRecovery
    EdgeApps, EdgeHosts, Reconcilers, MaxEdgeChanges, MaxEdgeFaults, FirstApp
                                                                    \* EdgeReconciler

VARIABLES
    focus,
    dApp, authed, phase, owner, host, status, check, since, due, claimRow, claimStatus,
    dWorker, dRequest, proven, seen, calm,
    eOwner, stage, serving, lock, run, caddy, posts, version, faults, unprobed, late,
    claimedAt, former

domainVars == <<dApp, authed, phase, owner, host, status, check, since, due, claimRow,
                claimStatus, dWorker, dRequest, proven, seen, calm>>
edgeVars == <<eOwner, stage, serving, lock, run, caddy, posts, version, faults, unprobed,
              late, claimedAt, former>>
progressVars == <<focus, vars, domainVars, edgeVars>>

Rec == INSTANCE DomainRecovery WITH
        Workers <- CheckWorkers, Requests <- CheckRequests,
        app <- dApp, worker <- dWorker, request <- dRequest

Ed == INSTANCE EdgeReconciler WITH
        Applications <- EdgeApps, Hostnames <- EdgeHosts,
        MaxChanges <- MaxEdgeChanges, MaxFaults <- MaxEdgeFaults, owner <- eOwner

\* What the theorems about the reconcilers ask of their constants.
ASSUME PartsAssumption == Ed!EdgeConstants

-----------------------------------------------------------------------------
ProgressInit ==
    /\ focus \in {"webhooks", "domains", "edge"}
    /\ Init /\ Rec!Init /\ calm = FALSE /\ Ed!Init

\* Tokens and applications are only compared, so which of them comes first may be
\* chosen (properties of infinite behaviours rule out TLC's symmetry reduction).
FirstToken == \/ \A c \in Claims : claimStatus[c] = "unissued"
              \/ claimStatus[FirstClaim] # "unissued"
FirstOwner == \A h \in EdgeHosts : former[h] = {} => eOwner[h] \in {None, FirstApp}

ProgressNext ==
    /\ UNCHANGED focus
    /\ \/ focus = "webhooks" /\ Next /\ UNCHANGED <<domainVars, edgeVars>>
       \/ focus = "domains" /\ Rec!RecoveryNext /\ FirstToken' /\ UNCHANGED <<vars, edgeVars>>
       \/ focus = "edge" /\ Ed!Next /\ FirstOwner' /\ UNCHANGED <<vars, domainVars>>

ProgressSpec == ProgressInit /\ [][ProgressNext]_progressVars

\* What a webhook worker's loop gives each delivery: time passes, an attempt ends
\* (every socket operation has a timeout), and due deliveries are taken oldest
\* first, so that none is passed over for ever.
WebhookFairness ==
    /\ \A w \in Workers : WF_vars(focus = "webhooks" /\ Attempt(w))
    /\ \A d \in Deliveries :
         /\ WF_vars(focus = "webhooks" /\ BecomeDue(d))
         /\ SF_vars(focus = "webhooks" /\ \E w \in Workers : lease_delivery(w, d))
    /\ WF_vars(focus = "webhooks" /\ \E w \in Workers : settle_deleted_applications(w))

\* Checks workers poll for ever, transactions end, and time passes: every scheduled
\* check comes due and every lease runs out.
DomainFairness ==
    /\ \A r \in CheckRequests : WF_domainVars(focus = "domains" /\ Rec!Finishes(r))
    /\ \A w \in CheckWorkers : WF_domainVars(focus = "domains" /\ Rec!Runs(w))
    /\ \A d \in Domains, p \in Rec!CheckPair :
         WF_domainVars(focus = "domains" /\ Rec!ComesDue(d, p))

\* run_forever starts a run every interval; the lock row's waiters are queued; a
\* POST that arrived is processed.
EdgeFairness ==
    /\ \A r \in Reconcilers : /\ SF_edgeVars(focus = "edge" /\ Ed!Run(r))
                              /\ WF_edgeVars(focus = "edge" /\ Ed!Answered(r))
    /\ WF_edgeVars(focus = "edge" /\ \E p \in posts : Ed!Process(p))

FairProgress == ProgressSpec /\ WebhookFairness /\ DomainFairness /\ EdgeFairness

-----------------------------------------------------------------------------
(* Properties: those of the extended module, and those of the loop in focus. *)

\* With events, replays and crashes at an end, every delivery is settled, and so are
\* the subscriptions of a deleted application, however attempts, crashes and replays
\* fell together before (attempt_delivery, settle_deleted_applications).
EverythingSettles == <>[](focus = "webhooks" => Settled)

\* Once the customer's records are right and nothing else happens, the checks
\* workers bring every live domain of an active application into service, from
\* whatever state crashes, re-issues, suspensions and stale writes left it in.
Recovers == <>[](focus = "domains" /\ calm => Rec!AllServed)

\* A ready hostname is routed to another application's origin only by a snapshot
\* from before its owner's claim, and then only after a late POST, a check with
\* the probe disabled or a hostname taken back within one run.
NoForeignOrigin == focus = "edge" => Ed!NoForeignOrigin

\* The lock row keeps snapshots in order until a POST outlives its sender.
SnapshotsInOrder == [][focus = "edge" => Ed!SnapshotInOrder]_edgeVars

\* Once changes and faults end, Caddy comes to run what the database asks for
\* and keeps it: rejected, lost and late POSTs are all made up for.
EdgeConverges == <>[](focus = "edge" => Ed!UpToDate)
=============================================================================
