-------------------------- MODULE WebhookDelivery --------------------------
(***************************************************************************)
(* The webhooks of one application: the outbox of deliveries that the      *)
(* lifecycle's transactions fill (app/services/webhooks.py), and the       *)
(* workers that lease a delivery, send it outside any transaction and      *)
(* write down how it went (app/webhooks/worker.py).                        *)
(*                                                                         *)
(* Transactions are those of PostgreSQL under READ COMMITTED: a request    *)
(* reads in one step and commits in another, and its flush writes the      *)
(* columns that differ from what it had read.  SQLite admits only those    *)
(* behaviours in which nobody else commits between the two.                *)
(*                                                                         *)
(* An event is known by its position in the log, a delivery by its         *)
(* subscription and event (a unique constraint of the table).  Of          *)
(* next_attempt_at only "due or not" is kept: a lease or a backoff may run *)
(* out at any moment, and the ten-second timeouts are per socket operation,*)
(* so a send may outlast its two-minute lease.                             *)
(*                                                                         *)
(* An operator Op_Flaw is Op with a bug this code could have; no action    *)
(* uses it, the properties below are tried against it.                     *)
(***************************************************************************)
EXTENDS Integers, Sequences, FiniteSets

CONSTANTS
    Subscriptions,      \* primary keys of webhook_subscriptions
    EventTypes,         \* of WEBHOOK_EVENT_TYPES, the ones that happen
    Workers, Requests,
    MAX_ATTEMPTS, MAX_SUBSCRIPTIONS,
    MaxEvents, MaxReplays, MaxCrashes,  \* bounds of the instance
    None

ASSUME WebhookAssumption ==
    /\ MAX_ATTEMPTS \in Nat \ {0}
    /\ MAX_SUBSCRIPTIONS \in Nat \ {0}
    /\ MaxEvents \in Nat /\ MaxReplays \in Nat /\ MaxCrashes \in Nat
    /\ "domain.deleted" \in EventTypes

Deliveries == Subscriptions \X (1 .. MaxEvents)
SubOf(d) == d[1]

VARIABLES
    app,          \* the application: active or deleted
    log,          \* types of the domain events that have a webhook type, oldest first
    sub,          \* subscription row: none, active, revoked, deleted
    wants,        \* its events column
    queued,       \* the deliveries that have a row
    row,          \* the columns of those rows
    worker,       \* attempt_delivery of each worker
    request,      \* the open transaction of each request
    replays, crashes,   \* how often so far
    \* History, read by no action:
    sends,        \* requests made to the endpoint for a delivery
    accepted,     \* deliveries the endpoint answered with 2xx
    dismissed,    \* subscriptions that somebody asked to revoke
    farewell      \* events of the deletion that hid the application

outbox  == <<log, queued, row>>
subVars == <<sub, wants>>
counts  == <<replays, crashes>>
history == <<sends, accepted, dismissed, farewell>>
vars == <<app, outbox, subVars, worker, request, counts, history>>

(***************************************************************************)
(* Rows                                                                    *)
(***************************************************************************)
Row == [delivered : BOOLEAN, abandoned : {"no", "attempts", "revoked"},
        attempts : Nat, next : {"due", "later", "null"}]

\* A delivery as enqueue_for_event inserts it.
NewRow == [delivered |-> FALSE, abandoned |-> "no", attempts |-> 0, next |-> "due"]

pending(d) == d \in queued /\ ~row[d].delivered /\ row[d].abandoned = "no"

Due(d) == pending(d) /\ row[d].next = "due"

is_active(s) == sub[s] = "active"

\* An attempt: the delivery, its attempts column as it was loaded, and whether
\* the endpoint answered with 2xx.
Idle == [pc |-> "idle", of |-> None, attempts |-> 0, ok |-> FALSE]

\* An open request: the subscriptions it is about, the type of the event it
\* records and the delivery rows it loaded.
NoRequest == [op |-> "none", subs |-> {}, type |-> None, loaded |-> [d \in {} |-> NewRow]]

Init ==
    /\ app = "active"
    /\ log = <<>>
    /\ sub = [s \in Subscriptions |-> "none"]
    /\ wants = [s \in Subscriptions |-> {}]
    /\ queued = {}
    /\ row = [d \in Deliveries |-> NewRow]
    /\ worker = [w \in Workers |-> Idle]
    /\ request = [r \in Requests |-> NoRequest]
    /\ replays = 0 /\ crashes = 0
    /\ sends = [d \in Deliveries |-> 0]
    /\ accepted = {} /\ dismissed = {} /\ farewell = {}

(***************************************************************************)
(* Requests: authenticate and read, then commit                            *)
(***************************************************************************)
Open(r, req) ==
    /\ request[r] = NoRequest
    /\ app = "active"
    /\ request' = [request EXCEPT ![r] = req]
    /\ UNCHANGED <<app, outbox, subVars, worker, counts, history>>

Close(r) == request' = [request EXCEPT ![r] = NoRequest]

\* The transaction fails or the process dies: nothing was written.
Abandon(r) ==
    /\ request[r] # NoRequest
    /\ Close(r)
    /\ UNCHANGED <<app, outbox, subVars, worker, counts, history>>

\* The active subscriptions that want an event of this type.
Wanted(type) == {s \in Subscriptions : is_active(s) /\ type \in wants[s]}

OpenEvent(r, type) ==
    /\ Len(log) < MaxEvents
    /\ Open(r, [NoRequest EXCEPT !.op = "event", !.type = type, !.subs = Wanted(type)])

OpenDeleteApplication(r) ==
    Open(r, [NoRequest EXCEPT !.op = "delete_application", !.type = "domain.deleted",
                              !.subs = Wanted("domain.deleted")])

\* A row per subscription that was found to want the event; the foreign key
\* refuses one whose subscription is gone.
enqueue_for_event(r) ==
    LET new == request[r].subs \X {Len(log) + 1} IN
    /\ Len(log) < MaxEvents
    /\ \A s \in request[r].subs : sub[s] # "deleted"
    /\ log' = Append(log, request[r].type)
    /\ queued' = queued \cup new
    /\ row' = [d \in Deliveries |-> IF d \in new THEN NewRow ELSE row[d]]

\* Any lifecycle transaction that records an event with a webhook type.
record_event(r) ==
    /\ request[r].op = "event"
    /\ enqueue_for_event(r)
    /\ Close(r)
    /\ UNCHANGED <<app, subVars, worker, counts, history>>

\* The event of its live hostname, if it has one, and the application is
\* hidden; its subscriptions stay active.  Of two deletions that race the
\* second announces the same hostname again.
delete_application(r) ==
    /\ request[r].op = "delete_application"
    /\ app' = "deleted"
    /\ \/ /\ enqueue_for_event(r)
          /\ farewell' = farewell \cup {i \in {Len(log) + 1} : app = "active"}
       \/ UNCHANGED <<outbox, farewell>>
    /\ Close(r)
    /\ UNCHANGED <<subVars, worker, counts, sends, accepted, dismissed>>

OpenCreate(r) ==
    /\ Cardinality({s \in Subscriptions : is_active(s)}) < MAX_SUBSCRIPTIONS
    /\ Open(r, [NoRequest EXCEPT !.op = "create"])

create_subscription(r, s, events) ==
    /\ request[r].op = "create"
    /\ sub[s] = "none"
    /\ sub' = [sub EXCEPT ![s] = "active"]
    /\ wants' = [wants EXCEPT ![s] = events]
    /\ Close(r)
    /\ UNCHANGED <<app, outbox, worker, counts, history>>

OpenRevoke(r, s) ==
    /\ is_active(s)
    /\ Open(r, [NoRequest EXCEPT !.op = "revoke", !.subs = {s}])

revoke_subscription(r, s) ==
    /\ request[r].op = "revoke"
    /\ s \in request[r].subs
    /\ sub[s] # "deleted"
    /\ sub' = [sub EXCEPT ![s] = "revoked"]
    /\ dismissed' = dismissed \cup {s}
    /\ Close(r)
    /\ UNCHANGED <<app, outbox, wants, worker, counts, sends, accepted, farewell>>

OpenDelete(r, s) ==
    /\ sub[s] = "revoked"
    /\ Open(r, [NoRequest EXCEPT !.op = "delete", !.subs = {s}])

\* The subscription goes with its deliveries, whatever state they are in.
delete_subscription(r, s) ==
    /\ request[r].op = "delete"
    /\ s \in request[r].subs
    /\ sub[s] # "deleted"
    /\ sub' = [sub EXCEPT ![s] = "deleted"]
    /\ queued' = {d \in queued : SubOf(d) # s}
    /\ Close(r)
    /\ UNCHANGED <<app, log, row, wants, worker, counts, history>>

OpenReplay(r, rows) ==
    /\ replays < MaxReplays
    /\ Open(r, [NoRequest EXCEPT !.op = "replay", !.loaded = [d \in rows |-> row[d]]])

\* One delivery, or all of a subscription created since a moment.
OpenReplayDelivery(r, d) == d \in queued /\ OpenReplay(r, {d})

OpenReplaySince(r, s, first) ==
    LET rows == {d \in queued : SubOf(d) = s /\ d[2] >= first} IN
    rows # {} /\ OpenReplay(r, rows)

\* Reset, as a flush does it: a column that was loaded as the reset would leave
\* it is not written; next_attempt_at is always new.
Reset(old, current) ==
    [delivered |-> current.delivered /\ ~old.delivered,
     abandoned |-> IF old.abandoned # "no" THEN "no" ELSE current.abandoned,
     attempts  |-> IF old.attempts # 0 THEN 0 ELSE current.attempts,
     next      |-> "due"]

replay(r) ==
    LET rows == DOMAIN request[r].loaded IN
    /\ request[r].op = "replay"
    /\ replays < MaxReplays
    /\ rows \subseteq queued
    /\ row' = [d \in Deliveries |-> IF d \in rows THEN Reset(request[r].loaded[d], row[d]) ELSE row[d]]
    /\ replays' = replays + 1
    /\ Close(r)
    /\ UNCHANGED <<app, log, queued, subVars, worker, crashes, sends, accepted, dismissed, farewell>>

(***************************************************************************)
(* The worker: attempt_delivery for each due delivery, then settle         *)
(***************************************************************************)
lease_delivery(w, d) ==
    /\ worker[w] = Idle
    /\ Due(d)
    /\ row' = [row EXCEPT ![d].next = "later"]
    /\ worker' = [worker EXCEPT ![w] = [Idle EXCEPT !.pc = "leased", !.of = d]]
    /\ UNCHANGED <<app, log, queued, subVars, request, counts, history>>

\* The row and its subscription as the committed lease left them, or as others
\* have since; a revoked subscription ends the delivery at once.
LoadDelivery(w) ==
    LET d == worker[w].of IN
    /\ worker[w].pc = "leased"
    /\ d \in queued
    /\ \/ /\ is_active(SubOf(d))
          /\ worker' = [worker EXCEPT ![w] = [@ EXCEPT !.pc = "sending", !.attempts = row[d].attempts]]
          /\ UNCHANGED row
       \/ /\ ~is_active(SubOf(d))
          /\ row' = [row EXCEPT ![d].abandoned = "revoked"]
          /\ worker' = [worker EXCEPT ![w] = Idle]
    /\ UNCHANGED <<app, log, queued, subVars, request, counts, history>>

\* http_sender: the endpoint answers with 2xx, or anything else happens.
Send(w) ==
    LET d == worker[w].of IN
    /\ worker[w].pc = "sending"
    /\ \E ok \in BOOLEAN :
          /\ worker' = [worker EXCEPT ![w] = [@ EXCEPT !.pc = "answered", !.ok = ok]]
          /\ accepted' = IF ok THEN accepted \cup {d} ELSE accepted
    /\ sends' = [sends EXCEPT ![d] = @ + 1]
    /\ UNCHANGED <<app, outbox, subVars, request, counts, dismissed, farewell>>

Exhausted_Early(attempts) == attempts + 1 >= MAX_ATTEMPTS

Exhausted(attempts) == attempts >= MAX_ATTEMPTS

\* The columns an attempt writes over the row as it is now.  The session still
\* holds the row it loaded before the send, and counts on from there.
Outcome_WholeRow(run, current) ==
    [delivered |-> run.ok, abandoned |-> IF Exhausted(run.attempts + 1) THEN "attempts" ELSE "no",
     attempts |-> run.attempts + 1, next |-> IF run.ok THEN "null" ELSE "later"]

Outcome_Unscheduled(run, current) ==
    [current EXCEPT !.attempts = run.attempts + 1,
                    !.delivered = @ \/ run.ok,
                    !.abandoned = IF ~run.ok /\ Exhausted(run.attempts + 1) THEN "attempts" ELSE @,
                    !.next = "null"]

Outcome_CountsDown(run, current) ==
    [current EXCEPT !.attempts = run.attempts - 1, !.delivered = run.ok, !.next = "later"]

Outcome(run, current) ==
    LET attempts == run.attempts + 1
        over == ~run.ok /\ Exhausted(attempts)
    IN [delivered |-> current.delivered \/ run.ok,
        abandoned |-> IF over THEN "attempts" ELSE current.abandoned,
        attempts  |-> attempts,
        next      |-> IF run.ok \/ over THEN "null" ELSE "later"]

RecordOutcome(w) ==
    LET d == worker[w].of IN
    /\ worker[w].pc = "answered"
    /\ d \in queued
    /\ row' = [row EXCEPT ![d] = Outcome(worker[w], @)]
    /\ worker' = [worker EXCEPT ![w] = Idle]
    /\ UNCHANGED <<app, log, queued, subVars, request, counts, history>>

\* The delivery was deleted under the attempt: the load or the flush raises,
\* and deliver_due goes on to the next one.
RowGone(w) ==
    /\ worker[w].pc \in {"leased", "answered"}
    /\ worker[w].of \notin queued
    /\ worker' = [worker EXCEPT ![w] = Idle]
    /\ UNCHANGED <<app, outbox, subVars, request, counts, history>>

\* The process dies with the attempt.
Crash(w) ==
    /\ worker[w] # Idle
    /\ crashes < MaxCrashes
    /\ crashes' = crashes + 1
    /\ worker' = [worker EXCEPT ![w] = Idle]
    /\ UNCHANGED <<app, outbox, subVars, request, replays, history>>

\* A lease or a backoff runs out.
BecomeDue(d) ==
    /\ d \in queued
    /\ row[d].next = "later"
    /\ row' = [row EXCEPT ![d].next = "due"]
    /\ UNCHANGED <<app, log, queued, subVars, worker, request, counts, history>>

NothingPending_Unchecked(s) == TRUE

NothingPending(s) == \A d \in queued : SubOf(d) = s => ~pending(d)

settle_deleted_applications(w) ==
    LET done == {s \in Subscriptions : is_active(s) /\ NothingPending(s)} IN
    /\ worker[w] = Idle
    /\ app = "deleted"
    /\ done # {}
    /\ sub' = [s \in Subscriptions |-> IF s \in done THEN "revoked" ELSE sub[s]]
    /\ UNCHANGED <<app, outbox, wants, worker, request, counts, history>>

Attempt(w) == LoadDelivery(w) \/ Send(w) \/ RecordOutcome(w) \/ RowGone(w)

RequestStep(r) ==
    \/ \E type \in EventTypes : OpenEvent(r, type)
    \/ record_event(r)
    \/ OpenDeleteApplication(r) \/ delete_application(r)
    \/ OpenCreate(r)
    \/ \E s \in Subscriptions, events \in SUBSET EventTypes \ {{}} :
          create_subscription(r, s, events)
    \/ \E s \in Subscriptions :
          \/ OpenRevoke(r, s) \/ revoke_subscription(r, s)
          \/ OpenDelete(r, s) \/ delete_subscription(r, s)
          \/ \E first \in 1 .. MaxEvents : OpenReplaySince(r, s, first)
    \/ \E d \in Deliveries : OpenReplayDelivery(r, d)
    \/ replay(r)
    \/ Abandon(r)

WorkerStep(w) ==
    \/ \E d \in Deliveries : lease_delivery(w, d)
    \/ Attempt(w)
    \/ settle_deleted_applications(w)
    \/ Crash(w)

Next ==
    \/ \E r \in Requests : RequestStep(r)
    \/ \E w \in Workers : WorkerStep(w)
    \/ \E d \in Deliveries : BecomeDue(d)

Spec == Init /\ [][Next]_vars

(***************************************************************************)
(* Properties                                                              *)
(***************************************************************************)
AttemptRecord == [pc : {"idle", "leased", "sending", "answered"}, of : Deliveries \cup {None},
                  attempts : Nat, ok : BOOLEAN]

RequestOps == {"none", "event", "delete_application", "create", "revoke", "delete", "replay"}

\* Every column, attempt and open request has its type.
TypeOK ==
    /\ app \in {"active", "deleted"}
    /\ log \in Seq(EventTypes) /\ Len(log) <= MaxEvents
    /\ sub \in [Subscriptions -> {"none", "active", "revoked", "deleted"}]
    /\ wants \in [Subscriptions -> SUBSET EventTypes]
    /\ queued \subseteq Deliveries
    /\ row \in [Deliveries -> Row]
    /\ worker \in [Workers -> AttemptRecord]
    /\ \A w \in Workers : worker[w].pc # "idle" => worker[w].of \in Deliveries
    /\ request = [r \in Requests |-> request[r]]
    /\ \A r \in Requests : /\ request[r].op \in RequestOps
                           /\ request[r].subs \subseteq Subscriptions
                           /\ request[r].type \in EventTypes \cup {None}
                           /\ request[r].op \in {"event", "delete_application"} =>
                                 request[r].type \in EventTypes
                           /\ DOMAIN request[r].loaded \subseteq Deliveries
    /\ replays \in 0 .. MaxReplays /\ crashes \in 0 .. MaxCrashes
    /\ sends \in [Deliveries -> Nat]
    /\ accepted \subseteq Deliveries
    /\ dismissed \subseteq Subscriptions
    /\ farewell \subseteq 1 .. MaxEvents

\* The history a consumer reads is honest (attempt_delivery): what is marked delivered
\* the endpoint did accept, and nothing is given up for failing before MAX_ATTEMPTS
\* requests were made, although overlapping attempts count on from stale rows, replays
\* reset the count under them, and crashes lose it.
HonestOutcome ==
    \A d \in queued : /\ row[d].delivered => d \in accepted
                      /\ row[d].abandoned = "attempts" => sends[d] >= MAX_ATTEMPTS

Replaying(d) == \E r \in Requests : /\ request[r].op = "replay"
                                    /\ d \in DOMAIN request[r].loaded
                                    /\ request'[r] = NoRequest

\* A delivery once marked delivered stays so until somebody replays it: an attempt that
\* began before and fails after another one succeeded does not put it back.
DeliveredStays ==
    [][\A d \in queued \cap queued' :
          row[d].delivered /\ ~row'[d].delivered => Replaying(d)]_vars

\* settle_deleted_applications: the deletion of an application is announced.  The
\* domain.deleted deliveries it queued are accepted, or tried MAX_ATTEMPTS times, before
\* they can be dropped for a revoked subscription, unless somebody asked to revoke it.
DeletionAnnounced ==
    \A d \in queued :
        d[2] \in farewell /\ row[d].abandoned = "revoked" =>
            d \in accepted \/ sends[d] >= MAX_ATTEMPTS \/ SubOf(d) \in dismissed

\* What the workers bring about: no delivery is pending, and the subscriptions of a
\* deleted application are revoked.
Settled == /\ \A d \in Deliveries : ~pending(d)
           /\ app = "deleted" => \A s \in Subscriptions : ~is_active(s)
=============================================================================
