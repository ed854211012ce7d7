----------------------- MODULE WebhookDeliveryProofs -----------------------
(***************************************************************************)
(* What holds of the deliveries for any number of subscriptions, workers,  *)
(* requests, attempts, replays and crashes.                                *)
(***************************************************************************)
EXTENDS WebhookDelivery, TLAPS

\* The record of a request, whatever it is about.
RequestTyped(req) ==
    /\ req.op \in RequestOps
    /\ req.subs \subseteq Subscriptions
    /\ req.type \in EventTypes \cup {None}
    /\ req.op \in {"event", "delete_application"} => req.type \in EventTypes
    /\ DOMAIN req.loaded \subseteq Deliveries

\* What opening a request does to the types, once its record is a request.
LEMMA OpenType ==
    ASSUME TypeOK, NEW r \in Requests, \E req : Open(r, req) /\ RequestTyped(req)
    PROVE  TypeOK'
<1>1. /\ request' = [q \in Requests |-> request'[q]]
      /\ \A q \in Requests : RequestTyped(request'[q])
      /\ UNCHANGED <<app, outbox, subVars, worker, counts, history>>
  BY DEF TypeOK, RequestTyped, Open
<1>. QED BY <1>1 DEF TypeOK, RequestTyped, outbox, subVars, counts, history

\* The rows a transaction inserts and the log it appends to have their types.
LEMMA EnqueueType ==
    ASSUME TypeOK, NEW r \in Requests, enqueue_for_event(r),
           request[r].type \in EventTypes
    PROVE  /\ log' \in Seq(EventTypes) /\ Len(log') <= MaxEvents
           /\ queued' \subseteq Deliveries
           /\ row' \in [Deliveries -> Row]
           /\ Len(log) + 1 \in 1 .. MaxEvents
<1>1. log' \in Seq(EventTypes) /\ Len(log') = Len(log) + 1
  BY DEF TypeOK, enqueue_for_event
<1>2. Len(log) + 1 \in 1 .. MaxEvents
  BY WebhookAssumption DEF TypeOK, enqueue_for_event
<1>3. queued' \subseteq Deliveries
  BY <1>2 DEF TypeOK, enqueue_for_event, Deliveries
<1>4. row' \in [Deliveries -> Row]
  BY DEF TypeOK, enqueue_for_event, Row, NewRow
<1>. QED BY <1>1, <1>2, <1>3, <1>4, WebhookAssumption

\* A request that has closed is one that was never opened.
LEMMA CloseType ==
    ASSUME TypeOK, NEW r \in Requests, Close(r)
    PROVE  /\ request' = [q \in Requests |-> request'[q]]
           /\ \A q \in Requests : RequestTyped(request'[q])
<1>1. RequestTyped(NoRequest)
  BY DEF RequestTyped, NoRequest, RequestOps
<1>. QED BY <1>1 DEF TypeOK, RequestTyped, Close

\* Requests keep the types.
LEMMA RequestType ==
    ASSUME TypeOK, NEW r \in Requests, RequestStep(r)
    PROVE  TypeOK'
<1>1. CASE \E type \in EventTypes : OpenEvent(r, type)
  <2>. PICK type \in EventTypes : OpenEvent(r, type) BY <1>1
  <2>2. RequestTyped([NoRequest EXCEPT !.op = "event", !.type = type, !.subs = Wanted(type)])
    BY SMT DEF RequestTyped, NoRequest, RequestOps, Wanted
  <2>. QED BY <2>2, OpenType DEF OpenEvent
<1>2. CASE record_event(r)
  <2>1. request[r].type \in EventTypes BY <1>2 DEF TypeOK, record_event
  <2>. QED BY <1>2, <2>1, EnqueueType, CloseType
           DEF TypeOK, RequestTyped, record_event, subVars, counts, history
<1>3. CASE OpenDeleteApplication(r)
  <2>1. RequestTyped([NoRequest EXCEPT !.op = "delete_application", !.type = "domain.deleted",
                                       !.subs = Wanted("domain.deleted")])
    BY WebhookAssumption DEF RequestTyped, NoRequest, RequestOps, Wanted
  <2>. QED BY <1>3, <2>1, OpenType DEF OpenDeleteApplication
<1>4. CASE delete_application(r)
  <2>1. request[r].type \in EventTypes BY <1>4 DEF TypeOK, delete_application
  <2>2. CASE enqueue_for_event(r) /\ farewell' = farewell \cup {i \in {Len(log) + 1} : app = "active"}
    BY <1>4, <2>1, <2>2, EnqueueType, CloseType
    DEF TypeOK, RequestTyped, delete_application, subVars, counts
  <2>3. CASE UNCHANGED <<outbox, farewell>>
    BY <1>4, <2>3, CloseType DEF TypeOK, RequestTyped, delete_application, outbox, subVars, counts
  <2>. QED BY <1>4, <2>2, <2>3 DEF delete_application
<1>5. CASE OpenCreate(r)
  <2>1. RequestTyped([NoRequest EXCEPT !.op = "create"])
    BY DEF RequestTyped, NoRequest, RequestOps
  <2>. QED BY <1>5, <2>1, OpenType DEF OpenCreate
<1>6. CASE \E s \in Subscriptions, events \in SUBSET EventTypes \ {{}} : create_subscription(r, s, events)
  BY <1>6, CloseType DEF TypeOK, RequestTyped, create_subscription, outbox, counts, history
<1>7. CASE \E s \in Subscriptions : OpenRevoke(r, s)
  <2>. PICK s \in Subscriptions : OpenRevoke(r, s) BY <1>7
  <2>2. RequestTyped([NoRequest EXCEPT !.op = "revoke", !.subs = {s}])
    BY SMT DEF RequestTyped, NoRequest, RequestOps
  <2>. QED BY <2>2, OpenType DEF OpenRevoke
<1>8. CASE \E s \in Subscriptions : revoke_subscription(r, s)
  BY <1>8, CloseType DEF TypeOK, RequestTyped, revoke_subscription, outbox, counts
<1>9. CASE \E s \in Subscriptions : OpenDelete(r, s)
  <2>. PICK s \in Subscriptions : OpenDelete(r, s) BY <1>9
  <2>2. RequestTyped([NoRequest EXCEPT !.op = "delete", !.subs = {s}])
    BY SMT DEF RequestTyped, NoRequest, RequestOps
  <2>. QED BY <2>2, OpenType DEF OpenDelete
<1>10. CASE \E s \in Subscriptions : delete_subscription(r, s)
  BY <1>10, CloseType DEF TypeOK, RequestTyped, delete_subscription, counts, history
<1>11. ASSUME NEW rows, rows \subseteq queued, OpenReplay(r, rows) PROVE TypeOK'
  <2>1. queued \subseteq Deliveries BY DEF TypeOK
  <2>2. RequestTyped([NoRequest EXCEPT !.op = "replay", !.loaded = [d \in rows |-> row[d]]])
    BY <1>11, <2>1, SMT DEF RequestTyped, NoRequest, RequestOps
  <2>. QED BY <1>11, <2>2, OpenType DEF OpenReplay
<1>12. CASE \E s \in Subscriptions, first \in 1 .. MaxEvents : OpenReplaySince(r, s, first)
  BY <1>11, <1>12 DEF OpenReplaySince
<1>13. CASE \E d \in Deliveries : OpenReplayDelivery(r, d)
  BY <1>11, <1>13 DEF OpenReplayDelivery
<1>14. CASE replay(r)
  <2>1. row' \in [Deliveries -> Row]
    BY <1>14 DEF TypeOK, replay, Reset, Row
  <2>2. replays' \in 0 .. MaxReplays
    BY <1>14, WebhookAssumption DEF TypeOK, replay
  <2>. QED BY <1>14, <2>1, <2>2, CloseType DEF TypeOK, RequestTyped, replay, subVars
<1>15. CASE Abandon(r)
  BY <1>15, CloseType DEF TypeOK, RequestTyped, Abandon, outbox, subVars, counts, history
<1>. QED BY <1>1, <1>2, <1>3, <1>4, <1>5, <1>6, <1>7, <1>8, <1>9, <1>10,
            <1>12, <1>13, <1>14, <1>15 DEF RequestStep

\* Workers keep the types.
LEMMA WorkerType ==
    ASSUME TypeOK, NEW w \in Workers, WorkerStep(w)
    PROVE  TypeOK'
<1>0. Idle \in AttemptRecord /\ Idle.pc = "idle"
  BY DEF Idle, AttemptRecord
<1>1. CASE \E d \in Deliveries : lease_delivery(w, d)
  <2>. PICK d \in Deliveries : lease_delivery(w, d) BY <1>1
  <2>1. row' \in [Deliveries -> Row]
    BY DEF TypeOK, lease_delivery, Row
  <2>2. worker' \in [Workers -> AttemptRecord]
    BY DEF TypeOK, lease_delivery, AttemptRecord, Idle
  <2>3. \A v \in Workers : worker'[v].pc # "idle" => worker'[v].of \in Deliveries
    BY DEF TypeOK, lease_delivery, Idle
  <2>. QED BY <2>1, <2>2, <2>3 DEF TypeOK, lease_delivery, subVars, counts, history
<1>2. CASE LoadDelivery(w)
  <2> DEFINE d == worker[w].of
  <2>0. d \in Deliveries /\ worker[w] \in AttemptRecord /\ row[d] \in Row
    BY <1>2 DEF TypeOK, LoadDelivery
  <2>1. row' \in [Deliveries -> Row]
    <3>1. [row[d] EXCEPT !.abandoned = "revoked"] \in Row
      BY <2>0 DEF Row
    <3>. QED BY <1>2, <2>0, <3>1 DEF TypeOK, LoadDelivery
  <2>2. worker' \in [Workers -> AttemptRecord]
    <3>1. [worker[w] EXCEPT !.pc = "sending", !.attempts = row[d].attempts] \in AttemptRecord
      BY <2>0 DEF Row, AttemptRecord
    <3>. QED BY <1>0, <1>2, <3>1 DEF TypeOK, LoadDelivery
  <2>3. \A v \in Workers : worker'[v].pc # "idle" => worker'[v].of \in Deliveries
    <3>1. [worker[w] EXCEPT !.pc = "sending", !.attempts = row[d].attempts].of = d
      BY <2>0 DEF AttemptRecord
    <3>. QED BY <1>0, <1>2, <2>0, <3>1 DEF TypeOK, LoadDelivery
  <2>. QED BY <1>2, <2>1, <2>2, <2>3 DEF TypeOK, LoadDelivery, subVars, counts, history
<1>3. CASE Send(w)
  <2>0. worker[w] \in AttemptRecord /\ worker[w].of \in Deliveries BY <1>3 DEF TypeOK, Send
  <2>. PICK ok \in BOOLEAN : worker' = [worker EXCEPT ![w] = [@ EXCEPT !.pc = "answered", !.ok = ok]]
    BY <1>3 DEF Send
  <2>a. /\ [worker[w] EXCEPT !.pc = "answered", !.ok = ok] \in AttemptRecord
        /\ [worker[w] EXCEPT !.pc = "answered", !.ok = ok].of = worker[w].of
    BY <2>0 DEF AttemptRecord
  <2>1. worker' \in [Workers -> AttemptRecord]
    BY <2>a DEF TypeOK
  <2>2. \A v \in Workers : worker'[v].pc # "idle" => worker'[v].of \in Deliveries
    BY <2>0, <2>a DEF TypeOK
  <2>3. sends' \in [Deliveries -> Nat] /\ accepted' \subseteq Deliveries
    BY <1>3, <2>0 DEF TypeOK, Send
  <2>. QED BY <1>3, <2>1, <2>2, <2>3 DEF TypeOK, Send, outbox, subVars, counts
<1>4. CASE RecordOutcome(w)
  <2>0. worker[w] \in AttemptRecord /\ worker[w].of \in Deliveries
    BY <1>4 DEF TypeOK, RecordOutcome
  <2>1. ASSUME NEW d \in Deliveries PROVE Outcome(worker[w], row[d]) \in Row
    BY <2>0, <2>1 DEF TypeOK, Outcome, Row, AttemptRecord
  <2>2. row' \in [Deliveries -> Row]
    BY <1>4, <2>0, <2>1 DEF TypeOK, RecordOutcome
  <2>. QED BY <1>0, <1>4, <2>2 DEF TypeOK, RecordOutcome, subVars, counts, history
<1>5. CASE RowGone(w)
  BY <1>0, <1>5 DEF TypeOK, RowGone, outbox, subVars, counts, history
<1>6. CASE settle_deleted_applications(w)
  BY <1>6 DEF TypeOK, settle_deleted_applications, outbox, counts, history
<1>7. CASE Crash(w)
  <2>1. crashes' \in 0 .. MaxCrashes
    BY <1>7, WebhookAssumption DEF TypeOK, Crash
  <2>. QED BY <1>0, <1>7, <2>1 DEF TypeOK, Crash, outbox, subVars, history
<1>. QED BY <1>1, <1>2, <1>3, <1>4, <1>5, <1>6, <1>7 DEF WorkerStep, Attempt

\* A step of anybody keeps the types.
LEMMA TypeInv ==
    ASSUME TypeOK, [Next]_vars
    PROVE  TypeOK'
<1>1. CASE \E d \in Deliveries : BecomeDue(d)
  <2>. PICK d \in Deliveries : BecomeDue(d) BY <1>1
  <2>1. row' \in [Deliveries -> Row]
    BY DEF TypeOK, BecomeDue, Row
  <2>. QED BY <2>1 DEF TypeOK, BecomeDue, subVars, counts, history
<1>2. CASE UNCHANGED vars
  BY <1>2 DEF TypeOK, vars, outbox, subVars, counts, history
<1>. QED BY <1>1, <1>2, RequestType, WorkerType DEF Next

\* The empty outbox has its types.
LEMMA InitType == Init => TypeOK
<1>1. ASSUME Init PROVE TypeOK
  BY <1>1, WebhookAssumption
  DEF Init, TypeOK, NoRequest, RequestOps, Idle, AttemptRecord, NewRow, Row
<1>. QED BY <1>1

\* The table, the attempts in flight and the open requests keep their types.
THEOREM TypesHold == Spec => []TypeOK
<1>1. Init => TypeOK
  BY InitType
<1>2. TypeOK /\ [Next]_vars => TypeOK'
  BY TypeInv
<1>. QED BY <1>1, <1>2, PTL DEF Spec

(***************************************************************************)
(* The count of attempts is never ahead of the requests really made: not   *)
(* in a row, and not in the stale copy of it an attempt goes on from.      *)
(***************************************************************************)
RowHonest(r, n, ok) ==
    /\ r.attempts <= n
    /\ r.delivered => ok
    /\ r.abandoned = "attempts" => n >= MAX_ATTEMPTS

HonestRows == \A d \in Deliveries : RowHonest(row[d], sends[d], d \in accepted)

HonestAttempts ==
    \A w \in Workers :
        /\ worker[w].pc = "sending" => worker[w].attempts <= sends[worker[w].of]
        /\ worker[w].pc = "answered" =>
              /\ worker[w].attempts + 1 <= sends[worker[w].of]
              /\ worker[w].ok => worker[w].of \in accepted

HonestInv == TypeOK /\ HonestRows /\ HonestAttempts

\* A step that makes no request and moves no attempt on keeps the invariant if the
\* rows it writes are honest.
LEMMA RowsOnly ==
    ASSUME HonestInv, UNCHANGED <<sends, accepted>>, HonestRows',
           \A w \in Workers : worker'[w] = worker[w] \/ worker'[w].pc \in {"idle", "leased"}
    PROVE  HonestRows' /\ HonestAttempts'
BY DEF HonestInv, HonestAttempts

\* New rows and reset rows are honest.
LEMMA RequestHonest ==
    ASSUME HonestInv, NEW r \in Requests, RequestStep(r)
    PROVE  HonestRows' /\ HonestAttempts'
<1>. USE DEF HonestInv
<1>1. UNCHANGED <<sends, accepted, worker>>
  BY DEF RequestStep, OpenEvent, record_event, OpenDeleteApplication, delete_application, OpenCreate,
         create_subscription, OpenRevoke, revoke_subscription, OpenDelete,
         delete_subscription, OpenReplaySince, OpenReplayDelivery, OpenReplay, replay, Abandon, Open,
         history
<1>2. CASE UNCHANGED row
  BY <1>1, <1>2 DEF HonestRows, HonestAttempts
<1>3. CASE enqueue_for_event(r)
  <2>1. \A d \in Deliveries : row'[d] = NewRow \/ row'[d] = row[d]
    BY <1>3 DEF enqueue_for_event
  <2>2. \A d \in Deliveries : RowHonest(NewRow, sends[d], d \in accepted)
    BY DEF RowHonest, NewRow, TypeOK
  <2>3. HonestRows'
    BY <1>1, <2>1, <2>2 DEF HonestRows
  <2>. QED BY <1>1, <2>3 DEF HonestAttempts
<1>4. CASE replay(r)
  <2>1. \A d \in Deliveries : row'[d] = Reset(request[r].loaded[d], row[d]) \/ row'[d] = row[d]
    BY <1>4 DEF replay
  <2>2. ASSUME NEW d \in Deliveries
        PROVE  RowHonest(Reset(request[r].loaded[d], row[d]), sends[d], d \in accepted)
    <3>1. RowHonest(row[d], sends[d], d \in accepted) /\ sends[d] \in Nat /\ row[d] \in Row
      BY DEF HonestRows, TypeOK
    <3>. QED BY <3>1 DEF RowHonest, Reset, Row
  <2>3. HonestRows'
    BY <1>1, <2>1, <2>2 DEF HonestRows
  <2>. QED BY <1>1, <2>3 DEF HonestAttempts
<1>5. UNCHANGED row \/ enqueue_for_event(r) \/ replay(r)
  BY DEF RequestStep, OpenEvent, record_event, OpenDeleteApplication, delete_application, OpenCreate,
         create_subscription, OpenRevoke, revoke_subscription, OpenDelete,
         delete_subscription, OpenReplaySince, OpenReplayDelivery, OpenReplay, Abandon, Open, outbox
<1>. QED BY <1>2, <1>3, <1>4, <1>5

\* An attempt counts on from what it loaded, and has made one more request since.
LEMMA WorkerHonest ==
    ASSUME HonestInv, NEW w \in Workers, WorkerStep(w)
    PROVE  HonestRows' /\ HonestAttempts'
<1>. USE DEF HonestInv
<1>0. /\ row \in [Deliveries -> Row] /\ sends \in [Deliveries -> Nat]
      /\ worker \in [Workers -> AttemptRecord]
      /\ \A v \in Workers : worker[v].pc # "idle" => worker[v].of \in Deliveries
  BY DEF TypeOK
<1>1. CASE \E d \in Deliveries : lease_delivery(w, d)
  <2>. PICK d \in Deliveries : lease_delivery(w, d) BY <1>1
  <2>1. HonestRows'
    BY <1>0 DEF lease_delivery, HonestRows, RowHonest, Row, history
  <2>2. \A v \in Workers : worker'[v] = worker[v] \/ worker'[v].pc \in {"idle", "leased"}
    BY <1>0 DEF lease_delivery, Idle
  <2>. QED BY <2>1, <2>2, RowsOnly DEF lease_delivery, history
<1>2. CASE LoadDelivery(w)
  <2> DEFINE d == worker[w].of
  <2>0. d \in Deliveries /\ worker[w] \in AttemptRecord
    BY <1>0, <1>2 DEF LoadDelivery
  <2>1. CASE is_active(SubOf(d))
    <3>1. worker' = [worker EXCEPT ![w] = [@ EXCEPT !.pc = "sending", !.attempts = row[d].attempts]]
          /\ UNCHANGED <<row, sends, accepted>>
      BY <1>2, <2>1 DEF LoadDelivery, history
    <3>2. /\ worker'[w].pc = "sending" /\ worker'[w].attempts = row[d].attempts /\ worker'[w].of = d
          /\ \A v \in Workers \ {w} : worker'[v] = worker[v]
      BY <1>0, <2>0, <3>1 DEF AttemptRecord
    <3>3. row[d].attempts <= sends[d]
      BY <2>0 DEF HonestRows, RowHonest
    <3>4. HonestAttempts'
      BY <3>1, <3>2, <3>3 DEF HonestAttempts
    <3>. QED BY <3>1, <3>4 DEF HonestRows
  <2>2. CASE ~is_active(SubOf(d))
    <3>1. row' = [row EXCEPT ![d].abandoned = "revoked"] /\ worker' = [worker EXCEPT ![w] = Idle]
          /\ UNCHANGED <<sends, accepted>>
      BY <1>2, <2>2 DEF LoadDelivery, history
    <3>2. HonestRows'
      BY <1>0, <2>0, <3>1 DEF HonestRows, RowHonest, Row
    <3>3. \A v \in Workers : worker'[v] = worker[v] \/ worker'[v].pc \in {"idle", "leased"}
      BY <1>0, <3>1 DEF Idle
    <3>. QED BY <3>1, <3>2, <3>3, RowsOnly
  <2>. QED BY <2>1, <2>2
<1>3. CASE Send(w)
  <2> DEFINE d == worker[w].of
  <2>0. d \in Deliveries /\ worker[w] \in AttemptRecord /\ worker[w].pc = "sending"
    BY <1>0, <1>3 DEF Send
  <2>1. PICK ok \in BOOLEAN :
          /\ worker' = [worker EXCEPT ![w] = [@ EXCEPT !.pc = "answered", !.ok = ok]]
          /\ accepted' = IF ok THEN accepted \cup {d} ELSE accepted
    BY <1>3 DEF Send
  <2>2. /\ sends' = [sends EXCEPT ![d] = @ + 1] /\ UNCHANGED row
        /\ \A e \in Deliveries : sends[e] \in Nat /\ sends'[e] \in Nat /\ sends[e] <= sends'[e]
        /\ sends'[d] = sends[d] + 1
        /\ accepted \subseteq accepted'
    BY <1>0, <1>3, <2>0, <2>1 DEF Send, outbox
  <2>3. HonestRows'
    <3>. SUFFICES ASSUME NEW e \in Deliveries
                  PROVE  RowHonest(row[e], sends'[e], e \in accepted')
      BY <2>2 DEF HonestRows
    <3>1. RowHonest(row[e], sends[e], e \in accepted) /\ row[e].attempts \in Nat
      BY <1>0 DEF HonestRows, Row
    <3>. QED BY <2>2, <3>1, WebhookAssumption DEF RowHonest
  <2>4. /\ worker'[w].pc = "answered" /\ worker'[w].of = d /\ worker'[w].ok = ok
        /\ worker'[w].attempts = worker[w].attempts
        /\ \A v \in Workers \ {w} : worker'[v] = worker[v]
    BY <1>0, <2>0, <2>1 DEF AttemptRecord
  <2>5. HonestAttempts'
    <3>. SUFFICES ASSUME NEW v \in Workers
                  PROVE  /\ worker'[v].pc = "sending" => worker'[v].attempts <= sends'[worker'[v].of]
                         /\ worker'[v].pc = "answered" =>
                               /\ worker'[v].attempts + 1 <= sends'[worker'[v].of]
                               /\ worker'[v].ok => worker'[v].of \in accepted'
      BY DEF HonestAttempts
    <3>1. CASE v = w
      <4>1. worker[w].attempts <= sends[d] /\ worker[w].attempts \in Nat
        BY <2>0 DEF HonestAttempts, AttemptRecord
      <4>. QED BY <2>0, <2>1, <2>2, <2>4, <3>1, <4>1
    <3>2. CASE v # w
      <4>1. worker'[v] = worker[v] /\ worker[v].attempts \in Nat
        BY <1>0, <2>4, <3>2 DEF AttemptRecord
      <4>2. worker[v].pc \in {"sending", "answered"} => worker[v].of \in Deliveries
        BY <1>0
      <4>. QED BY <2>2, <4>1, <4>2 DEF HonestAttempts
    <3>. QED BY <3>1, <3>2
  <2>. QED BY <2>3, <2>5
<1>4. CASE RecordOutcome(w)
  <2> DEFINE d == worker[w].of
  <2>0. d \in Deliveries /\ worker[w] \in AttemptRecord /\ row[d] \in Row /\ sends[d] \in Nat
    BY <1>0, <1>4 DEF RecordOutcome
  <2>1. /\ worker[w].attempts + 1 <= sends[d]
        /\ worker[w].ok => d \in accepted
        /\ RowHonest(row[d], sends[d], d \in accepted)
    BY <1>4, <2>0 DEF RecordOutcome, HonestAttempts, HonestRows
  <2>2. RowHonest(Outcome(worker[w], row[d]), sends[d], d \in accepted)
    BY <2>0, <2>1, WebhookAssumption DEF RowHonest, Outcome, Exhausted, Row, AttemptRecord
  <2>3. HonestRows'
    BY <1>0, <1>4, <2>0, <2>2 DEF RecordOutcome, HonestRows, history
  <2>4. \A v \in Workers : worker'[v] = worker[v] \/ worker'[v].pc \in {"idle", "leased"}
    BY <1>0, <1>4 DEF RecordOutcome, Idle
  <2>. QED BY <1>4, <2>3, <2>4, RowsOnly DEF RecordOutcome, history
<1>5. CASE RowGone(w) \/ Crash(w) \/ settle_deleted_applications(w)
  <2>1. UNCHANGED <<row, sends, accepted>>
    BY <1>5 DEF RowGone, Crash, settle_deleted_applications, outbox, history
  <2>2. \A v \in Workers : worker'[v] = worker[v] \/ worker'[v].pc \in {"idle", "leased"}
    BY <1>0, <1>5 DEF RowGone, Crash, settle_deleted_applications, Idle
  <2>3. HonestRows'
    BY <2>1 DEF HonestRows
  <2>. QED BY <2>1, <2>2, <2>3, RowsOnly
<1>. QED BY <1>1, <1>2, <1>3, <1>4, <1>5 DEF WorkerStep, Attempt

\* The empty outbox is honest.
LEMMA HonestInit == Init => HonestInv
<1>. SUFFICES ASSUME Init PROVE HonestRows /\ HonestAttempts
  BY InitType DEF HonestInv
<1>1. HonestRows
  <2>1. \A d \in Deliveries : row[d] = NewRow /\ sends[d] = 0
    BY DEF Init
  <2>. QED BY <2>1 DEF HonestRows, RowHonest, NewRow
<1>2. HonestAttempts
  <2>1. \A w \in Workers : worker[w].pc = "idle"
    BY DEF Init, Idle
  <2>. QED BY <2>1 DEF HonestAttempts
<1>. QED BY <1>1, <1>2

\* A step of anybody keeps it honest.
LEMMA HonestStep == HonestInv /\ [Next]_vars => HonestInv'
<1>. SUFFICES ASSUME HonestInv, [Next]_vars PROVE HonestRows' /\ HonestAttempts'
  BY TypeInv DEF HonestInv
<1>1. CASE \E d \in Deliveries : BecomeDue(d)
  <2>. PICK d \in Deliveries : BecomeDue(d) BY <1>1
  <2>1. row \in [Deliveries -> Row] /\ UNCHANGED <<sends, accepted, worker>>
    BY DEF HonestInv, TypeOK, BecomeDue, history
  <2>2. HonestRows'
    BY <2>1 DEF HonestInv, HonestRows, RowHonest, Row, BecomeDue
  <2>. QED BY <2>1, <2>2, RowsOnly
<1>2. CASE UNCHANGED vars
  <2>1. UNCHANGED <<row, worker, sends, accepted>>
    BY <1>2 DEF vars, outbox, history
  <2>. QED BY <2>1 DEF HonestInv, HonestRows, HonestAttempts
<1>. QED BY <1>1, <1>2, RequestHonest, WorkerHonest DEF Next

\* The outbox is honest (attempt_delivery, replay_delivery): whatever overlaps, is lost in
\* a crash or is replayed, a delivery marked delivered was accepted by its endpoint, and
\* one given up for failing was sent at least MAX_ATTEMPTS times.
THEOREM OutcomesHonest == Spec => []HonestOutcome
<1>1. HonestInv => HonestOutcome
  BY DEF HonestInv, HonestRows, RowHonest, HonestOutcome, TypeOK
<1>. QED BY <1>1, HonestInit, HonestStep, PTL DEF Spec

(***************************************************************************)
(* A new row never takes the place of an old one: every row is of an event *)
(* that is already in the log.                                             *)
(***************************************************************************)
QueuedLogged == \A d \in queued : d[2] <= Len(log)

\* Events are logged before or with their rows, and the log only grows.
LEMMA LoggedInv ==
    ASSUME TypeOK, QueuedLogged, [Next]_vars
    PROVE  QueuedLogged'
<1>1. CASE UNCHANGED log /\ queued' \subseteq queued
  BY <1>1 DEF QueuedLogged
<1>2. ASSUME NEW r \in Requests, enqueue_for_event(r) PROVE QueuedLogged'
  <2>1. Len(log') = Len(log) + 1 /\ Len(log) \in Nat
    BY <1>2 DEF TypeOK, enqueue_for_event
  <2>2. ASSUME NEW d \in queued' PROVE d[2] <= Len(log) \/ d[2] = Len(log) + 1
    BY <1>2, <2>2 DEF enqueue_for_event, QueuedLogged
  <2>3. \A d \in queued' : d[2] <= Len(log) + 1
    <3>. SUFFICES ASSUME NEW d \in queued' PROVE d[2] <= Len(log) + 1
      OBVIOUS
    <3>1. d[2] \in Nat
      <4>1. queued' \subseteq Deliveries
        BY <1>2, WebhookAssumption DEF TypeOK, enqueue_for_event, Deliveries
      <4>. QED BY <4>1, WebhookAssumption DEF Deliveries
    <3>. QED BY <2>1, <2>2, <3>1
  <2>. QED BY <2>1, <2>3 DEF QueuedLogged
<1>3. \/ UNCHANGED log /\ queued' \subseteq queued
      \/ \E r \in Requests : enqueue_for_event(r)
  <2>1. ASSUME NEW r \in Requests, RequestStep(r)
        PROVE  (UNCHANGED log /\ queued' \subseteq queued) \/ enqueue_for_event(r)
    BY <2>1
    DEF RequestStep, OpenEvent, record_event, OpenDeleteApplication, delete_application, OpenCreate,
        create_subscription, OpenRevoke, revoke_subscription, OpenDelete,
        delete_subscription, OpenReplaySince, OpenReplayDelivery, OpenReplay, replay, Abandon, Open,
        outbox
  <2>2. ASSUME NEW w \in Workers, WorkerStep(w) PROVE UNCHANGED <<log, queued>>
    BY <2>2 DEF WorkerStep, Attempt, lease_delivery, LoadDelivery, Send, RecordOutcome, RowGone, Crash,
                settle_deleted_applications, outbox
  <2>3. ASSUME (\E d \in Deliveries : BecomeDue(d)) \/ UNCHANGED vars
        PROVE  UNCHANGED <<log, queued>>
    BY <2>3 DEF BecomeDue, vars, outbox
  <2>. QED BY <2>1, <2>2, <2>3 DEF Next
<1>. QED BY <1>1, <1>2, <1>3

\* No attempt takes back that a delivery was delivered (attempt_delivery writes only the
\* columns it changed): only a replay does, for any number of overlapping attempts.
THEOREM DeliveredUntilReplayed == Spec => DeliveredStays
<1> DEFINE Kept == \A d \in queued \cap queued' :
                      row[d].delivered /\ ~row'[d].delivered => Replaying(d)
<1>1. Init => TypeOK /\ QueuedLogged
  BY InitType DEF Init, QueuedLogged
<1>2. TypeOK /\ QueuedLogged /\ [Next]_vars => (TypeOK /\ QueuedLogged)'
  BY TypeInv, LoggedInv
<1>3. ASSUME TypeOK, QueuedLogged, [Next]_vars PROVE [Kept]_vars
  <2>. SUFFICES ASSUME NEW d \in queued \cap queued', row[d].delivered, ~row'[d].delivered, Next
                PROVE  Replaying(d)
    BY <1>3 DEF vars, outbox
  <2>0. d \in Deliveries /\ row \in [Deliveries -> Row] /\ request = [r \in Requests |-> request[r]]
        /\ worker \in [Workers -> AttemptRecord]
    BY <1>3 DEF TypeOK
  <2>1. ASSUME NEW r \in Requests, enqueue_for_event(r) PROVE FALSE
    <3>1. d[2] <= Len(log) /\ Len(log) \in Nat
      BY <1>3 DEF QueuedLogged, TypeOK
    <3>2. d \notin request[r].subs \X {Len(log) + 1}
      BY <3>1
    <3>. QED BY <2>0, <2>1, <3>2 DEF enqueue_for_event
  <2>2. ASSUME NEW r \in Requests, replay(r) PROVE Replaying(d)
    <3>1. d \in DOMAIN request[r].loaded
      BY <2>0, <2>2 DEF replay
    <3>2. request'[r] = NoRequest
      BY <2>0, <2>2 DEF replay, Close
    <3>. QED BY <2>2, <3>1, <3>2 DEF replay, Replaying
  <2>3. ASSUME NEW r \in Requests, RequestStep(r) PROVE UNCHANGED row \/ enqueue_for_event(r) \/ replay(r)
    BY <2>3
    DEF RequestStep, OpenEvent, record_event, OpenDeleteApplication, delete_application, OpenCreate,
        create_subscription, OpenRevoke, revoke_subscription, OpenDelete,
        delete_subscription, OpenReplaySince, OpenReplayDelivery, OpenReplay, Abandon, Open, outbox
  <2>4. ASSUME NEW w \in Workers, WorkerStep(w) PROVE row'[d].delivered
    <3>1. CASE \E e \in Deliveries : lease_delivery(w, e)
      BY <2>0, <3>1 DEF lease_delivery, Row
    <3>2. CASE LoadDelivery(w)
      BY <2>0, <3>2 DEF LoadDelivery, Row
    <3>3. CASE RecordOutcome(w)
      BY <2>0, <3>3 DEF RecordOutcome, Outcome
    <3>4. CASE Send(w) \/ RowGone(w) \/ Crash(w) \/ settle_deleted_applications(w)
      BY <3>4 DEF Send, RowGone, Crash, settle_deleted_applications, outbox
    <3>. QED BY <2>4, <3>1, <3>2, <3>3, <3>4 DEF WorkerStep, Attempt
  <2>5. ASSUME NEW e \in Deliveries, BecomeDue(e) PROVE row'[d].delivered
    BY <2>0, <2>5 DEF BecomeDue, Row
  <2>. QED BY <2>1, <2>2, <2>3, <2>4, <2>5 DEF Next
<1>. QED BY <1>1, <1>2, <1>3, PTL DEF Spec, DeliveredStays

(***************************************************************************)
(* A deletion is announced: until the deliveries that tell of it are done, *)
(* their subscription stays active unless somebody revokes it.             *)
(***************************************************************************)
Told(d) == d \in accepted \/ sends[d] >= MAX_ATTEMPTS \/ SubOf(d) \in dismissed

\* Before the application is deleted only a request revokes a subscription.
RevokedBySomebody == \A s \in Subscriptions : sub[s] = "revoked" => s \in dismissed \/ app = "deleted"

\* An event is for subscriptions that were there when its request read them.
SubsKnown ==
    \A r \in Requests : request[r].op \in {"event", "delete_application"} =>
        \A s \in request[r].subs : sub[s] # "none"

FarewellLogged == \A i \in farewell : i <= Len(log)

FarewellSafe ==
    \A d \in queued : d[2] \in farewell =>
        /\ is_active(SubOf(d)) \/ Told(d)
        /\ row[d].abandoned = "revoked" => Told(d)

Announced == RevokedBySomebody /\ SubsKnown /\ FarewellLogged /\ FarewellSafe

AnnounceInv == HonestInv /\ QueuedLogged /\ Announced

\* A request that opened or closed, and nothing else.
LEMMA OnlyRequest ==
    ASSUME AnnounceInv, NEW r \in Requests, NEW req, request' = [request EXCEPT ![r] = req],
           UNCHANGED <<app, outbox, subVars, worker, counts, history>>,
           req.op \in {"event", "delete_application"} => \A s \in req.subs : sub[s] # "none"
    PROVE  Announced'
<1>1. UNCHANGED <<app, log, queued, row, sub, sends, accepted, dismissed, farewell>>
  BY DEF outbox, subVars, history
<1>2. SubsKnown'
  <2>1. \A q \in Requests : request'[q] = IF q = r THEN req ELSE request[q]
    BY DEF AnnounceInv, HonestInv, TypeOK
  <2>. QED BY <1>1, <2>1 DEF AnnounceInv, Announced, SubsKnown
<1>3. RevokedBySomebody' /\ FarewellLogged' /\ FarewellSafe'
  BY <1>1 DEF AnnounceInv, Announced, RevokedBySomebody, FarewellLogged, FarewellSafe, is_active, Told
<1>. QED BY <1>2, <1>3 DEF Announced

\* Closing a request leaves the other requests what they know of the subscriptions.
LEMMA CloseKnown ==
    ASSUME AnnounceInv, NEW r \in Requests, Close(r),
           \A s \in Subscriptions : sub'[s] = "none" => sub[s] = "none"
    PROVE  SubsKnown'
<1>1. \A q \in Requests : request'[q] = IF q = r THEN NoRequest ELSE request[q]
  BY DEF AnnounceInv, HonestInv, TypeOK, Close
<1>2. \A q \in Requests : request[q].subs \subseteq Subscriptions
  BY DEF AnnounceInv, HonestInv, TypeOK
<1>. QED BY <1>1, <1>2 DEF AnnounceInv, Announced, SubsKnown, NoRequest

\* Requests that only read.
LEMMA OpenAnnounced ==
    ASSUME AnnounceInv, NEW r \in Requests,
           \/ \E type \in EventTypes : OpenEvent(r, type)
           \/ OpenDeleteApplication(r) \/ OpenCreate(r)
           \/ \E s \in Subscriptions : OpenRevoke(r, s) \/ OpenDelete(r, s)
           \/ \E rows : OpenReplay(r, rows)
           \/ Abandon(r)
    PROVE  Announced'
<1>1. ASSUME NEW type, NEW op, Open(r, [NoRequest EXCEPT !.op = op, !.type = type, !.subs = Wanted(type)])
      PROVE  Announced'
  <2> DEFINE req == [NoRequest EXCEPT !.op = op, !.type = type, !.subs = Wanted(type)]
  <2>1. \A s \in req.subs : sub[s] # "none"
    BY DEF NoRequest, Wanted, is_active
  <2>. QED BY <1>1, <2>1, OnlyRequest DEF Open
<1>3. CASE \E type \in EventTypes : OpenEvent(r, type)
  BY <1>1, <1>3 DEF OpenEvent
<1>4. CASE OpenDeleteApplication(r)
  <2> DEFINE req == [NoRequest EXCEPT !.op = "delete_application", !.type = "domain.deleted",
                                      !.subs = Wanted("domain.deleted")]
  <2>1. Open(r, req)
    BY <1>4 DEF OpenDeleteApplication
  <2>. QED BY <1>1, <2>1
<1>5. ASSUME NEW req, Open(r, req), req.op \notin {"event", "delete_application"} PROVE Announced'
  BY <1>5, OnlyRequest DEF Open
<1>6. CASE OpenCreate(r)
  <2>1. [NoRequest EXCEPT !.op = "create"].op = "create"
    BY DEF NoRequest
  <2>. QED BY <1>5, <1>6, <2>1 DEF OpenCreate
<1>7. ASSUME NEW s \in Subscriptions, OpenRevoke(r, s) \/ OpenDelete(r, s) PROVE Announced'
  <2>1. [NoRequest EXCEPT !.op = "revoke", !.subs = {s}].op = "revoke"
        /\ [NoRequest EXCEPT !.op = "delete", !.subs = {s}].op = "delete"
    BY DEF NoRequest
  <2>. QED BY <1>5, <1>7, <2>1 DEF OpenRevoke, OpenDelete
<1>8. ASSUME NEW rows, OpenReplay(r, rows) PROVE Announced'
  <2>1. [NoRequest EXCEPT !.op = "replay", !.loaded = [d \in rows |-> row[d]]].op = "replay"
    BY DEF NoRequest
  <2>. QED BY <1>5, <1>8, <2>1 DEF OpenReplay
<1>9. CASE Abandon(r)
  BY <1>9, OnlyRequest DEF Abandon, Close, NoRequest
<1>. QED BY <1>3, <1>4, <1>6, <1>7, <1>8, <1>9

\* What is done stays done, and a subscription that is not active is not made so.
LEMMA SafeRows ==
    ASSUME AnnounceInv, TypeOK', queued' \subseteq queued, UNCHANGED farewell,
           accepted \subseteq accepted', dismissed \subseteq dismissed',
           \A d \in Deliveries : sends[d] <= sends'[d],
           \A d \in queued' : row'[d].abandoned = "revoked" =>
              row[d].abandoned = "revoked" \/ ~is_active(SubOf(d)),
           \A d \in queued' : is_active(SubOf(d)) /\ d[2] \in farewell =>
              is_active(SubOf(d))' \/ Told(d)'
    PROVE  FarewellSafe'
<1>. SUFFICES ASSUME NEW d \in queued', d[2] \in farewell
              PROVE  /\ is_active(SubOf(d))' \/ Told(d)'
                     /\ row'[d].abandoned = "revoked" => Told(d)'
  BY DEF FarewellSafe
<1>1. d \in queued /\ d \in Deliveries /\ sends[d] \in Nat /\ sends'[d] \in Nat
  BY DEF AnnounceInv, HonestInv, TypeOK
<1>2. Told(d) => Told(d)'
  BY <1>1, WebhookAssumption DEF Told
<1>3. /\ is_active(SubOf(d)) \/ Told(d)
      /\ row[d].abandoned = "revoked" => Told(d)
  BY <1>1 DEF AnnounceInv, Announced, FarewellSafe
<1>. QED BY <1>2, <1>3

\* Recording an event: the application's farewell is for subscriptions that are active
\* or that somebody asked to revoke.
LEMMA EventAnnounced ==
    ASSUME AnnounceInv, TypeOK', NEW r \in Requests,
           request[r].op \in {"event", "delete_application"}, enqueue_for_event(r), Close(r),
           UNCHANGED <<sub, sends, accepted, dismissed>>,
           app' = app \/ app' = "deleted",
           farewell' \subseteq farewell \cup {i \in {Len(log) + 1} : app = "active"}
    PROVE  Announced'
<1>0. log \in Seq(EventTypes) /\ Len(log) \in Nat /\ Len(log') = Len(log) + 1
      /\ \A i \in farewell : i \in Nat /\ i <= Len(log)
  BY WebhookAssumption DEF AnnounceInv, HonestInv, TypeOK, enqueue_for_event, Announced, FarewellLogged
<1>1. RevokedBySomebody'
  BY DEF AnnounceInv, Announced, RevokedBySomebody
<1>2. SubsKnown'
  BY CloseKnown
<1>3. FarewellLogged'
  BY <1>0 DEF FarewellLogged
<1>4. FarewellSafe'
  <2>. SUFFICES ASSUME NEW d \in queued', d[2] \in farewell'
                PROVE  /\ is_active(SubOf(d)) \/ Told(d)
                       /\ row'[d].abandoned = "revoked" => Told(d)
    BY DEF FarewellSafe, is_active, Told
  <2>1. CASE d \in request[r].subs \X {Len(log) + 1}
    <3>1. d[2] = Len(log) + 1 /\ SubOf(d) \in request[r].subs /\ d \in Deliveries
      BY <2>1 DEF SubOf, TypeOK
    <3>2. app = "active"
      BY <1>0, <3>1
    <3>3. sub[SubOf(d)] # "deleted" /\ sub[SubOf(d)] # "none" /\ SubOf(d) \in Subscriptions
      BY <3>1 DEF enqueue_for_event, AnnounceInv, Announced, SubsKnown, HonestInv, TypeOK
    <3>4. sub[SubOf(d)] \in {"active", "revoked"}
      BY <3>3 DEF AnnounceInv, HonestInv, TypeOK
    <3>5. is_active(SubOf(d)) \/ Told(d)
      BY <3>2, <3>3, <3>4 DEF AnnounceInv, Announced, RevokedBySomebody, is_active, Told
    <3>6. row'[d] = NewRow
      BY <2>1, <3>1 DEF enqueue_for_event
    <3>. QED BY <3>5, <3>6 DEF NewRow
  <2>2. CASE d \notin request[r].subs \X {Len(log) + 1}
    <3>1. d \in queued /\ d \in Deliveries
      BY <2>2 DEF enqueue_for_event, AnnounceInv, HonestInv, TypeOK
    <3>2. row'[d] = row[d]
      BY <2>2, <3>1 DEF enqueue_for_event
    <3>3. CASE d[2] \in farewell
      BY <3>1, <3>2, <3>3 DEF AnnounceInv, Announced, FarewellSafe
    <3>4. CASE d[2] \notin farewell
      <4>1. d[2] = Len(log) + 1
        BY <3>4
      <4>2. d[2] <= Len(log)
        BY <3>1 DEF AnnounceInv, QueuedLogged
      <4>. QED BY <1>0, <4>1, <4>2
    <3>. QED BY <3>3, <3>4
  <2>. QED BY <2>1, <2>2
<1>. QED BY <1>1, <1>2, <1>3, <1>4 DEF Announced

\* The transactions of requests, and a new subscription.
LEMMA RequestAnnounced ==
    ASSUME AnnounceInv, TypeOK', NEW r \in Requests, RequestStep(r)
    PROVE  Announced'
<1>0. /\ \A d \in Deliveries : sends[d] <= sends[d]
      /\ queued \subseteq Deliveries /\ \A d \in Deliveries : SubOf(d) \in Subscriptions
      /\ sub \in [Subscriptions -> {"none", "active", "revoked", "deleted"}]
  BY DEF AnnounceInv, HonestInv, TypeOK, Deliveries, SubOf
<1>1. CASE record_event(r)
  BY <1>1, EventAnnounced DEF record_event, subVars, history
<1>2. CASE delete_application(r)
  <2>1. CASE enqueue_for_event(r) /\ farewell' = farewell \cup {i \in {Len(log) + 1} : app = "active"}
    BY <1>2, <2>1, EventAnnounced DEF delete_application, subVars
  <2>2. CASE UNCHANGED <<outbox, farewell>>
    <3>1. UNCHANGED <<log, queued, row, sub, sends, accepted, dismissed, farewell>> /\ app' = "deleted"
          /\ Close(r)
      BY <1>2, <2>2 DEF delete_application, outbox, subVars
    <3>2. SubsKnown'
      BY <3>1, CloseKnown
    <3>. QED BY <3>1, <3>2
             DEF AnnounceInv, Announced, RevokedBySomebody, FarewellLogged, FarewellSafe, is_active, Told
  <2>. QED BY <1>2, <2>1, <2>2 DEF delete_application
<1>3. ASSUME NEW s \in Subscriptions, NEW events, create_subscription(r, s, events) PROVE Announced'
  <2>1. /\ sub[s] = "none" /\ sub' = [sub EXCEPT ![s] = "active"] /\ Close(r)
        /\ UNCHANGED <<app, log, queued, row, sends, accepted, dismissed, farewell>>
    BY <1>3 DEF create_subscription, outbox, history
  <2>2. \A t \in Subscriptions : sub'[t] = IF t = s THEN "active" ELSE sub[t]
    BY <1>0, <2>1
  <2>3. SubsKnown'
    BY <2>1, <2>2, CloseKnown
  <2>4. FarewellSafe'
    BY <1>0, <2>1, <2>2, SafeRows DEF is_active
  <2>. QED BY <2>1, <2>2, <2>3, <2>4 DEF AnnounceInv, Announced, RevokedBySomebody, FarewellLogged
<1>4. ASSUME NEW s \in Subscriptions, revoke_subscription(r, s) PROVE Announced'
  <2>1. /\ sub' = [sub EXCEPT ![s] = "revoked"] /\ Close(r) /\ dismissed' = dismissed \cup {s}
        /\ UNCHANGED <<app, log, queued, row, sends, accepted, farewell>>
    BY <1>4 DEF revoke_subscription, outbox
  <2>2. \A t \in Subscriptions : sub'[t] = IF t = s THEN "revoked" ELSE sub[t]
    BY <1>0, <2>1
  <2>3. SubsKnown'
    BY <2>1, <2>2, CloseKnown
  <2>4. \A d \in queued' : is_active(SubOf(d)) /\ d[2] \in farewell =>
              is_active(SubOf(d))' \/ Told(d)'
    BY <1>0, <2>1, <2>2 DEF is_active, Told
  <2>5. FarewellSafe'
    BY <1>0, <2>1, <2>4, SafeRows
  <2>. QED BY <2>1, <2>2, <2>3, <2>5 DEF AnnounceInv, Announced, RevokedBySomebody, FarewellLogged
<1>5. ASSUME NEW s \in Subscriptions, delete_subscription(r, s) PROVE Announced'
  <2>1. /\ sub' = [sub EXCEPT ![s] = "deleted"] /\ Close(r)
        /\ queued' = {d \in queued : SubOf(d) # s}
        /\ UNCHANGED <<app, log, row, sends, accepted, dismissed, farewell>>
    BY <1>5 DEF delete_subscription, history
  <2>2. \A t \in Subscriptions : sub'[t] = IF t = s THEN "deleted" ELSE sub[t]
    BY <1>0, <2>1
  <2>3. SubsKnown'
    BY <2>1, <2>2, CloseKnown
  <2>4. FarewellSafe'
    BY <1>0, <2>1, <2>2, SafeRows DEF is_active
  <2>. QED BY <2>1, <2>2, <2>3, <2>4 DEF AnnounceInv, Announced, RevokedBySomebody, FarewellLogged
<1>6. CASE replay(r)
  <2>1. /\ UNCHANGED <<app, log, queued, sub, sends, accepted, dismissed, farewell>> /\ Close(r)
        /\ \A d \in Deliveries : row'[d] = row[d] \/ row'[d] = Reset(request[r].loaded[d], row[d])
    BY <1>6 DEF replay, subVars
  <2>2. \A d \in Deliveries : row'[d].abandoned = "revoked" => row[d].abandoned = "revoked"
    <3>1. \A old, cur : Reset(old, cur).abandoned = "revoked" => cur.abandoned = "revoked"
      BY DEF Reset
    <3>. QED BY <2>1, <3>1
  <2>3. \A d \in queued' : row'[d].abandoned = "revoked" =>
              row[d].abandoned = "revoked" \/ ~is_active(SubOf(d))
    BY <1>0, <2>1, <2>2
  <2>4. FarewellSafe'
    BY <1>0, <2>1, <2>3, SafeRows DEF is_active
  <2>5. SubsKnown'
    BY <2>1, CloseKnown
  <2>. QED BY <2>1, <2>4, <2>5 DEF AnnounceInv, Announced, RevokedBySomebody, FarewellLogged
<1>7. CASE \/ \E type \in EventTypes : OpenEvent(r, type)
           \/ OpenDeleteApplication(r) \/ OpenCreate(r)
           \/ \E s \in Subscriptions : OpenRevoke(r, s) \/ OpenDelete(r, s)
           \/ \E rows : OpenReplay(r, rows)
           \/ Abandon(r)
  BY <1>7, OpenAnnounced
<1>. QED BY <1>1, <1>2, <1>3, <1>4, <1>5, <1>6, <1>7
         DEF RequestStep, OpenReplaySince, OpenReplayDelivery

\* A worker drops a delivery only for a subscription that is not active, and revokes
\* the subscriptions of a deleted application only when all they were sent is done.
LEMMA WorkerAnnounced ==
    ASSUME AnnounceInv, TypeOK', NEW w \in Workers, WorkerStep(w)
    PROVE  Announced'
<1>0. /\ row \in [Deliveries -> Row] /\ sends \in [Deliveries -> Nat] /\ queued \subseteq Deliveries
      /\ \A v \in Workers : worker[v].pc # "idle" => worker[v].of \in Deliveries
      /\ \A d \in Deliveries : SubOf(d) \in Subscriptions
  BY DEF AnnounceInv, HonestInv, TypeOK, Deliveries, SubOf
<1>1. UNCHANGED <<app, log, queued, request, dismissed, farewell>>
  BY DEF WorkerStep, Attempt, lease_delivery, LoadDelivery, Send, RecordOutcome, RowGone, Crash,
         settle_deleted_applications, outbox, history
<1>2. accepted \subseteq accepted' /\ \A d \in Deliveries : sends[d] <= sends'[d]
  <2>1. CASE Send(w)
    BY <1>0, <2>1 DEF Send
  <2>2. CASE ~Send(w)
    <3>1. UNCHANGED <<sends, accepted>>
      BY <2>2 DEF WorkerStep, Attempt, lease_delivery, LoadDelivery, RecordOutcome, RowGone, Crash,
                  settle_deleted_applications, history
    <3>. QED BY <1>0, <3>1
  <2>. QED BY <2>1, <2>2
<1>3. ASSUME NEW d \in queued', row'[d].abandoned = "revoked"
      PROVE  row[d].abandoned = "revoked" \/ ~is_active(SubOf(d))
  <2>0. d \in Deliveries
    BY <1>0, <1>1
  <2>1. CASE \E e \in Deliveries : lease_delivery(w, e)
    BY <1>0, <1>3, <2>0, <2>1 DEF lease_delivery, Row
  <2>2. CASE LoadDelivery(w)
    BY <1>0, <1>3, <2>0, <2>2 DEF LoadDelivery, Row
  <2>3. CASE RecordOutcome(w)
    BY <1>0, <1>3, <2>0, <2>3 DEF RecordOutcome, Outcome, Row
  <2>4. CASE Send(w) \/ RowGone(w) \/ Crash(w) \/ settle_deleted_applications(w)
    BY <1>3, <2>4 DEF Send, RowGone, Crash, settle_deleted_applications, outbox
  <2>. QED BY <2>1, <2>2, <2>3, <2>4 DEF WorkerStep, Attempt
<1>4. CASE UNCHANGED sub
  <2>1. FarewellSafe'
    BY <1>1, <1>2, <1>3, <1>4, SafeRows DEF is_active
  <2>. QED BY <1>1, <1>4, <2>1
           DEF AnnounceInv, Announced, RevokedBySomebody, SubsKnown, FarewellLogged
<1>5. CASE settle_deleted_applications(w)
  <2> DEFINE done == {s \in Subscriptions : is_active(s) /\ NothingPending(s)}
  <2>1. /\ app = "deleted" /\ UNCHANGED <<row, sends, accepted>>
        /\ \A s \in Subscriptions : sub'[s] = IF s \in done THEN "revoked" ELSE sub[s]
    BY <1>5 DEF settle_deleted_applications, outbox, history
  <2>2. ASSUME NEW d \in queued', is_active(SubOf(d)), d[2] \in farewell
        PROVE  is_active(SubOf(d))' \/ Told(d)'
    <3>0. d \in queued /\ d \in Deliveries /\ SubOf(d) \in Subscriptions /\ row[d] \in Row
      BY <1>0, <1>1
    <3>1. CASE SubOf(d) \notin done
      BY <2>1, <2>2, <3>0, <3>1 DEF is_active
    <3>2. CASE SubOf(d) \in done
      <4>1. ~pending(d)
        BY <3>0, <3>2 DEF NothingPending
      <4>2. row[d].delivered \/ row[d].abandoned \in {"attempts", "revoked"}
        BY <3>0, <4>1 DEF pending, Row
      <4>3. Told(d)
        BY <2>2, <3>0, <4>2
        DEF AnnounceInv, HonestInv, HonestRows, RowHonest, Announced, FarewellSafe, Told
      <4>. QED BY <1>1, <2>1, <4>3 DEF Told
    <3>. QED BY <3>1, <3>2
  <2>3. FarewellSafe'
    BY <1>1, <1>2, <1>3, <2>2, SafeRows
  <2>4. RevokedBySomebody'
    BY <1>1, <2>1 DEF RevokedBySomebody
  <2>5. SubsKnown'
    <3>1. \A r \in Requests : request[r].subs \subseteq Subscriptions
      BY DEF AnnounceInv, HonestInv, TypeOK
    <3>. QED BY <1>1, <2>1, <3>1 DEF AnnounceInv, Announced, SubsKnown
  <2>. QED BY <1>1, <2>3, <2>4, <2>5 DEF AnnounceInv, Announced, FarewellLogged
<1>6. UNCHANGED sub \/ settle_deleted_applications(w)
  BY DEF WorkerStep, Attempt, lease_delivery, LoadDelivery, Send, RecordOutcome, RowGone, Crash, subVars
<1>. QED BY <1>4, <1>5, <1>6

\* Anybody's step.
LEMMA AnnounceStep == AnnounceInv /\ [Next]_vars => AnnounceInv'
<1>. SUFFICES ASSUME AnnounceInv, [Next]_vars PROVE AnnounceInv'
  OBVIOUS
<1>1. HonestInv' /\ QueuedLogged' /\ TypeOK'
  BY HonestStep, LoggedInv DEF AnnounceInv, HonestInv
<1>2. ASSUME NEW d \in Deliveries, BecomeDue(d) PROVE Announced'
  <2>1. /\ UNCHANGED <<app, log, queued, sub, request, sends, accepted, dismissed, farewell>>
        /\ row \in [Deliveries -> Row] /\ queued \subseteq Deliveries
    BY <1>2 DEF BecomeDue, subVars, history, AnnounceInv, HonestInv, TypeOK
  <2>2. \A e \in queued : row'[e].abandoned = row[e].abandoned
    BY <1>2, <2>1 DEF BecomeDue, Row
  <2>. QED BY <2>1, <2>2 DEF AnnounceInv, Announced, RevokedBySomebody, SubsKnown, FarewellLogged,
                             FarewellSafe, is_active, Told
<1>3. CASE UNCHANGED vars
  <2>1. UNCHANGED <<app, log, queued, row, sub, request, sends, accepted, dismissed, farewell>>
    BY <1>3 DEF vars, outbox, subVars, history
  <2>. QED BY <1>1, <2>1 DEF AnnounceInv, Announced, RevokedBySomebody, SubsKnown, FarewellLogged,
                             FarewellSafe, is_active, Told
<1>. QED BY <1>1, <1>2, <1>3, RequestAnnounced, WorkerAnnounced DEF AnnounceInv, Next

\* The deletion of an application is announced (delete_application,
\* settle_deleted_applications): with any number of subscriptions, workers, requests and
\* events, a domain.deleted delivery that deletion queued is dropped for a revoked
\* subscription only if it was accepted, tried MAX_ATTEMPTS times, or somebody asked
\* to revoke the subscription.
THEOREM DeletionIsAnnounced == Spec => []DeletionAnnounced
<1>1. Init => AnnounceInv
  <2>. SUFFICES ASSUME Init PROVE Announced /\ QueuedLogged
    BY HonestInit DEF AnnounceInv
  <2>. QED BY DEF Init, Announced, QueuedLogged, RevokedBySomebody, SubsKnown, FarewellLogged, FarewellSafe,
                  NoRequest
<1>2. AnnounceInv => DeletionAnnounced
  BY DEF AnnounceInv, Announced, FarewellSafe, Told, DeletionAnnounced
<1>. QED BY <1>1, <1>2, AnnounceStep, PTL DEF Spec
=============================================================================
