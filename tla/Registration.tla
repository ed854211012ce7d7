---------------------------- MODULE Registration ----------------------------
(***************************************************************************)
(* POST /v1/domains on PostgreSQL: the idempotency key, the limits on live *)
(* domains, the pace of registrations and the unique indexes under them.   *)
(* A request is one transaction that takes its locks in the order key,     *)
(* application, deployment, hostname, and holds each of them to its end;   *)
(* what it has written so far is kept in req and is visible to the others  *)
(* only through those locks.                                               *)
(***************************************************************************)
EXTENDS Integers, Sequences, FiniteSets

CONSTANTS
    Applications, Hostnames, Keys, Requests, None,
    MAX_DOMAINS,                   \* deployment_limit(), or None
    ApplicationLimits,             \* the values set_domain_limit is given
    IDEMPOTENCY_TTL, REGISTRATION_WINDOW, REGISTRATION_MAX_PER_WINDOW,
    MaxClock, MaxRows              \* bounds of the instance

ASSUME RegistrationAssumption ==
    /\ None \notin Applications \cup Hostnames \cup Keys \cup Requests
    /\ MAX_DOMAINS \in (Nat \ {0}) \cup {None}
    /\ ApplicationLimits \subseteq (Nat \ {0}) \cup {None}
    /\ IDEMPOTENCY_TTL \in Nat \ {0} /\ REGISTRATION_WINDOW \in Nat \ {0}
    /\ REGISTRATION_MAX_PER_WINDOW \in Nat \ {0}
    /\ MaxClock \in Nat /\ MaxRows \in Nat

VARIABLES
    domains,      \* the committed rows of domains, in the order of insertion
    limit,        \* applications.max_domains
    keys,         \* idempotency_keys: [Applications \X Keys -> row or None]
    req,          \* the open request of each client, and its last answer
    clock

vars == <<domains, limit, keys, req, clock>>

\* A row of domains.  key and begun are the reservation it was created under
\* (history); stamp is created_at of its domain.created event.
Domain == [app : Applications, host : Hostnames, live : BOOLEAN,
           key : Keys \cup {None}, begun : 0..MaxClock, stamp : 0..MaxClock]

Row == [hash : Hostnames, domain : Nat, expires : Nat]

ASSUME NoRowAssumption == None \notin Row

Idle == [pc |-> "idle", app |-> None, key |-> None, body |-> None,
         limit |-> None, begun |-> 0, stamp |-> 0, domain |-> 0]

PCs == {"idle", "reserving", "conflict", "claiming", "locked", "counting",
        "inserting", "inserted"}

Request == [pc : PCs, app : Applications \cup {None}, key : Keys \cup {None},
            body : Hostnames \cup {None}, limit : ApplicationLimits \cup {None},
            begun : 0..MaxClock, stamp : 0..MaxClock, domain : Nat]

TypeOK ==
    /\ domains \in Seq(Domain)
    /\ limit \in [Applications -> ApplicationLimits \cup {None}]
    /\ keys \in [Applications \X Keys -> Row \cup {None}]
    /\ req \in [Requests -> Request]
    /\ clock \in 0..MaxClock

-----------------------------------------------------------------------------
Live == {i \in DOMAIN domains : domains[i].live}

live_domains(a) == {i \in Live : domains[i].app = a}

\* The locks are the transactions that wrote the row and have not ended.
HoldsKey(r, a, k) == /\ req[r].app = a /\ req[r].key = k
                     /\ req[r].pc \in {"claiming", "locked", "counting",
                                       "inserting", "inserted"}

HoldsApplication(r, a) ==
    req[r].app = a /\ req[r].pc \in {"locked", "counting", "inserting", "inserted"}

HoldsLimitLock_WithTheKey(r) ==
    /\ MAX_DOMAINS # None
    /\ \/ req[r].pc \in {"counting", "inserting", "inserted"}
       \/ req[r].pc = "claiming" /\ req[r].key # None
HoldsLimitLock(r) == /\ MAX_DOMAINS # None
                     /\ req[r].pc \in {"counting", "inserting", "inserted"}

HoldsHostname(r, h) == req[r].body = h /\ req[r].pc = "inserted"

KeyFree_Ignored(r) == TRUE
KeyFree(r) ==
    \A q \in Requests \ {r} : ~HoldsKey(q, req[r].app, req[r].key)

LockFree(r) ==
    \A q \in Requests \ {r} : ~HoldsApplication(q, req[r].app)

LimitLockFree_Ignored(r) == TRUE
LimitLockFree(r) ==
    \A q \in Requests \ {r} : ~HoldsLimitLock(q)

\* A refused request rolls back and leaves nothing; a replayed one leaves its
\* answer, which the client reads until it sends the next request.
Refuse(r) == req' = [req EXCEPT ![r] = Idle] /\ UNCHANGED <<domains, limit, keys, clock>>

-----------------------------------------------------------------------------
(* The request. *)

\* current_application loads the row, with its limit, and commits; the handler
\* goes on with that copy (expire_on_commit is off).
Arrive(r, a, k, h) ==
    /\ req[r].pc = "idle"
    /\ req' = [req EXCEPT ![r] =
         [Idle EXCEPT !.pc = IF k = None THEN "claiming" ELSE "reserving",
                      !.app = a, !.key = k, !.body = h, !.limit = limit[a],
                      !.begun = clock, !.stamp = clock]]
    /\ UNCHANGED <<domains, limit, keys, clock>>

\* begin: the INSERT in a savepoint.  It waits for another transaction that
\* inserted or is rewriting the key, and fails on a committed row.
InsertKey(r) ==
    /\ req[r].pc = "reserving" /\ KeyFree(r)
    /\ req' = [req EXCEPT ![r] =
         [@ EXCEPT !.pc = IF keys[<<req[r].app, req[r].key>>] = None
                          THEN "claiming" ELSE "conflict",
                   !.stamp = clock]]
    /\ UNCHANGED <<domains, limit, keys, clock>>

InspectKey(r) == req[r].pc = "conflict" /\ KeyFree(r)

Replay(r, d) == req' = [req EXCEPT ![r] = [Idle EXCEPT !.domain = d,
                   !.app = req[r].app, !.key = req[r].key, !.body = req[r].body]]

SameBody(r, row) == row.hash = req[r].body

\* SELECT ... FOR UPDATE and what create_domain makes of the row it finds.
ReadKey(r) ==
    /\ InspectKey(r)
    /\ LET row == keys[<<req[r].app, req[r].key>>] IN
         \/ row = None /\ Refuse(r)                       \* purged in between
         \/ /\ row # None /\ row.expires <= req[r].begun  \* reclaimed in place
            /\ req' = [req EXCEPT ![r] = [@ EXCEPT !.pc = "claiming", !.stamp = clock]]
            /\ UNCHANGED <<domains, limit, keys, clock>>
         \/ /\ row # None /\ row.expires > req[r].begun
            /\ ~SameBody(r, row) /\ Refuse(r)             \* idempotency_key_reused
         \/ /\ row # None /\ row.expires > req[r].begun
            /\ SameBody(r, row) /\ Replay(r, row.domain)
            /\ UNCHANGED <<domains, limit, keys, clock>>

lock_application(r) ==
    /\ req[r].pc = "claiming" /\ LockFree(r)
    /\ req' = [req EXCEPT ![r] = [@ EXCEPT !.pc = "locked"]]
    /\ UNCHANGED <<domains, limit, keys, clock>>

acquire_lock(r) ==
    /\ req[r].pc = "locked" /\ LimitLockFree(r)
    /\ req' = [req EXCEPT ![r] = [@ EXCEPT !.pc = "counting"]]
    /\ UNCHANGED <<domains, limit, keys, clock>>

LimitReached(r) ==
    \/ req[r].limit # None /\ Cardinality(live_domains(req[r].app)) >= req[r].limit
    \/ MAX_DOMAINS # None /\ Cardinality(Live) >= MAX_DOMAINS

\* The events counted are those stamped after now - REGISTRATION_WINDOW, the
\* ones stamped after now by requests that overtook this one among them.
RegistrationLimitReached_UpToNow(r) ==
    Cardinality({i \in DOMAIN domains :
        /\ domains[i].app = req[r].app
        /\ domains[i].stamp > req[r].stamp - REGISTRATION_WINDOW
        /\ domains[i].stamp < req[r].stamp}) >= REGISTRATION_MAX_PER_WINDOW
RegistrationLimitReached(r) ==
    Cardinality({i \in DOMAIN domains :
        /\ domains[i].app = req[r].app
        /\ domains[i].stamp > req[r].stamp - REGISTRATION_WINDOW})
      >= REGISTRATION_MAX_PER_WINDOW

enforce(r) ==
    /\ req[r].pc = "counting"
    /\ \/ LimitReached(r) /\ Refuse(r)
       \/ ~LimitReached(r) /\ RegistrationLimitReached(r) /\ Refuse(r)
       \/ /\ ~LimitReached(r) /\ ~RegistrationLimitReached(r)
          /\ req' = [req EXCEPT ![r] = [@ EXCEPT !.pc = "inserting"]]
          /\ UNCHANGED <<domains, limit, keys, clock>>

\* The unique index on live hostnames makes an insert wait for the other one.
InsertDomain(r) ==
    /\ req[r].pc = "inserting"
    /\ \A q \in Requests \ {r} : ~HoldsHostname(q, req[r].body)
    /\ \/ /\ \E i \in Live : domains[i].host = req[r].body
          /\ Refuse(r)
       \/ /\ \A i \in Live : domains[i].host # req[r].body
          /\ req' = [req EXCEPT ![r] = [@ EXCEPT !.pc = "inserted"]]
          /\ UNCHANGED <<domains, limit, keys, clock>>

\* complete fills in the key's domain and the transaction commits.
complete(r) ==
    /\ req[r].pc = "inserted"
    /\ LET a == req[r].app
           k == req[r].key IN
         /\ domains' = Append(domains,
              [app |-> a, host |-> req[r].body, live |-> TRUE, key |-> k,
               begun |-> IF k = None THEN 0 ELSE req[r].begun,
               stamp |-> req[r].stamp])
         /\ keys' = IF k = None THEN keys
                    ELSE [keys EXCEPT ![<<a, k>>] =
                            [hash |-> req[r].body, domain |-> Len(domains) + 1,
                             expires |-> req[r].begun + IDEMPOTENCY_TTL]]
    /\ req' = [req EXCEPT ![r] = Idle]
    /\ UNCHANGED <<limit, clock>>

\* The connection or the process is lost and the transaction rolled back.
Lose(r) ==
    /\ req[r].pc # "idle"
    /\ req' = [req EXCEPT ![r] = Idle]
    /\ UNCHANGED <<domains, limit, keys, clock>>

-----------------------------------------------------------------------------
(* What goes on beside the requests. *)

delete_domain(i) ==
    /\ i \in Live
    /\ domains' = [domains EXCEPT ![i].live = FALSE]
    /\ UNCHANGED <<limit, keys, req, clock>>

\* The UPDATE of the application's row waits for lock_application.
set_domain_limit(a, v) ==
    /\ limit[a] # v /\ \A r \in Requests : ~HoldsApplication(r, a)
    /\ limit' = [limit EXCEPT ![a] = v]
    /\ UNCHANGED <<domains, keys, req, clock>>

\* A row being reclaimed makes the DELETE wait and is no longer expired after.
purge_expired(a, k) ==
    /\ keys[<<a, k>>] # None /\ keys[<<a, k>>].expires <= clock
    /\ \A r \in Requests : ~HoldsKey(r, a, k)
    /\ keys' = [keys EXCEPT ![<<a, k>>] = None]
    /\ UNCHANGED <<domains, limit, req, clock>>

\* Time passes; no request stays open for as long as a key is kept.
Tick ==
    /\ clock < MaxClock
    /\ \A r \in Requests : req[r].pc # "idle"
                           => clock + 1 < req[r].begun + IDEMPOTENCY_TTL
    /\ clock' = clock + 1
    /\ UNCHANGED <<domains, limit, keys, req>>

\* Bound of the instance: every open request may still add its row.
RoomFor == Len(domains) + Cardinality({r \in Requests : req[r].pc # "idle"}) < MaxRows

Step(r) == InsertKey(r) \/ ReadKey(r) \/ lock_application(r) \/ acquire_lock(r)
           \/ enforce(r) \/ InsertDomain(r) \/ complete(r)

Init ==
    /\ domains = <<>>
    /\ limit \in [Applications -> ApplicationLimits]
    /\ keys = [ak \in Applications \X Keys |-> None]
    /\ req = [r \in Requests |-> Idle]
    /\ clock = 0

Next ==
    \/ \E r \in Requests :
         \/ \E a \in Applications, k \in Keys \cup {None}, h \in Hostnames :
              RoomFor /\ Arrive(r, a, k, h)
         \/ Step(r)
         \/ Lose(r)
    \/ \E i \in DOMAIN domains : delete_domain(i)
    \/ \E a \in Applications, v \in ApplicationLimits : set_domain_limit(a, v)
    \/ \E a \in Applications, k \in Keys : purge_expired(a, k)
    \/ Tick

Spec == Init /\ [][Next]_vars

-----------------------------------------------------------------------------
(* Properties. *)

\* Registrations racing in different applications never take the deployment
\* past MAX_DOMAINS, and in one application never past the limit the request
\* loaded: enforce counts under locks that are held until the insert commits.
LimitsHoldStep ==
    \A i \in DOMAIN domains' \ DOMAIN domains :
       LET a == domains'[i].app
           live == {j \in DOMAIN domains' : domains'[j].live} IN
       /\ MAX_DOMAINS # None => Cardinality(live) <= MAX_DOMAINS
       /\ \E r \in Requests :
            /\ req[r].pc = "inserted" /\ req'[r].pc = "idle"
            /\ req[r].limit # None =>
                 Cardinality({j \in live : domains'[j].app = a}) <= req[r].limit

\* So it is in every step: no interleaving of create_domain's locks, of deletions
\* and of changes of a limit lets an insert commit beyond what enforce allows.
LimitsHold == [][LimitsHoldStep]_vars

\* Whatever is retried, lost, expired or purged in between, one key of an
\* application creates at most one domain within IDEMPOTENCY_TTL.
OneDomainPerKey ==
    \A i, j \in DOMAIN domains :
        /\ i < j /\ domains[i].app = domains[j].app
        /\ domains[i].key = domains[j].key /\ domains[i].key # None
        => domains[j].stamp >= domains[i].begun + IDEMPOTENCY_TTL

\* A replayed create returns the domain that the same key and body created for
\* the same application, also after that domain was deleted.
ReplayIsTheOriginal ==
    \A r \in Requests : req[r].pc = "idle" /\ req[r].domain # 0 =>
        LET d == domains[req[r].domain] IN
        d.app = req[r].app /\ d.key = req[r].key /\ d.host = req[r].body

\* Idempotency-Key keeps its two promises (begin, complete).
KeysHonoured == OneDomainPerKey /\ ReplayIsTheOriginal

\* In no REGISTRATION_WINDOW are there more registrations of an application
\* than REGISTRATION_MAX_PER_WINDOW, although they are stamped before they
\* are counted and commit in another order.
RegistrationsPaced ==
    \A a \in Applications, t \in 0..MaxClock :
        Cardinality({i \in DOMAIN domains :
            /\ domains[i].app = a /\ domains[i].stamp <= t
            /\ domains[i].stamp > t - REGISTRATION_WINDOW})
          <= REGISTRATION_MAX_PER_WINDOW

\* The lock order leaves no cycle: while requests are open, one of them can go
\* on without any of them being given up.
SomeoneGoesOn ==
    (\E r \in Requests : req[r].pc # "idle") => \E r \in Requests : ENABLED Step(r)
=============================================================================
