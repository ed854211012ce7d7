------------------------- MODULE RegistrationProofs -------------------------
(***************************************************************************)
(* Theorems about Registration, for every set of applications, hostnames,  *)
(* keys and requests, every limit and every length of the windows; and,    *)
(* further down, about LegacyApi, the other way to have a hostname served. *)
(***************************************************************************)
EXTENDS MCRequests, FiniteSetTheorems, TLAPS

-----------------------------------------------------------------------------
(* What a step can be. *)

\* The key's row lets a request claim it: there is none, or it had expired
\* when the request began.
Reclaimable(r) ==
    LET row == keys[<<req[r].app, req[r].key>>] IN row # None => row.expires <= req[r].begun

\* A request goes on to pc p, under the locks and tests on the way there.
Advance(r, p, s) ==
    /\ req' = [req EXCEPT ![r] = [@ EXCEPT !.pc = p, !.stamp = s]]
    /\ UNCHANGED <<domains, limit, keys, clock>>
    /\ \/ p = "conflict" /\ req[r].pc = "reserving" /\ s = clock
       \/ /\ p = "claiming" /\ req[r].pc \in {"reserving", "conflict"} /\ s = clock
          /\ KeyFree(r) /\ Reclaimable(r)
       \/ p = "locked" /\ req[r].pc = "claiming" /\ s = req[r].stamp /\ LockFree(r)
       \/ p = "counting" /\ req[r].pc = "locked" /\ s = req[r].stamp /\ LimitLockFree(r)
       \/ /\ p = "inserting" /\ req[r].pc = "counting" /\ s = req[r].stamp
          /\ ~LimitReached(r) /\ ~RegistrationLimitReached(r)
       \/ p = "inserted" /\ req[r].pc = "inserting" /\ s = req[r].stamp

\* It ends without a row: refused, lost, or answered from the key's row.
Ends(r) ==
    /\ UNCHANGED <<domains, limit, keys, clock>>
    /\ \/ req' = [req EXCEPT ![r] = Idle]
       \/ LET row == keys[<<req[r].app, req[r].key>>] IN
          /\ req[r].pc = "conflict"
          /\ row # None /\ SameBody(r, row) /\ Replay(r, row.domain)

Steps ==
    \/ \E r \in Requests :
         \/ \E a \in Applications, k \in Keys \cup {None}, h \in Hostnames : Arrive(r, a, k, h)
         \/ \E p \in PCs, s \in 0..MaxClock : Advance(r, p, s)
         \/ Ends(r)
         \/ complete(r)
    \/ \E i \in DOMAIN domains : delete_domain(i)
    \/ \E a \in Applications, v \in ApplicationLimits : set_domain_limit(a, v)
    \/ \E a \in Applications, k \in Keys : purge_expired(a, k)
    \/ Tick
    \/ UNCHANGED vars

LEMMA StepCases == TypeOK /\ [Next]_vars => Steps
<1> SUFFICES ASSUME TypeOK, [Next]_vars PROVE Steps
  OBVIOUS
<1>1. ASSUME NEW r \in Requests, Step(r) PROVE Steps
  <2>0. req[r] \in Request /\ clock \in 0..MaxClock
    BY DEF TypeOK
  <2>1. ASSUME NEW p \in PCs, NEW s \in 0..MaxClock, Advance(r, p, s) PROVE Steps
    BY <2>1 DEF Steps
  <2>2. Ends(r) => Steps
    BY DEF Steps
  <2>3. Refuse(r) => Steps
    BY <2>2 DEF Refuse, Ends
  <2>4. ASSUME NEW p \in PCs, req' = [req EXCEPT ![r] = [@ EXCEPT !.pc = p]]
        PROVE  /\ req' = [req EXCEPT ![r] = [@ EXCEPT !.pc = p, !.stamp = req[r].stamp]]
               /\ req[r].stamp \in 0..MaxClock
    BY <2>0, <2>4 DEF Request
  <2>5. CASE InsertKey(r)
    BY <2>0, <2>1, <2>5 DEF InsertKey, Advance, Reclaimable, PCs
  <2>6. CASE ReadKey(r)
    BY <2>0, <2>1, <2>2, <2>3, <2>6 DEF ReadKey, InspectKey, Advance, Reclaimable, Ends, PCs
  <2>7. CASE lock_application(r)
    BY <2>1, <2>4, <2>7 DEF lock_application, Advance, PCs
  <2>8. CASE acquire_lock(r)
    BY <2>1, <2>4, <2>8 DEF acquire_lock, Advance, PCs
  <2>9. CASE enforce(r)
    BY <2>1, <2>3, <2>4, <2>9 DEF enforce, Advance, PCs
  <2>10. CASE InsertDomain(r)
    BY <2>1, <2>3, <2>4, <2>10 DEF InsertDomain, Advance, PCs
  <2>11. CASE complete(r)
    BY <2>11 DEF Steps
  <2> QED
    BY <1>1, <2>5, <2>6, <2>7, <2>8, <2>9, <2>10, <2>11 DEF Step
<1>2. ASSUME NEW r \in Requests, Lose(r) PROVE Steps
  BY <1>2 DEF Lose, Steps, Ends
<1> QED
  BY <1>1, <1>2 DEF Next, Steps

-----------------------------------------------------------------------------
(* Locks and times. *)

Formed ==
    \A r \in Requests :
        /\ req[r].pc # "idle" => req[r].app \in Applications /\ req[r].body \in Hostnames
        /\ req[r].pc \in {"reserving", "conflict"} => req[r].key \in Keys

\* A request is stamped after it began, and is over before a key it reserved
\* could expire.
Timely ==
    \A r \in Requests : req[r].pc # "idle" =>
        /\ req[r].begun <= req[r].stamp /\ req[r].stamp <= clock
        /\ clock < req[r].begun + IDEMPOTENCY_TTL

KeyExclusive ==
    \A r, q \in Requests, a \in Applications, k \in Keys :
        HoldsKey(r, a, k) /\ HoldsKey(q, a, k) => r = q

ApplicationExclusive ==
    \A r, q \in Requests, a \in Applications :
        HoldsApplication(r, a) /\ HoldsApplication(q, a) => r = q

LimitExclusive ==
    \A r, q \in Requests : HoldsLimitLock(r) /\ HoldsLimitLock(q) => r = q

LockInv ==
    TypeOK /\ Formed /\ Timely /\ KeyExclusive /\ ApplicationExclusive /\ LimitExclusive

LEMMA IdleRequest == Idle \in Request /\ Idle.pc = "idle" /\ Idle.domain = 0
BY RegistrationAssumption DEF Idle, Request, PCs

LEMMA InitLocks == Init => LockInv
<1> SUFFICES ASSUME Init PROVE LockInv
  OBVIOUS
<1> USE RegistrationAssumption, IdleRequest DEF Init
<1>1. TypeOK
  BY DEF TypeOK
<1>2. \A r \in Requests : req[r].pc = "idle"
  OBVIOUS
<1> QED
  BY <1>1, <1>2 DEF LockInv, Formed, Timely, KeyExclusive, ApplicationExclusive, LimitExclusive,
                    HoldsKey, HoldsApplication, HoldsLimitLock

\* The state of one request changes and the database does not.
LEMMA OneRequestType ==
    ASSUME TypeOK, NEW r \in Requests, NEW x \in Request,
           req' = [req EXCEPT ![r] = x], UNCHANGED <<domains, limit, keys, clock>>
    PROVE  TypeOK' /\ req'[r] = x /\ \A q \in Requests \ {r} : req'[q] = req[q]
BY DEF TypeOK

\* A request that lets go of everything leaves the locks in order.
LEMMA ReleaseStep ==
    ASSUME LockInv, TypeOK', UNCHANGED clock, NEW r \in Requests, req'[r].pc = "idle",
           \A q \in Requests \ {r} : req'[q] = req[q]
    PROVE  LockInv'
<1>1. Formed' /\ Timely'
  BY DEF LockInv, Formed, Timely
<1>2. KeyExclusive' /\ ApplicationExclusive' /\ LimitExclusive'
  BY DEF LockInv, KeyExclusive, ApplicationExclusive, LimitExclusive,
         HoldsKey, HoldsApplication, HoldsLimitLock
<1> QED
  BY <1>1, <1>2 DEF LockInv

LEMMA ArriveLocks ==
    ASSUME LockInv, NEW r \in Requests, NEW a \in Applications, NEW k \in Keys \cup {None},
           NEW h \in Hostnames, Arrive(r, a, k, h)
    PROVE  LockInv'
<1> USE RegistrationAssumption
<1> DEFINE x == [Idle EXCEPT !.pc = IF k = None THEN "claiming" ELSE "reserving",
                      !.app = a, !.key = k, !.body = h, !.limit = limit[a],
                      !.begun = clock, !.stamp = clock]
<1>1. /\ x \in Request /\ x.pc = (IF k = None THEN "claiming" ELSE "reserving")
      /\ x.app = a /\ x.key = k /\ x.body = h /\ x.begun = clock /\ x.stamp = clock
  BY IdleRequest DEF LockInv, TypeOK, Idle, Request, PCs
<1>2. req' = [req EXCEPT ![r] = x] /\ UNCHANGED <<domains, limit, keys, clock>>
  BY DEF Arrive
<1> HIDE DEF x
<1>3. TypeOK' /\ req'[r] = x /\ \A q \in Requests \ {r} : req'[q] = req[q]
  BY <1>1, <1>2, OneRequestType DEF LockInv
<1>4. Formed' /\ Timely'
  BY <1>1, <1>2, <1>3 DEF LockInv, Formed, Timely, TypeOK
<1>5. KeyExclusive' /\ ApplicationExclusive' /\ LimitExclusive'
  BY <1>1, <1>3 DEF LockInv, KeyExclusive, ApplicationExclusive, LimitExclusive,
         HoldsKey, HoldsApplication, HoldsLimitLock
<1> QED
  BY <1>3, <1>4, <1>5 DEF LockInv

\* What a request that goes on changes of itself.
LEMMA AdvanceFields ==
    ASSUME TypeOK, NEW r \in Requests, NEW p \in PCs, NEW s \in 0..MaxClock, Advance(r, p, s)
    PROVE  /\ TypeOK' /\ UNCHANGED <<domains, limit, keys, clock>>
           /\ req'[r].pc = p /\ req'[r].stamp = s /\ req'[r].app = req[r].app
           /\ req'[r].key = req[r].key /\ req'[r].body = req[r].body
           /\ req'[r].limit = req[r].limit /\ req'[r].begun = req[r].begun
           /\ req'[r].domain = req[r].domain /\ req[r].pc # "idle"
           /\ \A q \in Requests \ {r} : req'[q] = req[q]
<1> DEFINE x == [req[r] EXCEPT !.pc = p, !.stamp = s]
<1>1. req[r] \in Request
  BY DEF TypeOK
<1>2. x \in Request /\ x.pc = p /\ x.stamp = s /\ x.app = req[r].app /\ x.key = req[r].key
      /\ x.body = req[r].body /\ x.limit = req[r].limit /\ x.begun = req[r].begun
      /\ x.domain = req[r].domain
  BY <1>1 DEF Request
<1>3. req' = [req EXCEPT ![r] = x] /\ UNCHANGED <<domains, limit, keys, clock>>
  BY DEF Advance, TypeOK
<1> HIDE DEF x
<1>4. TypeOK' /\ req'[r] = x /\ \A q \in Requests \ {r} : req'[q] = req[q]
  BY <1>2, <1>3, OneRequestType
<1> QED
  BY <1>2, <1>3, <1>4 DEF Advance

LEMMA AdvanceLocks ==
    ASSUME LockInv, NEW r \in Requests, NEW p \in PCs, NEW s \in 0..MaxClock, Advance(r, p, s)
    PROVE  LockInv'
<1> USE RegistrationAssumption
<1>1. /\ TypeOK' /\ UNCHANGED <<domains, limit, keys, clock>>
      /\ req'[r].pc = p /\ req'[r].stamp = s /\ req'[r].app = req[r].app
      /\ req'[r].key = req[r].key /\ req'[r].body = req[r].body
      /\ req'[r].begun = req[r].begun /\ req[r].pc # "idle"
      /\ \A q \in Requests \ {r} : req'[q] = req[q]
  BY AdvanceFields DEF LockInv
<1>2. Formed' /\ Timely'
  BY <1>1 DEF LockInv, Formed, Timely, TypeOK, Request, Advance
<1>3. KeyExclusive'
  <2> SUFFICES ASSUME NEW q \in Requests \ {r}, NEW a \in Applications, NEW k \in Keys,
                      HoldsKey(r, a, k)', HoldsKey(q, a, k)'
               PROVE  FALSE
    BY <1>1 DEF KeyExclusive, HoldsKey, LockInv
  <2>1. HoldsKey(q, a, k)
    BY <1>1 DEF HoldsKey
  <2>2. ~HoldsKey(r, a, k)
    BY <2>1 DEF LockInv, KeyExclusive
  <2>3. p = "claiming" /\ KeyFree(r)
    BY <1>1, <2>2 DEF HoldsKey, Advance
  <2> QED
    BY <1>1, <2>1, <2>3 DEF KeyFree, HoldsKey
<1>4. ApplicationExclusive'
  <2> SUFFICES ASSUME NEW q \in Requests \ {r}, NEW a \in Applications,
                      HoldsApplication(r, a)', HoldsApplication(q, a)'
               PROVE  FALSE
    BY <1>1 DEF ApplicationExclusive, HoldsApplication, LockInv
  <2>1. HoldsApplication(q, a) /\ ~HoldsApplication(r, a)
    BY <1>1 DEF HoldsApplication, LockInv, ApplicationExclusive
  <2>2. p = "locked" /\ LockFree(r)
    BY <1>1, <2>1 DEF HoldsApplication, Advance
  <2> QED
    BY <1>1, <2>1, <2>2 DEF LockFree, HoldsApplication
<1>5. LimitExclusive'
  <2> SUFFICES ASSUME NEW q \in Requests \ {r}, HoldsLimitLock(r)', HoldsLimitLock(q)'
               PROVE  FALSE
    BY <1>1 DEF LimitExclusive, HoldsLimitLock, LockInv
  <2>1. HoldsLimitLock(q) /\ ~HoldsLimitLock(r)
    BY <1>1 DEF HoldsLimitLock, LockInv, LimitExclusive
  <2>2. p = "counting" /\ LimitLockFree(r)
    BY <1>1, <2>1 DEF HoldsLimitLock, Advance
  <2> QED
    BY <1>1, <2>1, <2>2 DEF LimitLockFree
<1> QED
  BY <1>1, <1>2, <1>3, <1>4, <1>5 DEF LockInv

\* Every row is still there, and only its deletion is new.
RowsKept ==
    /\ DOMAIN domains' = DOMAIN domains
    /\ \A i \in DOMAIN domains :
         /\ domains'[i].app = domains[i].app /\ domains'[i].host = domains[i].host
         /\ domains'[i].key = domains[i].key /\ domains'[i].begun = domains[i].begun
         /\ domains'[i].stamp = domains[i].stamp
         /\ domains'[i].live => domains[i].live

LEMMA EndsFields ==
    ASSUME TypeOK, Formed, NEW r \in Requests, Ends(r)
    PROVE  /\ TypeOK' /\ UNCHANGED <<domains, limit, keys, clock>> /\ req'[r].pc = "idle"
           /\ \A q \in Requests \ {r} : req'[q] = req[q]
           /\ req'[r].domain # 0 =>
                LET row == keys[<<req[r].app, req[r].key>>] IN
                /\ req[r].pc = "conflict" /\ row # None /\ row.hash = req[r].body
                /\ req'[r].domain = row.domain /\ req'[r].app = req[r].app
                /\ req'[r].key = req[r].key /\ req'[r].body = req[r].body
<1>1. CASE req' = [req EXCEPT ![r] = Idle]
  BY <1>1, IdleRequest, OneRequestType DEF Ends
<1>2. CASE req' # [req EXCEPT ![r] = Idle]
  <2> DEFINE row == keys[<<req[r].app, req[r].key>>]
             x == [Idle EXCEPT !.domain = row.domain,
                      !.app = req[r].app, !.key = req[r].key, !.body = req[r].body]
  <2>1. /\ req[r].pc = "conflict" /\ row # None /\ row.hash = req[r].body
        /\ req' = [req EXCEPT ![r] = x] /\ UNCHANGED <<domains, limit, keys, clock>>
    BY <1>2 DEF Ends, Replay, SameBody
  <2>2. req[r] \in Request
    BY DEF TypeOK
  <2>3. row \in Row
    BY <2>1 DEF TypeOK, Formed
  <2>4. /\ x \in Request /\ x.pc = "idle" /\ x.domain = row.domain
        /\ x.app = req[r].app /\ x.key = req[r].key /\ x.body = req[r].body
    BY <2>2, <2>3, IdleRequest DEF Idle, Request, Row
  <2> HIDE DEF x
  <2>5. TypeOK' /\ req'[r] = x /\ \A q \in Requests \ {r} : req'[q] = req[q]
    BY <2>1, <2>4, OneRequestType
  <2> QED
    BY <2>1, <2>4, <2>5
<1> QED
  BY <1>1, <1>2

\* What the commit of a create adds to the database.
LEMMA CompleteFields ==
    ASSUME TypeOK, Formed, NEW r \in Requests, complete(r)
    PROVE  LET n == Len(domains) + 1
               a == req[r].app
               k == req[r].key IN
           /\ TypeOK' /\ UNCHANGED <<limit, clock>>
           /\ req[r].pc = "inserted" /\ req'[r].pc = "idle" /\ req'[r].domain = 0
           /\ \A q \in Requests \ {r} : req'[q] = req[q]
           /\ n \in Nat \ {0} /\ DOMAIN domains = 1 .. (n - 1) /\ DOMAIN domains' = 1 .. n
           /\ Len(domains') = n
           /\ \A i \in 1 .. (n - 1) : domains'[i] = domains[i]
           /\ domains'[n].app = a /\ domains'[n].host = req[r].body /\ domains'[n].live
           /\ domains'[n].key = k /\ domains'[n].stamp = req[r].stamp
           /\ k # None => domains'[n].begun = req[r].begun
           /\ k = None => keys' = keys
           /\ k # None => /\ keys'[<<a, k>>] # None /\ keys'[<<a, k>>].hash = req[r].body
                          /\ keys'[<<a, k>>].domain = n
                          /\ keys'[<<a, k>>].expires = req[r].begun + IDEMPOTENCY_TTL
                          /\ \A ak \in (Applications \X Keys) \ {<<a, k>>} : keys'[ak] = keys[ak]
<1> USE RegistrationAssumption
<1> DEFINE n == Len(domains) + 1
           a == req[r].app
           k == req[r].key
           d == [app |-> a, host |-> req[r].body, live |-> TRUE, key |-> k,
                 begun |-> IF k = None THEN 0 ELSE req[r].begun, stamp |-> req[r].stamp]
           row == [hash |-> req[r].body, domain |-> n, expires |-> req[r].begun + IDEMPOTENCY_TTL]
<1>1. req[r] \in Request /\ domains \in Seq(Domain) /\ req[r].pc = "inserted"
      /\ a \in Applications /\ req[r].body \in Hostnames /\ k \in Keys \cup {None}
      /\ req[r].begun \in 0..MaxClock /\ req[r].stamp \in 0..MaxClock
  BY DEF TypeOK, Formed, complete, Request
<1>2. d \in Domain /\ d.app = a /\ d.host = req[r].body /\ d.live /\ d.key = k
      /\ d.stamp = req[r].stamp /\ (k # None => d.begun = req[r].begun)
  BY <1>1 DEF Domain
<1>3. n \in Nat \ {0} /\ row \in Row
  BY <1>1 DEF Row
<1>4. row # None
  BY <1>3, NoRowAssumption
<1>5. /\ domains' = Append(domains, d)
      /\ keys' = IF k = None THEN keys ELSE [keys EXCEPT ![<<a, k>>] = row]
      /\ req' = [req EXCEPT ![r] = Idle] /\ UNCHANGED <<limit, clock>>
  BY DEF complete
<1>6. row.hash = req[r].body /\ row.domain = n /\ row.expires = req[r].begun + IDEMPOTENCY_TTL
  OBVIOUS
<1> HIDE DEF d, row
<1>7. /\ domains' \in Seq(Domain) /\ DOMAIN domains = 1 .. (n - 1) /\ DOMAIN domains' = 1 .. n
      /\ Len(domains') = n
      /\ domains'[n] = d /\ \A i \in 1 .. (n - 1) : domains'[i] = domains[i]
  BY <1>1, <1>2, <1>5
<1>8. /\ keys' \in [Applications \X Keys -> Row \cup {None}]
      /\ k = None => keys' = keys
      /\ k # None => /\ keys'[<<a, k>>] = row
                     /\ \A ak \in (Applications \X Keys) \ {<<a, k>>} : keys'[ak] = keys[ak]
  BY <1>1, <1>3, <1>5 DEF TypeOK
<1>9. /\ req' \in [Requests -> Request] /\ req'[r] = Idle
      /\ \A q \in Requests \ {r} : req'[q] = req[q]
  BY <1>5, IdleRequest DEF TypeOK
<1>10. TypeOK'
  BY <1>5, <1>7, <1>8, <1>9 DEF TypeOK
<1> QED
  BY <1>1, <1>2, <1>3, <1>4, <1>5, <1>6, <1>7, <1>8, <1>9, <1>10, IdleRequest

\* What the operations beside the requests leave alone.
LEMMA BesideFields ==
    ASSUME TypeOK,
           \/ \E i \in DOMAIN domains : delete_domain(i)
           \/ \E a \in Applications, v \in ApplicationLimits : set_domain_limit(a, v)
           \/ \E a \in Applications, k \in Keys : purge_expired(a, k)
           \/ Tick
           \/ UNCHANGED vars
    PROVE  TypeOK' /\ RowsKept /\ req' = req /\ clock <= clock'
<1> USE RegistrationAssumption
<1>0. clock \in 0..MaxClock /\ domains \in Seq(Domain)
  BY DEF TypeOK
<1>1. ASSUME UNCHANGED domains PROVE RowsKept
  BY <1>1 DEF RowsKept
<1>2. ASSUME NEW i \in DOMAIN domains, delete_domain(i)
      PROVE  TypeOK' /\ RowsKept /\ req' = req /\ clock <= clock'
  <2>1. domains[i] \in Domain
    BY <1>0
  <2> DEFINE d == [domains[i] EXCEPT !.live = FALSE]
  <2>2. /\ d \in Domain /\ d.app = domains[i].app /\ d.host = domains[i].host
        /\ d.key = domains[i].key /\ d.begun = domains[i].begun /\ d.stamp = domains[i].stamp
        /\ ~d.live
    BY <2>1 DEF Domain
  <2>3. domains' = [domains EXCEPT ![i] = d] /\ UNCHANGED <<limit, keys, req, clock>>
    BY <1>2 DEF delete_domain
  <2> HIDE DEF d
  <2>4. domains' \in Seq(Domain) /\ DOMAIN domains' = DOMAIN domains
        /\ domains'[i] = d /\ \A j \in DOMAIN domains \ {i} : domains'[j] = domains[j]
    BY <1>0, <2>2, <2>3
  <2> QED
    BY <1>0, <2>2, <2>3, <2>4 DEF TypeOK, RowsKept
<1>3. ASSUME NEW a \in Applications, NEW v \in ApplicationLimits, set_domain_limit(a, v)
      PROVE  TypeOK' /\ RowsKept /\ req' = req /\ clock <= clock'
  BY <1>0, <1>1, <1>3 DEF set_domain_limit, TypeOK
<1>4. ASSUME NEW a \in Applications, NEW k \in Keys, purge_expired(a, k)
      PROVE  TypeOK' /\ RowsKept /\ req' = req /\ clock <= clock'
  BY <1>0, <1>1, <1>4 DEF purge_expired, TypeOK
<1>5. CASE Tick
  BY <1>0, <1>1, <1>5 DEF Tick, TypeOK
<1>6. CASE UNCHANGED vars
  BY <1>0, <1>1, <1>6 DEF vars, TypeOK
<1> QED
  BY <1>2, <1>3, <1>4, <1>5, <1>6

LEMMA LockStep == LockInv /\ [Next]_vars => LockInv'
<1> SUFFICES ASSUME LockInv, [Next]_vars PROVE LockInv'
  OBVIOUS
<1> USE RegistrationAssumption
<1>0. TypeOK /\ Formed /\ Steps
  BY StepCases DEF LockInv
<1>1. ASSUME NEW r \in Requests, Ends(r) PROVE LockInv'
  BY <1>0, <1>1, EndsFields, ReleaseStep
<1>2. ASSUME NEW r \in Requests, complete(r) PROVE LockInv'
  <2>1. /\ TypeOK' /\ UNCHANGED clock /\ req'[r].pc = "idle"
        /\ \A q \in Requests \ {r} : req'[q] = req[q]
    BY <1>0, <1>2, CompleteFields
  <2> QED
    BY <2>1, ReleaseStep
<1>3. ASSUME TypeOK', req' = req, Timely' PROVE LockInv'
  BY <1>3 DEF LockInv, Formed, KeyExclusive, ApplicationExclusive, LimitExclusive,
              HoldsKey, HoldsApplication, HoldsLimitLock
<1>4. ASSUME req' = req, clock' = clock PROVE Timely'
  BY <1>4 DEF LockInv, Timely
<1>5. ASSUME Tick PROVE Timely'
  BY <1>5 DEF LockInv, Timely, Tick, TypeOK, Request
<1>6. ASSUME \/ \E i \in DOMAIN domains : delete_domain(i)
             \/ \E a \in Applications, v \in ApplicationLimits : set_domain_limit(a, v)
             \/ \E a \in Applications, k \in Keys : purge_expired(a, k)
             \/ Tick
             \/ UNCHANGED vars
      PROVE  LockInv'
  <2>1. TypeOK' /\ req' = req
    BY <1>0, <1>6, BesideFields
  <2>2. clock' = clock \/ Tick
    BY <1>6 DEF delete_domain, set_domain_limit, purge_expired, vars
  <2> QED
    BY <1>3, <1>4, <1>5, <2>1, <2>2
<1> QED
  BY <1>0, <1>1, <1>2, <1>6, ArriveLocks, AdvanceLocks DEF Steps

-----------------------------------------------------------------------------
(* The limits and the pace. *)

Recent(a, s) == {i \in DOMAIN domains : /\ domains[i].app = a
                                        /\ domains[i].stamp > s - REGISTRATION_WINDOW}

\* There is room for the request's row under the limits and in the window.
RoomLeft(r) ==
    /\ MAX_DOMAINS # None => Cardinality(Live) < MAX_DOMAINS
    /\ req[r].limit # None => Cardinality(live_domains(req[r].app)) < req[r].limit
    /\ Cardinality(Recent(req[r].app, req[r].stamp)) < REGISTRATION_MAX_PER_WINDOW

\* What enforce found stays true until the request's own insert commits.
Counted == \A r \in Requests : req[r].pc \in {"inserting", "inserted"} => RoomLeft(r)

LEMMA FiniteRows == TypeOK => IsFiniteSet(DOMAIN domains)
<1> SUFFICES ASSUME TypeOK PROVE IsFiniteSet(DOMAIN domains)
  OBVIOUS
<1>1. Len(domains) \in Nat /\ DOMAIN domains = 1 .. Len(domains)
  BY DEF TypeOK
<1> QED
  BY <1>1, FS_Interval

LEMMA RowTypes ==
    TypeOK => \A i \in DOMAIN domains :
        /\ domains[i] \in Domain /\ domains[i].app \in Applications
        /\ domains[i].key \in Keys \cup {None}
        /\ domains[i].begun \in 0..MaxClock /\ domains[i].stamp \in 0..MaxClock
<1> SUFFICES ASSUME TypeOK, NEW i \in DOMAIN domains
             PROVE  /\ domains[i] \in Domain /\ domains[i].app \in Applications
                    /\ domains[i].key \in Keys \cup {None}
                    /\ domains[i].begun \in 0..MaxClock /\ domains[i].stamp \in 0..MaxClock
  OBVIOUS
<1>1. domains[i] \in Domain
  BY DEF TypeOK
<1> QED
  BY <1>1 DEF Domain

LEMMA NoMore ==
    ASSUME NEW T, IsFiniteSet(T), NEW S \in SUBSET T
    PROVE  /\ IsFiniteSet(S) /\ Cardinality(S) \in Nat /\ Cardinality(T) \in Nat
           /\ Cardinality(S) <= Cardinality(T)
BY FS_Subset, FS_CardinalityType

LEMMA OneMore ==
    ASSUME NEW T, IsFiniteSet(T), NEW x, NEW S \in SUBSET (T \cup {x})
    PROVE  Cardinality(S) \in Nat /\ Cardinality(T) \in Nat /\ Cardinality(S) <= Cardinality(T) + 1
<1>1. /\ IsFiniteSet(T \cup {x}) /\ Cardinality(T) \in Nat
      /\ Cardinality(T \cup {x}) \in {Cardinality(T), Cardinality(T) + 1}
  BY FS_AddElement, FS_CardinalityType
<1> QED
  BY <1>1, NoMore

\* Deletions make every count smaller.
LEMMA CountsShrink ==
    ASSUME TypeOK, RowsKept
    PROVE  /\ Cardinality(Live) \in Nat /\ Cardinality(Live') \in Nat
           /\ Cardinality(Live') <= Cardinality(Live)
           /\ \A a : /\ Cardinality(live_domains(a)) \in Nat
                     /\ Cardinality(live_domains(a)') \in Nat
                     /\ Cardinality(live_domains(a)') <= Cardinality(live_domains(a))
           /\ \A a, s : Recent(a, s)' = Recent(a, s)
<1>1. IsFiniteSet(DOMAIN domains)
  BY FiniteRows
<1>2. Live' \subseteq Live /\ Live \subseteq DOMAIN domains
  BY DEF RowsKept, Live
<1>3. \A a : live_domains(a)' \subseteq live_domains(a) /\ live_domains(a) \subseteq DOMAIN domains
  BY DEF RowsKept, Live, live_domains
<1>4. \A a, s : Recent(a, s)' = Recent(a, s)
  BY DEF RowsKept, Recent
<1>5. IsFiniteSet(Live) /\ \A a : IsFiniteSet(live_domains(a))
  BY <1>1, <1>2, <1>3, NoMore
<1> QED
  BY <1>2, <1>3, <1>4, <1>5, NoMore

LEMMA CountedKept ==
    ASSUME LockInv, RowsKept, TypeOK',
           \A r \in Requests : req'[r].pc \in {"inserting", "inserted"} =>
               /\ RoomLeft(r) /\ req'[r].limit = req[r].limit
               /\ req'[r].app = req[r].app /\ req'[r].stamp = req[r].stamp
    PROVE  Counted'
<1> USE RegistrationAssumption
<1> SUFFICES ASSUME NEW r \in Requests, req'[r].pc \in {"inserting", "inserted"}
             PROVE  /\ MAX_DOMAINS # None => Cardinality(Live') < MAX_DOMAINS
                    /\ req'[r].limit # None
                         => Cardinality(live_domains(req[r].app)') < req[r].limit
                    /\ Cardinality(Recent(req[r].app, req[r].stamp)') < REGISTRATION_MAX_PER_WINDOW
  BY DEF Counted, RoomLeft, live_domains, Recent
<1>1. req[r] \in Request
  BY DEF LockInv, TypeOK
<1>2. /\ MAX_DOMAINS # None => Cardinality(Live) < MAX_DOMAINS
      /\ req[r].limit # None => Cardinality(live_domains(req[r].app)) < req[r].limit
      /\ Cardinality(Recent(req[r].app, req[r].stamp)) < REGISTRATION_MAX_PER_WINDOW
  BY DEF RoomLeft
<1>3. MAX_DOMAINS # None => MAX_DOMAINS \in Nat
  OBVIOUS
<1>4. req[r].limit # None => req[r].limit \in Nat
  BY <1>1 DEF Request
<1>5. /\ Cardinality(Live) \in Nat /\ Cardinality(Live') \in Nat
      /\ Cardinality(Live') <= Cardinality(Live)
      /\ Cardinality(live_domains(req[r].app)) \in Nat
      /\ Cardinality(live_domains(req[r].app)') \in Nat
      /\ Cardinality(live_domains(req[r].app)') <= Cardinality(live_domains(req[r].app))
      /\ Recent(req[r].app, req[r].stamp)' = Recent(req[r].app, req[r].stamp)
  BY CountsShrink DEF LockInv
<1> QED
  BY <1>2, <1>3, <1>4, <1>5

LEMMA CountedAdvance ==
    ASSUME LockInv, Counted, NEW r \in Requests, NEW p \in PCs, NEW s \in 0..MaxClock,
           Advance(r, p, s)
    PROVE  Counted'
<1> USE RegistrationAssumption
<1>1. /\ TypeOK' /\ UNCHANGED <<domains, limit, keys, clock>>
      /\ req'[r].pc = p /\ req'[r].stamp = s /\ req'[r].app = req[r].app
      /\ req'[r].limit = req[r].limit
      /\ \A q \in Requests \ {r} : req'[q] = req[q]
  BY AdvanceFields DEF LockInv
<1>2. RowsKept
  BY <1>1 DEF RowsKept
<1>3. CASE p # "inserting"
  <2>1. p = "inserted" => req[r].pc = "inserting" /\ s = req[r].stamp
    BY DEF Advance
  <2> QED
    BY <1>1, <1>2, <1>3, <2>1, CountedKept DEF Counted
<1>4. CASE p = "inserting"
  <2>1. s = req[r].stamp /\ ~LimitReached(r) /\ ~RegistrationLimitReached(r)
    BY <1>4 DEF Advance
  <2>2. req[r] \in Request /\ req[r].stamp \in 0..MaxClock
    BY DEF LockInv, TypeOK, Request
  <2>3. req[r].limit # None => req[r].limit \in Nat
    BY <2>2 DEF Request
  <2>4. IsFiniteSet(DOMAIN domains) /\ Live \subseteq DOMAIN domains
        /\ live_domains(req[r].app) \subseteq DOMAIN domains
        /\ Recent(req[r].app, req[r].stamp) \subseteq DOMAIN domains
    BY FiniteRows DEF LockInv, Live, live_domains, Recent
  <2>5. /\ Cardinality(Live) \in Nat /\ Cardinality(live_domains(req[r].app)) \in Nat
        /\ Cardinality(Recent(req[r].app, req[r].stamp)) \in Nat
    BY <2>4, NoMore
  <2>6. /\ MAX_DOMAINS # None => Cardinality(Live) < MAX_DOMAINS
        /\ req[r].limit # None => Cardinality(live_domains(req[r].app)) < req[r].limit
    BY <2>1, <2>3, <2>5 DEF LimitReached
  <2>7. Cardinality(Recent(req[r].app, req[r].stamp)) < REGISTRATION_MAX_PER_WINDOW
    BY <2>1, <2>5 DEF RegistrationLimitReached, Recent
  <2> QED
    BY <1>1, <1>2, <1>4, <2>1, <2>6, <2>7, CountedKept DEF Counted, RoomLeft
<1> QED
  BY <1>3, <1>4

LEMMA CountedComplete ==
    ASSUME LockInv, Counted, NEW r \in Requests, complete(r)
    PROVE  Counted'
<1> USE RegistrationAssumption
<1> DEFINE n == Len(domains) + 1
<1>1. /\ TypeOK' /\ req[r].pc = "inserted" /\ req'[r].pc = "idle" /\ n \in Nat \ {0}
      /\ \A q \in Requests \ {r} : req'[q] = req[q]
      /\ DOMAIN domains = 1 .. (n - 1) /\ DOMAIN domains' = 1 .. n
      /\ \A i \in 1 .. (n - 1) : domains'[i] = domains[i]
      /\ domains'[n].app = req[r].app /\ req[r].app \in Applications
  BY CompleteFields DEF LockInv, Formed
<1> SUFFICES ASSUME NEW q \in Requests \ {r}, req[q].pc \in {"inserting", "inserted"},
                    req'[q] = req[q]
             PROVE  /\ MAX_DOMAINS = None
                    /\ live_domains(req[q].app)' = live_domains(req[q].app)
                    /\ Recent(req[q].app, req[q].stamp)' = Recent(req[q].app, req[q].stamp)
  BY <1>1 DEF Counted, RoomLeft, live_domains, Recent
<1>2. MAX_DOMAINS = None
  BY <1>1 DEF LockInv, LimitExclusive, HoldsLimitLock
<1>3. req[q].app # req[r].app
  BY <1>1 DEF LockInv, ApplicationExclusive, HoldsApplication
<1>4. live_domains(req[q].app)' = live_domains(req[q].app)
  BY <1>1, <1>3 DEF live_domains, Live
<1>5. Recent(req[q].app, req[q].stamp)' = Recent(req[q].app, req[q].stamp)
  BY <1>1, <1>3 DEF Recent
<1> QED
  BY <1>2, <1>4, <1>5

LEMMA CountedStep == LockInv /\ Counted /\ [Next]_vars => Counted'
<1> SUFFICES ASSUME LockInv, Counted, [Next]_vars PROVE Counted'
  OBVIOUS
<1>0. TypeOK /\ Formed /\ Steps /\ TypeOK'
  BY StepCases, LockStep DEF LockInv
<1>1. ASSUME UNCHANGED domains PROVE RowsKept
  BY <1>1 DEF RowsKept
<1>2. ASSUME NEW r \in Requests, req'[r].pc \notin {"inserting", "inserted"}, UNCHANGED domains,
             \A q \in Requests \ {r} : req'[q] = req[q]
      PROVE  Counted'
  BY <1>0, <1>1, <1>2, CountedKept DEF Counted
<1>3. ASSUME NEW r \in Requests, NEW a \in Applications, NEW k \in Keys \cup {None},
             NEW h \in Hostnames, Arrive(r, a, k, h)
      PROVE  Counted'
  <2>1. UNCHANGED domains /\ \A q \in Requests \ {r} : req'[q] = req[q]
    BY <1>0, <1>3 DEF Arrive, TypeOK
  <2>2. req'[r].pc \in {"claiming", "reserving"}
    BY <1>0, <1>3, IdleRequest DEF Arrive, TypeOK, Idle
  <2> QED
    BY <1>2, <2>1, <2>2
<1>4. ASSUME NEW r \in Requests, Ends(r) PROVE Counted'
  BY <1>0, <1>2, <1>4, EndsFields
<1>5. ASSUME RowsKept, req' = req PROVE Counted'
  BY <1>0, <1>5, CountedKept DEF Counted
<1> QED
  BY <1>0, <1>3, <1>4, <1>5, CountedAdvance, CountedComplete, BesideFields DEF Steps

\* The new row counts itself, and there was room for it.
LEMMA LimitsStep == LockInv /\ Counted /\ [Next]_vars => LimitsHoldStep
<1> SUFFICES ASSUME LockInv, Counted, [Next]_vars PROVE LimitsHoldStep
  OBVIOUS
<1> USE RegistrationAssumption
<1>0. TypeOK /\ Formed /\ Steps
  BY StepCases DEF LockInv
<1>1. ASSUME DOMAIN domains' = DOMAIN domains PROVE LimitsHoldStep
  BY <1>1 DEF LimitsHoldStep
<1>2. ASSUME NEW r \in Requests, complete(r) PROVE LimitsHoldStep
  <2> DEFINE n == Len(domains) + 1
             live == {j \in DOMAIN domains' : domains'[j].live}
  <2>1. /\ req[r].pc = "inserted" /\ req'[r].pc = "idle" /\ n \in Nat \ {0}
        /\ DOMAIN domains = 1 .. (n - 1) /\ DOMAIN domains' = 1 .. n
        /\ \A i \in 1 .. (n - 1) : domains'[i] = domains[i]
        /\ domains'[n].app = req[r].app
    BY <1>0, <1>2, CompleteFields
  <2>2. IsFiniteSet(Live) /\ IsFiniteSet(live_domains(req[r].app))
    BY <1>0, FiniteRows, NoMore DEF Live, live_domains
  <2>3. live \in SUBSET (Live \cup {n})
    BY <2>1 DEF Live
  <2>4. {j \in live : domains'[j].app = req[r].app} \in SUBSET (live_domains(req[r].app) \cup {n})
    BY <2>1 DEF Live, live_domains
  <2>5. /\ Cardinality(live) \in Nat /\ Cardinality(Live) \in Nat
        /\ Cardinality(live) <= Cardinality(Live) + 1
    BY <2>2, <2>3, OneMore
  <2> DEFINE mine == {j \in live : domains'[j].app = req[r].app}
             before == live_domains(req[r].app)
  <2>6. /\ Cardinality(mine) \in Nat /\ Cardinality(before) \in Nat
        /\ Cardinality(mine) <= Cardinality(before) + 1
    BY <2>2, <2>4, OneMore
  <2>7. /\ MAX_DOMAINS # None => Cardinality(Live) < MAX_DOMAINS
        /\ req[r].limit # None => Cardinality(before) < req[r].limit
    BY <2>1 DEF Counted, RoomLeft
  <2>8. req[r].limit # None => req[r].limit \in Nat
    BY <1>0 DEF TypeOK, Request
  <2> HIDE DEF live, mine, before
  <2>9. MAX_DOMAINS # None => Cardinality(live) <= MAX_DOMAINS
    BY <2>5, <2>7
  <2>10. req[r].limit # None => Cardinality(mine) <= req[r].limit
    BY <2>6, <2>7, <2>8
  <2>11. \A i \in DOMAIN domains' \ DOMAIN domains : domains'[i].app = req[r].app
    BY <2>1
  <2> QED
    BY <2>1, <2>9, <2>10, <2>11 DEF LimitsHoldStep, live, mine
<1> QED
  BY <1>0, <1>1, <1>2, BesideFields DEF Steps, Arrive, Advance, Ends, RowsKept

Within(a, t) == {i \in DOMAIN domains : /\ domains[i].app = a /\ domains[i].stamp <= t
                                        /\ domains[i].stamp > t - REGISTRATION_WINDOW}

LEMMA PacedStep ==
    LockInv /\ Counted /\ RegistrationsPaced /\ [Next]_vars => RegistrationsPaced'
<1> SUFFICES ASSUME LockInv, Counted, RegistrationsPaced, [Next]_vars PROVE RegistrationsPaced'
  OBVIOUS
<1> USE RegistrationAssumption
<1>0. TypeOK /\ Formed /\ Steps
  BY StepCases DEF LockInv
<1>1. ASSUME RowsKept PROVE RegistrationsPaced'
  <2>1. \A a \in Applications, t \in 0..MaxClock : Within(a, t)' = Within(a, t)
    BY <1>1 DEF Within, RowsKept
  <2> QED
    BY <2>1 DEF RegistrationsPaced, Within
<1>2. ASSUME NEW r \in Requests, complete(r) PROVE RegistrationsPaced'
  <2> DEFINE n == Len(domains) + 1
             s == req[r].stamp
  <2>1. /\ req[r].pc = "inserted" /\ n \in Nat \ {0}
        /\ DOMAIN domains = 1 .. (n - 1) /\ DOMAIN domains' = 1 .. n
        /\ \A i \in 1 .. (n - 1) : domains'[i] = domains[i]
        /\ domains'[n].app = req[r].app /\ domains'[n].stamp = s
    BY <1>0, <1>2, CompleteFields
  <2>2. s \in 0..MaxClock
    BY <1>0 DEF TypeOK, Request
  <2>3. \A i \in DOMAIN domains : domains[i].stamp \in 0..MaxClock
    BY <1>0, RowTypes
  <2> HIDE DEF n
  <2> SUFFICES ASSUME NEW a \in Applications, NEW t \in 0..MaxClock
               PROVE  Cardinality(Within(a, t)') <= REGISTRATION_MAX_PER_WINDOW
    BY DEF RegistrationsPaced, Within
  <2>4. CASE a # req[r].app \/ s > t
    <3>1. ~(domains'[n].app = a /\ domains'[n].stamp <= t)
      BY <2>1, <2>2, <2>4
    <3>2. DOMAIN domains' = DOMAIN domains \cup {n} /\ n \notin DOMAIN domains
      BY <2>1
    <3>3. Within(a, t)' = Within(a, t)
      BY <2>1, <3>1, <3>2 DEF Within
    <3> QED
      BY <3>3 DEF RegistrationsPaced, Within
  <2>5. CASE a = req[r].app /\ s <= t
    <3> DEFINE before == Recent(req[r].app, s)
    <3>1. Within(a, t)' \in SUBSET (before \cup {n})
      BY <2>1, <2>2, <2>3, <2>5 DEF Within, Recent
    <3>2. IsFiniteSet(before)
      BY <1>0, FiniteRows, NoMore DEF Recent
    <3>3. Cardinality(before) < REGISTRATION_MAX_PER_WINDOW
      BY <2>1 DEF Counted, RoomLeft
    <3> HIDE DEF before
    <3>4. /\ Cardinality(Within(a, t)') \in Nat /\ Cardinality(before) \in Nat
          /\ Cardinality(Within(a, t)') <= Cardinality(before) + 1
      BY <3>1, <3>2, OneMore
    <3> QED
      BY <3>3, <3>4
  <2> QED
    BY <2>2, <2>4, <2>5
<1> QED
  BY <1>0, <1>1, <1>2, BesideFields DEF Steps, Arrive, Advance, Ends, RowsKept

-----------------------------------------------------------------------------
(* The idempotency keys. *)

\* A key that created a domain is remembered for the whole of its time.
Remembered ==
    \A i \in DOMAIN domains :
        LET d == domains[i]
            row == keys[<<d.app, d.key>>] IN
        d.key # None => \/ clock >= d.begun + IDEMPOTENCY_TTL
                        \/ row # None /\ row.expires >= d.begun + IDEMPOTENCY_TTL

\* A request that holds a key does so after that time.
ClaimedAfter ==
    \A r \in Requests, i \in DOMAIN domains :
        /\ domains[i].key \in Keys
        /\ HoldsKey(r, domains[i].app, domains[i].key)
        => req[r].stamp >= domains[i].begun + IDEMPOTENCY_TTL

\* The row of a key names the domain that the key and the body created.
RowsNameTheirDomain ==
    \A a \in Applications, k \in Keys :
        LET row == keys[<<a, k>>] IN
        row # None => /\ row.domain \in DOMAIN domains
                      /\ domains[row.domain].app = a /\ domains[row.domain].key = k
                      /\ domains[row.domain].host = row.hash

\* Only an answered request refers to a domain, and to one that exists.
AnswersExist ==
    \A r \in Requests : req[r].domain # 0 => req[r].pc = "idle" /\ req[r].domain \in DOMAIN domains

KeyInv == /\ Remembered /\ ClaimedAfter /\ RowsNameTheirDomain /\ AnswersExist
          /\ OneDomainPerKey /\ ReplayIsTheOriginal

LEMMA InitKeys == Init => KeyInv
<1> SUFFICES ASSUME Init PROVE KeyInv
  OBVIOUS
<1>1. DOMAIN domains = {} /\ \A r \in Requests : req[r].domain = 0
  BY IdleRequest DEF Init
<1>2. \A a \in Applications, k \in Keys : keys[<<a, k>>] = None
  BY DEF Init
<1> QED
  BY <1>1, <1>2 DEF KeyInv, Remembered, ClaimedAfter, RowsNameTheirDomain, AnswersExist,
                    OneDomainPerKey, ReplayIsTheOriginal

\* What the answer of a request is made of.
Answered(r) ==
    req[r].domain # 0 => /\ req[r].pc = "idle" /\ req[r].domain \in DOMAIN domains
                         /\ domains[req[r].domain].app = req[r].app
                         /\ domains[req[r].domain].key = req[r].key
                         /\ domains[req[r].domain].host = req[r].body

LEMMA AnswersAgree == AnswersExist /\ ReplayIsTheOriginal <=> \A r \in Requests : Answered(r)
BY DEF AnswersExist, ReplayIsTheOriginal, Answered

\* A step of one request that writes nothing.
LEMMA RequestKeys ==
    ASSUME LockInv, KeyInv, UNCHANGED <<domains, keys, clock>>, NEW r \in Requests,
           \A q \in Requests \ {r} : req'[q] = req[q], Answered(r)',
           \A i \in DOMAIN domains :
               domains[i].key \in Keys /\ HoldsKey(r, domains[i].app, domains[i].key)'
               => req'[r].stamp >= domains[i].begun + IDEMPOTENCY_TTL
    PROVE  KeyInv'
<1>1. Remembered' /\ RowsNameTheirDomain' /\ OneDomainPerKey'
  BY DEF KeyInv, Remembered, RowsNameTheirDomain, OneDomainPerKey
<1>2. ClaimedAfter'
  BY DEF KeyInv, ClaimedAfter, HoldsKey
<1>3. \A q \in Requests : Answered(q)'
  BY AnswersAgree DEF KeyInv, Answered
<1>4. AnswersExist' /\ ReplayIsTheOriginal'
  BY <1>3 DEF AnswersExist, ReplayIsTheOriginal, Answered
<1> QED
  BY <1>1, <1>2, <1>4 DEF KeyInv

LEMMA KeysArrive ==
    ASSUME LockInv, KeyInv, NEW r \in Requests, NEW a \in Applications,
           NEW k \in Keys \cup {None}, NEW h \in Hostnames, Arrive(r, a, k, h)
    PROVE  KeyInv'
<1> DEFINE x == [Idle EXCEPT !.pc = IF k = None THEN "claiming" ELSE "reserving",
                      !.app = a, !.key = k, !.body = h, !.limit = limit[a],
                      !.begun = clock, !.stamp = clock]
<1>1. x.pc = (IF k = None THEN "claiming" ELSE "reserving") /\ x.key = k /\ x.domain = 0
  BY DEF Idle
<1>2. req' = [req EXCEPT ![r] = x] /\ UNCHANGED <<domains, limit, keys, clock>>
  BY DEF Arrive
<1> HIDE DEF x
<1>3. req'[r] = x /\ \A q \in Requests \ {r} : req'[q] = req[q]
  BY <1>2 DEF LockInv, TypeOK
<1>4. Answered(r)'
  BY <1>1, <1>3 DEF Answered
<1>5. \A b, j : j \in Keys => ~HoldsKey(r, b, j)'
  BY <1>1, <1>3, RegistrationAssumption DEF HoldsKey
<1> QED
  BY <1>2, <1>3, <1>4, <1>5, RequestKeys

LEMMA KeysAdvance ==
    ASSUME LockInv, KeyInv, NEW r \in Requests, NEW p \in PCs, NEW s \in 0..MaxClock,
           Advance(r, p, s)
    PROVE  KeyInv'
<1> USE RegistrationAssumption
<1>1. /\ UNCHANGED <<domains, limit, keys, clock>>
      /\ req'[r].pc = p /\ req'[r].stamp = s /\ req'[r].app = req[r].app
      /\ req'[r].key = req[r].key /\ req'[r].domain = req[r].domain /\ req[r].pc # "idle"
      /\ \A q \in Requests \ {r} : req'[q] = req[q]
  BY AdvanceFields DEF LockInv
<1>2. Answered(r)'
  BY <1>1 DEF KeyInv, AnswersExist, Answered
<1>3. ASSUME NEW i \in DOMAIN domains, domains[i].key \in Keys,
             HoldsKey(r, domains[i].app, domains[i].key)'
      PROVE  req'[r].stamp >= domains[i].begun + IDEMPOTENCY_TTL
  <2>1. req[r].app = domains[i].app /\ req[r].key = domains[i].key
    BY <1>1, <1>3 DEF HoldsKey
  <2>2. CASE p = "claiming"
    <3>1. s = clock /\ Reclaimable(r)
      BY <2>2 DEF Advance
    <3> DEFINE row == keys[<<req[r].app, req[r].key>>]
    <3>2. row # None => row.expires <= req[r].begun
      BY <3>1 DEF Reclaimable
    <3>3. \/ clock >= domains[i].begun + IDEMPOTENCY_TTL
          \/ row # None /\ row.expires >= domains[i].begun + IDEMPOTENCY_TTL
      BY <1>3, <2>1 DEF KeyInv, Remembered
    <3>4. req[r].begun <= clock /\ req[r].begun \in Nat /\ clock \in Nat
      BY <1>1 DEF LockInv, Timely, TypeOK, Request
    <3>5. domains[i].begun + IDEMPOTENCY_TTL \in Nat
      BY RowTypes DEF LockInv
    <3>6. req[r].app \in Applications /\ req[r].key \in Keys
      BY <1>3, <2>1, RowTypes DEF LockInv
    <3>7. row # None => row \in Row
      BY <3>6 DEF LockInv, TypeOK
    <3>8. row # None => row.expires \in Nat
      BY <3>7 DEF Row
    <3> HIDE DEF row
    <3> QED
      BY <1>1, <3>1, <3>2, <3>3, <3>4, <3>5, <3>8
  <2>3. CASE p # "claiming"
    <3>1. s = req[r].stamp /\ HoldsKey(r, domains[i].app, domains[i].key)
      BY <1>1, <1>3, <2>1, <2>3 DEF Advance, HoldsKey
    <3> QED
      BY <1>1, <1>3, <3>1 DEF KeyInv, ClaimedAfter
  <2> QED
    BY <2>2, <2>3
<1> QED
  BY <1>1, <1>2, <1>3, RequestKeys

LEMMA KeysEnds ==
    ASSUME LockInv, KeyInv, NEW r \in Requests, Ends(r)
    PROVE  KeyInv'
<1>1. /\ UNCHANGED <<domains, limit, keys, clock>> /\ req'[r].pc = "idle"
      /\ \A q \in Requests \ {r} : req'[q] = req[q]
      /\ req'[r].domain # 0 =>
           LET row == keys[<<req[r].app, req[r].key>>] IN
           /\ req[r].pc = "conflict" /\ row # None /\ row.hash = req[r].body
           /\ req'[r].domain = row.domain /\ req'[r].app = req[r].app
           /\ req'[r].key = req[r].key /\ req'[r].body = req[r].body
  BY EndsFields DEF LockInv
<1>2. Answered(r)'
  <2> SUFFICES ASSUME req'[r].domain # 0 PROVE Answered(r)'
    BY DEF Answered
  <2>1. req[r].app \in Applications /\ req[r].key \in Keys
    BY <1>1 DEF LockInv, Formed
  <2> QED
    BY <1>1, <2>1 DEF KeyInv, RowsNameTheirDomain, Answered
<1>3. \A a, k : ~HoldsKey(r, a, k)'
  BY <1>1 DEF HoldsKey
<1> QED
  BY <1>1, <1>2, <1>3, RequestKeys

\* The commit: the new row comes after the time of every earlier one of its
\* key, and the key's row now remembers it.
LEMMA KeysComplete ==
    ASSUME LockInv, KeyInv, NEW r \in Requests, complete(r)
    PROVE  KeyInv'
<1> USE RegistrationAssumption
<1> DEFINE n == Len(domains) + 1
           a == req[r].app
           k == req[r].key
<1>1. /\ TypeOK' /\ clock' = clock /\ req[r].pc = "inserted"
      /\ req'[r].pc = "idle" /\ req'[r].domain = 0
      /\ \A q \in Requests \ {r} : req'[q] = req[q]
      /\ n \in Nat \ {0} /\ DOMAIN domains = 1 .. (n - 1) /\ DOMAIN domains' = 1 .. n
      /\ \A i \in 1 .. (n - 1) : domains'[i] = domains[i]
      /\ domains'[n].app = a /\ domains'[n].host = req[r].body
      /\ domains'[n].key = k /\ domains'[n].stamp = req[r].stamp
      /\ k # None => domains'[n].begun = req[r].begun
      /\ k = None => keys' = keys
      /\ k # None => /\ keys'[<<a, k>>] # None /\ keys'[<<a, k>>].hash = req[r].body
                     /\ keys'[<<a, k>>].domain = n
                     /\ keys'[<<a, k>>].expires = req[r].begun + IDEMPOTENCY_TTL
                     /\ \A ak \in (Applications \X Keys) \ {<<a, k>>} : keys'[ak] = keys[ak]
  BY CompleteFields DEF LockInv
<1> HIDE DEF n
<1>2. /\ a \in Applications /\ k \in Keys \cup {None}
      /\ req[r].begun \in Nat /\ req[r].stamp \in Nat /\ clock \in Nat
      /\ req[r].begun <= req[r].stamp /\ req[r].stamp <= clock
  BY <1>1 DEF LockInv, Formed, Timely, TypeOK, Request
<1>3. \A i \in DOMAIN domains : /\ domains[i].app \in Applications
                                /\ domains[i].key \in Keys \cup {None} /\ domains[i].begun \in Nat
  BY RowTypes DEF LockInv
<1>4. k # None => HoldsKey(r, a, k)
  BY <1>1 DEF HoldsKey
<1>5. \A i \in DOMAIN domains : domains[i].app = a /\ domains[i].key = k /\ k # None
                                => req[r].stamp >= domains[i].begun + IDEMPOTENCY_TTL
  BY <1>2, <1>4 DEF KeyInv, ClaimedAfter
<1>6. DOMAIN domains' = DOMAIN domains \cup {n} /\ n \notin DOMAIN domains
      /\ \A i \in DOMAIN domains : i < n /\ domains'[i] = domains[i]
  BY <1>1
<1>7. OneDomainPerKey'
  <2> SUFFICES ASSUME NEW i \in DOMAIN domains', NEW j \in DOMAIN domains', i < j,
                      domains'[i].app = domains'[j].app, domains'[i].key = domains'[j].key,
                      domains'[i].key # None
               PROVE  domains'[j].stamp >= domains'[i].begun + IDEMPOTENCY_TTL
    BY DEF OneDomainPerKey
  <2>1. CASE j = n
    BY <1>1, <1>5, <1>6, <2>1
  <2>2. CASE j # n
    <3>1. i \in DOMAIN domains /\ j \in DOMAIN domains
      BY <1>1, <1>6, <2>2
    <3> QED
      BY <1>6, <3>1 DEF KeyInv, OneDomainPerKey
  <2> QED
    BY <2>1, <2>2
<1>8. Remembered'
  <2> SUFFICES ASSUME NEW i \in DOMAIN domains', domains'[i].key # None
               PROVE  LET row == keys'[<<domains'[i].app, domains'[i].key>>] IN
                      \/ clock >= domains'[i].begun + IDEMPOTENCY_TTL
                      \/ row # None /\ row.expires >= domains'[i].begun + IDEMPOTENCY_TTL
    BY <1>1 DEF Remembered
  <2>1. CASE i = n
    BY <1>1, <1>2, <2>1
  <2>2. CASE i # n /\ domains[i].app = a /\ domains[i].key = k
    <3>1. req[r].stamp >= domains[i].begun + IDEMPOTENCY_TTL
      BY <1>5, <1>6, <2>2
    <3> QED
      BY <1>2, <1>3, <1>6, <2>2, <3>1
  <2>3. CASE i # n /\ ~(domains[i].app = a /\ domains[i].key = k)
    <3>1. i \in DOMAIN domains /\ domains'[i] = domains[i]
      BY <1>6, <2>3
    <3>2. <<domains[i].app, domains[i].key>> \in (Applications \X Keys) \ {<<a, k>>}
      BY <1>3, <2>3, <3>1
    <3>3. keys'[<<domains[i].app, domains[i].key>>] = keys[<<domains[i].app, domains[i].key>>]
      BY <1>1, <3>2
    <3> QED
      BY <3>1, <3>3 DEF KeyInv, Remembered
  <2> QED
    BY <2>1, <2>2, <2>3
<1>9. ClaimedAfter'
  <2> SUFFICES ASSUME NEW q \in Requests \ {r}, NEW i \in DOMAIN domains', domains'[i].key \in Keys,
                      HoldsKey(q, domains[i].app, domains[i].key)'
               PROVE  req[q].stamp >= domains'[i].begun + IDEMPOTENCY_TTL
    BY <1>1 DEF ClaimedAfter, HoldsKey
  <2>1. HoldsKey(q, domains'[i].app, domains'[i].key)
    BY <1>1 DEF HoldsKey
  <2>2. i # n
    BY <1>1, <1>2, <1>4, <2>1 DEF LockInv, KeyExclusive
  <2> QED
    BY <1>6, <2>1, <2>2 DEF KeyInv, ClaimedAfter
<1>10. RowsNameTheirDomain'
  <2> SUFFICES ASSUME NEW b \in Applications, NEW j \in Keys, keys'[<<b, j>>] # None
               PROVE  LET row == keys'[<<b, j>>] IN
                      /\ row.domain \in DOMAIN domains'
                      /\ domains'[row.domain].app = b /\ domains'[row.domain].key = j
                      /\ domains'[row.domain].host = row.hash
    BY DEF RowsNameTheirDomain
  <2>1. CASE b = a /\ j = k
    BY <1>1, <2>1
  <2>2. CASE ~(b = a /\ j = k)
    <3>1. <<b, j>> \in (Applications \X Keys) \ {<<a, k>>}
      BY <2>2
    <3>2. keys'[<<b, j>>] = keys[<<b, j>>]
      BY <1>1, <3>1
    <3> QED
      BY <1>6, <3>2 DEF KeyInv, RowsNameTheirDomain
  <2> QED
    BY <2>1, <2>2
<1>11. \A q \in Requests : Answered(q)'
  BY <1>1, <1>6, AnswersAgree DEF KeyInv, Answered
<1>12. AnswersExist' /\ ReplayIsTheOriginal'
  BY <1>11 DEF AnswersExist, ReplayIsTheOriginal, Answered
<1> QED
  BY <1>7, <1>8, <1>9, <1>10, <1>12 DEF KeyInv

\* Deleting, purging and waiting: a purged row has outlived what it stood for.
LEMMA KeysBeside ==
    ASSUME LockInv, KeyInv, TypeOK', RowsKept, req' = req, clock <= clock',
           \/ UNCHANGED keys
           \/ \E a \in Applications, k \in Keys : purge_expired(a, k)
    PROVE  KeyInv'
<1> USE RegistrationAssumption
<1>0. clock \in Nat /\ clock' \in Nat /\ DOMAIN domains' = DOMAIN domains
  BY DEF LockInv, TypeOK, RowsKept
<1>1. OneDomainPerKey'
  BY DEF KeyInv, OneDomainPerKey, RowsKept
<1>2. ClaimedAfter'
  BY DEF KeyInv, ClaimedAfter, HoldsKey, RowsKept
<1>3. \A q \in Requests : Answered(q)'
  BY AnswersAgree DEF KeyInv, Answered, RowsKept
<1>4. AnswersExist' /\ ReplayIsTheOriginal'
  BY <1>3 DEF AnswersExist, ReplayIsTheOriginal, Answered
<1>5. \A a \in Applications, k \in Keys :
          \/ keys'[<<a, k>>] = keys[<<a, k>>]
          \/ /\ keys'[<<a, k>>] = None /\ keys[<<a, k>>] # None
             /\ keys[<<a, k>>].expires <= clock
  BY DEF purge_expired, LockInv, TypeOK
<1>6. RowsNameTheirDomain'
  BY <1>5 DEF KeyInv, RowsNameTheirDomain, RowsKept
<1>7. Remembered'
  <2> SUFFICES ASSUME NEW i \in DOMAIN domains, domains[i].key # None
               PROVE  LET row == keys'[<<domains[i].app, domains[i].key>>] IN
                      \/ clock' >= domains[i].begun + IDEMPOTENCY_TTL
                      \/ row # None /\ row.expires >= domains[i].begun + IDEMPOTENCY_TTL
    BY DEF Remembered, RowsKept
  <2> DEFINE row == keys[<<domains[i].app, domains[i].key>>]
  <2>1. /\ domains[i].app \in Applications /\ domains[i].key \in Keys
        /\ domains[i].begun + IDEMPOTENCY_TTL \in Nat
    BY RowTypes DEF LockInv
  <2>2. \/ clock >= domains[i].begun + IDEMPOTENCY_TTL
        \/ row # None /\ row.expires >= domains[i].begun + IDEMPOTENCY_TTL
    BY DEF KeyInv, Remembered
  <2>3. row # None => row \in Row
    BY <2>1 DEF LockInv, TypeOK
  <2>4. row # None => row.expires \in Nat
    BY <2>3 DEF Row
  <2>5. \/ keys'[<<domains[i].app, domains[i].key>>] = row
        \/ row # None /\ row.expires <= clock
    BY <1>5, <2>1
  <2> HIDE DEF row
  <2>6. CASE clock >= domains[i].begun + IDEMPOTENCY_TTL
    BY <1>0, <2>1, <2>6
  <2>7. CASE row # None /\ row.expires >= domains[i].begun + IDEMPOTENCY_TTL
    BY <1>0, <2>1, <2>4, <2>5, <2>7
  <2> QED
    BY <2>2, <2>6, <2>7
<1> QED
  BY <1>1, <1>2, <1>4, <1>6, <1>7 DEF KeyInv

LEMMA KeyStep == LockInv /\ KeyInv /\ [Next]_vars => KeyInv'
<1> SUFFICES ASSUME LockInv, KeyInv, [Next]_vars PROVE KeyInv'
  OBVIOUS
<1>1. TypeOK /\ Steps /\ TypeOK'
  BY StepCases, LockStep DEF LockInv
<1>2. ASSUME \/ \E i \in DOMAIN domains : delete_domain(i)
             \/ \E a \in Applications, v \in ApplicationLimits : set_domain_limit(a, v)
             \/ \E a \in Applications, k \in Keys : purge_expired(a, k)
             \/ Tick
             \/ UNCHANGED vars
      PROVE  KeyInv'
  <2>1. RowsKept /\ req' = req /\ clock <= clock'
    BY <1>1, <1>2, BesideFields
  <2>2. UNCHANGED keys \/ \E a \in Applications, k \in Keys : purge_expired(a, k)
    BY <1>2 DEF delete_domain, set_domain_limit, Tick, vars
  <2> QED
    BY <1>1, <2>1, <2>2, KeysBeside
<1> QED
  BY <1>1, <1>2, KeysArrive, KeysAdvance, KeysEnds, KeysComplete DEF Steps

-----------------------------------------------------------------------------
(* The theorems. *)

\* The type invariant and the exclusion of every lock: at most one open request
\* has written a key, locked an application or taken the deployment's lock.
THEOREM Locks == Spec => [](TypeOK /\ KeyExclusive /\ ApplicationExclusive /\ LimitExclusive)
<1>1. LockInv => TypeOK /\ KeyExclusive /\ ApplicationExclusive /\ LimitExclusive
  BY DEF LockInv
<1> QED
  BY <1>1, InitLocks, LockStep, PTL DEF Spec

\* Registrations racing in one or in several applications never pass the limit
\* that enforce tested them against, however many requests are open.
THEOREM LimitsAreKept == Spec => LimitsHold
<1>1. Init => LockInv /\ Counted
  <2>1. Init => \A r \in Requests : req[r].pc = "idle"
    BY IdleRequest DEF Init
  <2> QED
    BY <2>1, InitLocks DEF Counted
<1> QED
  BY <1>1, LockStep, CountedStep, LimitsStep, PTL DEF Spec, LimitsHold

\* No window holds more registrations of an application than the maximum that
\* _enforce_registration_limit counts against, although it counts stamps that
\* were taken before the application lock was waited for.
THEOREM PaceIsKept == Spec => []RegistrationsPaced
<1>1. Init => LockInv /\ Counted /\ RegistrationsPaced
  <2> SUFFICES ASSUME Init PROVE LockInv /\ Counted /\ RegistrationsPaced
    OBVIOUS
  <2>1. \A r \in Requests : req[r].pc = "idle"
    BY IdleRequest DEF Init
  <2>2. \A a \in Applications, t \in 0..MaxClock : Within(a, t) = {}
    BY DEF Init, Within
  <2>3. RegistrationsPaced
    BY <2>2, FS_EmptySet, RegistrationAssumption DEF RegistrationsPaced, Within
  <2> QED
    BY <2>1, <2>3, InitLocks DEF Counted
<1> QED
  BY <1>1, LockStep, CountedStep, PacedStep, PTL DEF Spec

\* One key creates at most one domain in IDEMPOTENCY_TTL, and a replay returns
\* the domain that the key created: through retries, losses, expiry and purges.
THEOREM KeysAreHonoured == Spec => []KeysHonoured
<1>1. KeyInv => KeysHonoured
  BY DEF KeyInv, KeysHonoured
<1> QED
  BY <1>1, InitLocks, InitKeys, LockStep, KeyStep, PTL DEF Spec

-----------------------------------------------------------------------------
(* The deprecated way in: a theorem about LegacyApi, the part Le of        *)
(* MCRequests, which shares no state with Registration, for any hostnames  *)
(* and upstreams and any number of requests, crashes and restarts.         *)

\* Nothing went wrong but restarts, and files refused at one.
OnlyRestarts == faults \subseteq {"restarted", "emptied"}

\* What a start without the saved file may have dropped.
SaysOf(c, h) == c[h] = told[h] \/ ("emptied" \in faults /\ c[h] = None)

LegacyTypes ==
    /\ config \in Le!Configs /\ running \in Le!Configs
    /\ file \in Le!Configs \cup {Absent, Torn}
    /\ request \in [host : LegacyHosts \cup {None}, upstream : {request.upstream}, saved : Le!Configs]
    /\ told \in [LegacyHosts -> {told[h] : h \in LegacyHosts}]
    /\ pc \in {"loaded", "writing"} => request.host \in LegacyHosts

\* The configuration in memory is what was answered, but for the hostname
\* being changed; what Caddy runs, and what is written, is that.
MemoryAgrees ==
    OnlyRestarts =>
      /\ pc \in {"idle", "loaded", "writing"} =>
           \A h \in LegacyHosts : told[h] # Unknown /\ (pc = "idle" \/ h # request.host)
                                    => SaysOf(config, h)
      /\ pc \in {"loaded", "writing"} => config[request.host] = request.upstream
      /\ pc = "loaded" => running = config
      /\ pc = "writing" => request.saved = config

LegacyInv == LegacyTypes /\ MemoryAgrees /\ Le!AnsweredIsSaved

LEMMA LegacyInit == ASSUME Le!Init PROVE LegacyInv
<1>1. Le!https_template \in Le!Configs
  BY DEF Le!https_template, Le!Configs
<1>2. LegacyTypes
  BY <1>1 DEF Le!Init, LegacyTypes, Le!NoRequest
<1>3. MemoryAgrees
  BY DEF Le!Init, MemoryAgrees
<1>4. Le!AnsweredIsSaved
  BY DEF Le!Init, Le!AnsweredIsSaved, Le!Saved, Le!https_template
<1> QED
  BY <1>2, <1>3, <1>4 DEF LegacyInv

\* A request that Caddy refuses or does not answer is no longer "only
\* restarts"; one that Caddy accepts is in memory and runs.
LEMMA LegacyLoad ==
    ASSUME Le!LegacyConstants, LegacyInv, NEW h \in LegacyHosts,
           NEW u \in Upstreams \cup {BadUpstream, None}, Le!Load(h, u)
    PROVE  LegacyInv'
<1> DEFINE new == [config EXCEPT ![h] = u]
<1>1. LegacyTypes /\ MemoryAgrees /\ Le!AnsweredIsSaved
  BY DEF LegacyInv
<1>2. new \in Le!Configs /\ new[h] = u /\ \A g \in LegacyHosts : g # h => new[g] = config[g]
  BY <1>1 DEF LegacyTypes, Le!Configs
<1>3. pc = "idle" /\ UNCHANGED file
  BY DEF Le!Load
<1>4. \/ /\ config' = new /\ running' = new /\ pc' = "loaded"
         /\ request' = [Le!NoRequest EXCEPT !.host = h, !.upstream = u]
         /\ UNCHANGED <<told, faults>>
      \/ /\ config' = new /\ (running' = new \/ running' = running) /\ UNCHANGED <<pc, request, told>>
         /\ "refused" \in faults'
      \/ /\ config' = new /\ (running' = new \/ running' = running) /\ UNCHANGED <<pc, request>>
         /\ told' = [told EXCEPT ![h] = Unknown] /\ "unreached" \in faults'
  BY DEF Le!Load, Le!Previous
<1> HIDE DEF new
<1>5. CASE /\ config' = new /\ running' = new /\ pc' = "loaded"
           /\ request' = [Le!NoRequest EXCEPT !.host = h, !.upstream = u]
           /\ UNCHANGED <<told, faults>>
  <2>1. request' = [host |-> h, upstream |-> u, saved |-> Le!https_template]
    BY <1>5 DEF Le!NoRequest
  <2>2. Le!https_template \in Le!Configs
    BY DEF Le!https_template, Le!Configs
  <2>3. /\ request'.host = h /\ request'.upstream = u
        /\ request' \in [host : LegacyHosts \cup {None}, upstream : {request'.upstream}, saved : Le!Configs]
    BY <2>1, <2>2
  <2>4. LegacyTypes'
    BY <1>1, <1>2, <1>3, <1>5, <2>3 DEF LegacyTypes
  <2>5. MemoryAgrees'
    BY <1>1, <1>2, <1>3, <1>5, <2>3 DEF MemoryAgrees, OnlyRestarts, SaysOf
  <2>6. Le!AnsweredIsSaved'
    BY <1>1, <1>3, <1>5 DEF Le!AnsweredIsSaved, Le!Saved
  <2> QED
    BY <2>4, <2>5, <2>6 DEF LegacyInv
<1>6. ASSUME config' = new, running' = new \/ running' = running, UNCHANGED <<pc, request>>,
             told' = told \/ told' = [told EXCEPT ![h] = Unknown],
             ~OnlyRestarts'
      PROVE  LegacyInv'
  <2>1. told' \in [LegacyHosts -> {told'[g] : g \in LegacyHosts}]
    BY <1>1, <1>6 DEF LegacyTypes
  <2>2. LegacyTypes'
    BY <1>1, <1>2, <1>3, <1>6, <2>1 DEF LegacyTypes
  <2>3. MemoryAgrees' /\ Le!AnsweredIsSaved'
    BY <1>6 DEF MemoryAgrees, Le!AnsweredIsSaved, OnlyRestarts
  <2> QED
    BY <2>2, <2>3 DEF LegacyInv
<1>7. ("refused" \in faults' \/ "unreached" \in faults') => ~OnlyRestarts'
  BY DEF OnlyRestarts
<1> QED
  BY <1>4, <1>5, <1>6, <1>7

LEMMA LegacySave ==
    ASSUME Le!LegacyConstants, LegacyInv, Le!save_config \/ Le!SaveFails \/ Le!Write
    PROVE  LegacyInv'
<1>1. LegacyTypes /\ MemoryAgrees /\ Le!AnsweredIsSaved
  BY DEF LegacyInv
<1>2. CASE Le!save_config
  <2>1. /\ pc = "loaded" /\ pc' = "writing" /\ request' = [request EXCEPT !.saved = running]
        /\ file' = Torn /\ UNCHANGED <<config, running, told, faults>>
    BY <1>2 DEF Le!save_config
  <2>2. /\ request'.host = request.host /\ request'.upstream = request.upstream /\ request'.saved = running
        /\ request' \in [host : LegacyHosts \cup {None}, upstream : {request'.upstream}, saved : Le!Configs]
    BY <1>1, <2>1 DEF LegacyTypes
  <2>3. LegacyTypes'
    BY <1>1, <2>1, <2>2 DEF LegacyTypes
  <2>4. MemoryAgrees'
    BY <1>1, <2>1, <2>2 DEF MemoryAgrees, OnlyRestarts, SaysOf
  <2>5. Le!AnsweredIsSaved'
    BY <2>1 DEF Le!AnsweredIsSaved
  <2> QED
    BY <2>3, <2>4, <2>5 DEF LegacyInv
<1>3. ASSUME NEW answer, Le!Answered(answer), pc \in {"loaded", "writing"}
      PROVE  /\ pc' = "idle" /\ request' = Le!NoRequest
             /\ request' \in [host : LegacyHosts \cup {None}, upstream : {request'.upstream}, saved : Le!Configs]
             /\ told' \in [LegacyHosts -> {told'[g] : g \in LegacyHosts}]
             /\ told'[request.host] = answer
             /\ \A g \in LegacyHosts : g # request.host => told'[g] = told[g]
  <2>1. pc' = "idle" /\ request' = Le!NoRequest /\ told' = [told EXCEPT ![request.host] = answer]
    BY <1>3 DEF Le!Answered
  <2>2. Le!https_template \in Le!Configs
    BY DEF Le!https_template, Le!Configs
  <2>3. request' \in [host : LegacyHosts \cup {None}, upstream : {request'.upstream}, saved : Le!Configs]
    BY <2>1, <2>2 DEF Le!NoRequest
  <2> QED
    BY <1>1, <1>3, <2>1, <2>3 DEF LegacyTypes
<1>4. CASE Le!SaveFails
  <2>1. /\ pc = "loaded" /\ ~OnlyRestarts' /\ UNCHANGED <<config, running, file>>
        /\ \E answer \in {request.upstream, Unknown} : Le!Answered(answer)
    BY <1>4 DEF Le!SaveFails, OnlyRestarts
  <2>2. LegacyTypes'
    BY <1>1, <1>3, <2>1 DEF LegacyTypes
  <2>3. MemoryAgrees' /\ Le!AnsweredIsSaved'
    BY <2>1 DEF MemoryAgrees, Le!AnsweredIsSaved, OnlyRestarts
  <2> QED
    BY <2>2, <2>3 DEF LegacyInv
<1>5. CASE Le!Write
  <2>1. /\ pc = "writing" /\ file' = request.saved /\ Le!Answered(request.upstream)
        /\ UNCHANGED <<config, running, faults>>
    BY <1>5 DEF Le!Write
  <2>2. /\ request.saved \in Le!Configs /\ request.host \in LegacyHosts /\ file' # Absent
    BY <1>1, <2>1 DEF LegacyTypes, Le!LegacyConstants
  <2>3. LegacyTypes'
    BY <1>1, <1>3, <2>1, <2>2 DEF LegacyTypes
  <2>4. OnlyRestarts' => /\ file' = config
                         /\ \A g \in LegacyHosts : told'[g] # Unknown => SaysOf(config, g)'
    BY <1>1, <1>3, <2>1, <2>2 DEF MemoryAgrees, OnlyRestarts, SaysOf
  <2>5. MemoryAgrees'
    BY <1>3, <2>1, <2>4 DEF MemoryAgrees
  <2>6. Le!AnsweredIsSaved'
    BY <2>1, <2>2, <2>4 DEF Le!AnsweredIsSaved, Le!Saved, OnlyRestarts, SaysOf
  <2> QED
    BY <2>3, <2>5, <2>6 DEF LegacyInv
<1> QED
  BY <1>2, <1>4, <1>5

LEMMA LegacyFaults ==
    ASSUME Le!LegacyConstants, LegacyInv,
           Le!Start \/ Le!Crash \/ Le!CaddyRestarts \/ UNCHANGED Le!vars
    PROVE  LegacyInv'
<1>1. LegacyTypes /\ MemoryAgrees /\ Le!AnsweredIsSaved
  BY DEF LegacyInv
<1>2. Le!https_template \in Le!Configs
  BY DEF Le!https_template, Le!Configs
<1>3. CASE Le!Start
  <2>1. /\ file # Torn /\ pc' = "idle" /\ UNCHANGED <<request, file, told>>
        /\ faults \subseteq faults'
        /\ \/ config' = Le!FromFile /\ running' = Le!FromFile /\ UNCHANGED faults
           \/ /\ config' = Le!https_template /\ (running' = Le!https_template \/ running' = running)
              /\ file = Absent \/ "emptied" \in faults'
    BY <1>3 DEF Le!Start, Le!init_config
  <2>2. Le!FromFile = Le!Saved /\ Le!FromFile \in Le!Configs
    BY <1>1, <1>2, <2>1 DEF Le!FromFile, Le!Saved, LegacyTypes
  <2>3. LegacyTypes'
    BY <1>1, <1>2, <2>1, <2>2 DEF LegacyTypes
  <2>4. OnlyRestarts' => OnlyRestarts
    BY <2>1 DEF OnlyRestarts
  <2>5. OnlyRestarts' => \A h \in LegacyHosts : told'[h] # Unknown => SaysOf(config, h)'
    <3>1. CASE config' = Le!Saved
      BY <1>1, <2>1, <2>4, <3>1 DEF OnlyRestarts, Le!AnsweredIsSaved, SaysOf
    <3>2. CASE config' = Le!https_template /\ "emptied" \in faults'
      BY <3>2 DEF SaysOf, Le!https_template
    <3> QED
      BY <2>1, <2>2, <3>1, <3>2 DEF Le!Saved
  <2>6. MemoryAgrees'
    BY <2>1, <2>5 DEF MemoryAgrees
  <2>7. Le!AnsweredIsSaved'
    BY <1>1, <2>1, <2>4 DEF Le!AnsweredIsSaved, Le!Saved, OnlyRestarts
  <2> QED
    BY <2>3, <2>6, <2>7 DEF LegacyInv
<1>4. CASE Le!Crash
  <2>1. /\ pc # "down" /\ pc' = "down" /\ UNCHANGED <<config, running, file>>
        /\ faults' = faults \cup {"restarted"}
        /\ \/ UNCHANGED <<request, told>>
           \/ pc # "idle" /\ request' = Le!NoRequest /\ told' = [told EXCEPT ![request.host] = Unknown]
    BY <1>4 DEF Le!Crash
  <2>2. request' \in [host : LegacyHosts \cup {None}, upstream : {request'.upstream}, saved : Le!Configs]
    BY <1>1, <1>2, <2>1 DEF LegacyTypes, Le!NoRequest
  <2>3. /\ told' \in [LegacyHosts -> {told'[g] : g \in LegacyHosts}]
        /\ \A g \in LegacyHosts : told'[g] # Unknown => told'[g] = told[g]
    BY <1>1, <2>1 DEF LegacyTypes
  <2>4. LegacyTypes'
    BY <1>1, <2>1, <2>2, <2>3 DEF LegacyTypes
  <2>5. MemoryAgrees'
    BY <2>1 DEF MemoryAgrees
  <2>6. Le!AnsweredIsSaved'
    BY <1>1, <2>1, <2>3 DEF Le!AnsweredIsSaved, Le!Saved
  <2> QED
    BY <2>4, <2>5, <2>6 DEF LegacyInv
<1>5. CASE Le!CaddyRestarts
  <2>1. /\ running' = Le!https_template /\ UNCHANGED <<pc, request, config, file, told>>
        /\ OnlyRestarts' => OnlyRestarts /\ pc # "loaded"
        /\ faults \subseteq faults'
    BY <1>5 DEF Le!CaddyRestarts, OnlyRestarts
  <2>2. LegacyTypes'
    BY <1>1, <1>2, <2>1 DEF LegacyTypes
  <2>3. MemoryAgrees'
    BY <1>1, <2>1 DEF MemoryAgrees, SaysOf
  <2>4. Le!AnsweredIsSaved'
    BY <1>1, <2>1 DEF Le!AnsweredIsSaved, Le!Saved, OnlyRestarts
  <2> QED
    BY <2>2, <2>3, <2>4 DEF LegacyInv
<1>6. CASE UNCHANGED Le!vars
  BY <1>1, <1>6 DEF Le!vars, LegacyInv, LegacyTypes, MemoryAgrees, OnlyRestarts,
                    SaysOf, Le!AnsweredIsSaved, Le!Saved
<1> QED
  BY <1>3, <1>4, <1>5, <1>6

LEMMA AnswersAlwaysSaved == ASSUME Le!LegacyConstants PROVE Le!Spec => []Le!AnsweredIsSaved
<1>1. Le!Init => LegacyInv
  BY LegacyInit
<1>2. LegacyInv /\ [Le!Next]_(Le!vars) => LegacyInv'
  <2> SUFFICES ASSUME LegacyInv, [Le!Next]_(Le!vars) PROVE LegacyInv'
    OBVIOUS
  <2>1. ASSUME NEW h \in LegacyHosts, NEW u \in Upstreams \cup {BadUpstream}, Le!add_domain(h, u)
        PROVE  LegacyInv'
    BY <2>1, LegacyLoad DEF Le!add_domain
  <2>2. ASSUME NEW h \in LegacyHosts, Le!remove_domains(h) PROVE LegacyInv'
    BY <2>2, LegacyLoad DEF Le!remove_domains
  <2> QED
    BY <2>1, <2>2, LegacySave, LegacyFaults DEF Le!Next
<1>3. LegacyInv => Le!AnsweredIsSaved
  BY DEF LegacyInv
<1> QED
  BY <1>1, <1>2, <1>3, PTL DEF Le!Spec

LEMMA LegacyInFocus ==
    /\ RequestsInit /\ focus = "legacy" => Le!Init
    /\ [RequestsNext]_requestsVars /\ focus = "legacy"
         => (focus = "legacy")' /\ [Le!Next]_(Le!vars)
    /\ [RequestsNext]_requestsVars /\ ~(focus = "legacy") => ~(focus = "legacy")'
BY DEF RequestsInit, RequestsNext, requestsVars, legacyVars, Le!vars

\* What the legacy API answered OK survives: at every moment at which its file
\* is whole, and unless Caddy refused or did not answer a change or a save
\* failed, the file says of each hostname what the last answer about it said,
\* through any order of requests, crashes and restarts of Caddy; a start at which
\* Caddy refused the file may only have dropped the hostname.
THEOREM LegacyAnswersSaved == RequestsSpec => []AnsweredIsSaved
<1>1. Le!Spec => []Le!AnsweredIsSaved
  BY AnswersAlwaysSaved, PartsAssumption
<1> QED
  BY <1>1, LegacyInFocus, PTL DEF RequestsSpec, Le!Spec, AnsweredIsSaved
============================================================================
