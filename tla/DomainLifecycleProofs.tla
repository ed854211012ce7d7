----------------------- MODULE DomainLifecycleProofs -----------------------
(***************************************************************************)
(* Theorems about DomainLifecycle, for every set of applications, domains, *)
(* claims, workers and requests: what holds of its rows on both backends,  *)
(* that a live domain has exactly one live claim, what SQLite adds, and    *)
(* that the module implements ServiceContract.                             *)
(***************************************************************************)
EXTENDS LifecycleContract, FiniteSetTheorems, TLAPS

(***************************************************************************)
(* Operators on rows and views                                             *)
(***************************************************************************)
\* active_claim picks a live claim of the row, or None when there is none.
LEMMA ActiveClaim ==
    ASSUME NEW d
    PROVE  /\ active_claim(d) \in Claims \cup {None}
           /\ LiveClaims(d) # {} => active_claim(d) \in LiveClaims(d)
           /\ LiveClaims(d) = {} => active_claim(d) = None
BY DEF active_claim, LiveClaims

\* What a session loads from a row is a well-formed view of it.
LEMMA LoadType ==
    ASSUME TypeOK, NEW d \in Domains
    PROVE  Load(d) \in View
<1>1. active_claim(d) \in Claims \cup {None}
  BY ActiveClaim
<1>2. (IF LiveClaims(d) = {} THEN "revoked" ELSE claimStatus[active_claim(d)]) \in ClaimStatus
  BY ActiveClaim DEF LiveClaims, ClaimStatus
<1> QED
  BY <1>1, <1>2 DEF TypeOK, Load, View

\* Applying DNS outcomes to a view gives a view.
LEMMA ApplyDnsType ==
    ASSUME NEW v \in View, NEW passing
    PROVE  apply_dns_outcomes(v, passing) \in View
<1> DEFINE r == [record_checks(v, DNS_CHECK_TYPES, passing) EXCEPT !.since = schedule_next(v, passing)]
<1>1. r \in View
  BY DEF record_checks, schedule_next, Outcome, View, CheckStatus, DomainStatus, FailingSince
<1> HIDE DEF r
<1> QED
  BY <1>1 DEF apply_dns_outcomes, StatusAfterPass, StatusAfterFail, r, View, DomainStatus, ClaimStatus

LEMMA ApplyEdgeType ==
    ASSUME NEW v \in View, NEW passing
    PROVE  apply_edge_outcomes(v, passing) \in View
<1> DEFINE r == record_checks(v, EDGE_CHECK_TYPES, passing)
<1>1. r \in View
  BY DEF record_checks, Outcome, View, CheckStatus, DomainStatus
<1> HIDE DEF r
<1> QED
  BY <1>1 DEF apply_edge_outcomes, r, View, DomainStatus

(***************************************************************************)
(* Type correctness                                                        *)
(***************************************************************************)
\* A run is about a row, so that what it loads is a view.
RunHasDomain == \A w \in Workers : worker[w].pc # "idle" => worker[w].domain \in Domains

TypeInv == TypeOK /\ RunHasDomain

LEMMA InitType == Init => TypeInv
BY DEF Init, TypeInv, TypeOK, RunHasDomain, Unloaded, NoView, View, Idle, NoRequest, WorkerState,
       RequestState, CheckStatus, DomainStatus, ClaimStatus, FailingSince

\* The flush writes well-formed rows back.
LEMMA FlushType ==
    ASSUME TypeOK, NEW d \in Domains, NEW v \in View, NEW n \in View, NEW types,
           NEW queried \in Claims \cup {None}, Flush(d, v, n, types, queried)
    PROVE  /\ status' \in [Domains -> DomainStatus]
           /\ check' \in [Domains -> [CheckType -> CheckStatus]]
           /\ claimStatus' \in [Claims -> ClaimStatus \cup {"unissued", "purged"}]
           /\ seen' \in [Domains -> [CheckType -> Claims \cup {None}]]
<1>1. status' \in [Domains -> DomainStatus]
  BY DEF Flush, TypeOK, View
<1>2. check' \in [Domains -> [CheckType -> CheckStatus]]
  BY DEF Flush, TypeOK, View
<1>3. claimStatus' \in [Claims -> ClaimStatus \cup {"unissued", "purged"}]
  BY DEF Flush, TypeOK, View
<1>4. seen' \in [Domains -> [CheckType -> Claims \cup {None}]]
  BY DEF Flush, TypeOK, View
<1> QED
  BY <1>1, <1>2, <1>3, <1>4

LEMMA RegistrationType == TypeInv /\ Registration => TypeInv'
<1> SUFFICES ASSUME TypeInv, Registration PROVE TypeInv'
  OBVIOUS
<1> USE DEF TypeInv, TypeOK, RunHasDomain
<1>1. ASSUME NEW a \in Applications, Authenticate(a) PROVE TypeInv'
  BY <1>1 DEF Authenticate, dbVars
<1>2. ASSUME NEW a \in Applications, NEW h \in Hostnames, ClaimRefused(a, h) PROVE TypeInv'
  BY <1>2 DEF ClaimRefused, dbVars
<1>3. ASSUME NEW a \in Applications, NEW h \in Hostnames, NEW d \in Domains, NEW c \in Claims,
             NEW g \in BOOLEAN, InsertDomain(a, h, d, c, g)
      PROVE  TypeInv'
  <2>1. check' \in [Domains -> [CheckType -> CheckStatus]]
    BY <1>3 DEF InsertDomain, Unloaded, CheckStatus
  <2>2. seen' \in [Domains -> [CheckType -> Claims \cup {None}]]
    BY <1>3 DEF InsertDomain
  <2> QED
    BY <1>3, <2>1, <2>2 DEF InsertDomain, DomainStatus, ClaimStatus
<1> QED
  BY <1>1, <1>2, <1>3 DEF Registration, claim_domain, import_legacy_domains

LEMMA EntombType ==
    ASSUME TypeInv, NEW r \in Requests, Entomb(r),
           app' \in [Applications -> {"active", "suspended", "deleted", "purged"}]
    PROVE  TypeInv'
BY DEF Entomb, TypeInv, TypeOK, RunHasDomain, Put, Revoke, NoRequest, RequestState, DomainStatus, ClaimStatus

LEMMA AdministrationType == TypeInv /\ Administration => TypeInv'
<1> SUFFICES ASSUME TypeInv, Administration PROVE TypeInv'
  OBVIOUS
<1> USE DEF TypeInv, TypeOK, RunHasDomain
<1>1. ASSUME NEW r \in Requests, NEW req \in RequestState, Open(r, req) PROVE TypeInv'
  BY <1>1 DEF Open, dbVars
<1>2. ASSUME NEW r \in Requests, NEW d \in Domains, OpenReissue(r, d) PROVE TypeInv'
  <2> DEFINE q == [op |-> "reissue", app |-> owner[d], rows |-> {d}, claims |-> LiveClaims(d),
                   recorded |-> {t \in CheckType : check[d][t] # "pending"},
                   leaves |-> status[d] \in RESET_ON_REISSUE]
  <2>1. q \in RequestState
    BY DEF RequestState, LiveClaims
  <2> QED
    BY <1>1, <1>2, <2>1 DEF OpenReissue
<1>3. ASSUME NEW r \in Requests, NEW d \in Domains, OpenDelete(r, d) PROVE TypeInv'
  <2> DEFINE q == [NoRequest EXCEPT !.op = "delete", !.app = owner[d], !.rows = {d},
                                    !.claims = LiveClaims(d)]
  <2>1. q \in RequestState
    BY DEF RequestState, LiveClaims, NoRequest
  <2> QED
    BY <1>1, <1>3, <2>1 DEF OpenDelete
<1>4. ASSUME NEW r \in Requests, NEW a \in Applications, OpenDeleteApplication(r, a) PROVE TypeInv'
  <2> DEFINE rows == {d \in Domains : phase[d] = "live" /\ owner[d] = a}
             q == [NoRequest EXCEPT !.op = "delete_application", !.app = a, !.rows = rows,
                                    !.claims = UNION {LiveClaims(d) : d \in rows}]
  <2>1. UNION {LiveClaims(d) : d \in rows} \subseteq Claims
    BY DEF LiveClaims
  <2>2. q \in RequestState
    BY <2>1 DEF RequestState, NoRequest
  <2> QED
    BY <1>1, <1>4, <2>2 DEF OpenDeleteApplication
<1>5. ASSUME NEW r \in Requests, NEW d \in Domains, NEW c \in Claims, reissue_claim(r, d, c)
      PROVE  TypeInv'
  <2>1. check' \in [Domains -> [CheckType -> CheckStatus]]
    BY <1>5 DEF reissue_claim, CheckStatus
  <2>2. seen' \in [Domains -> [CheckType -> Claims \cup {None}]]
    BY <1>5 DEF reissue_claim
  <2>3. claimStatus' \in [Claims -> ClaimStatus \cup {"unissued", "purged"}]
    BY <1>5 DEF reissue_claim, Revoke, ClaimStatus
  <2>4. request' \in [Requests -> RequestState]
    BY <1>5 DEF reissue_claim, NoRequest, RequestState
  <2> QED
    BY <1>5, <2>1, <2>2, <2>3, <2>4 DEF reissue_claim, DomainStatus, FailingSince
<1>6. ASSUME NEW r \in Requests, delete_domain(r) PROVE TypeInv'
  BY <1>6, EntombType DEF delete_domain
<1>7. ASSUME NEW r \in Requests, delete_application(r) PROVE TypeInv'
  BY <1>7, EntombType DEF delete_application
<1>8. ASSUME NEW r \in Requests, Abandon(r) PROVE TypeInv'
  BY <1>8 DEF Abandon, dbVars, NoRequest, RequestState
<1>9. ASSUME NEW a \in Applications, NEW s \in {"active", "suspended"}, set_application_status(a, s)
      PROVE  TypeInv'
  BY <1>9 DEF set_application_status
<1>10. ASSUME NEW d \in Domains, request_recheck(d) PROVE TypeInv'
  BY <1>10 DEF request_recheck
<1>11. ASSUME NEW d \in Domains, connect_returned(d) PROVE TypeInv'
  <2>1. due' \in [Domains -> SUBSET CheckPair]
    BY <1>11 DEF connect_returned, CheckPair
  <2> QED
    BY <1>11, <2>1 DEF connect_returned
<1>12. ASSUME NEW rows \in SUBSET Domains, NEW apps \in SUBSET Applications,
              purge_tombstones(rows, apps)
       PROVE  TypeInv'
  <2>1. /\ check' \in [Domains -> [CheckType -> CheckStatus]]
        /\ seen' \in [Domains -> [CheckType -> Claims \cup {None}]]
    BY <1>12 DEF purge_tombstones, Put, Unloaded, CheckStatus
  <2> QED
    BY <1>12, <2>1 DEF purge_tombstones, Put, DomainStatus, FailingSince
<1> QED
  BY <1>2, <1>3, <1>4, <1>5, <1>6, <1>7, <1>8, <1>9, <1>10, <1>11, <1>12 DEF Administration

\* A worker moves to a state of a run about a row, or to idle.
LEMMA SetWorkerType ==
    ASSUME TypeInv, NEW w \in Workers, NEW x \in WorkerState,
           x.pc = "idle" \/ x.domain \in Domains,
           worker' = [worker EXCEPT ![w] = x]
    PROVE  worker' \in [Workers -> WorkerState] /\ RunHasDomain'
BY DEF TypeInv, TypeOK, RunHasDomain

LEMMA IdleType == Idle \in WorkerState /\ Idle.pc = "idle"
BY DEF Idle, NoView, View, Unloaded, WorkerState, CheckStatus, DomainStatus, ClaimStatus, FailingSince

LEMMA WorkerStepType == \A w \in Workers : TypeInv /\ WorkerStep(w) => TypeInv'
<1> SUFFICES ASSUME NEW w \in Workers, TypeInv, WorkerStep(w) PROVE TypeInv'
  OBVIOUS
<1>0. worker[w] \in WorkerState /\ (worker[w].pc # "idle" => worker[w].domain \in Domains)
  BY DEF TypeInv, TypeOK, RunHasDomain
<1> DEFINE d == worker[w].domain
           v == worker[w].view
<1>1. ASSUME NEW e \in Domains, ReadDue(w, e) PROVE TypeInv'
  <2> DEFINE x == [Idle EXCEPT !.pc = "chosen", !.domain = e, !.types = due[e]]
  <2>1. x \in WorkerState /\ x.domain \in Domains
    BY IdleType DEF TypeInv, TypeOK, WorkerState
  <2>2. worker' = [worker EXCEPT ![w] = x]
    BY <1>1 DEF ReadDue
  <2>3. worker' \in [Workers -> WorkerState] /\ RunHasDomain'
    BY <2>1, <2>2, SetWorkerType
  <2> QED
    BY <1>1, <2>3 DEF ReadDue, dbVars, TypeInv, TypeOK
<1>2. CASE LeaseDomain(w)
  <2> DEFINE x == IF worker[w].types \cap due[d] = {} \/ phase[d] # "live" \/ status[d] = "deleting" THEN Idle
                  ELSE IF "dns" \in worker[w].types
                  THEN [worker[w] EXCEPT !.pc = "leased", !.claim = active_claim(d), !.before = status[d]]
                  ELSE [worker[w] EXCEPT !.pc = "edge", !.claim = active_claim(d),
                                         !.eligible = certificate_authorized(Load(d))]
  <2>1. d \in Domains /\ status[d] \in DomainStatus
    BY <1>0, <1>2 DEF LeaseDomain, TypeInv, TypeOK
  <2>2. certificate_authorized(Load(d)) \in BOOLEAN
    BY DEF certificate_authorized
  <2>3. x \in WorkerState /\ (x.pc = "idle" \/ x.domain \in Domains)
    BY <1>0, <2>1, <2>2, IdleType, ActiveClaim DEF WorkerState
  <2>4. worker' = [worker EXCEPT ![w] = x]
    BY <1>2 DEF LeaseDomain, TypeInv, TypeOK
  <2>5. worker' \in [Workers -> WorkerState] /\ RunHasDomain'
    BY <2>3, <2>4, SetWorkerType
  <2> QED
    BY <1>2, <2>5 DEF LeaseDomain, TypeInv, TypeOK
<1>3. ASSUME NEW passing \in SUBSET DNS_CHECK_TYPES, QueryDns(w, passing) PROVE TypeInv'
  <2> DEFINE x == [worker[w] EXCEPT !.pc = "queried", !.out = passing]
  <2>1. x \in WorkerState /\ x.domain \in Domains
    BY <1>0, <1>3 DEF QueryDns, WorkerState, CheckType
  <2>2. worker' = [worker EXCEPT ![w] = x]
    BY <1>3 DEF QueryDns, TypeInv, TypeOK
  <2>3. worker' \in [Workers -> WorkerState] /\ RunHasDomain'
    BY <2>1, <2>2, SetWorkerType
  <2>4. proven' \in SUBSET Claims
    BY <1>0, <1>3 DEF QueryDns, WorkerState, TypeInv, TypeOK, DNS_CHECK_TYPES
  <2> QED
    BY <1>3, <2>3, <2>4 DEF QueryDns, dbVars, TypeInv, TypeOK
<1>4. CASE ReloadForDns(w)
  <2> DEFINE x == IF (phase[d] # "live" \/ status[d] = "deleting") \/ Load(d).claim # worker[w].claim
                  THEN Idle
                  ELSE [worker[w] EXCEPT !.pc = "dns_tx", !.view = Load(d)]
  <2>1. d \in Domains
    BY <1>0, <1>4 DEF ReloadForDns
  <2>2. Load(d) \in View
    BY <2>1, LoadType DEF TypeInv
  <2>3. x \in WorkerState /\ (x.pc = "idle" \/ x.domain \in Domains)
    BY <1>0, <2>1, <2>2, IdleType DEF WorkerState
  <2>4. worker' = [worker EXCEPT ![w] = x]
    BY <1>4 DEF ReloadForDns, ClaimChanged, TypeInv, TypeOK
  <2>5. worker' \in [Workers -> WorkerState] /\ RunHasDomain'
    BY <2>3, <2>4, SetWorkerType
  <2>6. due' \in [Domains -> SUBSET CheckPair]
    BY <1>4 DEF ReloadForDns, TypeInv, TypeOK, CheckPair
  <2> QED
    BY <1>4, <2>5, <2>6 DEF ReloadForDns, ClaimChanged, TypeInv, TypeOK
<1>5. CASE CommitDns(w)
  <2> DEFINE n == apply_dns_outcomes(v, worker[w].out)
             types == IF n.status # worker[w].before /\ "edge" \notin worker[w].types
                      THEN {"edge"} ELSE worker[w].types \ {"dns"}
             x == [Idle EXCEPT !.pc = "edge", !.domain = d, !.claim = v.claim,
                               !.types = types, !.eligible = certificate_authorized(n)]
  <2>1. d \in Domains /\ v \in View /\ worker[w].claim \in Claims \cup {None}
    BY <1>0, <1>5 DEF CommitDns, InDnsTx, WorkerState
  <2>2. n \in View
    BY <2>1, ApplyDnsType
  <2>3. certificate_authorized(n) \in BOOLEAN
    BY DEF certificate_authorized
  <2>4. types \in SUBSET CheckPair
    BY <1>0 DEF WorkerState, CheckPair
  <2>5. worker' = [worker EXCEPT ![w] = x]
    BY <1>5 DEF CommitDns
  <2>6. Flush(d, v, n, DNS_CHECK_TYPES, worker[w].claim)
    BY <1>5 DEF CommitDns
  <2>7. since' = [since EXCEPT ![d] = n.since]
    BY <1>5 DEF CommitDns
  <2> HIDE DEF n, types
  <2>8. x \in WorkerState /\ x.domain \in Domains
    BY <2>1, <2>3, <2>4, IdleType DEF WorkerState, View
  <2>9. worker' \in [Workers -> WorkerState] /\ RunHasDomain'
    BY <2>5, <2>8, SetWorkerType
  <2>10. since' \in [Domains -> FailingSince]
    BY <2>2, <2>7 DEF View, TypeInv, TypeOK
  <2>11. due' \in [Domains -> SUBSET CheckPair]
    BY <1>5 DEF CommitDns, TypeInv, TypeOK
  <2> QED
    BY <1>5, <2>1, <2>2, <2>6, <2>9, <2>10, <2>11, FlushType DEF CommitDns, TypeInv, TypeOK
<1>6. CASE ConflictDns(w) \/ EndRun(w)
  <2>1. worker' = [worker EXCEPT ![w] = Idle]
    BY <1>6 DEF ConflictDns, EndRun
  <2>2. worker' \in [Workers -> WorkerState] /\ RunHasDomain'
    BY <2>1, IdleType, SetWorkerType
  <2> QED
    BY <1>6, <2>2 DEF ConflictDns, EndRun, dbVars, TypeInv, TypeOK
<1>7. ASSUME NEW passing \in SUBSET EDGE_CHECK_TYPES, ProbeEdge(w, passing) PROVE TypeInv'
  <2> DEFINE x == [worker[w] EXCEPT !.pc = "probed", !.out = passing]
  <2>1. x \in WorkerState /\ x.domain \in Domains
    BY <1>0, <1>7 DEF ProbeEdge, WorkerState, CheckType
  <2>2. worker' = [worker EXCEPT ![w] = x]
    BY <1>7 DEF ProbeEdge, TypeInv, TypeOK
  <2>3. worker' \in [Workers -> WorkerState] /\ RunHasDomain'
    BY <2>1, <2>2, SetWorkerType
  <2> QED
    BY <1>7, <2>3 DEF ProbeEdge, dbVars, TypeInv, TypeOK
<1>8. CASE ReloadForEdge(w)
  <2> DEFINE x == IF phase[d] = "live" /\ Load(d).claim = worker[w].claim /\ certificate_authorized(Load(d))
                  THEN [worker[w] EXCEPT !.pc = "edge_tx", !.view = Load(d)] ELSE Idle
  <2>1. d \in Domains
    BY <1>0, <1>8 DEF ReloadForEdge
  <2>2. Load(d) \in View
    BY <2>1, LoadType DEF TypeInv
  <2>3. x \in WorkerState /\ (x.pc = "idle" \/ x.domain \in Domains)
    BY <1>0, <2>1, <2>2, IdleType DEF WorkerState
  <2>4. worker' = [worker EXCEPT ![w] = x]
    BY <1>8 DEF ReloadForEdge, ClaimChanged, TypeInv, TypeOK
  <2>5. worker' \in [Workers -> WorkerState] /\ RunHasDomain'
    BY <2>3, <2>4, SetWorkerType
  <2> QED
    BY <1>8, <2>5 DEF ReloadForEdge, dbVars, TypeInv, TypeOK
<1>9. CASE CommitEdge(w)
  <2> DEFINE n == apply_edge_outcomes(v, worker[w].out)
  <2>1. d \in Domains /\ v \in View /\ worker[w].claim \in Claims \cup {None}
    BY <1>0, <1>9 DEF CommitEdge, InEdgeTx, WorkerState
  <2>2. n \in View
    BY <2>1, ApplyEdgeType
  <2>3. Flush(d, v, n, EDGE_CHECK_TYPES, worker[w].claim) /\ worker' = [worker EXCEPT ![w] = Idle]
    BY <1>9 DEF CommitEdge
  <2>4. worker' \in [Workers -> WorkerState] /\ RunHasDomain'
    BY <2>3, IdleType, SetWorkerType
  <2> HIDE DEF n
  <2> QED
    BY <1>9, <2>1, <2>2, <2>3, <2>4, FlushType DEF CommitEdge, TypeInv, TypeOK
<1> QED
  BY <1>1, <1>2, <1>3, <1>4, <1>5, <1>6, <1>7, <1>8, <1>9 DEF WorkerStep

LEMMA CrashType == \A w \in Workers : TypeInv /\ Crash(w) => TypeInv'
<1> SUFFICES ASSUME NEW w \in Workers, TypeInv, Crash(w) PROVE TypeInv'
  OBVIOUS
<1>1. worker' \in [Workers -> WorkerState] /\ RunHasDomain'
  BY IdleType, SetWorkerType DEF Crash
<1> QED
  BY <1>1 DEF Crash, dbVars, TypeInv, TypeOK

LEMMA TimeType == TypeInv /\ Time => TypeInv'
<1> SUFFICES ASSUME TypeInv, NEW d \in Domains,
                    GraceElapses(d) \/ \E p \in CheckPair : CheckDue(d, p)
             PROVE  TypeInv'
  BY DEF Time
<1>1. CASE GraceElapses(d)
  BY <1>1 DEF GraceElapses, TypeInv, TypeOK, RunHasDomain, FailingSince
<1>2. ASSUME NEW p \in CheckPair, CheckDue(d, p) PROVE TypeInv'
  BY <1>2 DEF CheckDue, TypeInv, TypeOK, RunHasDomain
<1> QED
  BY <1>1, <1>2

LEMMA NextType == TypeInv /\ [Next]_vars => TypeInv'
<1> SUFFICES ASSUME TypeInv, [Next]_vars PROVE TypeInv'
  OBVIOUS
<1>1. CASE Registration
  BY <1>1, RegistrationType
<1>2. CASE Administration
  BY <1>2, AdministrationType
<1>3. ASSUME NEW w \in Workers, WorkerStep(w) \/ Crash(w) PROVE TypeInv'
  BY <1>3, WorkerStepType, CrashType
<1>4. CASE Time
  BY <1>4, TimeType
<1>5. CASE UNCHANGED vars
  BY <1>5 DEF vars, dbVars, TypeInv, TypeOK, RunHasDomain
<1> QED
  BY <1>1, <1>2, <1>3, <1>4, <1>5 DEF Next

\* Every row, claim and session of the service keeps the shape the database's
\* CHECK constraints and the ORM classes give it.
THEOREM TypeCorrect == Spec => []TypeOK
<1>1. TypeInv => TypeOK
  BY DEF TypeInv
<1> QED
  BY <1>1, InitType, NextType, PTL DEF Spec

(***************************************************************************)
(* Which steps write what                                                  *)
(***************************************************************************)
\* Verifying is the only thing a DNS pass does to a claim, edge results do
\* nothing to it.
LEMMA ApplyDnsClaim ==
    ASSUME NEW v \in View, NEW passing
    PROVE  /\ apply_dns_outcomes(v, passing).claim = v.claim
           /\ apply_dns_outcomes(v, passing).claimStatus # v.claimStatus =>
                 /\ apply_dns_outcomes(v, passing).claimStatus = "verified"
                 /\ v.claimStatus = "pending"
                 /\ DNS_CHECK_TYPES \subseteq passing
<1> DEFINE r == [record_checks(v, DNS_CHECK_TYPES, passing) EXCEPT !.since = schedule_next(v, passing)]
<1>1. r \in View /\ r.claim = v.claim /\ r.claimStatus = v.claimStatus
  BY DEF record_checks, schedule_next, Outcome, View, CheckStatus, DomainStatus, FailingSince
<1> HIDE DEF r
<1> QED
  BY <1>1 DEF apply_dns_outcomes, r, View

LEMMA ApplyEdgeClaim ==
    ASSUME NEW v \in View, NEW passing
    PROVE  apply_edge_outcomes(v, passing).claimStatus = v.claimStatus
<1> DEFINE r == record_checks(v, EDGE_CHECK_TYPES, passing)
<1>1. r \in View /\ r.claimStatus = v.claimStatus
  BY DEF record_checks, Outcome, View, CheckStatus, DomainStatus
<1> HIDE DEF r
<1> QED
  BY <1>1 DEF apply_edge_outcomes, r, View

ClaimsWritten ==
    \/ \E a \in Applications, h \in Hostnames, d \in Domains, c \in Claims, g \in BOOLEAN :
          InsertDomain(a, h, d, c, g)
    \/ \E r \in Requests :
          \/ Entomb(r)
          \/ \E d \in Domains, c \in Claims : reissue_claim(r, d, c)
    \/ \E w \in Workers : CommitDns(w)
    \/ \E rows \in SUBSET Domains, apps \in SUBSET Applications : purge_tombstones(rows, apps)

LEMMA ClaimFrame ==
    ASSUME TypeInv, [Next]_vars
    PROVE  ClaimsWritten \/ UNCHANGED <<phase, claimRow, claimStatus>>
<1> USE DEF ClaimsWritten
<1>1. CASE Registration
  BY <1>1 DEF Registration, Authenticate, ClaimRefused, claim_domain, import_legacy_domains, dbVars
<1>2. CASE Administration
  BY <1>2 DEF Administration, Open, OpenReissue, OpenDelete, OpenDeleteApplication, delete_domain,
              delete_application, Abandon, set_application_status, request_recheck,
              connect_returned, dbVars
<1>3. ASSUME NEW w \in Workers, WorkerStep(w)
      PROVE  ClaimsWritten \/ UNCHANGED <<phase, claimRow, claimStatus>>
  <2>1. CASE CommitEdge(w)
    <3>1. worker[w].view \in View
      BY DEF TypeInv, TypeOK, WorkerState
    <3>2. claimStatus' = [c \in Claims |-> claimStatus[c]]
      BY <2>1, <3>1, ApplyEdgeClaim DEF CommitEdge, Flush
    <3> QED
      BY <2>1, <3>2 DEF CommitEdge, TypeInv, TypeOK
  <2> QED
    BY <1>3, <2>1 DEF WorkerStep, ReadDue, LeaseDomain, QueryDns, ReloadForDns, ConflictDns, EndRun,
                      ProbeEdge, ReloadForEdge, dbVars
<1>4. ASSUME NEW w \in Workers, Crash(w) PROVE UNCHANGED <<phase, claimRow, claimStatus>>
  BY <1>4 DEF Crash, dbVars
<1>5. CASE Time
  BY <1>5 DEF Time, GraceElapses, CheckDue
<1>6. CASE UNCHANGED vars
  BY <1>6 DEF vars, dbVars
<1> QED
  BY <1>1, <1>2, <1>3, <1>4, <1>5, <1>6 DEF Next

\* A worker comes to hold DNS outcomes by querying, and to apply them by
\* reloading the row; no other step, of this worker or another, puts it there.
LEMMA RunFrame ==
    ASSUME TypeInv, [Next]_vars, NEW w \in Workers
    PROVE  \/ worker'[w] = worker[w]
           \/ worker'[w].pc \notin {"queried", "dns_tx"}
           \/ \E passing \in SUBSET DNS_CHECK_TYPES : QueryDns(w, passing)
           \/ ReloadForDns(w)
<1> DEFINE Goal == \/ worker'[w] = worker[w]
                   \/ worker'[w].pc \notin {"queried", "dns_tx"}
                   \/ \E passing \in SUBSET DNS_CHECK_TYPES : QueryDns(w, passing)
                   \/ ReloadForDns(w)
<1>1. ASSUME NEW x \in Workers, NEW y, worker' = [worker EXCEPT ![x] = y],
             y.pc \notin {"queried", "dns_tx"} \/ x # w
      PROVE  Goal
  BY <1>1 DEF TypeInv, TypeOK
<1>2. worker \in [Workers -> WorkerState] /\ \A x \in Workers : worker[x] \in WorkerState
  BY DEF TypeInv, TypeOK
<1>3. CASE Registration
  BY <1>3 DEF Registration, Authenticate, ClaimRefused, claim_domain, import_legacy_domains, InsertDomain
<1>4. CASE Administration
  BY <1>4 DEF Administration, Open, OpenReissue, OpenDelete, OpenDeleteApplication, delete_domain, Entomb,
              delete_application, Abandon, set_application_status, request_recheck, reissue_claim,
              connect_returned, purge_tombstones
<1>5. ASSUME NEW x \in Workers, WorkerStep(x) \/ Crash(x) PROVE Goal
  <2>1. ASSUME NEW d \in Domains, ReadDue(x, d) PROVE Goal
    BY <1>1, <2>1, IdleType DEF ReadDue, WorkerState
  <2>2. CASE LeaseDomain(x)
    BY <1>1, <1>2, <2>2, IdleType DEF LeaseDomain, WorkerState
  <2>3. ASSUME NEW passing \in SUBSET DNS_CHECK_TYPES, QueryDns(x, passing) PROVE Goal
    BY <1>1, <2>3 DEF QueryDns
  <2>4. CASE ReloadForDns(x)
    BY <1>1, <2>4 DEF ReloadForDns
  <2>5. CASE CommitDns(x)
    BY <1>1, <2>5, IdleType DEF CommitDns, WorkerState
  <2>6. CASE ConflictDns(x) \/ EndRun(x) \/ CommitEdge(x) \/ Crash(x)
    BY <1>1, <2>6, IdleType DEF ConflictDns, EndRun, CommitEdge, Crash
  <2>7. ASSUME NEW passing \in SUBSET EDGE_CHECK_TYPES, ProbeEdge(x, passing) PROVE Goal
    BY <1>1, <1>2, <2>7 DEF ProbeEdge, WorkerState
  <2>8. CASE ReloadForEdge(x)
    BY <1>1, <1>2, <2>8, IdleType DEF ReloadForEdge, WorkerState
  <2> QED
    BY <1>5, <2>1, <2>2, <2>3, <2>4, <2>5, <2>6, <2>7, <2>8 DEF WorkerStep
<1>6. CASE Time
  BY <1>6 DEF Time, GraceElapses, CheckDue
<1>7. CASE UNCHANGED vars
  BY <1>7 DEF vars
<1> QED
  BY <1>3, <1>4, <1>5, <1>6, <1>7 DEF Next

\* What DNS has once vouched for stays on record.
LEMMA ProvenGrows == ASSUME [Next]_vars PROVE proven \subseteq proven'
<1>1. CASE Registration
  BY <1>1 DEF Registration, Authenticate, ClaimRefused, claim_domain, import_legacy_domains, InsertDomain
<1>2. CASE Administration
  BY <1>2 DEF Administration, Open, OpenReissue, OpenDelete, OpenDeleteApplication, delete_domain, Entomb,
              delete_application, Abandon, set_application_status, request_recheck, reissue_claim,
              connect_returned, purge_tombstones
<1>3. ASSUME NEW w \in Workers, WorkerStep(w) \/ Crash(w) PROVE proven \subseteq proven'
  BY <1>3 DEF WorkerStep, Crash, ReadDue, LeaseDomain, QueryDns, ReloadForDns, CommitDns, ConflictDns,
              EndRun, ProbeEdge, ReloadForEdge, CommitEdge
<1>4. CASE Time
  BY <1>4 DEF Time, GraceElapses, CheckDue
<1>5. CASE UNCHANGED vars
  BY <1>5 DEF vars
<1> QED
  BY <1>1, <1>2, <1>3, <1>4, <1>5 DEF Next

(***************************************************************************)
(* Authorization rests on proof                                            *)
(***************************************************************************)
VerifiedIsProven == \A c \in Claims : claimStatus[c] = "verified" => c \in proven

\* The results a worker is about to apply are about the claim it reloaded, and
\* if both DNS checks pass that claim was seen in DNS.
RunVouches ==
    \A w \in Workers :
        /\ worker[w].pc \in {"queried", "dns_tx"} /\ DNS_CHECK_TYPES \subseteq worker[w].out
              => worker[w].claim \in proven
        /\ worker[w].pc = "dns_tx" => worker[w].view.claim = worker[w].claim

AuthorizationInv == TypeInv /\ VerifiedIsProven /\ RunVouches

LEMMA InitAuthorization == Init => AuthorizationInv
BY InitType DEF Init, AuthorizationInv, VerifiedIsProven, RunVouches, Idle

LEMMA VerifiedStep ==
    ASSUME AuthorizationInv, [Next]_vars
    PROVE  VerifiedIsProven'
<1> USE DEF AuthorizationInv, VerifiedIsProven
<1>0. proven \subseteq proven'
  BY ProvenGrows
<1>1. CASE UNCHANGED <<phase, claimRow, claimStatus>>
  BY <1>0, <1>1
<1>2. ASSUME NEW a \in Applications, NEW h \in Hostnames, NEW d \in Domains, NEW c \in Claims,
             NEW g \in BOOLEAN, InsertDomain(a, h, d, c, g)
      PROVE  VerifiedIsProven'
  BY <1>0, <1>2 DEF InsertDomain, TypeInv, TypeOK
<1>3. ASSUME NEW r \in Requests, Entomb(r) PROVE VerifiedIsProven'
  BY <1>0, <1>3 DEF Entomb, Revoke
<1>4. ASSUME NEW r \in Requests, NEW d \in Domains, NEW c \in Claims, reissue_claim(r, d, c)
      PROVE  VerifiedIsProven'
  BY <1>0, <1>4 DEF reissue_claim, Revoke
<1>5. ASSUME NEW w \in Workers, CommitDns(w) PROVE VerifiedIsProven'
  <2> DEFINE v == worker[w].view
             n == apply_dns_outcomes(v, worker[w].out)
  <2>1. v \in View
    BY DEF TypeInv, TypeOK, WorkerState
  <2>2. n.claimStatus # v.claimStatus => DNS_CHECK_TYPES \subseteq worker[w].out
    BY <2>1, ApplyDnsClaim
  <2>3. n.claimStatus # v.claimStatus => v.claim \in proven
    BY <1>5, <2>2 DEF CommitDns, InDnsTx, RunVouches
  <2>4. claimStatus' = [c \in Claims |->
                          IF c = v.claim /\ n.claimStatus # v.claimStatus
                          THEN n.claimStatus ELSE claimStatus[c]]
    BY <1>5 DEF CommitDns, Flush
  <2> HIDE DEF n, v
  <2> QED
    BY <1>0, <2>3, <2>4
<1>6. ASSUME NEW rows \in SUBSET Domains, NEW apps \in SUBSET Applications,
             purge_tombstones(rows, apps)
      PROVE  VerifiedIsProven'
  BY <1>0, <1>6 DEF purge_tombstones
<1> QED
  BY <1>1, <1>2, <1>3, <1>4, <1>5, <1>6, ClaimFrame DEF ClaimsWritten

LEMMA RunVouchesStep ==
    ASSUME AuthorizationInv, [Next]_vars
    PROVE  RunVouches'
<1> SUFFICES ASSUME NEW w \in Workers
             PROVE  /\ worker'[w].pc \in {"queried", "dns_tx"} /\ DNS_CHECK_TYPES \subseteq worker'[w].out
                          => worker'[w].claim \in proven'
                    /\ worker'[w].pc = "dns_tx" => worker'[w].view.claim = worker'[w].claim
  BY DEF RunVouches
<1>0. proven \subseteq proven'
  BY ProvenGrows
<1>1. worker \in [Workers -> WorkerState] /\ worker[w] \in WorkerState
  BY DEF AuthorizationInv, TypeInv, TypeOK
<1>2. CASE worker'[w] = worker[w]
  BY <1>0, <1>2 DEF AuthorizationInv, RunVouches
<1>3. ASSUME NEW passing \in SUBSET DNS_CHECK_TYPES, QueryDns(w, passing)
      PROVE  /\ worker'[w].pc = "queried"
             /\ DNS_CHECK_TYPES \subseteq worker'[w].out => worker'[w].claim \in proven'
  <2>1. worker'[w] = [worker[w] EXCEPT !.pc = "queried", !.out = passing]
    BY <1>1, <1>3 DEF QueryDns
  <2> QED
    BY <1>1, <1>3, <2>1 DEF QueryDns, WorkerState
<1>4. CASE ReloadForDns(w)
  <2>1. CASE worker'[w] = Idle
    BY <2>1, IdleType
  <2>2. CASE /\ worker'[w] = [worker[w] EXCEPT !.pc = "dns_tx", !.view = Load(worker[w].domain)]
             /\ Load(worker[w].domain).claim = worker[w].claim
    BY <1>0, <1>1, <1>4, <2>2 DEF AuthorizationInv, RunVouches, ReloadForDns, WorkerState
  <2> QED
    BY <1>1, <1>4, <2>1, <2>2 DEF ReloadForDns, ClaimChanged
<1>5. worker'[w].pc \notin {"queried", "dns_tx"} =>
         ~(worker'[w].pc \in {"queried", "dns_tx"}) /\ ~(worker'[w].pc = "dns_tx")
  OBVIOUS
<1> QED
  BY <1>2, <1>3, <1>4, <1>5, RunFrame DEF AuthorizationInv

LEMMA AuthorizationStep == AuthorizationInv /\ [Next]_vars => AuthorizationInv'
BY NextType, VerifiedStep, RunVouchesStep DEF AuthorizationInv

\* However re-issues, deletions, crashes and late results interleave, on either
\* backend, a certificate is authorized only for a domain whose live claim one
\* DNS pass saw, or that an operator imported as verified.
THEOREM AuthorizationSound == Spec => []AuthorizedIsProven
<1>1. AuthorizationInv => AuthorizedIsProven
  BY ActiveClaim DEF AuthorizationInv, VerifiedIsProven, AuthorizedIsProven, certificate_authorized,
                     Load, LiveClaims
<1> QED
  BY <1>1, InitAuthorization, AuthorizationStep, PTL DEF Spec

-----------------------------------------------------------------------------
(***************************************************************************)
(* A live domain has exactly one live claim, on both backends.  The unique *)
(* index alone gives "at most one"; that a re-issue racing a deletion,     *)
(* another re-issue or a worker's commit never leaves none, or two, needs  *)
(* to know which claims an open transaction has in its hands.              *)
(***************************************************************************)

Issued(c) == claimStatus[c] # "unissued"

ExactlyOne == \A d \in Domains : phase[d] = "live" => \E c \in Claims : LiveClaims(d) = {c}

\* A claim has its row for good, and the row exists.
RowsExist == \A c \in Claims : claimRow[c] \in Domains => phase[claimRow[c]] # "unborn"

\* The claims a request will revoke are claims of its rows.
RequestsInHand ==
    \A r \in Requests :
        /\ \A c \in request[r].claims : Issued(c) /\ claimRow[c] \in request[r].rows
        /\ \A d \in request[r].rows : phase[d] # "unborn"
        /\ request[r].op = "reissue" => \E d \in Domains : request[r].rows = {d}

\* The claim a worker may mark verified is a claim of its domain.
RunsInHand ==
    \A w \in Workers :
        worker[w].pc = "dns_tx" /\ worker[w].view.claim \in Claims =>
            /\ Issued(worker[w].view.claim)
            /\ claimRow[worker[w].view.claim] = worker[w].domain

ClaimInv == TypeInv /\ ExactlyOne /\ RowsExist /\ RequestsInHand /\ RunsInHand

LEMMA InitClaims == Init => ClaimInv
BY InitType, ConstantAssumption
   DEF Init, ClaimInv, ExactlyOne, RowsExist, RequestsInHand, RunsInHand, NoRequest, Idle

\* A request's transaction ends with nothing in hand, or opens on live rows.
LEMMA RequestFrame ==
    ASSUME TypeInv, [Next]_vars, NEW r \in Requests
    PROVE  \/ request'[r] = request[r]
           \/ request'[r] = NoRequest
           \/ \E d \in Domains : OpenReissue(r, d) \/ OpenDelete(r, d)
           \/ \E a \in Applications : OpenDeleteApplication(r, a)
<1> DEFINE Goal == \/ request'[r] = request[r]
                   \/ request'[r] = NoRequest
                   \/ \E d \in Domains : OpenReissue(r, d) \/ OpenDelete(r, d)
                   \/ \E a \in Applications : OpenDeleteApplication(r, a)
<1>0. request \in [Requests -> RequestState]
  BY DEF TypeInv, TypeOK
<1>1. CASE Registration
  BY <1>1 DEF Registration, Authenticate, ClaimRefused, claim_domain, import_legacy_domains, InsertDomain
<1>2. CASE Administration
  <2>1. ASSUME NEW q \in Requests, NEW d \in Domains, OpenReissue(q, d) \/ OpenDelete(q, d) PROVE Goal
    BY <1>0, <2>1 DEF OpenReissue, OpenDelete, Open
  <2>2. ASSUME NEW q \in Requests, NEW a \in Applications, OpenDeleteApplication(q, a) PROVE Goal
    BY <1>0, <2>2 DEF OpenDeleteApplication, Open
  <2>3. ASSUME NEW q \in Requests, request' = [request EXCEPT ![q] = NoRequest] PROVE Goal
    BY <1>0, <2>3
  <2> QED
    BY <1>2, <2>1, <2>2, <2>3
    DEF Administration, reissue_claim, delete_domain, delete_application, Entomb, Abandon,
        set_application_status, request_recheck, connect_returned, purge_tombstones
<1>3. ASSUME NEW w \in Workers, WorkerStep(w) \/ Crash(w) PROVE request' = request
  BY <1>3 DEF WorkerStep, Crash, ReadDue, LeaseDomain, QueryDns, ReloadForDns, CommitDns, ConflictDns,
              EndRun, ProbeEdge, ReloadForEdge, CommitEdge
<1>4. CASE Time
  BY <1>4 DEF Time, GraceElapses, CheckDue
<1>5. CASE UNCHANGED vars
  BY <1>5 DEF vars
<1> QED
  BY <1>1, <1>2, <1>3, <1>4, <1>5 DEF Next

\* Claims keep their row once issued, and rows never become unborn again.
LEMMA ClaimsPersist ==
    ASSUME ClaimInv, [Next]_vars
    PROVE  /\ \A c \in Claims : Issued(c) => Issued(c)' /\ claimRow'[c] = claimRow[c]
           /\ \A d \in Domains : phase[d] # "unborn" => phase'[d] # "unborn"
<1> USE DEF Issued
<1>0. /\ phase \in [Domains -> {"unborn", "live", "tombstone", "purged"}]
      /\ claimRow \in [Claims -> Domains \cup {None}]
      /\ claimStatus \in [Claims -> ClaimStatus \cup {"unissued", "purged"}]
  BY DEF ClaimInv, TypeInv, TypeOK
<1>1. CASE UNCHANGED <<phase, claimRow, claimStatus>>
  BY <1>1
<1>2. ASSUME NEW a \in Applications, NEW h \in Hostnames, NEW d \in Domains, NEW c \in Claims,
             NEW g \in BOOLEAN, InsertDomain(a, h, d, c, g)
      PROVE  /\ \A b \in Claims : Issued(b) => Issued(b)' /\ claimRow'[b] = claimRow[b]
             /\ \A e \in Domains : phase[e] # "unborn" => phase'[e] # "unborn"
  BY <1>0, <1>2 DEF InsertDomain, FreshToken
<1>3. ASSUME NEW r \in Requests, Entomb(r)
      PROVE  /\ \A b \in Claims : Issued(b) => Issued(b)' /\ claimRow'[b] = claimRow[b]
             /\ \A e \in Domains : phase[e] # "unborn" => phase'[e] # "unborn"
  BY <1>0, <1>3 DEF Entomb, Revoke, Put
<1>4. ASSUME NEW r \in Requests, NEW d \in Domains, NEW c \in Claims, reissue_claim(r, d, c)
      PROVE  /\ \A b \in Claims : Issued(b) => Issued(b)' /\ claimRow'[b] = claimRow[b]
             /\ \A e \in Domains : phase[e] # "unborn" => phase'[e] # "unborn"
  BY <1>0, <1>4 DEF reissue_claim, FreshToken, Revoke
<1>5. ASSUME NEW w \in Workers, CommitDns(w)
      PROVE  /\ \A b \in Claims : Issued(b) => Issued(b)' /\ claimRow'[b] = claimRow[b]
             /\ \A e \in Domains : phase[e] # "unborn" => phase'[e] # "unborn"
  <2>1. worker[w].view \in View
    BY DEF ClaimInv, TypeInv, TypeOK, WorkerState
  <2>2. LET v == worker[w].view
            n == apply_dns_outcomes(v, worker[w].out)
        IN  n.claimStatus # v.claimStatus => n.claimStatus = "verified"
    BY <2>1, ApplyDnsClaim
  <2> QED
    BY <1>0, <1>5, <2>2 DEF CommitDns, Flush
<1>6. ASSUME NEW rows \in SUBSET Domains, NEW apps \in SUBSET Applications,
             purge_tombstones(rows, apps)
      PROVE  /\ \A b \in Claims : Issued(b) => Issued(b)' /\ claimRow'[b] = claimRow[b]
             /\ \A e \in Domains : phase[e] # "unborn" => phase'[e] # "unborn"
  BY <1>0, <1>6 DEF purge_tombstones, Put
<1> QED
  BY <1>1, <1>2, <1>3, <1>4, <1>5, <1>6, ClaimFrame DEF ClaimsWritten, ClaimInv

LEMMA ExactlyOneStep ==
    ASSUME ClaimInv, [Next]_vars
    PROVE  ExactlyOne'
<1>0. /\ phase \in [Domains -> {"unborn", "live", "tombstone", "purged"}]
      /\ claimRow \in [Claims -> Domains \cup {None}]
      /\ claimStatus \in [Claims -> ClaimStatus \cup {"unissued", "purged"}]
      /\ None \notin Domains
  BY ConstantAssumption DEF ClaimInv, TypeInv, TypeOK
<1>1. CASE UNCHANGED <<phase, claimRow, claimStatus>>
  BY <1>1 DEF ClaimInv, ExactlyOne, LiveClaims
<1>2. ASSUME NEW a \in Applications, NEW h \in Hostnames, NEW d \in Domains, NEW c \in Claims,
             NEW g \in BOOLEAN, InsertDomain(a, h, d, c, g)
      PROVE  ExactlyOne'
  <2>1. \A b \in Claims : claimRow[b] # d
    BY <1>2 DEF InsertDomain, ClaimInv, RowsExist
  <2>2. LiveClaims(d)' = {c}
    BY <1>0, <1>2, <2>1 DEF InsertDomain, FreshToken, LiveClaims
  <2>3. \A e \in Domains : e # d => LiveClaims(e)' = LiveClaims(e) /\ phase'[e] = phase[e]
    BY <1>0, <1>2 DEF InsertDomain, FreshToken, LiveClaims
  <2> QED
    BY <2>2, <2>3 DEF ClaimInv, ExactlyOne
<1>3. ASSUME NEW r \in Requests, Entomb(r) PROVE ExactlyOne'
  <2>1. \A e \in Domains : phase'[e] = "live" =>
           phase[e] = "live" /\ LiveClaims(e)' = LiveClaims(e)
    BY <1>0, <1>3 DEF Entomb, Put, Revoke, LiveClaims, ClaimInv, RequestsInHand
  <2> QED
    BY <2>1 DEF ClaimInv, ExactlyOne
<1>4. ASSUME NEW r \in Requests, NEW d \in Domains, NEW c \in Claims, reissue_claim(r, d, c)
      PROVE  ExactlyOne'
  <2>1. request[r].rows = {d}
    BY <1>4 DEF reissue_claim, ClaimInv, RequestsInHand
  <2>2. \A b \in request[r].claims : claimRow[b] = d
    BY <2>1 DEF ClaimInv, RequestsInHand
  <2>3. LiveClaims(d)' = {c}
    BY <1>0, <1>4 DEF reissue_claim, FreshToken, IndexAdmits, LiveClaims, Revoke
  <2>4. \A e \in Domains : e # d => LiveClaims(e)' = LiveClaims(e)
    BY <1>0, <1>4, <2>2 DEF reissue_claim, FreshToken, IndexAdmits, LiveClaims, Revoke
  <2>5. phase' = phase
    BY <1>4 DEF reissue_claim
  <2> QED
    BY <2>3, <2>4, <2>5 DEF ClaimInv, ExactlyOne
<1>5. ASSUME NEW w \in Workers, CommitDns(w) PROVE ExactlyOne'
  <2> DEFINE d == worker[w].domain
             v == worker[w].view
             n == apply_dns_outcomes(v, worker[w].out)
  <2>1. v \in View /\ v.claim \in Claims \cup {None} /\ worker[w].pc = "dns_tx"
    BY <1>5 DEF CommitDns, InDnsTx, ClaimInv, TypeInv, TypeOK, WorkerState, View
  <2>2. n.claimStatus # v.claimStatus =>
           n.claimStatus = "verified" /\ LiveClaims(d) \subseteq {v.claim}
    BY <1>5, <2>1, ApplyDnsClaim DEF CommitDns, ClaimConflict, IndexAdmits
  <2>3. v.claim \in Claims => claimRow[v.claim] = d
    BY <2>1 DEF ClaimInv, RunsInHand
  <2>4. claimStatus' = [c \in Claims |->
                          IF c = v.claim /\ n.claimStatus # v.claimStatus
                          THEN n.claimStatus ELSE claimStatus[c]]
    BY <1>5 DEF CommitDns, Flush
  <2>5. UNCHANGED <<phase, claimRow>>
    BY <1>5 DEF CommitDns
  <2> HIDE DEF n, v, d
  <2>6. CASE n.claimStatus = v.claimStatus
    BY <1>0, <2>4, <2>5, <2>6 DEF ClaimInv, ExactlyOne, LiveClaims
  <2>7. CASE n.claimStatus # v.claimStatus
    <3>1. \A e \in Domains : e # d => LiveClaims(e)' = LiveClaims(e)
      BY <1>0, <2>3, <2>4, <2>5 DEF LiveClaims
    <3>2. ASSUME NEW e \in Domains, e = d, NEW c \in Claims, LiveClaims(e) = {c}
          PROVE  LiveClaims(e)' = {c}
      <4>1. {c} \subseteq {v.claim}
        BY <2>2, <2>7, <3>2
      <4>2. c = v.claim
        BY <4>1
      <4>3. claimRow[c] = e /\ \A b \in Claims : b # c => b \notin LiveClaims(e)
        BY <3>2 DEF LiveClaims
      <4> QED
        BY <1>0, <2>2, <2>4, <2>5, <2>7, <4>2, <4>3 DEF LiveClaims
    <3> QED
      BY <2>5, <3>1, <3>2 DEF ClaimInv, ExactlyOne
  <2> QED
    BY <2>6, <2>7
<1>6. ASSUME NEW rows \in SUBSET Domains, NEW apps \in SUBSET Applications,
             purge_tombstones(rows, apps)
      PROVE  ExactlyOne'
  <2>1. \A e \in Domains : phase'[e] = "live" =>
           phase[e] = "live" /\ LiveClaims(e)' = LiveClaims(e)
    BY <1>0, <1>6 DEF purge_tombstones, Put, LiveClaims
  <2> QED
    BY <2>1 DEF ClaimInv, ExactlyOne
<1> QED
  BY <1>1, <1>2, <1>3, <1>4, <1>5, <1>6, ClaimFrame DEF ClaimsWritten, ClaimInv

LEMMA RowsExistStep ==
    ASSUME ClaimInv, [Next]_vars
    PROVE  RowsExist'
<1>0. /\ phase \in [Domains -> {"unborn", "live", "tombstone", "purged"}]
      /\ claimRow \in [Claims -> Domains \cup {None}]
  BY DEF ClaimInv, TypeInv, TypeOK
<1>1. \A d \in Domains : phase[d] # "unborn" => phase'[d] # "unborn"
  BY ClaimsPersist
<1>2. CASE claimRow' = claimRow
  BY <1>1, <1>2 DEF ClaimInv, RowsExist
<1>3. ASSUME NEW a \in Applications, NEW h \in Hostnames, NEW d \in Domains, NEW c \in Claims,
             NEW g \in BOOLEAN, InsertDomain(a, h, d, c, g)
      PROVE  RowsExist'
  BY <1>0, <1>1, <1>3 DEF InsertDomain, ClaimInv, RowsExist
<1>4. ASSUME NEW r \in Requests, NEW d \in Domains, NEW c \in Claims, reissue_claim(r, d, c)
      PROVE  RowsExist'
  BY <1>0, <1>1, <1>4 DEF reissue_claim, ClaimInv, RowsExist, RequestsInHand
<1> QED
  BY <1>2, <1>3, <1>4, ClaimFrame DEF ClaimsWritten, ClaimInv, Entomb, CommitDns, purge_tombstones

LEMMA RequestsInHandStep ==
    ASSUME ClaimInv, [Next]_vars
    PROVE  RequestsInHand'
<1> SUFFICES ASSUME NEW r \in Requests
             PROVE  /\ \A c \in request'[r].claims : Issued(c)' /\ claimRow'[c] \in request'[r].rows
                    /\ \A d \in request'[r].rows : phase'[d] # "unborn"
                    /\ request'[r].op = "reissue" => \E d \in Domains : request'[r].rows = {d}
  BY DEF RequestsInHand
<1>0. request \in [Requests -> RequestState] /\ request[r] \in RequestState
  BY DEF ClaimInv, TypeInv, TypeOK
<1>1. CASE request'[r] = request[r]
  <2>1. request[r].claims \subseteq Claims /\ request[r].rows \subseteq Domains
    BY <1>0 DEF RequestState
  <2>2. /\ \A c \in request[r].claims : Issued(c) /\ claimRow[c] \in request[r].rows
        /\ \A d \in request[r].rows : phase[d] # "unborn"
        /\ request[r].op = "reissue" => \E d \in Domains : request[r].rows = {d}
    BY DEF ClaimInv, RequestsInHand
  <2>3. /\ \A c \in request[r].claims : Issued(c)' /\ claimRow'[c] \in request[r].rows
        /\ \A d \in request[r].rows : phase'[d] # "unborn"
    BY <2>1, <2>2, ClaimsPersist
  <2> QED
    BY <1>1, <2>2, <2>3
<1>2. CASE request'[r] = NoRequest
  BY <1>2 DEF NoRequest
<1>3. ASSUME NEW d \in Domains, OpenReissue(r, d) \/ OpenDelete(r, d)
      PROVE  /\ request'[r].rows = {d}
             /\ request'[r].claims = LiveClaims(d)
             /\ phase'[d] = "live"
             /\ claimRow' = claimRow /\ claimStatus' = claimStatus
  <2>1. phase[d] = "live" /\ UNCHANGED dbVars
    BY <1>3 DEF OpenReissue, OpenDelete, Open
  <2>2. CASE OpenReissue(r, d)
    BY <1>0, <2>1, <2>2 DEF OpenReissue, Open, dbVars
  <2>3. CASE OpenDelete(r, d)
    BY <1>0, <2>1, <2>3 DEF OpenDelete, Open, dbVars, NoRequest
  <2> QED
    BY <1>3, <2>2, <2>3
<1>4. ASSUME NEW a \in Applications, OpenDeleteApplication(r, a)
      PROVE  /\ request'[r].op = "delete_application"
             /\ request'[r].rows \subseteq {d \in Domains : phase'[d] = "live"}
             /\ request'[r].claims = UNION {LiveClaims(d) : d \in request'[r].rows}
             /\ claimRow' = claimRow /\ claimStatus' = claimStatus
  BY <1>0, <1>4 DEF OpenDeleteApplication, Open, dbVars, NoRequest
<1>5. ASSUME NEW d \in Domains, NEW c \in LiveClaims(d) PROVE Issued(c) /\ claimRow[c] = d
  BY DEF LiveClaims, Issued
<1>6. ASSUME NEW d \in Domains, OpenReissue(r, d) \/ OpenDelete(r, d)
      PROVE  /\ \A c \in request'[r].claims : Issued(c)' /\ claimRow'[c] \in request'[r].rows
             /\ \A e \in request'[r].rows : phase'[e] # "unborn"
             /\ \E e \in Domains : request'[r].rows = {e}
  BY <1>3, <1>5, <1>6 DEF Issued
<1>7. ASSUME NEW a \in Applications, OpenDeleteApplication(r, a)
      PROVE  /\ \A c \in request'[r].claims : Issued(c)' /\ claimRow'[c] \in request'[r].rows
             /\ \A e \in request'[r].rows : phase'[e] # "unborn"
             /\ request'[r].op # "reissue"
  BY <1>4, <1>5, <1>7 DEF Issued
<1> QED
  BY <1>1, <1>2, <1>6, <1>7, RequestFrame DEF ClaimInv

LEMMA RunsInHandStep ==
    ASSUME ClaimInv, [Next]_vars
    PROVE  RunsInHand'
<1> SUFFICES ASSUME NEW w \in Workers, worker'[w].pc = "dns_tx", worker'[w].view.claim \in Claims
             PROVE  /\ claimStatus'[worker'[w].view.claim] # "unissued"
                    /\ claimRow'[worker'[w].view.claim] = worker'[w].domain
  BY DEF RunsInHand, Issued
<1>0. worker \in [Workers -> WorkerState] /\ worker[w] \in WorkerState
  BY DEF ClaimInv, TypeInv, TypeOK
<1>1. CASE worker'[w] = worker[w]
  BY <1>1, ClaimsPersist DEF ClaimInv, RunsInHand, Issued
<1>2. ASSUME NEW passing \in SUBSET DNS_CHECK_TYPES, QueryDns(w, passing)
      PROVE  worker'[w].pc = "queried"
  BY <1>0, <1>2 DEF QueryDns, WorkerState
<1>3. CASE ReloadForDns(w)
  <2>1. worker'[w] = [worker[w] EXCEPT !.pc = "dns_tx", !.view = Load(worker[w].domain)]
    BY <1>0, <1>3, IdleType DEF ReloadForDns
  <2>2. worker'[w].view.claim = active_claim(worker[w].domain) /\ worker'[w].domain = worker[w].domain
    BY <1>0, <2>1 DEF WorkerState, Load
  <2>3. active_claim(worker[w].domain) \in LiveClaims(worker[w].domain)
    BY <2>2, ActiveClaim, ConstantAssumption
  <2> QED
    BY <1>3, <2>2, <2>3 DEF ReloadForDns, LiveClaims, Issued
<1> QED
  BY <1>1, <1>2, <1>3, RunFrame DEF ClaimInv

LEMMA ClaimInvStep == ClaimInv /\ [Next]_vars => ClaimInv'
BY NextType, ExactlyOneStep, RowsExistStep, RequestsInHandStep, RunsInHandStep DEF ClaimInv

\* data-model.md's "One live ownership claim per domain", for any number of
\* concurrent re-issues, deletions and workers: no interleaving of their reads
\* and commits leaves a live domain with two tokens, or with none.
THEOREM OneLiveClaimAlways == Spec => []OneLiveClaim
<1>1. ClaimInv => OneLiveClaim
  BY FS_Singleton DEF ClaimInv, ExactlyOne, OneLiveClaim
<1> QED
  BY <1>1, InitClaims, ClaimInvStep, PTL DEF Spec

-----------------------------------------------------------------------------
(***************************************************************************)
(* What SQLite adds: a transaction that is to commit has the database to   *)
(* itself, so that what it read is still there when it writes.  Only with  *)
(* that does "ready" mean that the live claim was seen passing, and does a *)
(* tombstone stay one; on PostgreSQL both fail.                            *)
(***************************************************************************)

rowVars == <<phase, status, check, claimRow, claimStatus, seen>>

-----------------------------------------------------------------------------
(* One transaction at a time. *)

NobodyOpen == (\A w \in Workers : ~InTx(w)) /\ (\A r \in Requests : request[r] = NoRequest)

Alone ==
    /\ \A r, q \in Requests : request[r] # NoRequest /\ request[q] # NoRequest => r = q
    /\ \A w, v \in Workers : InTx(w) /\ InTx(v) => w = v
    /\ \A w \in Workers, r \in Requests : InTx(w) => request[r] = NoRequest

\* The row a worker loaded is the row it is about to write.
RunCurrent(w) ==
    /\ phase[worker[w].domain] = "live" /\ status[worker[w].domain] # "deleting"
    /\ worker[w].view.status = status[worker[w].domain]
    /\ worker[w].view.checks = check[worker[w].domain]
    /\ worker[w].view.claim = active_claim(worker[w].domain)
    /\ worker[w].view.claimStatus = Load(worker[w].domain).claimStatus
    /\ worker[w].claim = worker[w].view.claim

RunsCurrent == \A w \in Workers : InTx(w) => RunCurrent(w)

\* So are the rows a request is about.
RequestCurrent(r) ==
    \A d \in request[r].rows :
        /\ phase[d] = "live" /\ LiveClaims(d) \subseteq request[r].claims
        /\ request[r].op = "reissue" =>
              /\ request[r].recorded = {t \in CheckType : check[d][t] # "pending"}
              /\ request[r].leaves <=> status[d] \in RESET_ON_REISSUE

RequestsCurrent == \A r \in Requests : RequestCurrent(r)

SerialInv == Alone /\ RunsCurrent /\ RequestsCurrent

-----------------------------------------------------------------------------
(* Who opens a transaction, and who writes. *)

\* A worker comes into its applying transaction by reloading.
LEMMA TxFrame ==
    ASSUME TypeInv, [Next]_vars, NEW w \in Workers
    PROVE  \/ worker'[w] = worker[w]
           \/ worker'[w].pc \notin {"dns_tx", "edge_tx"}
           \/ ReloadForDns(w) \/ ReloadForEdge(w)
<1> DEFINE Goal == \/ worker'[w] = worker[w]
                   \/ worker'[w].pc \notin {"dns_tx", "edge_tx"}
                   \/ ReloadForDns(w) \/ ReloadForEdge(w)
<1>0. /\ worker \in [Workers -> WorkerState] /\ Idle.pc = "idle"
      /\ \A v \in Workers : worker[v] \in WorkerState
  BY IdleType DEF TypeInv, TypeOK
<1>1. CASE Registration
  BY <1>1 DEF Registration, Authenticate, ClaimRefused, claim_domain, import_legacy_domains, InsertDomain
<1>2. CASE Administration
  BY <1>2 DEF Administration, Open, OpenReissue, OpenDelete, OpenDeleteApplication, delete_domain, Entomb,
              delete_application, Abandon, set_application_status, request_recheck, reissue_claim,
              connect_returned, purge_tombstones
<1>3. ASSUME NEW v \in Workers, NEW x, worker' = [worker EXCEPT ![v] = x],
             x.pc \notin {"dns_tx", "edge_tx"}
      PROVE  Goal
  BY <1>0, <1>3
<1>4. ASSUME NEW v \in Workers, ReloadForDns(v) \/ ReloadForEdge(v) PROVE Goal
  <2>1. PICK x : worker' = [worker EXCEPT ![v] = x]
    BY <1>4 DEF ReloadForDns, ReloadForEdge
  <2>2. w # v => worker'[w] = worker[w]
    BY <1>0, <2>1
  <2> QED
    BY <1>4, <2>2
<1>5. ASSUME NEW v \in Workers, WorkerStep(v) \/ Crash(v) PROVE Goal
  <2>1. ASSUME NEW d \in Domains, ReadDue(v, d) PROVE Goal
    <3>1. [Idle EXCEPT !.pc = "chosen", !.domain = d, !.types = due[d]].pc = "chosen"
      BY DEF Idle
    <3> QED
      BY <1>3, <2>1, <3>1 DEF ReadDue
  <2>2. CASE LeaseDomain(v)
    <3> DEFINE d == worker[v].domain
               x1 == [worker[v] EXCEPT !.pc = "leased", !.claim = active_claim(d), !.before = status[d]]
               x2 == [worker[v] EXCEPT !.pc = "edge", !.claim = active_claim(d),
                                       !.eligible = certificate_authorized(Load(d))]
    <3>1. x1.pc = "leased" /\ x2.pc = "edge"
      BY <1>0 DEF WorkerState
    <3>2. \/ worker' = [worker EXCEPT ![v] = Idle]
          \/ worker' = [worker EXCEPT ![v] = x1]
          \/ worker' = [worker EXCEPT ![v] = x2]
      BY <2>2 DEF LeaseDomain
    <3> HIDE DEF x1, x2
    <3> QED
      BY <1>0, <1>3, <3>1, <3>2
  <2>3. ASSUME NEW passing, QueryDns(v, passing) PROVE Goal
    <3>1. [worker[v] EXCEPT !.pc = "queried", !.out = passing].pc = "queried"
      BY <1>0 DEF WorkerState
    <3> QED
      BY <1>3, <2>3, <3>1 DEF QueryDns
  <2>4. CASE CommitDns(v)
    <3>1. PICK d, cl, ty, el :
            worker' = [worker EXCEPT ![v] = [Idle EXCEPT !.pc = "edge", !.domain = d, !.claim = cl,
                                                         !.types = ty, !.eligible = el]]
      BY <2>4 DEF CommitDns
    <3>2. [Idle EXCEPT !.pc = "edge", !.domain = d, !.claim = cl, !.types = ty, !.eligible = el].pc = "edge"
      BY DEF Idle
    <3> QED
      BY <1>3, <3>1, <3>2
  <2>5. ASSUME NEW passing, ProbeEdge(v, passing) PROVE Goal
    <3>1. [worker[v] EXCEPT !.pc = "probed", !.out = passing].pc = "probed"
      BY <1>0 DEF WorkerState
    <3> QED
      BY <1>3, <2>5, <3>1 DEF ProbeEdge
  <2>6. CASE ConflictDns(v) \/ EndRun(v) \/ CommitEdge(v) \/ Crash(v)
    BY <1>0, <1>3, <2>6 DEF ConflictDns, EndRun, CommitEdge, Crash
  <2> QED
    BY <1>4, <1>5, <2>1, <2>2, <2>3, <2>4, <2>5, <2>6 DEF WorkerStep
<1>6. CASE Time
  BY <1>6 DEF Time, GraceElapses, CheckDue
<1>7. CASE UNCHANGED vars
  BY <1>7 DEF vars
<1> QED
  BY <1>1, <1>2, <1>5, <1>6, <1>7 DEF Next

RowsWritten ==
    \/ \E a \in Applications, h \in Hostnames, d \in Domains, c \in Claims, g \in BOOLEAN :
          InsertDomain(a, h, d, c, g)
    \/ \E r \in Requests :
          \/ delete_domain(r) \/ delete_application(r)
          \/ \E d \in Domains, c \in Claims : reissue_claim(r, d, c)
    \/ \E w \in Workers : CommitDns(w) \/ CommitEdge(w)
    \/ \E rows \in SUBSET Domains, apps \in SUBSET Applications : purge_tombstones(rows, apps)

LEMMA WriteFrame == ASSUME [Next]_vars PROVE RowsWritten \/ UNCHANGED rowVars
<1> USE DEF RowsWritten, rowVars
<1>1. CASE Registration
  BY <1>1 DEF Registration, Authenticate, ClaimRefused, claim_domain, import_legacy_domains, dbVars
<1>2. CASE Administration
  BY <1>2 DEF Administration, Open, OpenReissue, OpenDelete, OpenDeleteApplication,
              Abandon, set_application_status, request_recheck, connect_returned, dbVars
<1>3. ASSUME NEW w \in Workers, WorkerStep(w) \/ Crash(w) PROVE RowsWritten \/ UNCHANGED rowVars
  BY <1>3 DEF WorkerStep, ReadDue, LeaseDomain, QueryDns, ReloadForDns, ConflictDns, EndRun,
              ProbeEdge, ReloadForEdge, Crash, dbVars
<1>4. CASE Time
  BY <1>4 DEF Time, GraceElapses, CheckDue
<1>5. CASE UNCHANGED vars
  BY <1>5 DEF vars, dbVars
<1> QED
  BY <1>1, <1>2, <1>3, <1>4, <1>5 DEF Next

\* Whoever writes was the only one at it, and is done.
LEMMA WriterQuiet ==
    ASSUME Backend = "sqlite", TypeInv, SerialInv, RowsWritten
    PROVE  NobodyOpen'
<1>0. worker \in [Workers -> WorkerState] /\ request \in [Requests -> RequestState] /\ Idle.pc = "idle"
  BY IdleType DEF TypeInv, TypeOK
<1>1. ASSUME CanWrite, UNCHANGED <<worker, request>> PROVE NobodyOpen'
  BY <1>1 DEF CanWrite, NobodyOpen, InTx, InDnsTx, InEdgeTx
<1>2. ASSUME NEW r \in Requests, request[r].op \in {"reissue", "delete", "delete_application"},
             request' = [request EXCEPT ![r] = NoRequest], worker' = worker
      PROVE  NobodyOpen'
  <2>1. request[r] # NoRequest
    BY <1>2 DEF NoRequest
  <2>2. (\A w \in Workers : ~InTx(w)) /\ \A q \in Requests : q # r => request[q] = NoRequest
    BY <2>1 DEF SerialInv, Alone
  <2> QED
    BY <1>0, <1>2, <2>2 DEF NobodyOpen, InTx, InDnsTx, InEdgeTx
<1>3. ASSUME NEW w \in Workers, InTx(w), NEW x, x.pc \notin {"dns_tx", "edge_tx"},
             worker' = [worker EXCEPT ![w] = x], request' = request
      PROVE  NobodyOpen'
  <2>1. (\A r \in Requests : request[r] = NoRequest) /\ \A v \in Workers : v # w => ~InTx(v)
    BY <1>3 DEF SerialInv, Alone
  <2> QED
    BY <1>0, <1>3, <2>1 DEF NobodyOpen, InTx, InDnsTx, InEdgeTx
<1>4. ASSUME NEW a, NEW h, NEW d, NEW c, NEW g, InsertDomain(a, h, d, c, g) PROVE NobodyOpen'
  BY <1>1, <1>4 DEF InsertDomain, CanLock
<1>5. ASSUME NEW rows, NEW apps, purge_tombstones(rows, apps) PROVE NobodyOpen'
  BY <1>1, <1>5 DEF purge_tombstones
<1>6. ASSUME NEW r \in Requests, delete_domain(r) \/ delete_application(r) PROVE NobodyOpen'
  BY <1>2, <1>6 DEF delete_domain, delete_application, Entomb
<1>7. ASSUME NEW r \in Requests, NEW d, NEW c, reissue_claim(r, d, c) PROVE NobodyOpen'
  BY <1>2, <1>7 DEF reissue_claim
<1>8. ASSUME NEW w \in Workers, CommitEdge(w) PROVE NobodyOpen'
  BY <1>0, <1>3, <1>8 DEF CommitEdge, InTx
<1>9. ASSUME NEW w \in Workers, CommitDns(w) PROVE NobodyOpen'
  <2>1. PICK d, cl, ty, el :
          worker' = [worker EXCEPT ![w] = [Idle EXCEPT !.pc = "edge", !.domain = d, !.claim = cl,
                                                       !.types = ty, !.eligible = el]]
    BY <1>9 DEF CommitDns
  <2>2. [Idle EXCEPT !.pc = "edge", !.domain = d, !.claim = cl, !.types = ty, !.eligible = el].pc = "edge"
    BY DEF Idle
  <2> QED
    BY <1>3, <1>9, <2>1, <2>2 DEF CommitDns, InTx
<1> QED
  BY <1>4, <1>5, <1>6, <1>7, <1>8, <1>9 DEF RowsWritten

LEMMA QuietIsSerial == NobodyOpen => SerialInv
<1>1. NoRequest.rows = {}
  BY DEF NoRequest
<1>2. NobodyOpen => Alone /\ RunsCurrent
  BY DEF NobodyOpen, Alone, RunsCurrent
<1>3. NobodyOpen => RequestsCurrent
  BY <1>1 DEF NobodyOpen, RequestsCurrent, RequestCurrent
<1> QED
  BY <1>2, <1>3 DEF SerialInv

\* A transaction opens only when no other is open.
LEMMA AloneStep ==
    ASSUME Backend = "sqlite", TypeInv, SerialInv, [Next]_vars
    PROVE  Alone'
<1>0. worker \in [Workers -> WorkerState] /\ request \in [Requests -> RequestState]
  BY DEF TypeInv, TypeOK
<1>1. ASSUME NEW w \in Workers, ReloadForDns(w) \/ ReloadForEdge(w) PROVE Alone'
  <2>1. CanWrite /\ request' = request
    BY <1>1 DEF ReloadForDns, ReloadForEdge, CanLock
  <2>2. \A r \in Requests : request'[r] = NoRequest
    BY <2>1 DEF CanWrite
  <2>3. \A v \in Workers : v # w => worker'[v] = worker[v]
    BY <1>0, <1>1 DEF ReloadForDns, ReloadForEdge
  <2>4. \A v \in Workers : v # w => ~InTx(v)'
    BY <2>1, <2>3 DEF CanWrite, InTx, InDnsTx, InEdgeTx
  <2> QED
    BY <2>2, <2>4 DEF Alone
<1>2. ASSUME NEW r \in Requests, NEW req, Open(r, req) PROVE Alone'
  <2>1. CanWrite /\ worker' = worker /\ request' = [request EXCEPT ![r] = req]
    BY <1>2 DEF Open
  <2>2. \A w \in Workers : ~InTx(w)'
    BY <2>1 DEF CanWrite, InTx, InDnsTx, InEdgeTx
  <2>3. \A q \in Requests : q # r => request'[q] = NoRequest
    BY <1>0, <2>1 DEF CanWrite
  <2> QED
    BY <2>2, <2>3 DEF Alone
<1>3. ASSUME \A w \in Workers : ~(ReloadForDns(w) \/ ReloadForEdge(w)),
             \A r \in Requests : request'[r] = request[r] \/ request'[r] = NoRequest
      PROVE  Alone'
  <2>1. \A w \in Workers : InTx(w)' => InTx(w)
    BY <1>3, TxFrame DEF InTx, InDnsTx, InEdgeTx
  <2> QED
    BY <1>3, <2>1 DEF SerialInv, Alone
<1>4. \/ \E w \in Workers : ReloadForDns(w) \/ ReloadForEdge(w)
      \/ \E r \in Requests : \E req : Open(r, req)
      \/ \A r \in Requests : request'[r] = request[r] \/ request'[r] = NoRequest
  BY RequestFrame DEF OpenReissue, OpenDelete, OpenDeleteApplication
<1> QED
  BY <1>1, <1>2, <1>3, <1>4

LEMMA SameClaims ==
    ASSUME UNCHANGED <<claimRow, claimStatus>>, NEW e \in Domains
    PROVE  /\ LiveClaims(e)' = LiveClaims(e) /\ active_claim(e)' = active_claim(e)
           /\ Load(e)'.claimStatus = Load(e).claimStatus
<1>1. LiveClaims(e)' = LiveClaims(e)
  BY DEF LiveClaims
<1>2. active_claim(e)' = active_claim(e)
  BY <1>1 DEF active_claim
<1> QED
  BY <1>1, <1>2 DEF Load

\* What a worker just reloaded is current.
LEMMA ReloadCurrent ==
    ASSUME TypeInv, NEW w \in Workers, ReloadForDns(w) \/ ReloadForEdge(w), UNCHANGED rowVars, InTx(w)'
    PROVE  RunCurrent(w)'
<1> DEFINE d == worker[w].domain
           v == Load(d)
           x1 == [worker[w] EXCEPT !.pc = "dns_tx", !.view = v]
           x2 == [worker[w] EXCEPT !.pc = "edge_tx", !.view = v]
<1>0. /\ worker \in [Workers -> WorkerState] /\ worker[w] \in WorkerState /\ Idle.pc = "idle"
      /\ UNCHANGED <<phase, status, check, claimRow, claimStatus, seen>>
  BY IdleType DEF TypeInv, TypeOK, rowVars
<1>1. worker'[w] # Idle
  BY <1>0 DEF InTx, InDnsTx, InEdgeTx
<1>2. /\ x1.domain = d /\ x1.view = v /\ x1.claim = worker[w].claim
      /\ x2.domain = d /\ x2.view = v /\ x2.claim = worker[w].claim
  BY <1>0 DEF WorkerState
<1>3. /\ v.status = status[d] /\ v.checks = check[d] /\ v.claim = active_claim(d)
  BY DEF Load
<1>4. /\ phase[d] = "live" /\ status[d] # "deleting" /\ v.claim = worker[w].claim
      /\ worker'[w].domain = d /\ worker'[w].view = v /\ worker'[w].claim = worker[w].claim
  <2>1. CASE ReloadForDns(w)
    <3>1. worker'[w] = x1 /\ phase[d] = "live" /\ status[d] # "deleting" /\ ~ClaimChanged(w, v)
      BY <1>0, <1>1, <2>1 DEF ReloadForDns
    <3> QED
      BY <1>2, <3>1 DEF ClaimChanged
  <2>2. CASE ReloadForEdge(w)
    <3>1. worker'[w] = x2 /\ phase[d] = "live" /\ certificate_authorized(v) /\ ~ClaimChanged(w, v)
      BY <1>0, <1>1, <2>2 DEF ReloadForEdge
    <3> QED
      BY <1>2, <1>3, <3>1 DEF ClaimChanged, certificate_authorized
  <2> QED
    BY <2>1, <2>2
<1>5. \A e \in Domains : active_claim(e)' = active_claim(e)
                          /\ Load(e)'.claimStatus = Load(e).claimStatus
  BY <1>0, SameClaims
<1>6. d \in Domains
  BY <1>0, <1>1, <1>4 DEF TypeInv, RunHasDomain, ReloadForDns, ReloadForEdge
<1> HIDE DEF v, d
<1> QED
  BY <1>0, <1>3, <1>4, <1>5, <1>6 DEF RunCurrent, v

LEMMA RunsCurrentStep ==
    ASSUME TypeInv, SerialInv, [Next]_vars, UNCHANGED rowVars
    PROVE  RunsCurrent'
<1> SUFFICES ASSUME NEW w \in Workers, InTx(w)' PROVE RunCurrent(w)'
  BY DEF RunsCurrent
<1>0. UNCHANGED <<phase, status, check, claimRow, claimStatus, seen>>
  BY DEF rowVars
<1>1. CASE ReloadForDns(w) \/ ReloadForEdge(w)
  BY <1>1, ReloadCurrent
<1>2. CASE ~(ReloadForDns(w) \/ ReloadForEdge(w))
  <2>1. worker'[w] = worker[w] /\ InTx(w)
    BY <1>2, TxFrame DEF InTx, InDnsTx, InEdgeTx
  <2>2. RunCurrent(w) /\ worker[w].domain \in Domains
    BY <2>1 DEF SerialInv, RunsCurrent, TypeInv, RunHasDomain, InTx, InDnsTx, InEdgeTx
  <2>3. \A e \in Domains : active_claim(e)' = active_claim(e)
                           /\ Load(e)'.claimStatus = Load(e).claimStatus
    BY <1>0, SameClaims
  <2> QED
    BY <1>0, <2>1, <2>2, <2>3 DEF RunCurrent
<1> QED
  BY <1>1, <1>2

LEMMA RequestsCurrentStep ==
    ASSUME TypeInv, SerialInv, [Next]_vars, UNCHANGED rowVars
    PROVE  RequestsCurrent'
<1> SUFFICES ASSUME NEW r \in Requests PROVE RequestCurrent(r)'
  BY DEF RequestsCurrent
<1>0. /\ UNCHANGED <<phase, status, check, claimRow, claimStatus, seen>>
      /\ request \in [Requests -> RequestState] /\ request[r] \in RequestState
  BY DEF rowVars, TypeInv, TypeOK
<1>a. \A e \in Domains : LiveClaims(e)' = LiveClaims(e)
  BY <1>0, SameClaims
<1>1. CASE request'[r] = request[r]
  <2>1. RequestCurrent(r) /\ request[r].rows \subseteq Domains
    BY <1>0 DEF SerialInv, RequestsCurrent, RequestState
  <2> QED
    BY <1>0, <1>1, <1>a, <2>1 DEF RequestCurrent
<1>2. CASE request'[r] = NoRequest
  <2>1. NoRequest.rows = {}
    BY DEF NoRequest
  <2> QED
    BY <1>2, <2>1 DEF RequestCurrent
<1>3. ASSUME NEW d \in Domains, OpenReissue(r, d) PROVE RequestCurrent(r)'
  <2> DEFINE q == [op |-> "reissue", app |-> owner[d], rows |-> {d}, claims |-> LiveClaims(d),
                   recorded |-> {t \in CheckType : check[d][t] # "pending"},
                   leaves |-> status[d] \in RESET_ON_REISSUE]
  <2>1. request'[r] = q /\ phase[d] = "live"
    BY <1>0, <1>3 DEF OpenReissue, Open
  <2>2. /\ q.rows = {d} /\ q.claims = LiveClaims(d)
        /\ q.recorded = {t \in CheckType : check[d][t] # "pending"}
        /\ q.leaves <=> status[d] \in RESET_ON_REISSUE
    OBVIOUS
  <2> HIDE DEF q
  <2> QED
    BY <1>0, <1>a, <2>1, <2>2 DEF RequestCurrent
<1>4. ASSUME NEW d \in Domains, OpenDelete(r, d) PROVE RequestCurrent(r)'
  <2> DEFINE q == [NoRequest EXCEPT !.op = "delete", !.app = owner[d], !.rows = {d},
                                    !.claims = LiveClaims(d)]
  <2>1. request'[r] = q /\ phase[d] = "live"
    BY <1>0, <1>4 DEF OpenDelete, Open
  <2>2. q.rows = {d} /\ q.claims = LiveClaims(d) /\ q.op = "delete"
    BY DEF NoRequest
  <2> HIDE DEF q
  <2> QED
    BY <1>0, <1>a, <2>1, <2>2 DEF RequestCurrent
<1>5. ASSUME NEW a \in Applications, OpenDeleteApplication(r, a) PROVE RequestCurrent(r)'
  <2> DEFINE all == {d \in Domains : phase[d] = "live" /\ owner[d] = a}
             q == [NoRequest EXCEPT !.op = "delete_application", !.app = a, !.rows = all,
                                    !.claims = UNION {LiveClaims(d) : d \in all}]
  <2>1. request'[r] = q
    BY <1>0, <1>5 DEF OpenDeleteApplication, Open
  <2>2. q.rows = all /\ q.claims = UNION {LiveClaims(d) : d \in all} /\ q.op = "delete_application"
    BY DEF NoRequest
  <2> HIDE DEF q
  <2>3. ASSUME NEW e \in all PROVE phase[e] = "live" /\ LiveClaims(e) \subseteq q.claims /\ e \in Domains
    BY <2>2
  <2> QED
    BY <1>0, <1>a, <2>1, <2>2, <2>3 DEF RequestCurrent
<1> QED
  BY <1>1, <1>2, <1>3, <1>4, <1>5, RequestFrame

\* On SQLite, whoever is about to write knows the rows as they are.
LEMMA SerialStep ==
    ASSUME Backend = "sqlite", TypeInv, SerialInv, [Next]_vars
    PROVE  SerialInv'
<1>1. CASE UNCHANGED rowVars
  BY <1>1, AloneStep, RunsCurrentStep, RequestsCurrentStep DEF SerialInv
<1>2. CASE RowsWritten
  <2>1. NobodyOpen'
    BY <1>2, WriterQuiet
  <2> QED
    BY <2>1, QuietIsSerial, PTL
<1> QED
  BY <1>1, <1>2, WriteFrame

-----------------------------------------------------------------------------
(* What a row says of itself. *)

VerifiedClaim(d) == LiveClaims(d) # {} /\ claimStatus[active_claim(d)] = "verified"

RowSafe(d) ==
    /\ phase[d] = "live" =>
         /\ \A t \in CheckType : check[d][t] = "passing" => seen[d][t] = active_claim(d)
         /\ status[d] = "ready" => VerifiedClaim(d) /\ \A t \in CheckType : check[d][t] = "passing"
    /\ phase[d] = "tombstone" => status[d] = "deleting" /\ LiveClaims(d) = {}

\* Moves is the part of StatusMove that is about one domain.
Moves(d) ==
    phase[d] \in {"live", "tombstone"} /\ phase'[d] # "purged" =>
        status'[d] \in ALLOWED_TRANSITIONS[status[d]] \cup {status[d]}

SqliteInv == ClaimInv /\ SerialInv /\ \A d \in Domains : RowSafe(d)

\* A step that leaves the row and the status of its live claims alone.
LEMMA SameRow ==
    ASSUME NEW d \in Domains, RowSafe(d), phase'[d] = phase[d], status'[d] = status[d],
           check'[d] = check[d], seen'[d] = seen[d], LiveClaims(d)' = LiveClaims(d),
           \A c \in LiveClaims(d) : claimStatus'[c] = claimStatus[c]
    PROVE  RowSafe(d)' /\ Moves(d)
<1>1. active_claim(d)' = active_claim(d)
  BY DEF active_claim
<1>2. VerifiedClaim(d) => VerifiedClaim(d)'
  BY <1>1, ActiveClaim DEF VerifiedClaim
<1> QED
  BY <1>1, <1>2 DEF RowSafe, Moves

LEMMA InsertSafe ==
    ASSUME SqliteInv, ClaimInv', NEW a \in Applications, NEW h \in Hostnames, NEW d \in Domains,
           NEW c \in Claims, NEW g \in BOOLEAN, InsertDomain(a, h, d, c, g), NEW e \in Domains
    PROVE  RowSafe(e)' /\ Moves(e)
<1>0. /\ phase \in [Domains -> {"unborn", "live", "tombstone", "purged"}]
      /\ status \in [Domains -> DomainStatus] /\ check \in [Domains -> [CheckType -> CheckStatus]]
      /\ seen \in [Domains -> [CheckType -> Claims \cup {None}]]
      /\ claimRow \in [Claims -> Domains \cup {None}]
      /\ claimStatus \in [Claims -> ClaimStatus \cup {"unissued", "purged"}]
  BY DEF SqliteInv, ClaimInv, TypeInv, TypeOK
<1>1. CASE e # d
  <2>1. LiveClaims(e)' = LiveClaims(e) /\ \A b \in LiveClaims(e) : claimStatus'[b] = claimStatus[b]
    BY <1>0, <1>1 DEF InsertDomain, FreshToken, LiveClaims
  <2>2. phase'[e] = phase[e] /\ status'[e] = status[e] /\ check'[e] = check[e] /\ seen'[e] = seen[e]
    BY <1>0, <1>1 DEF InsertDomain
  <2> QED
    BY <2>1, <2>2, SameRow DEF SqliteInv
<1>2. CASE e = d
  <2>1. phase[d] = "unborn" /\ phase'[d] = "live" /\ status'[d] \in {"provisioning", "pending_dns"}
    BY <1>0 DEF InsertDomain
  <2>2. c \in LiveClaims(d)'
    BY <1>0 DEF InsertDomain, LiveClaims
  <2>3. active_claim(d)' = c
    <3>1. PICK x \in Claims : LiveClaims(d)' = {x}
      BY <2>1 DEF ClaimInv, ExactlyOne
    <3> QED
      BY <2>2, <3>1 DEF active_claim
  <2>4. ASSUME NEW t \in CheckType, check'[d][t] = "passing" PROVE seen'[d][t] = c
    <3>1. check'[d] = [Unloaded EXCEPT !["ownership"] = IF g THEN "passing" ELSE "pending"]
      BY <1>0 DEF InsertDomain
    <3>2. t = "ownership" /\ g
      BY <2>4, <3>1 DEF Unloaded, CheckType, DNS_CHECK_TYPES
    <3>3. seen' = [seen EXCEPT ![d]["ownership"] = IF g THEN c ELSE None]
      BY DEF InsertDomain
    <3> QED
      BY <1>0, <3>2, <3>3 DEF CheckType, DNS_CHECK_TYPES
  <2> QED
    BY <1>2, <2>1, <2>3, <2>4 DEF RowSafe, Moves
<1> QED
  BY <1>1, <1>2

LEMMA ReissueSafe ==
    ASSUME SqliteInv, ClaimInv', NEW r \in Requests, NEW d \in Domains, NEW c \in Claims,
           reissue_claim(r, d, c), NEW e \in Domains
    PROVE  RowSafe(e)' /\ Moves(e)
<1> DEFINE q == request[r]
<1>0. /\ phase \in [Domains -> {"unborn", "live", "tombstone", "purged"}]
      /\ status \in [Domains -> DomainStatus] /\ check \in [Domains -> [CheckType -> CheckStatus]]
      /\ seen \in [Domains -> [CheckType -> Claims \cup {None}]]
      /\ claimRow \in [Claims -> Domains \cup {None}]
      /\ claimStatus \in [Claims -> ClaimStatus \cup {"unissued", "purged"}]
  BY DEF SqliteInv, ClaimInv, TypeInv, TypeOK
<1>1. /\ q.op = "reissue" /\ q.rows = {d} /\ phase[d] = "live"
      /\ q.recorded = {t \in CheckType : check[d][t] # "pending"}
      /\ q.leaves <=> status[d] \in RESET_ON_REISSUE
  <2>1. q.op = "reissue" /\ d \in q.rows
    BY DEF reissue_claim
  <2>2. q.rows = {d}
    BY <2>1 DEF SqliteInv, ClaimInv, RequestsInHand
  <2> QED
    BY <2>1, <2>2 DEF SqliteInv, SerialInv, RequestsCurrent, RequestCurrent
<1>2. CASE e # d
  <2>1. \A b \in q.claims : claimRow[b] = d
    BY <1>1 DEF SqliteInv, ClaimInv, RequestsInHand
  <2>2. LiveClaims(e)' = LiveClaims(e) /\ \A b \in LiveClaims(e) : claimStatus'[b] = claimStatus[b]
    BY <1>0, <1>2, <2>1 DEF reissue_claim, FreshToken, Revoke, LiveClaims
  <2>3. phase'[e] = phase[e] /\ status'[e] = status[e] /\ check'[e] = check[e] /\ seen'[e] = seen[e]
    BY <1>0, <1>2 DEF reissue_claim
  <2> QED
    BY <2>2, <2>3, SameRow DEF SqliteInv
<1>3. CASE e = d
  <2>1. phase'[d] = "live"
    BY <1>1 DEF reissue_claim
  <2>2. ASSUME NEW t \in CheckType PROVE check'[d][t] = "pending"
    BY <1>0, <1>1 DEF reissue_claim
  <2>3. /\ status[d] \in RESET_ON_REISSUE => status'[d] = "pending_dns"
        /\ status[d] \notin RESET_ON_REISSUE => status'[d] = status[d]
    BY <1>0, <1>1 DEF reissue_claim
  <2>4. status'[d] # "ready"
    BY <2>3 DEF RESET_ON_REISSUE
  <2>5. status'[d] \in ALLOWED_TRANSITIONS[status[d]] \cup {status[d]}
    BY <2>3 DEF RESET_ON_REISSUE, ALLOWED_TRANSITIONS
  <2>6. Moves(d)
    BY <2>5 DEF Moves
  <2> QED
    BY <1>3, <2>1, <2>2, <2>4, <2>6 DEF RowSafe
<1> QED
  BY <1>2, <1>3

LEMMA EntombSafe ==
    ASSUME SqliteInv, NEW r \in Requests, Entomb(r), NEW e \in Domains
    PROVE  RowSafe(e)' /\ Moves(e)
<1> DEFINE q == request[r]
<1>0. /\ status[e] \in DomainStatus
      /\ claimRow \in [Claims -> Domains \cup {None}]
      /\ claimStatus \in [Claims -> ClaimStatus \cup {"unissued", "purged"}]
  BY DEF SqliteInv, ClaimInv, TypeInv, TypeOK
<1>1. CASE e \notin q.rows
  <2>1. \A b \in q.claims : claimRow[b] # e
    BY <1>1 DEF SqliteInv, ClaimInv, RequestsInHand
  <2>2. LiveClaims(e)' = LiveClaims(e) /\ \A b \in LiveClaims(e) : claimStatus'[b] = claimStatus[b]
    BY <1>0, <2>1 DEF Entomb, Revoke, LiveClaims
  <2>3. phase'[e] = phase[e] /\ status'[e] = status[e] /\ check'[e] = check[e] /\ seen'[e] = seen[e]
    BY <1>1 DEF Entomb, Put
  <2> QED
    BY <2>2, <2>3, SameRow DEF SqliteInv
<1>2. CASE e \in q.rows
  <2>1. phase[e] = "live" /\ LiveClaims(e) \subseteq q.claims
    BY <1>2 DEF SqliteInv, SerialInv, RequestsCurrent, RequestCurrent
  <2>2. phase'[e] = "tombstone" /\ status'[e] = "deleting"
    BY <1>2 DEF Entomb, Put
  <2>3. LiveClaims(e)' = {}
    BY <1>0, <2>1 DEF Entomb, Revoke, LiveClaims
  <2>4. "deleting" \in ALLOWED_TRANSITIONS[status[e]] \cup {status[e]}
    BY <1>0 DEF ALLOWED_TRANSITIONS, DomainStatus
  <2> QED
    BY <2>2, <2>3, <2>4 DEF RowSafe, Moves
<1> QED
  BY <1>1, <1>2

LEMMA PurgeSafe ==
    ASSUME SqliteInv, NEW rows \in SUBSET Domains, NEW apps \in SUBSET Applications,
           purge_tombstones(rows, apps), NEW e \in Domains
    PROVE  RowSafe(e)' /\ Moves(e)
<1>0. /\ claimRow \in [Claims -> Domains \cup {None}]
      /\ claimStatus \in [Claims -> ClaimStatus \cup {"unissued", "purged"}]
  BY DEF SqliteInv, ClaimInv, TypeInv, TypeOK
<1>1. CASE e \in rows
  <2>1. phase'[e] = "purged"
    BY <1>1 DEF purge_tombstones, Put
  <2> QED
    BY <2>1 DEF RowSafe, Moves
<1>2. CASE e \notin rows
  <2>1. LiveClaims(e)' = LiveClaims(e) /\ \A b \in LiveClaims(e) : claimStatus'[b] = claimStatus[b]
    BY <1>0, <1>2 DEF purge_tombstones, LiveClaims
  <2>2. phase'[e] = phase[e] /\ status'[e] = status[e] /\ check'[e] = check[e] /\ seen'[e] = seen[e]
    BY <1>2 DEF purge_tombstones, Put
  <2> QED
    BY <2>1, <2>2, SameRow DEF SqliteInv
<1> QED
  BY <1>1, <1>2

-----------------------------------------------------------------------------
(* What a worker makes of a row it knows as it is. *)

\* A row in memory of which the same can be said as of a row that is safe.
SoundView(v) ==
    /\ v \in View /\ v.status # "deleting" /\ v.claimStatus # "revoked"
    /\ v.status = "ready" => v.claimStatus = "verified" /\ checks_passing(v.checks)

\* What may become of it: a move of the status that is allowed, results for
\* checks of the types that were run, and "ready" only if everything passes.
SoundChange(v, n, types) ==
    /\ n \in View
    /\ n.status \in ALLOWED_TRANSITIONS[v.status] \cup {v.status}
    /\ \A t \in CheckType : t \notin types => n.checks[t] = v.checks[t]
    /\ n.claimStatus \in {v.claimStatus, "verified"}
    /\ n.status = "ready" => n.claimStatus = "verified" /\ \A t \in CheckType : n.checks[t] = "passing"

\* record_check gives the checks that were run their result; a failing one
\* takes "ready" away.
Recorded(v, types, passing, r) ==
    /\ r \in View /\ r.claimStatus = v.claimStatus
    /\ \A t \in CheckType : t \notin types => r.checks[t] = v.checks[t]
    /\ types \subseteq passing => (\A t \in types : r.checks[t] = "passing") /\ r.status = v.status
    /\ ~(types \subseteq passing) =>
          r.status = IF v.status = "ready" THEN "attention_required" ELSE v.status

LEMMA RecordedChecks ==
    ASSUME NEW v \in View, NEW types \in SUBSET CheckType, NEW passing
    PROVE  Recorded(v, types, passing, record_checks(v, types, passing))
BY DEF Recorded, record_checks, Outcome, View, CheckStatus, DomainStatus

LEMMA ApplyDnsSound ==
    ASSUME NEW v, SoundView(v), NEW passing
    PROVE  SoundChange(v, apply_dns_outcomes(v, passing), DNS_CHECK_TYPES)
<1> DEFINE m == record_checks(v, DNS_CHECK_TYPES, passing)
           r == [m EXCEPT !.since = schedule_next(v, passing)]
           n == apply_dns_outcomes(v, passing)
<1>0. v \in View /\ v.status \in DomainStatus /\ v.claimStatus \in {"pending", "verified"}
  BY DEF SoundView, View, ClaimStatus
<1>a. Recorded(v, DNS_CHECK_TYPES, passing, m)
  <2>1. DNS_CHECK_TYPES \in SUBSET CheckType
    BY DEF CheckType
  <2> QED
    BY <1>0, <2>1, RecordedChecks
<1>1. /\ m \in View /\ m.claimStatus = v.claimStatus
      /\ \A t \in CheckType : t \notin DNS_CHECK_TYPES => m.checks[t] = v.checks[t]
      /\ DNS_CHECK_TYPES \subseteq passing => /\ \A t \in DNS_CHECK_TYPES : m.checks[t] = "passing"
                                              /\ m.status = v.status
      /\ ~(DNS_CHECK_TYPES \subseteq passing) =>
            m.status = IF v.status = "ready" THEN "attention_required" ELSE v.status
  BY <1>a DEF Recorded
<1> HIDE DEF m
<1>2. r \in View /\ r.status = m.status /\ r.claimStatus = m.claimStatus /\ r.checks = m.checks
  BY <1>0, <1>1 DEF View, schedule_next, FailingSince
<1>3. n \in View
  BY <1>0, ApplyDnsType
<1>4. CASE DNS_CHECK_TYPES \subseteq passing
  <2>1. n = [r EXCEPT !.claimStatus = IF r.claimStatus = "pending" THEN "verified" ELSE r.claimStatus,
                      !.status = StatusAfterPass(r)]
    BY <1>4 DEF apply_dns_outcomes, m
  <2> HIDE DEF n, r
  <2>2. /\ n.checks = m.checks /\ n.claimStatus = "verified" /\ n.status = StatusAfterPass(r)
    BY <1>0, <1>1, <1>2, <2>1 DEF View
  <2>3. /\ r.status = v.status /\ r.checks = m.checks
        /\ checks_passing(r.checks) <=> \A t \in CheckType : m.checks[t] = "passing"
    BY <1>1, <1>2, <1>4 DEF checks_passing
  <2>4. n.status \in ALLOWED_TRANSITIONS[v.status] \cup {v.status}
    BY <1>0, <2>2, <2>3 DEF StatusAfterPass, ALLOWED_TRANSITIONS, DomainStatus
  <2>5. ASSUME n.status = "ready" PROVE \A t \in CheckType : n.checks[t] = "passing"
    <3>1. CASE v.status = "attention_required"
      BY <2>2, <2>3, <2>5, <3>1 DEF StatusAfterPass
    <3>2. CASE v.status # "attention_required"
      <4>1. v.status = "ready"
        BY <2>2, <2>3, <2>5, <3>2 DEF StatusAfterPass
      <4> QED
        BY <1>1, <1>4, <2>2, <4>1 DEF SoundView, checks_passing
    <3> QED
      BY <3>1, <3>2
  <2> QED
    BY <1>1, <1>3, <2>2, <2>4, <2>5 DEF SoundChange, n
<1>5. CASE ~(DNS_CHECK_TYPES \subseteq passing)
  <2>1. n = [r EXCEPT !.status = StatusAfterFail(r, passing)]
    BY <1>5 DEF apply_dns_outcomes, m
  <2> HIDE DEF n, r
  <2>2. n.checks = m.checks /\ n.claimStatus = v.claimStatus /\ n.status = StatusAfterFail(r, passing)
    BY <1>0, <1>1, <1>2, <2>1 DEF View
  <2>3. r.status = IF v.status = "ready" THEN "attention_required" ELSE v.status
    BY <1>1, <1>2, <1>5
  <2>4. n.status \in ALLOWED_TRANSITIONS[v.status] \cup {v.status} /\ n.status # "ready"
    BY <1>0, <2>2, <2>3 DEF StatusAfterFail, ALLOWED_TRANSITIONS, DomainStatus
  <2> QED
    BY <1>1, <1>3, <2>2, <2>4 DEF SoundChange, n
<1> QED
  BY <1>4, <1>5

LEMMA ApplyEdgeSound ==
    ASSUME NEW v, SoundView(v), NEW passing
    PROVE  SoundChange(v, apply_edge_outcomes(v, passing), EDGE_CHECK_TYPES)
<1> DEFINE r == record_checks(v, EDGE_CHECK_TYPES, passing)
           n == apply_edge_outcomes(v, passing)
<1>0. v \in View /\ v.status \in DomainStatus /\ v.claimStatus \in {"pending", "verified"}
  BY DEF SoundView, View, ClaimStatus
<1>a. Recorded(v, EDGE_CHECK_TYPES, passing, r)
  <2>1. EDGE_CHECK_TYPES \in SUBSET CheckType
    BY DEF CheckType
  <2> QED
    BY <1>0, <2>1, RecordedChecks
<1>1. /\ r \in View /\ r.claimStatus = v.claimStatus
      /\ \A t \in CheckType : t \notin EDGE_CHECK_TYPES => r.checks[t] = v.checks[t]
      /\ EDGE_CHECK_TYPES \subseteq passing => /\ \A t \in EDGE_CHECK_TYPES : r.checks[t] = "passing"
                                               /\ r.status = v.status
      /\ ~(EDGE_CHECK_TYPES \subseteq passing) =>
            r.status = IF v.status = "ready" THEN "attention_required" ELSE v.status
  BY <1>a DEF Recorded
<1>2. n \in View
  BY <1>0, ApplyEdgeType
<1> DEFINE promoted == /\ r.status \in {"provisioning", "attention_required"} /\ r.claim # None
                       /\ r.claimStatus = "verified" /\ checks_passing(r.checks)
<1>3. n = [r EXCEPT !.status = IF promoted THEN "ready" ELSE r.status]
  BY DEF apply_edge_outcomes
<1> HIDE DEF n, r
<1>4. n.checks = r.checks /\ n.claimStatus = r.claimStatus /\ n.status = IF promoted THEN "ready" ELSE r.status
  BY <1>1, <1>3 DEF View
<1>5. n.status \in ALLOWED_TRANSITIONS[v.status] \cup {v.status}
  BY <1>0, <1>1, <1>4 DEF ALLOWED_TRANSITIONS, DomainStatus
<1>6. ASSUME n.status = "ready"
      PROVE  n.claimStatus = "verified" /\ \A t \in CheckType : n.checks[t] = "passing"
  <2>1. CASE promoted
    BY <1>4, <2>1 DEF checks_passing
  <2>2. CASE ~promoted
    <3>1. v.status = "ready" /\ EDGE_CHECK_TYPES \subseteq passing
      BY <1>1, <1>4, <1>6, <2>2
    <3> QED
      BY <1>1, <1>4, <3>1 DEF SoundView, checks_passing
  <2> QED
    BY <2>1, <2>2
<1> QED
  BY <1>1, <1>2, <1>4, <1>5, <1>6 DEF SoundChange, n

\* What a worker in its transaction has loaded is the row, and is sound.
LEMMA LoadedSound ==
    ASSUME SqliteInv, NEW w \in Workers, InTx(w)
    PROVE  LET d == worker[w].domain
               v == worker[w].view
           IN  /\ d \in Domains /\ RunCurrent(w) /\ SoundView(v)
               /\ v.claim \in Claims /\ LiveClaims(d) = {v.claim}
               /\ v.claimStatus = claimStatus[v.claim]
<1> DEFINE d == worker[w].domain
           v == worker[w].view
<1>1. d \in Domains /\ v \in View
  BY DEF SqliteInv, ClaimInv, TypeInv, TypeOK, RunHasDomain, WorkerState, InTx, InDnsTx, InEdgeTx
<1>2. RunCurrent(w)
  BY DEF SqliteInv, SerialInv, RunsCurrent
<1>3. /\ phase[d] = "live" /\ status[d] # "deleting" /\ v.status = status[d] /\ v.checks = check[d]
      /\ v.claim = active_claim(d) /\ v.claimStatus = Load(d).claimStatus
  BY <1>2 DEF RunCurrent
<1>4. PICK x \in Claims : LiveClaims(d) = {x}
  BY <1>1, <1>3 DEF SqliteInv, ClaimInv, ExactlyOne
<1>5. v.claim = x
  BY <1>3, <1>4 DEF active_claim
<1>6. v.claimStatus = claimStatus[x]
  BY <1>3, <1>4, <1>5 DEF Load
<1>7. claimStatus[x] \in {"pending", "verified"}
  BY <1>4 DEF LiveClaims
<1>8. SoundView(v)
  <2>1. RowSafe(d)
    BY <1>1 DEF SqliteInv
  <2> HIDE DEF d, v
  <2> QED
    BY <1>1, <1>3, <1>5, <1>6, <1>7, <2>1 DEF SoundView, RowSafe, VerifiedClaim, checks_passing
<1> QED
  BY <1>1, <1>2, <1>4, <1>5, <1>6, <1>8

\* A sound change, flushed over the row it was made from.
LEMMA FlushSafe ==
    ASSUME SqliteInv, NEW d \in Domains, NEW v, SoundView(v), NEW n, NEW types \in SUBSET CheckType,
           SoundChange(v, n, types), Flush(d, v, n, types, v.claim), UNCHANGED <<phase, claimRow>>,
           phase[d] = "live", v.status = status[d], v.checks = check[d], v.claim \in Claims,
           LiveClaims(d) = {v.claim}, v.claimStatus = claimStatus[v.claim], NEW e \in Domains
    PROVE  RowSafe(e)' /\ Moves(e)
<1>0. /\ status \in [Domains -> DomainStatus] /\ check \in [Domains -> [CheckType -> CheckStatus]]
      /\ seen \in [Domains -> [CheckType -> Claims \cup {None}]]
      /\ claimStatus \in [Claims -> ClaimStatus \cup {"unissued", "purged"}]
      /\ n.checks \in [CheckType -> CheckStatus]
  BY DEF SqliteInv, ClaimInv, TypeInv, TypeOK, SoundChange, View
<1>1. claimStatus' = [claimStatus EXCEPT ![v.claim] = n.claimStatus]
  BY <1>0 DEF Flush
<1>2. claimRow[v.claim] = d /\ claimStatus[v.claim] \in {"pending", "verified"}
  BY DEF LiveClaims
<1>3. n.claimStatus \in {"pending", "verified"}
  BY <1>2 DEF SoundChange
<1>4. \A f \in Domains : LiveClaims(f)' = LiveClaims(f)
  BY <1>0, <1>1, <1>2, <1>3 DEF LiveClaims
<1>5. CASE e # d
  <2>1. phase'[e] = phase[e] /\ status'[e] = status[e] /\ check'[e] = check[e] /\ seen'[e] = seen[e]
    BY <1>0, <1>5 DEF Flush
  <2>2. \A c \in LiveClaims(e) : claimStatus'[c] = claimStatus[c]
    BY <1>0, <1>1, <1>2, <1>5 DEF LiveClaims
  <2> QED
    BY <1>4, <2>1, <2>2, SameRow DEF SqliteInv
<1>6. CASE e = d
  <2>1. status'[d] = n.status
    BY <1>0 DEF Flush
  <2>2. \A t \in CheckType : check'[d][t] = n.checks[t]
    BY <1>0 DEF Flush
  <2>3. active_claim(d)' = v.claim /\ active_claim(d) = v.claim
    BY <1>4 DEF active_claim
  <2>4. ASSUME NEW t \in CheckType, check'[d][t] = "passing" PROVE seen'[d][t] = v.claim
    <3>0. seen'[d][t] = IF t \notin types THEN seen[d][t]
                        ELSE IF check'[d][t] = "passing" /\ n.checks[t] = "passing" THEN v.claim
                        ELSE IF check'[d][t] = "passing" THEN seen[d][t]
                        ELSE None
      BY <1>0 DEF Flush
    <3>1. CASE t \in types
      BY <2>2, <2>4, <3>0, <3>1
    <3>2. CASE t \notin types
      <4>1. check[d][t] = "passing"
        BY <2>2, <2>4, <3>2 DEF SoundChange
      <4> QED
        BY <2>3, <3>0, <3>2, <4>1 DEF SqliteInv, RowSafe
    <3> QED
      BY <3>1, <3>2
  <2>5. status'[d] = "ready" =>
           VerifiedClaim(d)' /\ \A t \in CheckType : check'[d][t] = "passing"
    <3>1. LiveClaims(d)' # {}
      BY <1>4
    <3>2. claimStatus'[v.claim] = n.claimStatus
      BY <1>0, <1>1
    <3> QED
      BY <2>1, <2>2, <2>3, <3>1, <3>2 DEF SoundChange, VerifiedClaim
  <2>6. Moves(d)
    BY <2>1 DEF SoundChange, Moves
  <2> QED
    BY <1>6, <2>3, <2>4, <2>5, <2>6 DEF RowSafe
<1> QED
  BY <1>5, <1>6

LEMMA CommitSafe ==
    ASSUME SqliteInv, NEW w \in Workers, CommitDns(w) \/ CommitEdge(w), NEW e \in Domains
    PROVE  RowSafe(e)' /\ Moves(e)
<1> DEFINE d == worker[w].domain
           v == worker[w].view
<1>1. InTx(w)
  BY DEF CommitDns, CommitEdge, InTx
<1>2. /\ d \in Domains /\ RunCurrent(w) /\ SoundView(v)
      /\ v.claim \in Claims /\ LiveClaims(d) = {v.claim} /\ v.claimStatus = claimStatus[v.claim]
  BY <1>1, LoadedSound
<1>3. phase[d] = "live" /\ v.status = status[d] /\ v.checks = check[d] /\ worker[w].claim = v.claim
  BY <1>2 DEF RunCurrent
<1>4. CASE CommitDns(w)
  <2> DEFINE n == apply_dns_outcomes(v, worker[w].out)
  <2>1. SoundChange(v, n, DNS_CHECK_TYPES)
    BY <1>2, ApplyDnsSound
  <2>2. DNS_CHECK_TYPES \in SUBSET CheckType
    BY DEF CheckType
  <2>3. Flush(d, v, n, DNS_CHECK_TYPES, v.claim) /\ UNCHANGED <<phase, claimRow>>
    BY <1>3, <1>4 DEF CommitDns
  <2> HIDE DEF n, d, v
  <2> QED
    BY <1>2, <1>3, <2>1, <2>2, <2>3, FlushSafe
<1>5. CASE CommitEdge(w)
  <2> DEFINE n == apply_edge_outcomes(v, worker[w].out)
  <2>1. SoundChange(v, n, EDGE_CHECK_TYPES)
    BY <1>2, ApplyEdgeSound
  <2>2. EDGE_CHECK_TYPES \in SUBSET CheckType
    BY DEF CheckType
  <2>3. Flush(d, v, n, EDGE_CHECK_TYPES, v.claim) /\ UNCHANGED <<phase, claimRow>>
    BY <1>3, <1>5 DEF CommitEdge
  <2> HIDE DEF n, d, v
  <2> QED
    BY <1>2, <1>3, <2>1, <2>2, <2>3, FlushSafe
<1> QED
  BY <1>4, <1>5

-----------------------------------------------------------------------------
LEMMA RowsSafeStep ==
    ASSUME SqliteInv, ClaimInv', [Next]_vars, NEW e \in Domains
    PROVE  RowSafe(e)' /\ Moves(e)
<1>1. CASE UNCHANGED rowVars
  <2>1. UNCHANGED <<phase, status, check, claimRow, claimStatus, seen>>
    BY <1>1 DEF rowVars
  <2>2. LiveClaims(e)' = LiveClaims(e)
    BY <2>1, SameClaims
  <2> QED
    BY <2>1, <2>2, SameRow DEF SqliteInv
<1>2. ASSUME NEW r \in Requests, delete_domain(r) \/ delete_application(r) PROVE Entomb(r)
  BY <1>2 DEF delete_domain, delete_application
<1>3. CASE RowsWritten
  BY <1>2, <1>3, InsertSafe, ReissueSafe, EntombSafe, PurgeSafe, CommitSafe DEF RowsWritten
<1> QED
  BY <1>1, <1>3, WriteFrame

LEMMA SqliteInit == Init => SqliteInv
<1> SUFFICES ASSUME Init PROVE SqliteInv
  OBVIOUS
<1>1. ClaimInv
  BY InitClaims
<1>2. NobodyOpen
  BY DEF Init, NobodyOpen, InTx, InDnsTx, InEdgeTx, Idle
<1>3. \A d \in Domains : RowSafe(d)
  BY DEF Init, RowSafe
<1> QED
  BY <1>1, <1>2, <1>3, QuietIsSerial DEF SqliteInv

LEMMA SqliteStep ==
    ASSUME Backend = "sqlite"
    PROVE  SqliteInv /\ [Next]_vars => SqliteInv' /\ StatusMove
<1> SUFFICES ASSUME SqliteInv, [Next]_vars PROVE SqliteInv' /\ StatusMove
  OBVIOUS
<1>1. ClaimInv'
  BY ClaimInvStep DEF SqliteInv
<1>2. SerialInv'
  BY SerialStep DEF SqliteInv, ClaimInv
<1>3. \A e \in Domains : RowSafe(e)' /\ Moves(e)
  BY <1>1, RowsSafeStep
<1> QED
  BY <1>1, <1>2, <1>3 DEF SqliteInv, StatusMove, Moves

\* On SQLite, for any number of workers and requests: a domain in status
\* "ready" has a verified live claim, and each of its four checks was seen
\* passing under that very claim.  No result of a run about an earlier claim,
\* nor a flush that leaves columns out, ever puts a row in "ready".
THEOREM ReadyIsChecked ==
    ASSUME Backend = "sqlite"
    PROVE  Spec => []ReadyMeansChecked
<1>1. SqliteInv => ReadyMeansChecked
  BY DEF SqliteInv, ReadyMeansChecked, RowSafe, VerifiedClaim, Load
<1>2. SqliteInv /\ [Next]_vars => SqliteInv'
  BY SqliteStep
<1> QED
  BY <1>1, <1>2, SqliteInit, PTL DEF Spec

\* On SQLite a deleted domain stays deleted: no worker in the middle of its
\* checks and no re-issue that read it alive gives the tombstone another
\* status or a live claim.
THEOREM TombstonesStay ==
    ASSUME Backend = "sqlite"
    PROVE  Spec => []TombstoneIsFinal
<1>1. SqliteInv => TombstoneIsFinal
  BY DEF SqliteInv, TombstoneIsFinal, RowSafe
<1>2. SqliteInv /\ [Next]_vars => SqliteInv'
  BY SqliteStep
<1> QED
  BY <1>1, <1>2, SqliteInit, PTL DEF Spec

\* On SQLite transition_status never has to refuse: every status a commit
\* writes is reached from the one the row had by a move of ALLOWED_TRANSITIONS.
THEOREM MovesAreAllowed ==
    ASSUME Backend = "sqlite"
    PROVE  Spec => StatusMovesAllowed
<1>1. SqliteInv /\ [Next]_vars => SqliteInv'
  BY SqliteStep
<1>2. SqliteInv /\ [Next]_vars => [StatusMove]_status
  BY SqliteStep
<1> QED
  BY <1>1, <1>2, SqliteInit, PTL DEF Spec, StatusMovesAllowed

-----------------------------------------------------------------------------
(***************************************************************************)
(* DomainLifecycle implements ServiceContract for every instance and on    *)
(* both backends: what the edge serves and which token a hostname carries  *)
(* follow the contract through every race of requests and workers.         *)
(***************************************************************************)

TokenOf(d) == IF phase[d] = "live" THEN active_claim(d) ELSE None

Retired(d) == phase[d] \in {"tombstone", "purged"}

\* Only tokens that were issued are proven, and only about those do runs ask.
ProvenIssued == \A c \in proven : Issued(c)

RunsAskIssued == \A w \in Workers : worker[w].claim \in Claims => Issued(worker[w].claim)

ContractInv == ClaimInv /\ AuthorizationInv /\ ProvenIssued /\ RunsAskIssued

\* Where a run's claim comes from.
LEMMA RunClaimFrame ==
    ASSUME TypeInv, [Next]_vars, NEW w \in Workers
    PROVE  \/ worker'[w].claim \in {worker[w].claim, None}
           \/ worker'[w].claim = active_claim(worker[w].domain)
           \/ worker[w].pc = "dns_tx" /\ worker'[w].claim = worker[w].view.claim
<1> DEFINE Goal == \/ worker'[w].claim \in {worker[w].claim, None}
                   \/ worker'[w].claim = active_claim(worker[w].domain)
                   \/ worker[w].pc = "dns_tx" /\ worker'[w].claim = worker[w].view.claim
<1>0. worker \in [Workers -> WorkerState] /\ worker[w] \in WorkerState /\ Idle.claim = None
  BY DEF TypeInv, TypeOK, Idle
<1>1. ASSUME NEW x \in Workers, NEW y, worker' = [worker EXCEPT ![x] = y],
             x = w => \/ y.claim \in {worker[w].claim, None}
                      \/ y.claim = active_claim(worker[w].domain)
                      \/ worker[w].pc = "dns_tx" /\ y.claim = worker[w].view.claim
      PROVE  Goal
  BY <1>0, <1>1
<1>2. CASE Registration
  BY <1>2 DEF Registration, Authenticate, ClaimRefused, claim_domain, import_legacy_domains, InsertDomain
<1>3. CASE Administration
  BY <1>3 DEF Administration, Open, OpenReissue, OpenDelete, OpenDeleteApplication, delete_domain, Entomb,
              delete_application, Abandon, set_application_status, request_recheck, reissue_claim,
              connect_returned, purge_tombstones
<1>4. ASSUME NEW x \in Workers, WorkerStep(x) \/ Crash(x) PROVE Goal
  <2>0. x = w => worker[x] \in WorkerState
    BY <1>0
  <2>1. ASSUME NEW d \in Domains, ReadDue(x, d) PROVE Goal
    BY <1>0, <1>1, <2>1 DEF ReadDue, Idle
  <2>2. CASE LeaseDomain(x)
    BY <1>0, <1>1, <2>0, <2>2 DEF LeaseDomain, WorkerState
  <2>3. ASSUME NEW passing \in SUBSET DNS_CHECK_TYPES, QueryDns(x, passing) PROVE Goal
    BY <1>1, <2>0, <2>3 DEF QueryDns, WorkerState
  <2>4. CASE ReloadForDns(x)
    BY <1>0, <1>1, <2>0, <2>4 DEF ReloadForDns, WorkerState
  <2>5. CASE CommitDns(x)
    BY <1>1, <2>5 DEF CommitDns, InDnsTx, Idle
  <2>6. CASE ConflictDns(x) \/ EndRun(x) \/ CommitEdge(x) \/ Crash(x)
    BY <1>0, <1>1, <2>6 DEF ConflictDns, EndRun, CommitEdge, Crash
  <2>7. ASSUME NEW passing \in SUBSET EDGE_CHECK_TYPES, ProbeEdge(x, passing) PROVE Goal
    BY <1>1, <2>0, <2>7 DEF ProbeEdge, WorkerState
  <2>8. CASE ReloadForEdge(x)
    BY <1>0, <1>1, <2>0, <2>8 DEF ReloadForEdge, WorkerState
  <2> QED
    BY <1>4, <2>1, <2>2, <2>3, <2>4, <2>5, <2>6, <2>7, <2>8 DEF WorkerStep
<1>5. CASE Time
  BY <1>5 DEF Time, GraceElapses, CheckDue
<1>6. CASE UNCHANGED vars
  BY <1>6 DEF vars
<1> QED
  BY <1>2, <1>3, <1>4, <1>5, <1>6 DEF Next

LEMMA RunsAskIssuedStep == ASSUME ContractInv, [Next]_vars PROVE RunsAskIssued'
<1> SUFFICES ASSUME NEW w \in Workers, worker'[w].claim \in Claims
             PROVE  claimStatus'[worker'[w].claim] # "unissued"
  BY DEF RunsAskIssued, Issued
<1>1. None \notin Claims
  BY ConstantAssumption
<1>2. Issued(worker'[w].claim)
  <2>1. CASE worker'[w].claim \in {worker[w].claim, None}
    BY <1>1, <2>1 DEF ContractInv, RunsAskIssued
  <2>2. CASE worker'[w].claim = active_claim(worker[w].domain)
    BY <1>1, <2>2, ActiveClaim DEF LiveClaims, Issued
  <2>3. CASE worker[w].pc = "dns_tx" /\ worker'[w].claim = worker[w].view.claim
    BY <2>3 DEF ContractInv, ClaimInv, RunsInHand
  <2> QED
    BY <2>1, <2>2, <2>3, RunClaimFrame DEF ContractInv, ClaimInv
<1> QED
  BY <1>2, ClaimsPersist DEF ContractInv, Issued

\* A token becomes proven by a DNS pass, which writes nothing, or by an import.
LEMMA ProvenFrame ==
    ASSUME [Next]_vars
    PROVE  \/ proven' = proven
           \/ \E a \in Applications, h \in Hostnames, d \in Domains, c \in Claims :
                 InsertDomain(a, h, d, c, TRUE)
           \/ \E w \in Workers : QueryDns(w, DNS_CHECK_TYPES)
<1>1. CASE Registration
  BY <1>1 DEF Registration, Authenticate, ClaimRefused, claim_domain, import_legacy_domains, InsertDomain
<1>2. CASE Administration
  BY <1>2 DEF Administration, Open, OpenReissue, OpenDelete, OpenDeleteApplication, delete_domain, Entomb,
              delete_application, Abandon, set_application_status, request_recheck, reissue_claim,
              connect_returned, purge_tombstones
<1>3. ASSUME NEW w \in Workers, WorkerStep(w) \/ Crash(w)
      PROVE  proven' = proven \/ QueryDns(w, DNS_CHECK_TYPES)
  BY <1>3 DEF WorkerStep, Crash, ReadDue, LeaseDomain, QueryDns, ReloadForDns, CommitDns, ConflictDns,
              EndRun, ProbeEdge, ReloadForEdge, CommitEdge
<1>4. CASE Time
  BY <1>4 DEF Time, GraceElapses, CheckDue
<1>5. CASE UNCHANGED vars
  BY <1>5 DEF vars
<1> QED
  BY <1>1, <1>2, <1>3, <1>4, <1>5 DEF Next

LEMMA ProvenIssuedStep == ASSUME ContractInv, [Next]_vars PROVE ProvenIssued'
<1> USE DEF ContractInv, ProvenIssued
<1>0. proven \subseteq Claims /\ \A c \in Claims : Issued(c) => Issued(c)'
  BY ClaimsPersist DEF ClaimInv, TypeInv, TypeOK
<1>1. CASE proven' = proven
  BY <1>0, <1>1
<1>2. ASSUME NEW a \in Applications, NEW h \in Hostnames, NEW d \in Domains, NEW c \in Claims,
             InsertDomain(a, h, d, c, TRUE)
      PROVE  ProvenIssued'
  <2>1. proven' = proven \cup {c} /\ claimStatus'[c] = "verified"
    BY <1>2 DEF InsertDomain, ClaimInv, TypeInv, TypeOK
  <2> QED
    BY <1>0, <2>1 DEF Issued
<1>3. ASSUME NEW w \in Workers, QueryDns(w, DNS_CHECK_TYPES) PROVE ProvenIssued'
  <2>1. proven' = proven \cup {worker[w].claim} /\ worker[w].claim # None
    BY <1>3 DEF QueryDns, DNS_CHECK_TYPES
  <2>2. worker[w].claim \in Claims
    BY <2>1 DEF ClaimInv, TypeInv, TypeOK, WorkerState
  <2> QED
    BY <1>0, <2>1, <2>2 DEF RunsAskIssued
<1> QED
  BY <1>1, <1>2, <1>3, ProvenFrame

(***************************************************************************)
(* What a step does to one domain                                          *)
(***************************************************************************)
TokenKept(d) ==
    TokenOf(d)' = TokenOf(d) /\ (Retired(d)' <=> Retired(d))

\* The domain carries a new token, and cannot be served yet.
TokenIssued(d) ==
    /\ phase'[d] = "live"
    /\ \E c \in Claims : /\ LiveClaims(d)' = {c} /\ ~Issued(c) /\ Issued(c)'
                         /\ claimStatus'[c] = "pending" \/ status'[d] # "ready"

TokenRetired(d) == phase[d] = "live" /\ phase'[d] = "tombstone"

LEMMA ClaimsUntouched ==
    ASSUME NEW d \in Domains, LiveClaims(d)' = LiveClaims(d), phase'[d] = phase[d]
    PROVE  TokenKept(d)
BY DEF TokenKept, TokenOf, Retired, active_claim

\* A domain that is and was not live has no token either way.
LEMMA NotLive ==
    ASSUME NEW d \in Domains, phase[d] # "live", phase'[d] # "live", Retired(d)' <=> Retired(d)
    PROVE  TokenKept(d)
BY DEF TokenKept, TokenOf

LEMMA DomainMoves ==
    ASSUME ClaimInv, [Next]_vars, NEW d \in Domains
    PROVE  TokenKept(d) \/ TokenIssued(d) \/ TokenRetired(d)
<1> DEFINE Goal == TokenKept(d) \/ TokenIssued(d) \/ TokenRetired(d)
<1>0. /\ phase \in [Domains -> {"unborn", "live", "tombstone", "purged"}]
      /\ status \in [Domains -> DomainStatus]
      /\ claimRow \in [Claims -> Domains \cup {None}]
      /\ claimStatus \in [Claims -> ClaimStatus \cup {"unissued", "purged"}]
      /\ None \notin Domains
  BY ConstantAssumption DEF ClaimInv, TypeInv, TypeOK
<1>1. CASE UNCHANGED <<phase, claimRow, claimStatus>>
  BY <1>1, ClaimsUntouched DEF LiveClaims
<1>2. ASSUME NEW a \in Applications, NEW h \in Hostnames, NEW e \in Domains, NEW c \in Claims,
             NEW g \in BOOLEAN, InsertDomain(a, h, e, c, g)
      PROVE  Goal
  <2>1. CASE d # e
    <3>1. LiveClaims(d)' = LiveClaims(d) /\ phase'[d] = phase[d]
      BY <1>0, <1>2, <2>1 DEF InsertDomain, FreshToken, LiveClaims
    <3> QED
      BY <3>1, ClaimsUntouched
  <2>2. CASE d = e
    <3>1. \A b \in Claims : claimRow[b] # d
      BY <1>2, <2>2 DEF InsertDomain, ClaimInv, RowsExist
    <3>2. LiveClaims(d)' = {c}
      BY <1>0, <1>2, <2>2, <3>1 DEF InsertDomain, FreshToken, LiveClaims
    <3>3. /\ phase'[d] = "live" /\ status'[d] # "ready"
          /\ claimStatus[c] = "unissued" /\ claimStatus'[c] # "unissued"
      BY <1>0, <1>2, <2>2 DEF InsertDomain, FreshToken
    <3> QED
      BY <3>2, <3>3 DEF TokenIssued, Issued
  <2> QED
    BY <2>1, <2>2
<1>3. ASSUME NEW r \in Requests, Entomb(r) PROVE Goal
  <2>1. CASE d \notin request[r].rows
    <3>1. LiveClaims(d)' = LiveClaims(d) /\ phase'[d] = phase[d]
      BY <1>0, <1>3, <2>1 DEF Entomb, Put, Revoke, LiveClaims, ClaimInv, RequestsInHand
    <3> QED
      BY <3>1, ClaimsUntouched
  <2>2. CASE d \in request[r].rows
    <3>1. phase'[d] = "tombstone" /\ phase[d] # "unborn"
      BY <1>3, <2>2 DEF Entomb, Put, ClaimInv, RequestsInHand
    <3> QED
      BY <1>0, <3>1, NotLive DEF TokenRetired, Retired
  <2> QED
    BY <2>1, <2>2
<1>4. ASSUME NEW r \in Requests, NEW e \in Domains, NEW c \in Claims, reissue_claim(r, e, c)
      PROVE  Goal
  <2>1. request[r].rows = {e} /\ phase' = phase
    BY <1>4 DEF reissue_claim, ClaimInv, RequestsInHand
  <2>2. \A b \in request[r].claims : claimRow[b] = e
    BY <2>1 DEF ClaimInv, RequestsInHand
  <2>3. CASE d # e
    <3>1. LiveClaims(d)' = LiveClaims(d)
      BY <1>0, <1>4, <2>2, <2>3 DEF reissue_claim, FreshToken, IndexAdmits, LiveClaims, Revoke
    <3> QED
      BY <2>1, <3>1, ClaimsUntouched
  <2>4. CASE d = e /\ phase[d] = "live"
    <3>1. LiveClaims(d)' = {c}
      BY <1>0, <1>4, <2>4 DEF reissue_claim, FreshToken, IndexAdmits, LiveClaims, Revoke
    <3>2. claimStatus[c] = "unissued" /\ claimStatus'[c] = "pending"
      BY <1>0, <1>4 DEF reissue_claim, FreshToken, Revoke
    <3> QED
      BY <2>1, <2>4, <3>1, <3>2 DEF TokenIssued, Issued
  <2>5. CASE phase[d] # "live"
    BY <2>1, <2>5, NotLive DEF Retired
  <2> QED
    BY <2>3, <2>4, <2>5
<1>5. ASSUME NEW w \in Workers, CommitDns(w) PROVE Goal
  <2> DEFINE v == worker[w].view
             n == apply_dns_outcomes(v, worker[w].out)
  <2>1. v \in View /\ v.claim \in Claims \cup {None} /\ worker[w].pc = "dns_tx"
    BY <1>5 DEF CommitDns, InDnsTx, ClaimInv, TypeInv, TypeOK, WorkerState, View
  <2>2. n.claimStatus # v.claimStatus =>
           n.claimStatus = "verified" /\ LiveClaims(worker[w].domain) \subseteq {v.claim}
    BY <1>5, <2>1, ApplyDnsClaim DEF CommitDns, ClaimConflict, IndexAdmits
  <2>3. v.claim \in Claims => claimRow[v.claim] = worker[w].domain
    BY <2>1 DEF ClaimInv, RunsInHand
  <2>4. claimStatus' = [c \in Claims |->
                          IF c = v.claim /\ n.claimStatus # v.claimStatus
                          THEN n.claimStatus ELSE claimStatus[c]]
    BY <1>5 DEF CommitDns, Flush
  <2>5. UNCHANGED <<phase, claimRow>>
    BY <1>5 DEF CommitDns
  <2> HIDE DEF n, v
  <2>6. CASE phase[d] # "live"
    BY <2>5, <2>6, NotLive DEF Retired
  <2>7. CASE phase[d] = "live" /\ (d # worker[w].domain \/ n.claimStatus = v.claimStatus)
    <3>1. LiveClaims(d)' = LiveClaims(d)
      BY <1>0, <2>3, <2>4, <2>5, <2>7 DEF LiveClaims
    <3> QED
      BY <2>5, <3>1, ClaimsUntouched
  <2>8. CASE phase[d] = "live" /\ d = worker[w].domain /\ n.claimStatus # v.claimStatus
    <3>1. PICK c \in Claims : LiveClaims(d) = {c}
      BY <2>8 DEF ClaimInv, ExactlyOne
    <3>2. c = v.claim /\ claimRow[c] = d
      BY <2>2, <2>3, <2>8, <3>1
    <3>3. LiveClaims(d)' = {c}
      BY <1>0, <2>2, <2>4, <2>5, <2>8, <3>1, <3>2 DEF LiveClaims
    <3> QED
      BY <2>5, <3>1, <3>3, ClaimsUntouched
  <2> QED
    BY <2>6, <2>7, <2>8
<1>6. ASSUME NEW rows \in SUBSET Domains, NEW apps \in SUBSET Applications,
             purge_tombstones(rows, apps)
      PROVE  Goal
  <2>1. CASE d \in rows
    <3>1. phase[d] = "tombstone" /\ phase'[d] = "purged"
      BY <1>6, <2>1 DEF purge_tombstones, Put
    <3> QED
      BY <3>1, NotLive DEF Retired
  <2>2. CASE d \notin rows
    <3>1. LiveClaims(d)' = LiveClaims(d) /\ phase'[d] = phase[d]
      BY <1>0, <1>6, <2>2 DEF purge_tombstones, Put, LiveClaims
    <3> QED
      BY <3>1, ClaimsUntouched
  <2> QED
    BY <2>1, <2>2
<1> QED
  BY <1>1, <1>2, <1>3, <1>4, <1>5, <1>6, ClaimFrame DEF ClaimsWritten, ClaimInv

(***************************************************************************)
(* The refinement                                                          *)
(***************************************************************************)
\* What is served is proven, and stays as it is while proofs come in.
LEMMA ServingStep ==
    ASSUME ContractInv, ContractInv', [Next]_vars, NEW d \in Domains, TokenKept(d),
           is_serveable(d)'
    PROVE  is_serveable(d) \/ TokenOf(d) \in proven
<1>1. TokenOf(d)' \in proven'
  <2>1. phase'[d] = "live" /\ LiveClaims(d)' # {} /\ claimStatus'[active_claim(d)'] = "verified"
    BY ActiveClaim, ConstantAssumption DEF is_serveable, Load, active_claim
  <2>2. active_claim(d)' \in Claims
    BY <2>1 DEF active_claim, LiveClaims
  <2> QED
    BY <2>1, <2>2 DEF TokenOf, ContractInv, AuthorizationInv, VerifiedIsProven
<1>2. CASE proven' = proven
  BY <1>1, <1>2 DEF TokenKept
<1>3. ASSUME NEW w \in Workers, QueryDns(w, DNS_CHECK_TYPES) PROVE is_serveable(d)
  BY <1>3 DEF QueryDns, dbVars, is_serveable, Load, active_claim, LiveClaims, checks_passing
<1>4. ASSUME NEW a \in Applications, NEW h \in Hostnames, NEW e \in Domains, NEW c \in Claims,
             InsertDomain(a, h, e, c, TRUE)
      PROVE  TokenOf(d) \in proven
  <2>1. TokenOf(d) # c
    <3>1. claimStatus[c] = "unissued" /\ c # None
      BY <1>4, ConstantAssumption DEF InsertDomain, FreshToken
    <3> QED
      BY <3>1, ActiveClaim DEF TokenOf, LiveClaims
  <2>2. proven' = proven \cup {c}
    BY <1>4 DEF InsertDomain
  <2> QED
    BY <1>1, <2>1, <2>2 DEF TokenKept
<1> QED
  BY <1>2, <1>3, <1>4, ProvenFrame

LEMMA ContractStep ==
    ASSUME ContractInv, ContractInv', [Next]_vars
    PROVE  Contract!ContractNext
<1>1. {c \in Claims : claimStatus[c] # "unissued"} \subseteq {c \in Claims : claimStatus'[c] # "unissued"}
  BY ClaimsPersist DEF ContractInv, Issued
<1>2. proven \subseteq proven' /\ proven' \subseteq {c \in Claims : claimStatus'[c] # "unissued"}
  BY ProvenGrows DEF ContractInv, ProvenIssued, Issued, ClaimInv, TypeInv, TypeOK
<1>3. ASSUME NEW d \in Domains PROVE Contract!Keep(d) \/ Contract!Issue(d) \/ Contract!Retire(d)
  <2>1. CASE TokenKept(d)
    <3>1. Contract!Keep(d)
      BY <2>1, ServingStep DEF Contract!Keep, TokenKept, TokenOf, Retired
    <3> QED
      BY <3>1
  <2>2. CASE TokenIssued(d)
    <3>1. PICK c \in Claims : /\ LiveClaims(d)' = {c} /\ ~Issued(c) /\ Issued(c)'
                              /\ claimStatus'[c] = "pending" \/ status'[d] # "ready"
      BY <2>2 DEF TokenIssued
    <3>2. active_claim(d)' = c
      BY <3>1 DEF active_claim
    <3>3. ~is_serveable(d)'
      BY <3>1, <3>2 DEF is_serveable, Load
    <3>4. phase'[d] = "live"
      BY <2>2 DEF TokenIssued
    <3> QED
      BY <3>1, <3>2, <3>3, <3>4 DEF Contract!Issue, Issued
  <2>3. CASE TokenRetired(d)
    <3>1. active_claim(d) # None
      BY <2>3, ActiveClaim, ConstantAssumption
         DEF TokenRetired, ContractInv, ClaimInv, ExactlyOne, LiveClaims
    <3>2. ~is_serveable(d)'
      BY <2>3 DEF TokenRetired, is_serveable
    <3> QED
      BY <2>3, <3>1, <3>2 DEF Contract!Retire, TokenRetired
  <2> QED
    BY <2>1, <2>2, <2>3, DomainMoves DEF ContractInv
<1> QED
  BY <1>1, <1>2, <1>3 DEF Contract!ContractNext

\* The service operations and the workers implement the contract: a hostname
\* carries one token at a time, no token is used twice, service starts only on
\* a proven token and ends with a re-issue or a deletion, for good.
THEOREM ContractKept == Spec => KeepsContract
<1>1. Init => ContractInv
  BY InitClaims, InitAuthorization, ConstantAssumption
     DEF Init, ContractInv, ProvenIssued, RunsAskIssued, Idle
<1>2. Init => Contract!ContractInit
  BY DEF Init, Contract!ContractInit, is_serveable
<1>3. ContractInv /\ [Next]_vars => ContractInv'
  BY ClaimInvStep, AuthorizationStep, ProvenIssuedStep, RunsAskIssuedStep DEF ContractInv
<1>4. ContractInv /\ ContractInv' /\ [Next]_vars => [Contract!ContractNext]_(Contract!contractVars)
  BY ContractStep
<1> QED
  BY <1>1, <1>2, <1>3, <1>4, PTL DEF Spec, KeepsContract, Contract!ContractSpec
=============================================================================
