---------------------------- MODULE ChecksProofs ----------------------------
(***************************************************************************)
(* Theorems about four parts of MCChecks: CheckOutcomes (Out), for any DNS *)
(* names, intervals, grace and lifetimes; and, further down, ZoneDetection *)
(* (Zo), EdgeConfig (Ga) and Traffic (Tr).  The parts have constants of    *)
(* their own; what is shown of each part's Spec is at the end carried over *)
(* to the specification the run checks.                                    *)
(*                                                                         *)
(* When drift, expiry and loss are found does not depend on what a check   *)
(* makes of DNS, the edge or the origin, except that a certificate passes  *)
(* only if it is not about to expire.  What the routing check makes of DNS *)
(* has a theorem of its own.                                               *)
(***************************************************************************)
EXTENDS MCChecks, SequenceTheorems, FiniteSetTheorems, WellFoundedInduction, TLAPS

-----------------------------------------------------------------------------
(* Types, and what the history variables say of the world. *)

CheckRow == [status : {"pending", "passing", "failing"}, attempts : Nat, since : Int]

TypeInv ==
    /\ cert.not_after \in Int /\ cert.not_before \in Int
    /\ cert.not_after - cert.not_before \in Lifetimes \cup {LongLived}
    /\ cert.not_before <= outNow
    /\ verified \in BOOLEAN
    /\ outCheck \in [Out!CheckType -> CheckRow]
    /\ \A t \in Out!CheckType : outCheck[t].status = "failing" <=> outCheck[t].since >= 0
    /\ \A t \in Out!CheckType : outCheck[t].since <= outNow
    /\ next \in [Out!Pairs -> Int] /\ outNow \in Nat
    /\ owned \in Int /\ owned <= outNow
    /\ broken \in [Out!CheckType -> Int]

\* broken is since when a check would fail.
BrokenInv ==
    \A t \in Out!CheckType : broken[t] <= outNow /\ (broken[t] >= 0 <=> ~Out!Outcome(t))

LEMMA FourChecks ==
    /\ "ownership" \in Out!DnsTypes /\ "routing" \in Out!DnsTypes
    /\ "certificate" \in Out!EdgeTypes /\ "origin" \in Out!EdgeTypes
    /\ Out!DnsTypes \subseteq Out!CheckType /\ Out!EdgeTypes \subseteq Out!CheckType
    /\ Out!CheckType = Out!DnsTypes \cup Out!EdgeTypes
    /\ Out!DnsTypes \cap Out!EdgeTypes = {} /\ "dns" \in Out!Pairs /\ "edge" \in Out!Pairs /\ Out!Pairs = {"dns", "edge"}
BY DEF Out!DnsTypes, Out!EdgeTypes, Out!CheckType, Out!Pairs

LEMMA Outcomes ==
    /\ Out!Outcome("ownership") <=> Out!ownership_outcome
    /\ Out!Outcome("routing") <=> Out!routing_outcome
    /\ Out!Outcome("certificate") <=> Out!certificate_outcome
    /\ Out!Outcome("origin") <=> Out!origin_outcome
BY DEF Out!Outcome

\* What the checks conclude depends on the world and the clock alone.
LEMMA SameOutcomes ==
    ASSUME UNCHANGED <<Out!world, outNow>>, NEW t \in Out!CheckType
    PROVE  Out!Outcome(t)' <=> Out!Outcome(t)
<1>1. UNCHANGED <<txt, cname, cert, edge, origin, outNow>>
  BY DEF Out!world
<1>2. Out!ownership_outcome' <=> Out!ownership_outcome
  BY <1>1 DEF Out!ownership_outcome
<1>3. Out!routing_outcome' <=> Out!routing_outcome
  BY <1>1 DEF Out!routing_outcome
<1>4. Out!certificate_outcome' <=> Out!certificate_outcome
  BY <1>1 DEF Out!certificate_outcome, Out!Expiring, Out!Warning
<1>5. Out!origin_outcome' <=> Out!origin_outcome
  BY <1>1 DEF Out!origin_outcome
<1> QED
  BY <1>2, <1>3, <1>4, <1>5 DEF Out!Outcome, Out!CheckType, Out!DnsTypes, Out!EdgeTypes

-----------------------------------------------------------------------------
(* Recording an outcome. *)

\* What record_check makes of a row.
Recorded(before, passes, r) ==
    /\ r \in CheckRow /\ r.since <= outNow
    /\ passes => r.status = "passing" /\ r.since = -1
    /\ ~passes => /\ r.status = "failing" /\ r.since >= 0
                  /\ r.since = IF before.since >= 0 THEN before.since ELSE outNow

LEMMA RecordCheck ==
    ASSUME TypeInv, NEW t \in Out!CheckType, NEW passes
    PROVE  Recorded(outCheck[t], passes, Out!record_check(outCheck[t], passes))
<1>1. /\ outCheck[t] \in CheckRow /\ outCheck[t].since \in Int /\ outCheck[t].since <= outNow
      /\ outCheck[t].attempts + 1 \in Nat /\ outNow \in Nat
  BY DEF TypeInv, CheckRow
<1>2. Len(Out!BACKOFF) = 2
  BY DEF Out!BACKOFF
<1>3. Out!Least(outCheck[t].attempts + 1, 2) \in Nat
  BY <1>1 DEF Out!Least
<1>4. CASE passes
  <2>1. Out!record_check(outCheck[t], passes) = [status |-> "passing", attempts |-> 0, since |-> -1]
    BY <1>4 DEF Out!record_check, Out!Since
  <2> DEFINE r == [status |-> "passing", attempts |-> 0, since |-> -1]
  <2>2. r \in CheckRow /\ r.status = "passing" /\ r.since = -1
    BY DEF CheckRow
  <2> HIDE DEF r
  <2>3. Recorded(outCheck[t], passes, r)
    BY <1>1, <1>4, <2>2 DEF Recorded
  <2> QED
    BY <2>1, <2>3 DEF r
<1>5. CASE ~passes
  <2> DEFINE s == IF outCheck[t].since >= 0 THEN outCheck[t].since ELSE outNow
  <2>1. Out!record_check(outCheck[t], passes) =
          [status |-> "failing", attempts |-> Out!Least(outCheck[t].attempts + 1, 2), since |-> s]
    BY <1>2, <1>5 DEF Out!record_check, Out!Since
  <2>2. s \in Int /\ s >= 0 /\ s <= outNow
    BY <1>1
  <2> QED
    BY <1>1, <1>3, <1>5, <2>1, <2>2 DEF Recorded, CheckRow
<1> QED
  BY <1>4, <1>5

\* When a check is due again.
Scheduled(passes, at) ==
    /\ at \in Int /\ at >= outNow
    /\ passes => at <= outNow + RevalidateInterval
    /\ ~passes => at <= outNow + BackoffLast

LEMMA ScheduleNext ==
    ASSUME Out!OutcomesConstants, TypeInv, NEW t \in Out!CheckType, NEW passes
    PROVE  Scheduled(passes, Out!schedule_next(outCheck[t], passes))
<1>1. outCheck[t].attempts \in Nat /\ outNow \in Nat /\ RevalidateInterval \in Nat
      /\ BackoffFirst \in Nat /\ BackoffLast \in Nat /\ BackoffFirst <= BackoffLast
  BY DEF TypeInv, CheckRow, Out!OutcomesConstants
<1>2. Out!Least(outCheck[t].attempts + 1, Len(Out!BACKOFF)) \in {1, 2}
  BY <1>1 DEF Out!Least, Out!BACKOFF
<1>3. Out!Attempt(outCheck[t].attempts + 1) \in {BackoffFirst, BackoffLast}
  BY <1>2 DEF Out!Attempt, Out!BACKOFF
<1>4. CASE passes
  BY <1>1, <1>4 DEF Out!schedule_next, Scheduled
<1>5. CASE ~passes
  <2>1. Out!schedule_next(outCheck[t], passes) = outNow + Out!Attempt(outCheck[t].attempts + 1)
    BY <1>5 DEF Out!schedule_next
  <2> QED
    BY <1>1, <1>3, <1>5, <2>1 DEF Scheduled
<1> QED
  BY <1>4, <1>5

LEMMA Due ==
    ASSUME Out!OutcomesConstants, TypeInv, NEW a \in Out!CheckType, NEW b \in Out!CheckType
    PROVE  /\ Out!DuePair(a, b) \in Int /\ Out!DuePair(a, b) >= outNow
           /\ Out!Outcome(a) \/ Out!Outcome(b) => Out!DuePair(a, b) <= outNow + RevalidateInterval
           /\ ~Out!Outcome(a) => Out!DuePair(a, b) <= outNow + BackoffLast
<1> DEFINE x == Out!schedule_next(outCheck[a], Out!Outcome(a))
           y == Out!schedule_next(outCheck[b], Out!Outcome(b))
<1>1. Scheduled(Out!Outcome(a), x) /\ Scheduled(Out!Outcome(b), y)
  BY ScheduleNext
<1>2. Out!DuePair(a, b) = Out!Least(x, y)
  BY DEF Out!DuePair
<1>3. outNow \in Nat /\ RevalidateInterval \in Nat /\ BackoffLast \in Nat
  BY DEF TypeInv, Out!OutcomesConstants
<1> HIDE DEF x, y
<1> QED
  BY <1>1, <1>2, <1>3 DEF Scheduled, Out!Least

-----------------------------------------------------------------------------
(* The initial states. *)

LEMMA TypeInit == ASSUME Out!OutcomesConstants, Out!Init PROVE TypeInv /\ BrokenInv
<1>1. /\ cert.not_before = 0 /\ cert.not_after \in Lifetimes \cup {LongLived}
  BY DEF Out!Init
<1>2. cert.not_after \in Int /\ cert.not_after - cert.not_before = cert.not_after
  BY <1>1 DEF Out!OutcomesConstants
<1>3. Out!Unchecked \in CheckRow /\ Out!Unchecked.status = "pending" /\ Out!Unchecked.since = -1
  BY DEF Out!Unchecked, CheckRow
<1>4. outCheck = [t \in Out!CheckType |-> Out!Unchecked] /\ next = [p \in Out!Pairs |-> 0] /\ outNow = 0
      /\ owned = -1 /\ verified = FALSE
      /\ broken = [t \in Out!CheckType |-> IF Out!Outcome(t) THEN -1 ELSE 0]
  BY DEF Out!Init
<1>5. TypeInv
  <2>1. cert.not_after \in Int /\ cert.not_before \in Int /\ cert.not_before <= outNow
        /\ cert.not_after - cert.not_before \in Lifetimes \cup {LongLived}
    BY <1>1, <1>2, <1>4
  <2>2. outCheck \in [Out!CheckType -> CheckRow]
        /\ \A t \in Out!CheckType : outCheck[t].status = "pending" /\ outCheck[t].since = -1
    BY <1>3, <1>4
  <2>3. broken \in [Out!CheckType -> Int] /\ next \in [Out!Pairs -> Int]
    BY <1>4
  <2>4. \A t \in Out!CheckType : /\ outCheck[t].status = "failing" <=> outCheck[t].since >= 0
                                 /\ outCheck[t].since <= outNow
    BY <1>4, <2>2
  <2>5. verified \in BOOLEAN
    BY Zenon DEF Out!Init
  <2>6. outNow = 0 /\ owned = -1
    BY <1>4
  <2>7. outNow \in Nat /\ owned \in Int /\ owned <= outNow
    BY <2>6
  <2> QED
    BY <2>1, <2>2, <2>3, <2>4, <2>5, <2>7 DEF TypeInv
<1>6. BrokenInv
  BY <1>4 DEF BrokenInv
<1> QED
  BY <1>5, <1>6

-----------------------------------------------------------------------------
(* The inductive invariant. *)

InService == outStatus \in {"ready", "attention_required"}

\* A check that is due has run: time does not pass it by. Those of the edge
\* are only run for a domain in service or about to be.
Punctual == next["dns"] >= outNow /\ (InService => next["edge"] >= outNow)

\* What the status says of the checks that led to it.
Earned ==
    /\ outStatus # "pending_dns" => verified
    /\ outStatus = "ready" => \A t \in Out!CheckType : outCheck[t].status = "passing"
    /\ InService => outCheck["ownership"].status # "pending"

\* A check that passed is repeated within an interval, and within one of the
\* moment from which it would fail.
Repeated(t, p) ==
    outCheck[t].status = "passing" =>
        /\ next[p] <= outNow + RevalidateInterval
        /\ broken[t] >= 0 => next[p] <= broken[t] + RevalidateInterval

Revalidated ==
    /\ \A t \in Out!DnsTypes : Repeated(t, "dns")
    /\ InService => \A t \in Out!EdgeTypes : Repeated(t, "edge")

\* The latest moment at which a certificate that passed is looked at again.
LookedAtBy == cert.not_after - Out!Warning(cert) + RevalidateInterval

LEMMA SameLook == ASSUME UNCHANGED cert PROVE LookedAtBy' = LookedAtBy
BY DEF LookedAtBy, Out!Warning, Out!Least

Outlasts ==
    outCheck["certificate"].status = "passing" /\ next["edge"] > outNow => next["edge"] <= LookedAtBy

\* A domain in service without its ownership record: the failure was seen
\* within an interval, and the check is repeated before the grace ends or
\* one backoff after.
InGrace ==
    InService /\ outCheck["ownership"].status = "failing" =>
        /\ broken["ownership"] >= 0 => outCheck["ownership"].since <= broken["ownership"] + RevalidateInterval
        /\ next["dns"] <= outCheck["ownership"].since + Grace + BackoffLast

\* The failures that count are those after the last pass.
SinceLastPass ==
    /\ outCheck["ownership"].since >= 0 => owned <= outCheck["ownership"].since
    /\ verified => owned >= 0

CheckInv ==
    /\ TypeInv /\ BrokenInv /\ Punctual /\ Earned
    /\ Revalidated /\ Outlasts /\ InGrace /\ SinceLastPass

LEMMA CheckInit == ASSUME Out!OutcomesConstants, Out!Init PROVE CheckInv
<1>1. TypeInv /\ BrokenInv
  BY TypeInit
<1>2. outStatus = "pending_dns" /\ ~verified /\ outNow = 0
  BY DEF Out!Init
<1>3. next["dns"] = 0
  BY FourChecks DEF Out!Init
<1>4. \A t \in Out!CheckType : outCheck[t].status = "pending" /\ outCheck[t].since = -1
  BY DEF Out!Init, Out!Unchecked
<1>5. Punctual /\ Earned
  BY <1>2, <1>3 DEF Punctual, Earned, InService
<1>6. Revalidated /\ Outlasts /\ InGrace
  BY <1>2, <1>4, FourChecks DEF Revalidated, Repeated, Outlasts, InGrace, InService
<1>7. SinceLastPass
  BY <1>2, <1>4, FourChecks DEF SinceLastPass
<1> QED
  BY <1>1, <1>5, <1>6, <1>7 DEF CheckInv

-----------------------------------------------------------------------------
(* The DNS checks. *)

\* What apply_dns_outcomes may do to the status.
LEMMA StatusAfterDns ==
    ASSUME NEW recorded, NEW s, s = Out!AfterDns(recorded)
    PROVE  /\ s \in {"ready", "attention_required"} => InService
           /\ s = "ready" => /\ Out!ownership_outcome /\ Out!routing_outcome
                             /\ \/ outStatus = "ready"
                                \/ \A t \in Out!CheckType : recorded[t].status = "passing"
           /\ s # "pending_dns" => outStatus # "pending_dns" \/ (Out!ownership_outcome /\ Out!routing_outcome)
           /\ s \in {"ready", "attention_required"} /\ ~Out!ownership_outcome
                => ~(verified /\ outNow - recorded["ownership"].since >= Grace)
           /\ s = "suspended" /\ outStatus # "suspended"
                => ~Out!ownership_outcome /\ verified /\ outNow - recorded["ownership"].since >= Grace
<1> DEFINE both == Out!ownership_outcome /\ Out!routing_outcome
           found == IF outStatus = "ready" /\ ~both THEN "attention_required" ELSE outStatus
           missed == ~Out!ownership_outcome /\ verified /\ outNow - recorded["ownership"].since >= Grace
           passing == \A t \in Out!CheckType : recorded[t].status = "passing"
<1>1. CASE both
  <2>1. s = CASE outStatus \in {"pending_dns", "suspended"} -> "provisioning"
              [] outStatus = "attention_required" /\ passing -> "ready"
              [] OTHER -> outStatus
    BY <1>1 DEF Out!AfterDns
  <2>2. CASE outStatus \in {"pending_dns", "suspended"}
    BY <1>1, <2>1, <2>2
  <2>3. CASE outStatus = "attention_required" /\ passing
    <3>1. s = "ready"
      BY <2>1, <2>3
    <3> QED
      BY <1>1, <2>3, <3>1 DEF InService
  <2>4. CASE ~(outStatus \in {"pending_dns", "suspended"}) /\ ~(outStatus = "attention_required" /\ passing)
    <3>1. s = outStatus
      BY <2>1, <2>4
    <3> QED
      BY <1>1, <2>4, <3>1 DEF InService
  <2> QED
    BY <2>2, <2>3, <2>4
<1>2. CASE ~both
  <2>1. s = CASE found = "provisioning" -> "pending_dns"
              [] found = "attention_required" /\ missed -> "suspended"
              [] OTHER -> found
    BY <1>2 DEF Out!AfterDns
  <2>2. CASE found = "provisioning"
    BY <1>2, <2>1, <2>2
  <2>3. CASE found = "attention_required" /\ missed
    <3>1. s = "suspended"
      BY <2>1, <2>3
    <3>2. outStatus # "pending_dns"
      BY <2>3
    <3> QED
      BY <1>2, <2>3, <3>1, <3>2
  <2>4. CASE found # "provisioning" /\ ~(found = "attention_required" /\ missed)
    <3>1. s = found
      BY <2>1, <2>4
    <3>2. s # "ready" /\ (s = "suspended" => outStatus = "suspended")
          /\ (s # "pending_dns" => outStatus # "pending_dns")
          /\ (s \in {"ready", "attention_required"} => s = "attention_required" /\ InService)
      BY <1>2, <3>1 DEF InService
    <3> QED
      BY <1>2, <2>4, <3>1, <3>2
  <2> QED
    BY <2>2, <2>3, <2>4
<1> QED
  BY <1>1, <1>2

\* The rows and the due times that apply_dns_outcomes leaves.
LEMMA DnsRows ==
    ASSUME Out!OutcomesConstants, CheckInv, Out!apply_dns_outcomes
    PROVE  /\ next["dns"] = outNow
           /\ outCheck' \in [Out!CheckType -> CheckRow] /\ next' \in [Out!Pairs -> Int]
           /\ \A t \in Out!DnsTypes : Recorded(outCheck[t], Out!Outcome(t), outCheck'[t])
           /\ \A t \in Out!EdgeTypes : outCheck'[t] = outCheck[t]
           /\ next'["dns"] = Out!DuePair("ownership", "routing")
           /\ next'["edge"] = IF outStatus' # outStatus THEN outNow ELSE next["edge"]
<1>1. TypeInv /\ Punctual /\ next["dns"] <= outNow /\ next \in [Out!Pairs -> Int] /\ outNow \in Nat
  BY DEF CheckInv, TypeInv, Out!apply_dns_outcomes
<1>2. next["dns"] = outNow
  BY <1>1, FourChecks DEF Punctual
<1>3. outCheck' = [t \in Out!CheckType |->
                     IF t \in Out!DnsTypes THEN Out!record_check(outCheck[t], Out!Outcome(t)) ELSE outCheck[t]]
  BY DEF Out!apply_dns_outcomes
<1>4. \A t \in Out!DnsTypes : outCheck'[t] = Out!record_check(outCheck[t], Out!Outcome(t))
  BY <1>3, FourChecks
<1>5. \A t \in Out!DnsTypes : Recorded(outCheck[t], Out!Outcome(t), outCheck'[t])
  <2> TAKE t \in Out!DnsTypes
  <2>1. t \in Out!CheckType
    BY FourChecks
  <2>2. Recorded(outCheck[t], Out!Outcome(t), Out!record_check(outCheck[t], Out!Outcome(t)))
    BY <1>1, <2>1, RecordCheck
  <2> QED
    BY <1>4, <2>2
<1>6. \A t \in Out!EdgeTypes : outCheck'[t] = outCheck[t]
  BY <1>3, FourChecks
<1>7. outCheck' \in [Out!CheckType -> CheckRow]
  <2>1. \A t \in Out!CheckType : outCheck'[t] \in CheckRow
    <3> TAKE t \in Out!CheckType
    <3>1. CASE t \in Out!DnsTypes
      BY <1>5, <3>1 DEF Recorded
    <3>2. CASE t \in Out!EdgeTypes
      BY <1>1, <1>6, <3>2 DEF TypeInv
    <3> QED
      BY <3>1, <3>2, FourChecks
  <2> QED
    BY <1>3, <2>1
<1>8. next' = [next EXCEPT !["dns"] = Out!DuePair("ownership", "routing"),
                           !["edge"] = IF outStatus' # outStatus THEN outNow ELSE next["edge"]]
  BY <1>1, FourChecks DEF Out!apply_dns_outcomes
<1>9. Out!DuePair("ownership", "routing") \in Int
  BY <1>1, Due, FourChecks
<1>10. (IF outStatus' # outStatus THEN outNow ELSE next["edge"]) \in Int
  BY <1>1, FourChecks
<1>11. /\ next' \in [Out!Pairs -> Int]
       /\ next'["dns"] = Out!DuePair("ownership", "routing")
       /\ next'["edge"] = IF outStatus' # outStatus THEN outNow ELSE next["edge"]
  BY <1>1, <1>8, <1>9, <1>10, FourChecks
<1> QED
  BY <1>2, <1>5, <1>6, <1>7, <1>11

LEMMA CheckDns ==
    ASSUME Out!OutcomesConstants, CheckInv, Out!apply_dns_outcomes
    PROVE  CheckInv'
<1> DEFINE own == outCheck["ownership"]  own2 == outCheck'["ownership"]
<1>1. TypeInv /\ BrokenInv /\ Punctual /\ Earned /\ Revalidated /\ Outlasts /\ InGrace /\ SinceLastPass
  BY DEF CheckInv
<1>2. /\ next["dns"] = outNow
      /\ outCheck' \in [Out!CheckType -> CheckRow] /\ next' \in [Out!Pairs -> Int]
      /\ \A t \in Out!DnsTypes : Recorded(outCheck[t], Out!Outcome(t), outCheck'[t])
      /\ \A t \in Out!EdgeTypes : outCheck'[t] = outCheck[t]
      /\ next'["dns"] = Out!DuePair("ownership", "routing")
      /\ next'["edge"] = IF outStatus' # outStatus THEN outNow ELSE next["edge"]
  BY DnsRows
<1>3. /\ UNCHANGED <<subject, Out!world, outNow, outChanges, broken>> /\ UNCHANGED <<Out!world, outNow>>
      /\ UNCHANGED cert
      /\ owned' = IF Out!ownership_outcome THEN outNow ELSE owned
      /\ verified' = (verified \/ (Out!ownership_outcome /\ Out!routing_outcome))
      /\ outStatus' = Out!AfterDns(outCheck')
  BY DEF Out!apply_dns_outcomes, Out!world
<1>4. /\ InService' => InService
      /\ outStatus' = "ready" => /\ Out!ownership_outcome /\ Out!routing_outcome
                                 /\ \/ outStatus = "ready"
                                    \/ \A t \in Out!CheckType : outCheck'[t].status = "passing"
      /\ outStatus' # "pending_dns" => outStatus # "pending_dns" \/ (Out!ownership_outcome /\ Out!routing_outcome)
      /\ InService' /\ ~Out!ownership_outcome => ~(verified /\ outNow - own2.since >= Grace)
  BY <1>3, StatusAfterDns DEF InService
<1>5. /\ outNow \in Nat /\ owned \in Int /\ owned <= outNow /\ RevalidateInterval \in Nat
      /\ Grace \in Nat /\ BackoffLast \in Nat
      /\ outCheck \in [Out!CheckType -> CheckRow] /\ next \in [Out!Pairs -> Int] /\ broken \in [Out!CheckType -> Int]
  BY <1>1 DEF TypeInv, Out!OutcomesConstants
<1>6. /\ Out!DuePair("ownership", "routing") \in Int /\ Out!DuePair("ownership", "routing") >= outNow
      /\ Out!Outcome("ownership") \/ Out!Outcome("routing") => Out!DuePair("ownership", "routing") <= outNow + RevalidateInterval
      /\ ~Out!Outcome("ownership") => Out!DuePair("ownership", "routing") <= outNow + BackoffLast
  BY <1>1, Due, FourChecks
<1>7. Recorded(own, Out!ownership_outcome, own2) /\ own \in CheckRow
  <2>1. Recorded(outCheck["ownership"], Out!Outcome("ownership"), outCheck'["ownership"])
    BY <1>2, FourChecks
  <2>2. own \in CheckRow
    BY <1>5, FourChecks
  <2> QED
    BY <2>1, <2>2, Outcomes DEF Recorded
<1>8. TypeInv'
  <2>1. \A t \in Out!CheckType : /\ outCheck'[t].status = "failing" <=> outCheck'[t].since >= 0
                                 /\ outCheck'[t].since <= outNow
    <3> TAKE t \in Out!CheckType
    <3>1. CASE t \in Out!DnsTypes
      BY <1>2, <1>5, <3>1 DEF Recorded
    <3>2. CASE t \in Out!EdgeTypes
      BY <1>1, <1>2, <3>2 DEF TypeInv
    <3> QED
      BY <3>1, <3>2, FourChecks
  <2>2. owned' \in Int /\ owned' <= outNow
    BY <1>3, <1>5
  <2>3. verified' \in BOOLEAN
    BY <1>3
  <2>4. UNCHANGED <<cert, outNow, broken>>
    BY <1>3
  <2>5. /\ cert.not_after \in Int /\ cert.not_before \in Int /\ cert.not_before <= outNow
        /\ cert.not_after - cert.not_before \in Lifetimes \cup {LongLived}
    BY <1>1 DEF TypeInv
  <2>6. /\ cert'.not_after \in Int /\ cert'.not_before \in Int /\ cert'.not_before <= outNow'
        /\ cert'.not_after - cert'.not_before \in Lifetimes \cup {LongLived}
    BY <2>4, <2>5
  <2>7. /\ \A t \in Out!CheckType : outCheck'[t].status = "failing" <=> outCheck'[t].since >= 0
        /\ \A t \in Out!CheckType : outCheck'[t].since <= outNow'
    BY <2>1, <2>4
  <2>8. outNow' \in Nat /\ owned' <= outNow' /\ broken' \in [Out!CheckType -> Int]
    BY <1>5, <2>2, <2>4
  <2> QED
    BY <1>2, <2>2, <2>3, <2>6, <2>7, <2>8, Zenon DEF TypeInv
<1>9. BrokenInv'
  BY <1>1, <1>3, SameOutcomes DEF BrokenInv
<1>10. Punctual'
  <2>1. next'["dns"] >= outNow
    BY <1>2, <1>6
  <2>2. InService' => next'["edge"] >= outNow
    BY <1>1, <1>2, <1>4, <1>5 DEF Punctual
  <2> QED
    BY <1>3, <2>1, <2>2 DEF Punctual
<1>11. Earned'
  <2>1. outStatus' # "pending_dns" => verified'
    BY <1>1, <1>3, <1>4 DEF Earned
  <2>2. ASSUME outStatus' = "ready" PROVE \A t \in Out!CheckType : outCheck'[t].status = "passing"
    <3>1. CASE outStatus = "ready"
      <4>1. \A t \in Out!EdgeTypes : outCheck'[t].status = "passing"
        BY <1>1, <1>2, <3>1, FourChecks DEF Earned
      <4>2. \A t \in Out!DnsTypes : Out!Outcome(t)
        BY <1>4, <2>2, Outcomes DEF Out!DnsTypes
      <4>3. \A t \in Out!DnsTypes : outCheck'[t].status = "passing"
        BY <1>2, <4>2 DEF Recorded
      <4> QED
        BY <4>1, <4>3, FourChecks
    <3> QED
      BY <1>4, <2>2, <3>1
  <2>3. own2.status # "pending"
    BY <1>7 DEF Recorded
  <2> QED
    BY <2>1, <2>2, <2>3 DEF Earned
<1>12. Revalidated'
  <2>1. \A t \in Out!DnsTypes : Repeated(t, "dns")'
    <3> TAKE t \in Out!DnsTypes
    <3>1. ASSUME outCheck'[t].status = "passing" PROVE Out!Outcome(t)
      BY <1>2, <3>1 DEF Recorded
    <3>2. ASSUME Out!Outcome(t)
          PROVE  next'["dns"] <= outNow + RevalidateInterval /\ ~(broken[t] >= 0)
      <4>1. Out!Outcome("ownership") \/ Out!Outcome("routing")
        BY <3>2 DEF Out!DnsTypes
      <4> QED
        BY <1>1, <1>2, <1>6, <3>2, <4>1, FourChecks DEF BrokenInv
    <3> QED
      BY <1>3, <3>1, <3>2 DEF Repeated
  <2>2. ASSUME InService', NEW t \in Out!EdgeTypes PROVE Repeated(t, "edge")'
    <3>1. Repeated(t, "edge") /\ next["edge"] >= outNow /\ outCheck'[t] = outCheck[t]
      BY <1>1, <1>2, <1>4, <2>2 DEF Revalidated, Punctual
    <3>2. next["edge"] \in Int /\ broken[t] \in Int /\ (next'["edge"] = outNow \/ next'["edge"] = next["edge"])
      BY <1>2, <1>5, FourChecks
    <3> QED
      BY <1>3, <1>5, <3>1, <3>2 DEF Repeated
  <2> QED
    BY <2>1, <2>2 DEF Revalidated
<1>13. Outlasts'
  <2>1. outCheck'["certificate"] = outCheck["certificate"]
    BY <1>2, FourChecks
  <2>2. next'["edge"] > outNow => next'["edge"] = next["edge"]
    BY <1>2, <1>5
  <2> QED
    BY <1>1, <1>3, <2>1, <2>2, SameLook DEF Outlasts
<1>14. InGrace'
  <2> SUFFICES ASSUME InService', own2.status = "failing"
               PROVE  /\ broken["ownership"] >= 0
                           => own2.since <= broken["ownership"] + RevalidateInterval
                      /\ next'["dns"] <= own2.since + Grace + BackoffLast
    BY <1>3 DEF InGrace
  <2>1. ~Out!ownership_outcome /\ InService /\ verified
    BY <1>1, <1>4, <1>7 DEF Recorded, Earned, InService
  <2>2. own2.since \in Int /\ own.since \in Int /\ broken["ownership"] \in Int
    BY <1>5, <1>7, FourChecks DEF Recorded, CheckRow
  <2>3. next'["dns"] <= own2.since + Grace + BackoffLast
    <3>1. ~(outNow - own2.since >= Grace)
      BY <1>4, <2>1
    <3>2. next'["dns"] \in Int /\ next'["dns"] <= outNow + BackoffLast
      BY <1>2, <1>6, <2>1, Outcomes
    <3> QED
      BY <1>5, <2>2, <3>1, <3>2
  <2>4. ASSUME broken["ownership"] >= 0
        PROVE  own2.since <= broken["ownership"] + RevalidateInterval
    <3>1. CASE own.since >= 0
      <4>1. own.status = "failing" /\ own2.since = own.since
        BY <1>1, <1>7, <2>1, <3>1, FourChecks DEF TypeInv, Recorded
      <4> QED
        BY <1>1, <2>1, <2>4, <4>1 DEF InGrace
    <3>2. CASE ~(own.since >= 0)
      <4>1. own.status = "passing" /\ own2.since = outNow
        BY <1>1, <1>7, <2>1, <3>2, FourChecks DEF TypeInv, Recorded, CheckRow, Earned
      <4>2. next["dns"] <= broken["ownership"] + RevalidateInterval
        BY <1>1, <2>4, <4>1, FourChecks DEF Revalidated, Repeated
      <4> QED
        BY <1>2, <4>1, <4>2
    <3> QED
      BY <3>1, <3>2
  <2> QED
    BY <2>3, <2>4
<1>15. SinceLastPass'
  <2>1. own2.since >= 0 => owned' <= own2.since
    BY <1>1, <1>3, <1>5, <1>7 DEF Recorded, SinceLastPass, CheckRow
  <2>2. verified' => owned' >= 0
    <3>1. verified' => verified \/ Out!ownership_outcome
      BY <1>3, Zenon
    <3>2. verified => owned >= 0
      BY <1>1 DEF SinceLastPass
    <3>3. owned' = IF Out!ownership_outcome THEN outNow ELSE owned
      BY <1>3
    <3>4. owned' = outNow \/ owned' = owned
      BY <3>3
    <3>5. Out!ownership_outcome => owned' >= 0
      BY <1>5, <3>3
    <3>6. verified => owned' >= 0
      BY <1>5, <3>2, <3>4
    <3> QED
      BY <3>1, <3>5, <3>6, Zenon
  <2> QED
    BY <2>1, <2>2 DEF SinceLastPass
<1> QED
  BY <1>8, <1>9, <1>10, <1>11, <1>12, <1>13, <1>14, <1>15 DEF CheckInv

-----------------------------------------------------------------------------
(* The edge checks. *)

LEMMA WarningType ==
    ASSUME Out!OutcomesConstants, NEW l \in Lifetimes \cup {LongLived}
    PROVE  /\ l \in Nat /\ l \div 3 \in Nat /\ l \div 3 <= l
           /\ Out!Least(ExpiryWarning, l \div 3) \in Nat
           /\ Out!Least(ExpiryWarning, l \div 3) <= l
<1>1. l \in Nat /\ ExpiryWarning \in Nat
  BY DEF Out!OutcomesConstants
<1>2. l \div 3 \in Nat /\ l \div 3 <= l
  BY <1>1
<1> QED
  BY <1>1, <1>2 DEF Out!Least

LEMMA LookedAtType ==
    ASSUME Out!OutcomesConstants, TypeInv
    PROVE  Out!Warning(cert) \in Nat /\ LookedAtBy \in Int
<1>1. Out!Warning(cert) \in Nat
  BY WarningType DEF TypeInv, Out!Warning
<1> QED
  BY <1>1 DEF TypeInv, LookedAtBy, Out!OutcomesConstants

\* A certificate that passes is looked at again within an interval.
LEMMA PassingOutlasts ==
    ASSUME Out!OutcomesConstants, TypeInv, Out!certificate_outcome
    PROVE  outNow + RevalidateInterval <= LookedAtBy
<1>1. /\ cert.not_after \in Int /\ outNow \in Nat /\ RevalidateInterval \in Nat
      /\ Out!Warning(cert) \in Nat
  BY LookedAtType DEF TypeInv, Out!OutcomesConstants
<1>2. ~(cert.not_after - outNow < Out!Warning(cert))
  BY DEF Out!certificate_outcome, Out!Expiring
<1> QED
  BY <1>1, <1>2 DEF LookedAtBy

\* The rows and the due times that apply_edge_outcomes leaves.
LEMMA EdgeRows ==
    ASSUME Out!OutcomesConstants, CheckInv, Out!apply_edge_outcomes
    PROVE  /\ outCheck' \in [Out!CheckType -> CheckRow] /\ next' \in [Out!Pairs -> Int]
           /\ \A t \in Out!EdgeTypes : Recorded(outCheck[t], Out!Outcome(t), outCheck'[t])
           /\ \A t \in Out!DnsTypes : outCheck'[t] = outCheck[t]
           /\ next'["edge"] = Out!DuePair("certificate", "origin")
           /\ next'["dns"] = next["dns"]
<1>1. TypeInv /\ next \in [Out!Pairs -> Int]
  BY DEF CheckInv, TypeInv
<1>3. outCheck' = [t \in Out!CheckType |->
                     IF t \in Out!EdgeTypes THEN Out!record_check(outCheck[t], Out!Outcome(t)) ELSE outCheck[t]]
  BY DEF Out!apply_edge_outcomes
<1>4. \A t \in Out!EdgeTypes : outCheck'[t] = Out!record_check(outCheck[t], Out!Outcome(t))
  BY <1>3, FourChecks
<1>5. \A t \in Out!EdgeTypes : Recorded(outCheck[t], Out!Outcome(t), outCheck'[t])
  <2> TAKE t \in Out!EdgeTypes
  <2>1. t \in Out!CheckType
    BY FourChecks
  <2>2. Recorded(outCheck[t], Out!Outcome(t), Out!record_check(outCheck[t], Out!Outcome(t)))
    BY <1>1, <2>1, RecordCheck
  <2> QED
    BY <1>4, <2>2
<1>6. \A t \in Out!DnsTypes : outCheck'[t] = outCheck[t]
  BY <1>3, FourChecks
<1>7. outCheck' \in [Out!CheckType -> CheckRow]
  <2>1. \A t \in Out!CheckType : outCheck'[t] \in CheckRow
    <3> TAKE t \in Out!CheckType
    <3>1. CASE t \in Out!EdgeTypes
      BY <1>5, <3>1 DEF Recorded
    <3>2. CASE t \in Out!DnsTypes
      BY <1>1, <1>6, <3>2 DEF TypeInv
    <3> QED
      BY <3>1, <3>2, FourChecks
  <2> QED
    BY <1>3, <2>1
<1>8. next' = [next EXCEPT !["edge"] = Out!DuePair("certificate", "origin")]
  BY DEF Out!apply_edge_outcomes
<1>9. Out!DuePair("certificate", "origin") \in Int
  BY <1>1, Due, FourChecks
<1>10. /\ next' \in [Out!Pairs -> Int]
       /\ next'["edge"] = Out!DuePair("certificate", "origin")
       /\ next'["dns"] = next["dns"]
  BY <1>1, <1>8, <1>9, FourChecks
<1> QED
  BY <1>5, <1>6, <1>7, <1>10

\* What apply_edge_outcomes may do to the status.
LEMMA StatusAfterEdge ==
    ASSUME Out!apply_edge_outcomes
    PROVE  /\ outStatus' = "ready" => \/ \A t \in Out!CheckType : outCheck'[t].status = "passing"
                                      \/ outStatus = "ready" /\ Out!certificate_outcome /\ Out!origin_outcome
           /\ InService' => InService \/ \A t \in Out!CheckType : outCheck'[t].status = "passing"
           /\ outStatus' = outStatus \/ outStatus' \in {"ready", "attention_required"}
           /\ outStatus # "pending_dns" /\ outStatus # "suspended" /\ verified
<1> DEFINE passing == \A t \in Out!CheckType : outCheck'[t].status = "passing"
           found == IF outStatus = "ready" /\ ~(Out!certificate_outcome /\ Out!origin_outcome)
                    THEN "attention_required" ELSE outStatus
<1>1. outStatus' = IF found \in {"provisioning", "attention_required"} /\ passing THEN "ready" ELSE found
  BY DEF Out!apply_edge_outcomes
<1>2. outStatus # "pending_dns" /\ outStatus # "suspended" /\ verified
  BY DEF Out!apply_edge_outcomes, Out!certificate_authorized
<1>3. CASE found \in {"provisioning", "attention_required"} /\ passing
  BY <1>1, <1>2, <1>3
<1>4. CASE ~(found \in {"provisioning", "attention_required"} /\ passing)
  <2>1. outStatus' = found
    BY <1>1, <1>4
  <2> QED
    BY <1>2, <2>1 DEF InService
<1> QED
  BY <1>3, <1>4

LEMMA CheckEdge ==
    ASSUME Out!OutcomesConstants, CheckInv, Out!apply_edge_outcomes
    PROVE  CheckInv'
<1>1. TypeInv /\ BrokenInv /\ Punctual /\ Earned /\ Revalidated /\ Outlasts /\ InGrace /\ SinceLastPass
  BY DEF CheckInv
<1>2. /\ outCheck' \in [Out!CheckType -> CheckRow] /\ next' \in [Out!Pairs -> Int]
      /\ \A t \in Out!EdgeTypes : Recorded(outCheck[t], Out!Outcome(t), outCheck'[t])
      /\ \A t \in Out!DnsTypes : outCheck'[t] = outCheck[t]
      /\ next'["edge"] = Out!DuePair("certificate", "origin")
      /\ next'["dns"] = next["dns"]
  BY EdgeRows
<1>3. /\ UNCHANGED <<Out!world, outNow>> /\ UNCHANGED <<cert, verified, owned, broken>>
      /\ next["dns"] > outNow
  BY DEF Out!apply_edge_outcomes, Out!world
<1>4. /\ outStatus' = "ready" => \/ \A t \in Out!CheckType : outCheck'[t].status = "passing"
                                 \/ outStatus = "ready" /\ Out!certificate_outcome /\ Out!origin_outcome
      /\ InService' => InService \/ \A t \in Out!CheckType : outCheck'[t].status = "passing"
      /\ verified
  BY StatusAfterEdge
<1>5. /\ outNow \in Nat /\ owned \in Int /\ owned <= outNow /\ RevalidateInterval \in Nat
      /\ outCheck \in [Out!CheckType -> CheckRow] /\ next \in [Out!Pairs -> Int] /\ broken \in [Out!CheckType -> Int]
      /\ cert.not_after \in Int
  BY <1>1 DEF TypeInv, Out!OutcomesConstants
<1>6. /\ Out!DuePair("certificate", "origin") \in Int /\ Out!DuePair("certificate", "origin") >= outNow
      /\ Out!Outcome("certificate") \/ Out!Outcome("origin")
           => Out!DuePair("certificate", "origin") <= outNow + RevalidateInterval
  BY <1>1, Due, FourChecks
<1>7. outCheck'["ownership"] = outCheck["ownership"]
  BY <1>2, FourChecks
<1>8. TypeInv'
  <2>1. \A t \in Out!CheckType : /\ outCheck'[t].status = "failing" <=> outCheck'[t].since >= 0
                                 /\ outCheck'[t].since <= outNow
    <3> TAKE t \in Out!CheckType
    <3>1. CASE t \in Out!EdgeTypes
      BY <1>2, <1>5, <3>1 DEF Recorded
    <3>2. CASE t \in Out!DnsTypes
      BY <1>1, <1>2, <3>2 DEF TypeInv
    <3> QED
      BY <3>1, <3>2, FourChecks
  <2>2. verified' \in BOOLEAN
    BY <1>1, <1>3 DEF TypeInv
  <2>3. UNCHANGED <<cert, outNow, owned, broken>>
    BY <1>3
  <2> QED
    BY <1>1, <1>2, <2>1, <2>2, <2>3 DEF TypeInv
<1>9. BrokenInv'
  BY <1>1, <1>3, SameOutcomes DEF BrokenInv
<1>10. Punctual'
  BY <1>1, <1>2, <1>3, <1>6 DEF Punctual
<1>11. Earned'
  <2>1. verified'
    BY <1>3, <1>4
  <2>2. ASSUME outStatus' = "ready" PROVE \A t \in Out!CheckType : outCheck'[t].status = "passing"
    <3>1. CASE outStatus = "ready" /\ Out!certificate_outcome /\ Out!origin_outcome
      <4>1. \A t \in Out!DnsTypes : outCheck'[t].status = "passing"
        BY <1>1, <1>2, <3>1, FourChecks DEF Earned
      <4>2. \A t \in Out!EdgeTypes : Out!Outcome(t)
        BY <3>1, Outcomes DEF Out!EdgeTypes
      <4>3. \A t \in Out!EdgeTypes : outCheck'[t].status = "passing"
        BY <1>2, <4>2 DEF Recorded
      <4> QED
        BY <4>1, <4>3, FourChecks
    <3> QED
      BY <1>4, <2>2, <3>1
  <2>3. InService' => outCheck'["ownership"].status # "pending"
    BY <1>1, <1>4, <1>7, FourChecks DEF Earned
  <2> QED
    BY <2>1, <2>2, <2>3 DEF Earned
<1>12. Revalidated'
  <2>1. \A t \in Out!DnsTypes : Repeated(t, "dns")'
    BY <1>1, <1>2, <1>3 DEF Revalidated, Repeated
  <2>2. \A t \in Out!EdgeTypes : Repeated(t, "edge")'
    <3> TAKE t \in Out!EdgeTypes
    <3>1. ASSUME outCheck'[t].status = "passing" PROVE Out!Outcome(t)
      BY <1>2, <3>1 DEF Recorded
    <3>2. ASSUME Out!Outcome(t)
          PROVE  next'["edge"] <= outNow + RevalidateInterval /\ ~(broken[t] >= 0)
      <4>1. Out!Outcome("certificate") \/ Out!Outcome("origin")
        BY <3>2 DEF Out!EdgeTypes
      <4> QED
        BY <1>1, <1>2, <1>6, <3>2, <4>1, FourChecks DEF BrokenInv
    <3> QED
      BY <1>3, <3>1, <3>2 DEF Repeated
  <2> QED
    BY <2>1, <2>2 DEF Revalidated
<1>13. Outlasts'
  <2>1. ASSUME outCheck'["certificate"].status = "passing" PROVE next'["edge"] <= LookedAtBy
    <3>1. Out!Outcome("certificate")
      BY <1>2, <2>1, FourChecks DEF Recorded
    <3>2. outNow + RevalidateInterval <= LookedAtBy /\ LookedAtBy \in Int
      BY <1>1, <3>1, Outcomes, PassingOutlasts, LookedAtType
    <3>3. next'["edge"] \in Int /\ next'["edge"] <= outNow + RevalidateInterval
      BY <1>2, <1>6, <3>1
    <3> QED
      BY <1>5, <3>2, <3>3
  <2> QED
    BY <1>3, <2>1, SameLook DEF Outlasts
<1>14. InGrace'
  <2>1. InService' /\ outCheck["ownership"].status = "failing" => InService
    BY <1>4, <1>7, FourChecks
  <2> QED
    BY <1>1, <1>2, <1>3, <1>7, <2>1 DEF InGrace
<1>15. SinceLastPass'
  <2>1. UNCHANGED owned /\ (verified' => verified)
    BY <1>3
  <2>2. /\ outCheck["ownership"].since >= 0 => owned <= outCheck["ownership"].since
        /\ verified => owned >= 0
    BY <1>1 DEF SinceLastPass
  <2> QED
    BY <1>7, <2>1, <2>2 DEF SinceLastPass
<1> QED
  BY <1>8, <1>9, <1>10, <1>11, <1>12, <1>13, <1>14, <1>15 DEF CheckInv

-----------------------------------------------------------------------------
(* The world and the clock. *)

\* The certificate may be replaced by one that lasts longer.
Renewed ==
    /\ cert'.not_after \in Int /\ cert'.not_before \in Int
    /\ cert'.not_after - cert'.not_before \in Lifetimes \cup {LongLived}
    /\ cert'.not_before <= outNow'
    /\ LookedAtBy' \in Int /\ LookedAtBy' >= LookedAtBy

LEMMA WorldMoves ==
    ASSUME Out!OutcomesConstants, CheckInv, UNCHANGED <<Out!row, owned>>, broken' = Out!StillBroken, Renewed,
           outNow' \in {outNow, outNow + 1},
           outNow' # outNow => next["dns"] > outNow /\ (InService => next["edge"] > outNow)
    PROVE  CheckInv'
<1>1. TypeInv /\ BrokenInv /\ Punctual /\ Earned /\ Revalidated /\ Outlasts /\ InGrace /\ SinceLastPass
  BY DEF CheckInv
<1>2. UNCHANGED <<outStatus, verified, outCheck, next, owned>> /\ (InService' <=> InService)
  BY DEF Out!row, InService
<1>3. /\ outNow \in Nat /\ owned \in Int /\ owned <= outNow /\ RevalidateInterval \in Nat
      /\ outCheck \in [Out!CheckType -> CheckRow] /\ next \in [Out!Pairs -> Int] /\ broken \in [Out!CheckType -> Int]
      /\ cert.not_after \in Int /\ next["dns"] \in Int /\ next["edge"] \in Int
  BY <1>1, FourChecks DEF TypeInv, Out!OutcomesConstants
<1>4. outNow' \in Nat /\ outNow' >= outNow
  BY <1>3
<1>5. \A t \in Out!CheckType : broken'[t] = IF Out!Outcome(t)' THEN -1 ELSE IF broken[t] < 0 THEN outNow' ELSE broken[t]
  BY DEF Out!StillBroken
<1>6. \A t \in Out!CheckType : /\ broken'[t] \in Int /\ broken'[t] <= outNow'
                               /\ broken'[t] >= 0 => (broken'[t] = outNow' \/ broken'[t] = broken[t])
                               /\ broken'[t] >= 0 <=> ~Out!Outcome(t)'
  <2> TAKE t \in Out!CheckType
  <2>1. broken[t] \in Int /\ broken[t] <= outNow
    BY <1>1, <1>3 DEF BrokenInv
  <2>2. CASE Out!Outcome(t)'
    BY <1>4, <1>5, <2>2
  <2>3. CASE ~Out!Outcome(t)'
    BY <1>3, <1>4, <1>5, <2>1, <2>3
  <2> QED
    BY <2>2, <2>3
<1>7. TypeInv'
  <2>1. broken' \in [Out!CheckType -> Int]
    <3>1. broken' = [t \in Out!CheckType |-> IF Out!Outcome(t)' THEN -1 ELSE IF broken[t] < 0 THEN outNow' ELSE broken[t]]
      BY DEF Out!StillBroken
    <3> QED
      BY <1>6, <3>1
  <2>2. verified' \in BOOLEAN
    BY <1>1, <1>2 DEF TypeInv
  <2>3. \A t \in Out!CheckType : outCheck[t].since \in Int
    BY <1>3 DEF CheckRow
  <2>4. /\ \A t \in Out!CheckType : outCheck'[t].status = "failing" <=> outCheck'[t].since >= 0
        /\ \A t \in Out!CheckType : outCheck'[t].since <= outNow'
    BY <1>1, <1>2, <1>3, <1>4, <2>3 DEF TypeInv
  <2>5. /\ outCheck' \in [Out!CheckType -> CheckRow] /\ next' \in [Out!Pairs -> Int]
        /\ owned' \in Int /\ owned' <= outNow'
    BY <1>2, <1>3, <1>4
  <2> QED
    BY <1>4, <2>1, <2>2, <2>4, <2>5, Zenon DEF TypeInv, Renewed
<1>8. BrokenInv'
  BY <1>6 DEF BrokenInv
<1>9. Punctual'
  BY <1>1, <1>2, <1>3 DEF Punctual
<1>10. Earned'
  <2>1. outStatus # "pending_dns" => verified
    BY <1>1 DEF Earned
  <2>2. outStatus' # "pending_dns" => verified'
    BY <1>2, <2>1
  <2>3. /\ outStatus' = "ready" => \A t \in Out!CheckType : outCheck'[t].status = "passing"
        /\ InService' => outCheck'["ownership"].status # "pending"
    BY <1>1, <1>2 DEF Earned
  <2> QED
    BY <2>2, <2>3 DEF Earned
<1>11. ASSUME NEW t \in Out!CheckType, NEW p \in Out!Pairs, Repeated(t, p), next[p] >= outNow
       PROVE  Repeated(t, p)'
  <2>1. next[p] \in Int /\ broken[t] \in Int
    BY <1>3
  <2> SUFFICES ASSUME outCheck[t].status = "passing"
               PROVE  /\ next[p] <= outNow' + RevalidateInterval
                      /\ broken'[t] >= 0 => next[p] <= broken'[t] + RevalidateInterval
    BY <1>2 DEF Repeated
  <2>2. /\ next[p] <= outNow + RevalidateInterval
        /\ broken[t] >= 0 => next[p] <= broken[t] + RevalidateInterval
    BY <1>11 DEF Repeated
  <2>3. next[p] <= outNow' + RevalidateInterval
    BY <1>3, <1>4, <2>1, <2>2
  <2> QED
    BY <1>6, <2>2, <2>3
<1>12. Revalidated'
  <2>1. \A t \in Out!DnsTypes : Repeated(t, "dns")'
    BY <1>1, <1>11, FourChecks DEF Revalidated, Punctual
  <2>2. ASSUME InService, NEW t \in Out!EdgeTypes PROVE Repeated(t, "edge")'
    BY <1>1, <1>11, <2>2, FourChecks DEF Revalidated, Punctual
  <2> QED
    BY <1>2, <2>1, <2>2 DEF Revalidated
<1>13. Outlasts'
  <2> SUFFICES ASSUME outCheck["certificate"].status = "passing", next["edge"] > outNow'
               PROVE  next["edge"] <= LookedAtBy'
    BY <1>2 DEF Outlasts
  <2>1. next["edge"] > outNow
    BY <1>3, <1>4
  <2>2. LookedAtBy \in Int
    BY <1>1, LookedAtType
  <2> QED
    BY <1>1, <1>3, <2>1, <2>2 DEF Outlasts, Renewed
<1>14. InGrace'
  <2> SUFFICES ASSUME InService, outCheck["ownership"].status = "failing"
               PROVE  /\ broken'["ownership"] >= 0
                           => outCheck["ownership"].since <= broken'["ownership"] + RevalidateInterval
                      /\ next["dns"] <= outCheck["ownership"].since + Grace + BackoffLast
    BY <1>2 DEF InGrace
  <2>1. outCheck["ownership"].since \in Int /\ outCheck["ownership"].since <= outNow
    BY <1>1, <1>3, FourChecks DEF TypeInv, CheckRow
  <2>2. broken'["ownership"] >= 0 => (broken'["ownership"] = outNow' \/ broken'["ownership"] = broken["ownership"])
    BY <1>6, FourChecks
  <2>3. /\ broken["ownership"] >= 0
             => outCheck["ownership"].since <= broken["ownership"] + RevalidateInterval
        /\ next["dns"] <= outCheck["ownership"].since + Grace + BackoffLast
    BY <1>1 DEF InGrace
  <2>4. outCheck["ownership"].since <= outNow' + RevalidateInterval
    BY <1>3, <1>4, <2>1
  <2> QED
    BY <2>2, <2>3, <2>4
<1>15. SinceLastPass'
  <2>1. /\ outCheck["ownership"].since >= 0 => owned <= outCheck["ownership"].since
        /\ verified => owned >= 0
    BY <1>1 DEF SinceLastPass
  <2> QED
    BY <1>2, <2>1 DEF SinceLastPass
<1> QED
  BY <1>7, <1>8, <1>9, <1>10, <1>12, <1>13, <1>14, <1>15 DEF CheckInv

\* A certificate that ends later than the one it replaces is also looked at
\* again no earlier: its warning grows by less than its life.
LEMMA LaterIsLater ==
    ASSUME Out!OutcomesConstants, NEW l \in Lifetimes \cup {LongLived},
           NEW m \in Lifetimes, NEW r \in Int, r <= l, r < m
    PROVE  r - Out!Least(ExpiryWarning, l \div 3) <= m - Out!Least(ExpiryWarning, m \div 3)
<1>1. l \in Nat /\ m \in Nat /\ ExpiryWarning \in Nat
  BY DEF Out!OutcomesConstants
<1>2. l \div 3 \in Nat /\ m \div 3 \in Nat
  BY <1>1
<1>3. m - m \div 3 >= r - l \div 3
  <2>1. 3 * (l \div 3) <= l /\ l < 3 * (l \div 3) + 3 /\ 3 * (m \div 3) <= m /\ m < 3 * (m \div 3) + 3
    BY <1>1
  <2> QED
    BY <1>1, <1>2, <2>1
<1> QED
  BY <1>1, <1>2, <1>3 DEF Out!Least

LEMMA CheckChanges == ASSUME Out!OutcomesConstants, CheckInv, Out!Changes PROVE CheckInv'
<1>1. TypeInv
  BY DEF CheckInv
<1>2. UNCHANGED <<Out!row, owned>> /\ broken' = Out!StillBroken /\ outNow' = outNow
  BY DEF Out!Changes
<1>3. \/ UNCHANGED cert
      \/ \E l \in Lifetimes : /\ cert' = [not_before |-> outNow, not_after |-> outNow + l]
                              /\ cert'.not_after > cert.not_after
  BY DEF Out!Changes
<1>4. Renewed
  <2>1. CASE UNCHANGED cert
    BY <1>1, <1>2, <2>1, LookedAtType DEF TypeInv, Renewed, LookedAtBy, Out!Warning
  <2>2. ASSUME NEW l \in Lifetimes, cert' = [not_before |-> outNow, not_after |-> outNow + l],
               cert'.not_after > cert.not_after
        PROVE  Renewed
    <3>1. outNow \in Nat /\ l \in Nat /\ cert.not_after \in Int
      BY <1>1 DEF TypeInv, Out!OutcomesConstants
    <3>2. cert'.not_before = outNow /\ cert'.not_after = outNow + l
      BY <2>2
    <3>3. cert'.not_after - cert'.not_before = l
      BY <3>1, <3>2
    <3> DEFINE k == cert.not_after - cert.not_before
               r == cert.not_after - outNow
    <3>4. k \in Lifetimes \cup {LongLived} /\ r \in Int /\ r <= k /\ r < l
      BY <1>1, <2>2, <3>1, <3>2 DEF TypeInv
    <3>5. r - Out!Least(ExpiryWarning, k \div 3) <= l - Out!Least(ExpiryWarning, l \div 3)
      BY <3>4, LaterIsLater
    <3>6. /\ Out!Warning(cert) = Out!Least(ExpiryWarning, k \div 3)
          /\ Out!Warning(cert)' = Out!Least(ExpiryWarning, l \div 3)
      BY <3>3 DEF Out!Warning
    <3>7. Out!Warning(cert) \in Nat /\ Out!Warning(cert)' \in Nat /\ RevalidateInterval \in Nat
      BY <1>1, <3>6, WarningType, LookedAtType DEF Out!OutcomesConstants
    <3>8. LookedAtBy' \in Int /\ LookedAtBy' >= LookedAtBy
      <4>1. LookedAtBy' = outNow + l - Out!Warning(cert)' + RevalidateInterval
        <5>1. LookedAtBy' = cert'.not_after - Out!Warning(cert)' + RevalidateInterval
          BY DEF LookedAtBy
        <5> QED
          BY <3>1, <3>2, <3>7, <5>1
      <4>2. cert.not_after - Out!Warning(cert) <= outNow + l - Out!Warning(cert)'
        BY <3>1, <3>5, <3>6, <3>7
      <4> QED
        BY <3>1, <3>7, <4>1, <4>2 DEF LookedAtBy
    <3> QED
      BY <1>2, <2>2, <3>1, <3>2, <3>3, <3>8 DEF Renewed
  <2> QED
    BY <1>3, <2>1, <2>2
<1> QED
  BY <1>2, <1>4, WorldMoves

LEMMA CheckTick == ASSUME Out!OutcomesConstants, CheckInv, Out!Tick PROVE CheckInv'
<1>1. TypeInv /\ Earned
  BY DEF CheckInv
<1>2. UNCHANGED <<Out!row, owned>> /\ broken' = Out!StillBroken /\ outNow' = outNow + 1 /\ UNCHANGED cert
  BY DEF Out!Tick, Out!world
<1>3. Renewed
  BY <1>1, <1>2, LookedAtType DEF TypeInv, Renewed, LookedAtBy, Out!Warning
<1>4. next["dns"] > outNow /\ (InService => next["edge"] > outNow)
  <2>1. next["dns"] > outNow /\ (next["edge"] > outNow \/ ~Out!certificate_authorized)
    BY DEF Out!Tick
  <2>2. InService => Out!certificate_authorized
    BY <1>1 DEF InService, Out!certificate_authorized, Earned
  <2> QED
    BY <2>1, <2>2
<1> QED
  BY <1>2, <1>3, <1>4, WorldMoves

-----------------------------------------------------------------------------
(* The invariant holds, and what follows from it. *)

LEMMA CheckStutter == ASSUME CheckInv, UNCHANGED Out!vars PROVE CheckInv'
<1>1. /\ UNCHANGED <<cert, outStatus, verified, outCheck, next, outNow, owned, broken>>
      /\ UNCHANGED <<Out!world, outNow>>
  BY DEF Out!vars, Out!world, Out!row
<1>2. BrokenInv'
  BY <1>1, SameOutcomes DEF BrokenInv, CheckInv
<1>3. TypeInv'
  BY <1>1 DEF TypeInv, CheckInv
<1>4. Punctual' /\ Earned' /\ Revalidated' /\ Outlasts' /\ InGrace' /\ SinceLastPass'
  BY <1>1, SameLook DEF CheckInv, Punctual, Earned, Revalidated, Repeated, Outlasts, InGrace, SinceLastPass, InService
<1> QED
  BY <1>2, <1>3, <1>4 DEF CheckInv

LEMMA CheckStep == ASSUME Out!OutcomesConstants, CheckInv, [Out!Next]_(Out!vars) PROVE CheckInv'
BY CheckDns, CheckEdge, CheckChanges, CheckTick, CheckStutter DEF Out!Next

LEMMA AlwaysCurrent == ASSUME Out!OutcomesConstants PROVE Out!Spec => []Out!ServedIsCurrent
<1>1. CheckInv => Out!ServedIsCurrent
  <2> SUFFICES ASSUME CheckInv PROVE Out!ServedIsCurrent
    OBVIOUS
  <2>1. TypeInv /\ Punctual /\ Earned /\ Revalidated /\ Outlasts /\ InGrace
    BY DEF CheckInv
  <2>2. /\ outNow \in Nat /\ RevalidateInterval \in Nat /\ Grace \in Nat /\ BackoffLast \in Nat
        /\ next["dns"] \in Int /\ next["edge"] \in Int /\ broken \in [Out!CheckType -> Int]
        /\ cert.not_after \in Int
    BY <2>1, FourChecks DEF TypeInv, Out!OutcomesConstants
  <2>3. Out!DriftCaught
    <3> SUFFICES ASSUME outStatus = "ready", NEW t \in Out!CheckType, broken[t] >= 0
                 PROVE  outNow - broken[t] <= RevalidateInterval
      BY DEF Out!DriftCaught
    <3>1. outCheck[t].status = "passing" /\ InService /\ broken[t] \in Int
      BY <2>1, <2>2 DEF Earned, InService
    <3>2. PICK p \in Out!Pairs : Repeated(t, p) /\ next[p] >= outNow
      BY <2>1, <3>1, FourChecks DEF Revalidated, Punctual
    <3>3. next[p] \in Int /\ next[p] <= broken[t] + RevalidateInterval
      BY <2>1, <3>1, <3>2 DEF Repeated, TypeInv
    <3> QED
      BY <2>2, <3>1, <3>2, <3>3
  <2>4. Out!ReadyIsCertified
    <3> SUFFICES ASSUME outStatus = "ready", next["edge"] > outNow
                 PROVE  outNow - cert.not_after < RevalidateInterval - Out!Warning(cert)
      BY DEF Out!ReadyIsCertified
    <3>1. next["edge"] <= LookedAtBy /\ Out!Warning(cert) \in Nat
      BY <2>1, FourChecks, LookedAtType DEF Earned, Outlasts
    <3> QED
      BY <2>2, <3>1 DEF LookedAtBy
  <2>5. Out!LossEnforced
    <3> SUFFICES ASSUME InService, broken["ownership"] >= 0
                 PROVE  outNow - broken["ownership"] <= RevalidateInterval + Grace + BackoffLast
      BY DEF Out!LossEnforced, InService
    <3>1. broken["ownership"] \in Int /\ next["dns"] >= outNow
      BY <2>1, <2>2, FourChecks DEF Punctual
    <3>2. outCheck["ownership"].status \in {"passing", "failing"} /\ outCheck["ownership"].since \in Int
      BY <2>1, FourChecks DEF Earned, TypeInv, CheckRow
    <3>3. CASE outCheck["ownership"].status = "passing"
      <4>1. next["dns"] <= broken["ownership"] + RevalidateInterval
        BY <2>1, <3>3, FourChecks DEF Revalidated, Repeated
      <4> QED
        BY <2>2, <3>1, <4>1
    <3>4. CASE outCheck["ownership"].status = "failing"
      <4>1. /\ outCheck["ownership"].since <= broken["ownership"] + RevalidateInterval
            /\ next["dns"] <= outCheck["ownership"].since + Grace + BackoffLast
        BY <2>1, <3>4 DEF InGrace
      <4> QED
        BY <2>2, <3>1, <3>2, <4>1
    <3> QED
      BY <3>2, <3>3, <3>4
  <2> QED
    BY <2>3, <2>4, <2>5 DEF Out!ServedIsCurrent
<1>2. Out!Init => CheckInv
  BY CheckInit
<1>3. CheckInv /\ [Out!Next]_(Out!vars) => CheckInv'
  BY CheckStep
<1> QED
  BY <1>1, <1>2, <1>3, PTL DEF Out!Spec

LEMMA AlwaysInTime == ASSUME Out!OutcomesConstants PROVE Out!Spec => Out!SuspendedAfterGrace
<1>1. CheckInv /\ [Out!Next]_(Out!vars) => [Out!SuspendedAfterGraceStep]_(Out!vars)
  <2> SUFFICES ASSUME CheckInv, Out!Next, outStatus' = "suspended", outStatus # "suspended"
               PROVE  owned >= 0 /\ outNow - owned >= Grace
    BY DEF Out!SuspendedAfterGraceStep
  <2>1. TypeInv /\ SinceLastPass
    BY DEF CheckInv
  <2>2. CASE Out!apply_dns_outcomes
    <3> DEFINE own == outCheck["ownership"]  own2 == outCheck'["ownership"]
    <3>1. outStatus' = Out!AfterDns(outCheck')
      BY <2>2 DEF Out!apply_dns_outcomes
    <3>2. ~Out!ownership_outcome /\ verified /\ outNow - own2.since >= Grace
      BY <3>1, StatusAfterDns
    <3>3. Recorded(own, Out!Outcome("ownership"), own2)
      BY <2>2, DnsRows, FourChecks
    <3>4. owned \in Int /\ owned <= outNow /\ outNow \in Nat /\ own.since \in Int /\ Grace \in Nat
      BY <2>1, FourChecks DEF TypeInv, CheckRow, Out!OutcomesConstants
    <3>5. own2.since \in Int /\ owned <= own2.since
      BY <2>1, <3>2, <3>3, <3>4, Outcomes DEF Recorded, SinceLastPass
    <3>6. owned >= 0
      BY <2>1, <3>2 DEF SinceLastPass
    <3> QED
      BY <3>2, <3>4, <3>5, <3>6
  <2>3. CASE Out!apply_edge_outcomes
    BY <2>3, StatusAfterEdge
  <2>4. CASE Out!Changes
    BY <2>4 DEF Out!Changes, Out!row
  <2>5. CASE Out!Tick
    BY <2>5 DEF Out!Tick, Out!row
  <2> QED
    BY <2>2, <2>3, <2>4, <2>5 DEF Out!Next
<1>2. Out!Init => CheckInv
  BY CheckInit
<1>3. CheckInv /\ [Out!Next]_(Out!vars) => CheckInv'
  BY CheckStep
<1> QED
  BY <1>1, <1>2, <1>3, PTL DEF Out!Spec, Out!SuspendedAfterGrace

-----------------------------------------------------------------------------
(* Following CNAMEs. *)

LEMMA LeastNumber ==
    ASSUME NEW S, S \subseteq Nat, S # {} PROVE \E x \in S : \A y \in S : x <= y
<1> DEFINE R == OpToRel(<, Nat)
<1>1. IsWellFoundedOn(R, Nat)
  BY NatLessThanWellFounded, Zenon
<1>2. \A x, y \in Nat : y < x => <<y, x>> \in R
  BY DEF OpToRel
<1> HIDE DEF R
<1>3. PICK x \in S : \A y \in S : ~(<<y, x>> \in R)
  BY <1>1, WFMin
<1>4. \A y \in S : ~(y < x)
  BY <1>2, <1>3
<1> QED
  BY <1>4

\* A step repeated from a first value: there is a function that does it.
LEMMA Repeats ==
    ASSUME NEW D, NEW a \in D, NEW F \in [Nat -> [D -> D]], NEW N \in Nat
    PROVE  \E g \in [0..N -> D] : g[0] = a /\ \A k \in 1..N : g[k] = F[k][g[k - 1]]
<1> DEFINE Good(n) == \E g \in [0..n -> D] : g[0] = a /\ \A k \in 1..n : g[k] = F[k][g[k - 1]]
           Bad == {n \in Nat : ~Good(n)}
<1>1. Good(0)
  <2> DEFINE g == [k \in 0..0 |-> a]
  <2>1. g \in [0..0 -> D] /\ g[0] = a /\ \A k \in 1..0 : g[k] = F[k][g[k - 1]]
    OBVIOUS
  <2> QED
    BY <2>1
<1>2. ASSUME NEW n \in Nat \ {0}, Good(n - 1) PROVE Good(n)
  <2>1. PICK h \in [0..(n - 1) -> D] : h[0] = a /\ \A k \in 1..(n - 1) : h[k] = F[k][h[k - 1]]
    BY <1>2
  <2> DEFINE g == [k \in 0..n |-> IF k = n THEN F[n][h[n - 1]] ELSE h[k]]
  <2>2. h[n - 1] \in D /\ F[n][h[n - 1]] \in D
    OBVIOUS
  <2>3. \A k \in 0..n : k # n => k \in 0..(n - 1)
    OBVIOUS
  <2>4. g \in [0..n -> D]
    BY <2>2, <2>3
  <2>5. g[0] = a
    BY <2>1
  <2>6. ASSUME NEW k \in 1..n PROVE g[k] = F[k][g[k - 1]]
    <3>1. g[k - 1] = h[k - 1]
      OBVIOUS
    <3>2. CASE k = n
      BY <3>1, <3>2
    <3>3. CASE k # n
      <4>1. k \in 1..(n - 1) /\ g[k] = h[k]
        BY <3>3
      <4> QED
        BY <2>1, <3>1, <4>1
    <3> QED
      BY <3>2, <3>3
  <2> HIDE DEF g
  <2> QED
    BY <2>4, <2>5, <2>6
<1> HIDE DEF Good
<1>3. ASSUME Bad # {} PROVE FALSE
  <2>1. PICK n \in Bad : \A m \in Bad : n <= m
    BY <1>3, LeastNumber
  <2>2. n \in Nat /\ ~Good(n) /\ n # 0
    BY <1>1
  <2>3. n - 1 \in Nat /\ n - 1 \notin Bad
    <3> HIDE DEF Bad
    <3> QED
      BY <2>1, <2>2
  <2> QED
    BY <1>2, <2>2, <2>3
<1>4. Good(N)
  BY <1>3
<1> QED
  BY <1>4 DEF Good

\* One hop from the end of a chain that has got k names.
Hop(record, k, before) ==
    IF \/ Len(before) # k \/ record[before[Len(before)]] \notin Names
       \/ record[before[Len(before)]] = before[Len(before)] \/ before[Len(before)] = Target
       \/ \E i \in 2..Len(before) : before[i] = record[before[Len(before)]]
    THEN before ELSE Append(before, record[before[Len(before)]])

Chains(record) ==
    CHOOSE g : g = [k \in 0..Out!Hops |-> IF k = 0 THEN <<Host>> ELSE Hop(record, k, g[k - 1])]

LEMMA ChainIs == ASSUME NEW record PROVE Out!cname_chain(record) = Tail(Chains(record)[Out!Hops])
BY DEF Out!cname_chain, Chains, Hop

Follow(record, S) == {record[n] : n \in S} \cap Names

Walks(record) ==
    CHOOSE g : g = [k \in 0..MaxHops |-> IF k = 0 THEN {Host} ELSE Follow(record, g[k - 1])]

LEMMA ReachIs ==
    Out!RoutingIsReachability <=> (Out!routing_outcome = (\E k \in 1..MaxHops : Target \in Walks(cname)[k]))
BY DEF Out!RoutingIsReachability, Walks, Follow

LEMMA ChainsAre ==
    ASSUME Out!OutcomesConstants, NEW record
    PROVE  /\ Chains(record)[0] = <<Host>>
           /\ \A k \in 1..Out!Hops : Chains(record)[k] = Hop(record, k, Chains(record)[k - 1])
<1> DEFINE D == {s \in Seq(Names) : Len(s) > 0}
           F == [k \in Nat |-> [s \in D |-> Hop(record, k, s)]]
<1>0. Out!Hops \in Nat /\ Host \in Names
  BY DEF Out!OutcomesConstants, Out!Hops
<1> DEFINE first == <<Host>>
<1>1. first \in D
  BY <1>0
<1>2. ASSUME NEW k \in Nat, NEW s \in D PROVE Hop(record, k, s) \in D
  BY DEF Hop
<1>3. F \in [Nat -> [D -> D]]
  BY <1>2
<1>4. \A k \in Nat, s \in D : F[k][s] = Hop(record, k, s)
  OBVIOUS
<1> HIDE DEF F, D, first, Out!Hops
<1> DEFINE Done(n) == \E g \in [0..n -> D] : g[0] = first /\ \A k \in 1..n : g[k] = F[k][g[k - 1]]
<1>n. ASSUME NEW n \in Nat PROVE Done(n)
  BY <1>1, <1>3, <1>n, Repeats
<1>m. Done(Out!Hops)
  <2> HIDE DEF Done
  <2> QED
    BY <1>0, <1>n
<1>5. PICK g \in [0..Out!Hops -> D] : g[0] = first /\ \A k \in 1..Out!Hops : g[k] = F[k][g[k - 1]]
  BY <1>m
<1>6. ASSUME NEW k \in 1..Out!Hops PROVE g[k] = Hop(record, k, g[k - 1])
  <2>1. k \in Nat /\ k - 1 \in 0..Out!Hops
    BY <1>0
  <2>2. g[k - 1] \in D
    BY <2>1
  <2> QED
    BY <1>4, <1>5, <2>1, <2>2
<1>7. g = [k \in 0..Out!Hops |-> IF k = 0 THEN <<Host>> ELSE Hop(record, k, g[k - 1])]
  <2>1. ASSUME NEW k \in 0..Out!Hops PROVE g[k] = IF k = 0 THEN <<Host>> ELSE Hop(record, k, g[k - 1])
    <3>1. k # 0 => k \in 1..Out!Hops
      BY <1>0
    <3> QED
      BY <1>5, <1>6, <3>1 DEF first
  <2> QED
    BY <2>1
<1>8. Chains(record) = [k \in 0..Out!Hops |-> IF k = 0 THEN <<Host>> ELSE Hop(record, k, Chains(record)[k - 1])]
  BY <1>7 DEF Chains
<1> HIDE <1>5, <1>6, <1>7
<1> QED
  BY <1>0, <1>8

LEMMA WalksAre ==
    ASSUME Out!OutcomesConstants, NEW record
    PROVE  /\ Walks(record)[0] = {Host}
           /\ \A k \in 1..MaxHops : Walks(record)[k] = Follow(record, Walks(record)[k - 1])
<1> DEFINE D == SUBSET Names
           F == [k \in Nat |-> [s \in D |-> Follow(record, s)]]
<1>0. Out!Hops \in Nat /\ Host \in Names
  BY DEF Out!OutcomesConstants, Out!Hops
<1> DEFINE first == {Host}
<1>1. first \in D
  BY <1>0
<1>3. F \in [Nat -> [D -> D]]
  BY DEF Follow
<1>4. \A k \in Nat, s \in D : F[k][s] = Follow(record, s)
  OBVIOUS
<1> HIDE DEF F, D, first
<1> DEFINE Done(n) == \E g \in [0..n -> D] : g[0] = first /\ \A k \in 1..n : g[k] = F[k][g[k - 1]]
<1>n. ASSUME NEW n \in Nat PROVE Done(n)
  BY <1>1, <1>3, <1>n, Repeats
<1>m. Done(Out!Hops)
  <2> HIDE DEF Done
  <2> QED
    BY <1>0, <1>n
<1>5. PICK g \in [0..Out!Hops -> D] : g[0] = first /\ \A k \in 1..Out!Hops : g[k] = F[k][g[k - 1]]
  BY <1>m
<1>6. ASSUME NEW k \in 1..Out!Hops PROVE g[k] = Follow(record, g[k - 1])
  <2>1. k \in Nat /\ k - 1 \in 0..Out!Hops
    BY <1>0
  <2>2. g[k - 1] \in D
    BY <2>1
  <2> QED
    BY <1>4, <1>5, <2>1, <2>2
<1>7. g = [k \in 0..Out!Hops |-> IF k = 0 THEN {Host} ELSE Follow(record, g[k - 1])]
  <2>1. ASSUME NEW k \in 0..Out!Hops PROVE g[k] = IF k = 0 THEN {Host} ELSE Follow(record, g[k - 1])
    <3>1. k # 0 => k \in 1..Out!Hops
      BY <1>0
    <3> QED
      BY <1>5, <1>6, <3>1 DEF first
  <2> QED
    BY <2>1
<1>8. Walks(record) = [k \in 0..Out!Hops |-> IF k = 0 THEN {Host} ELSE Follow(record, Walks(record)[k - 1])]
  BY <1>7 DEF Walks, Out!Hops
<1>9. Walks(record)[0] = {Host}
  BY <1>0, <1>8
<1>10. ASSUME NEW k \in 1..Out!Hops PROVE Walks(record)[k] = Follow(record, Walks(record)[k - 1])
  <2>1. k \in 0..Out!Hops /\ k # 0
    BY <1>0
  <2> QED
    BY <1>8, <2>1
<1> QED
  BY <1>9, <1>10 DEF Out!Hops

Been(c) == {c[i] : i \in 1..Len(c)}
Ended(record, c) == c[Len(c)] = Target \/ Follow(record, {c[Len(c)]}) \subseteq Been(c)

\* What a chain of at most k hops is: the names of the walk from the hostname,
\* up to the target, or to where the walk ends or comes back.
Sound(record, k) ==
    LET c == Chains(record)[k] IN
    /\ c \in Seq(Names) /\ Len(c) \in 1..(k + 1) /\ c[1] = Host
    /\ \A i \in 1..Len(c) : Walks(record)[i - 1] = {c[i]}
    /\ Len(c) <= k => Ended(record, c)

LEMMA SoundHop ==
    ASSUME Out!OutcomesConstants, NEW record, NEW k \in 1..MaxHops, Sound(record, k - 1)
    PROVE  Sound(record, k)
<1> DEFINE c == Chains(record)[k - 1]
           d == Chains(record)[k]
           n == Len(c)
           at == c[n]
           to == record[at]
<1>0. MaxHops \in Nat /\ k \in Nat /\ Out!Hops = MaxHops
  BY DEF Out!OutcomesConstants, Out!Hops
<1>1. /\ c \in Seq(Names) /\ n \in 1..k /\ c[1] = Host
      /\ \A i \in 1..n : Walks(record)[i - 1] = {c[i]}
      /\ n <= k - 1 => Ended(record, c)
  <2>1. (k - 1) + 1 = k
    BY <1>0
  <2> QED
    BY <2>1 DEF Sound
<1>2. d = Hop(record, k, c)
  BY <1>0, ChainsAre
<1>3. at \in Names /\ n \in Nat
  BY <1>1
<1> HIDE DEF c, d
<1>4. CASE n # k \/ to \notin Names \/ to = at \/ at = Target \/ \E i \in 2..n : c[i] = to
  <2>1. d = c
    BY <1>2, <1>4 DEF Hop
  <2>2. Ended(record, c)
    <3>1. CASE n # k
      <4>1. n <= k - 1
        BY <1>0, <1>1, <3>1
      <4> QED
        BY <1>1, <4>1
    <3>2. CASE to \notin Names
      BY <3>2 DEF Follow, Ended
    <3>3. CASE to = at
      BY <1>1, <1>3, <3>3 DEF Follow, Ended, Been
    <3>5. CASE at = Target
      BY <3>5 DEF Ended
    <3>4. CASE \E i \in 2..n : c[i] = to
      <4>1. PICK i \in 2..n : c[i] = to
        BY <3>4
      <4>2. i \in 1..n
        BY <1>3
      <4> QED
        BY <4>1, <4>2 DEF Follow, Ended, Been
    <3> QED
      BY <1>4, <3>1, <3>2, <3>3, <3>4, <3>5
  <2>3. n \in 1..(k + 1)
    BY <1>0, <1>1
  <2> QED
    BY <1>1, <2>1, <2>2, <2>3 DEF Sound, d
<1>5. CASE n = k /\ to \in Names /\ to # at /\ at # Target /\ ~ \E i \in 2..n : c[i] = to
  <2>1. d = Append(c, to)
    BY <1>2, <1>5 DEF Hop
  <2>2. d \in Seq(Names) /\ Len(d) = k + 1 /\ d[k + 1] = to /\ \A i \in 1..k : d[i] = c[i]
    BY <1>1, <1>5, <2>1
  <2>3. Walks(record)[k] = {to}
    <3>1. Walks(record)[k - 1] = {at}
      BY <1>1, <1>5
    <3>2. Walks(record)[k] = Follow(record, {at})
      BY <3>1, WalksAre
    <3> QED
      BY <1>5, <3>2 DEF Follow
  <2>4. ASSUME NEW i \in 1..(k + 1) PROVE Walks(record)[i - 1] = {d[i]}
    <3>1. CASE i = k + 1
      BY <1>0, <2>2, <2>3, <3>1
    <3>2. CASE i # k + 1
      <4>1. i \in 1..k
        BY <1>0, <3>2
      <4> QED
        BY <1>1, <1>5, <2>2, <4>1
    <3> QED
      BY <3>1, <3>2
  <2>5. d[1] = Host /\ Len(d) \in 1..(k + 1) /\ ~(Len(d) <= k)
    BY <1>0, <1>1, <2>2
  <2> QED
    BY <2>2, <2>4, <2>5 DEF Sound, d
<1> QED
  BY <1>4, <1>5

LEMMA ChainSound == ASSUME Out!OutcomesConstants, NEW record PROVE Sound(record, MaxHops)
<1> DEFINE Bad == {k \in 0..MaxHops : ~Sound(record, k)}
<1>0. MaxHops \in Nat /\ Host \in Names
  BY DEF Out!OutcomesConstants
<1>1. Sound(record, 0)
  <2>1. Chains(record)[0] = <<Host>> /\ Walks(record)[0] = {Host}
    BY ChainsAre, WalksAre
  <2> QED
    BY <1>0, <2>1 DEF Sound
<1>2. ASSUME Bad # {} PROVE FALSE
  <2>1. Bad \subseteq Nat
    BY <1>0
  <2>2. PICK k \in Bad : \A m \in Bad : k <= m
    BY <1>2, <2>1, LeastNumber
  <2>3. k \in 0..MaxHops /\ ~Sound(record, k) /\ k # 0
    BY <1>1
  <2>4. k \in 1..MaxHops /\ k - 1 \in 0..MaxHops /\ k - 1 \notin Bad
    <3> HIDE DEF Bad
    <3> QED
      BY <1>0, <2>2, <2>3
  <2> QED
    BY <2>3, <2>4, SoundHop
<1> QED
  BY <1>0, <1>2

\* A set that the walk enters and does not leave has all of it.
LEMMA WalkStays ==
    ASSUME Out!OutcomesConstants, NEW record, NEW V, Host \in V, Follow(record, V) \subseteq V,
           NEW k \in 0..MaxHops
    PROVE  Walks(record)[k] \subseteq V
<1> DEFINE Bad == {m \in 0..MaxHops : ~(Walks(record)[m] \subseteq V)}
<1>0. MaxHops \in Nat
  BY DEF Out!OutcomesConstants
<1>1. Walks(record)[0] \subseteq V
  BY WalksAre
<1>2. ASSUME Bad # {} PROVE FALSE
  <2>1. Bad \subseteq Nat
    BY <1>0
  <2>2. PICK m \in Bad : \A j \in Bad : m <= j
    BY <1>2, <2>1, LeastNumber
  <2>3. m \in 0..MaxHops /\ ~(Walks(record)[m] \subseteq V) /\ m # 0
    BY <1>1
  <2>4. m \in 1..MaxHops /\ m - 1 \in 0..MaxHops /\ m - 1 \notin Bad
    <3> HIDE DEF Bad
    <3> QED
      BY <1>0, <2>2, <2>3
  <2>5. Walks(record)[m] = Follow(record, Walks(record)[m - 1]) /\ Walks(record)[m - 1] \subseteq V
    BY <2>4, WalksAre
  <2>6. Walks(record)[m] \subseteq V
    BY <2>5 DEF Follow
  <2> QED
    BY <2>3, <2>6
<1> QED
  BY <1>0, <1>2

LEMMA Routed == ASSUME Out!OutcomesConstants PROVE Out!RoutingIsReachability
<1> DEFINE c == Chains(cname)[MaxHops]
           n == Len(c)
           V == {c[i] : i \in 1..n}
<1>0. MaxHops \in Nat /\ Out!Hops = MaxHops /\ Host # Target
  BY DEF Out!OutcomesConstants, Out!Hops
<1>1. /\ c \in Seq(Names) /\ n \in 1..(MaxHops + 1) /\ c[1] = Host
      /\ \A i \in 1..n : Walks(cname)[i - 1] = {c[i]}
      /\ n <= MaxHops => c[n] = Target \/ Follow(cname, {c[n]}) \subseteq V
  BY ChainSound DEF Sound, Ended, Been
<1> HIDE DEF c
<1>2. Out!routing_outcome <=> \E i \in 2..n : c[i] = Target
  <2>1. Out!cname_chain(cname) = Tail(c) /\ n \in Nat /\ n >= 1
    BY <1>0, <1>1, ChainIs DEF c
  <2>2. DOMAIN Tail(c) = 1..(n - 1) /\ \A i \in 1..(n - 1) : Tail(c)[i] = c[i + 1]
    BY <1>1, <2>1
  <2>3. ASSUME NEW i \in 1..(n - 1), Tail(c)[i] = Target PROVE \E j \in 2..n : c[j] = Target
    <3>1. i + 1 \in 2..n /\ c[i + 1] = Target
      BY <2>1, <2>2, <2>3
    <3> QED
      BY <3>1
  <2>4. ASSUME NEW j \in 2..n, c[j] = Target PROVE \E i \in 1..(n - 1) : Tail(c)[i] = Target
    <3>1. j - 1 \in 1..(n - 1) /\ Tail(c)[j - 1] = Target
      BY <2>1, <2>2, <2>4
    <3> QED
      BY <3>1
  <2> QED
    BY <2>1, <2>2, <2>3, <2>4 DEF Out!routing_outcome, Out!Leads
<1>3. ASSUME NEW i \in 2..n, c[i] = Target PROVE \E k \in 1..MaxHops : Target \in Walks(cname)[k]
  <2>1. i - 1 \in 1..MaxHops /\ i \in 1..n
    BY <1>0, <1>1
  <2>2. Target \in Walks(cname)[i - 1]
    BY <1>1, <1>3, <2>1
  <2> QED
    BY <2>1, <2>2
<1>4. ASSUME NEW k \in 1..MaxHops, Target \in Walks(cname)[k] PROVE \E i \in 2..n : c[i] = Target
  <2>1. CASE k + 1 \in 1..n
    <3>1. Walks(cname)[k] = {c[k + 1]} /\ k + 1 \in 2..n
      BY <1>0, <1>1, <2>1
    <3> QED
      BY <1>4, <3>1
  <2>2. CASE k + 1 \notin 1..n
    <3>0. n \in 1..(MaxHops + 1)
      BY <1>1
    <3>1. n \in Nat /\ n <= MaxHops /\ n >= 1
      BY <1>0, <2>2, <3>0
    <3>2. CASE c[n] = Target
      BY <1>0, <1>1, <3>1, <3>2
    <3>3. CASE Follow(cname, {c[n]}) \subseteq V
      <4>1. ASSUME NEW i \in 1..n PROVE Follow(cname, {c[i]}) \subseteq V
        <5>1. CASE i = n
          BY <3>3, <5>1
        <5>2. CASE i # n
          <6>1. i \in 1..MaxHops /\ i + 1 \in 1..n
            BY <3>1, <5>2, <1>0
          <6>2. Walks(cname)[i] = {c[i + 1]} /\ Walks(cname)[i - 1] = {c[i]}
            BY <1>1, <6>1
          <6>3. Walks(cname)[i] = Follow(cname, Walks(cname)[i - 1])
            BY <6>1, WalksAre
          <6>4. Follow(cname, {c[i]}) = {c[i + 1]}
            BY <6>2, <6>3
          <6> QED
            BY <6>1, <6>4
        <5> QED
          BY <5>1, <5>2
      <4>2. Follow(cname, V) \subseteq V
        BY <4>1 DEF Follow
      <4>3. Host \in V
        BY <1>1, <3>1
      <4>4. Target \in V
        <5> HIDE DEF V
        <5>1. k \in 0..MaxHops
          BY <1>0
        <5> QED
          BY <1>4, <4>2, <4>3, <5>1, WalkStays
      <4>5. PICK i \in 1..n : c[i] = Target
        BY <4>4
      <4>6. i \in 2..n
        BY <1>0, <1>1, <3>1, <4>5
      <4> QED
        BY <4>5, <4>6
    <3> QED
      BY <1>1, <3>1, <3>2, <3>3
  <2> QED
    BY <2>1, <2>2
<1>5. Out!routing_outcome <=> \E k \in 1..MaxHops : Target \in Walks(cname)[k]
  BY <1>2, <1>3, <1>4
<1>6. Out!routing_outcome \in BOOLEAN
  BY DEF Out!routing_outcome, Out!Leads
<1> QED
  BY <1>5, <1>6, ReachIs

LEMMA RoutingAlwaysDecided == ASSUME Out!OutcomesConstants PROVE Out!Spec => []Out!RoutingIsReachability
<1>1. Out!RoutingIsReachability
  BY Routed
<1> QED
  BY <1>1, PTL

-----------------------------------------------------------------------------
(* What a check worker does with a hostname's DNS besides: ZoneDetection,  *)
(* the part Zo, for any workers, hostnames, public suffixes, templates and *)
(* times.                                                                  *)

LEMMA GreatestBelow ==
    ASSUME NEW b \in Nat, NEW S, S \subseteq 0..b, S # {} PROVE \E x \in S : \A y \in S : y <= x
<1> DEFINE T == {b - x : x \in S}
<1>1. T \subseteq Nat /\ T # {}
  <2>1. \A x \in S : b - x \in Nat
    OBVIOUS
  <2>2. T # {}
    OBVIOUS
  <2> QED
    BY <2>1, <2>2
<1>2. PICK d \in T : \A e \in T : d <= e
  BY <1>1, LeastNumber
<1>3. PICK x \in S : d = b - x
  OBVIOUS
<1>4. ASSUME NEW y \in S PROVE y <= x
  <2>1. b - x <= b - y
    BY <1>2, <1>3
  <2> QED
    BY <2>1
<1> QED
  BY <1>4

\* The last n labels of a name.
LEMMA SuffixIs ==
    ASSUME NEW h \in Seq(STRING), NEW n \in 0..Len(h)
    PROVE  /\ Zo!Suffix(h, n) \in Seq(STRING) /\ Len(Zo!Suffix(h, n)) = n
           /\ Zo!Encloses(Zo!Suffix(h, n), h)
<1>1. Len(h) \in Nat /\ \A i \in (Len(h) - n + 1)..Len(h) : h[i] \in STRING
  OBVIOUS
<1>2. /\ SubSeq(h, Len(h) - n + 1, Len(h)) \in Seq(STRING)
      /\ Len(SubSeq(h, Len(h) - n + 1, Len(h))) =
           IF Len(h) - n + 1 <= Len(h) THEN Len(h) - (Len(h) - n + 1) + 1 ELSE 0
  BY <1>1, SubSeqProperties
<1>3. Len(SubSeq(h, Len(h) - n + 1, Len(h))) = n
  BY <1>1, <1>2
<1> QED
  BY <1>2, <1>3 DEF Zo!Suffix, Zo!Encloses

\* The zone assumed at first: a proper suffix of the hostname, longer than
\* every public suffix of it.
LEMMA DefaultZone ==
    ASSUME Zo!ZonesConstants, NEW h \in ZoneHosts
    PROVE  \E k \in 1..(Len(h) - 1) :
             /\ Zo!default_zone(h) = Zo!Suffix(h, k)
             /\ \A s \in Suffixes : Zo!Encloses(s, h) => Len(s) < k
<1>1. /\ h \in Seq(STRING) /\ Len(h) \in Nat /\ Len(h) >= 2 /\ h # <<>>
      /\ \A s \in Suffixes : s \in Seq(STRING) /\ (Zo!Encloses(s, h) => Len(s) + 2 <= Len(h))
  BY DEF Zo!ZonesConstants
<1> DEFINE lengths == {Len(s) : s \in {t \in Suffixes : Zo!Encloses(t, h)}}
<1>2. CASE lengths = {}
  <2>1. Tail(h) = SubSeq(h, 2, Len(h))
    BY <1>1, TailIsSubSeq
  <2>2. Zo!Suffix(h, Len(h) - 1) = SubSeq(h, Len(h) - (Len(h) - 1) + 1, Len(h))
    BY DEF Zo!Suffix
  <2>3. Len(h) - (Len(h) - 1) + 1 = 2
    BY <1>1
  <2>4. Tail(h) = Zo!Suffix(h, Len(h) - 1)
    BY <2>1, <2>2, <2>3
  <2>5. Zo!registrable_domain(h) = Tail(h)
    BY <1>2 DEF Zo!registrable_domain
  <2>6. Zo!default_zone(h) = Tail(h)
    BY <2>5 DEF Zo!default_zone
  <2>7. \A s \in Suffixes : ~Zo!Encloses(s, h)
    BY <1>2
  <2> QED
    BY <1>1, <2>4, <2>6, <2>7
<1>3. CASE lengths # {}
  <2> DEFINE m == CHOOSE n \in lengths : \A o \in lengths : o <= n
  <2>1. lengths \subseteq 0..(Len(h) - 2)
    BY <1>1
  <2>2. \E n \in lengths : \A o \in lengths : o <= n
    <3>1. Len(h) - 2 \in Nat
      BY <1>1
    <3> HIDE DEF lengths
    <3> QED
      BY <1>3, <2>1, <3>1, GreatestBelow
  <2>3. m \in lengths /\ \A o \in lengths : o <= m
    BY <2>2
  <2>4. Zo!registrable_domain(h) = Zo!Suffix(h, 1 + m)
    BY <1>3 DEF Zo!registrable_domain
  <2> HIDE DEF m
  <2>5. m \in 0..(Len(h) - 2) /\ 1 + m \in 1..(Len(h) - 1) /\ 1 + m \in 0..Len(h) /\ 1 + m # Len(h)
    BY <1>1, <2>1, <2>3
  <2>6. Len(Zo!Suffix(h, 1 + m)) = 1 + m
    BY <1>1, <2>5, SuffixIs
  <2>7. Zo!default_zone(h) = Zo!Suffix(h, 1 + m)
    BY <2>4, <2>5, <2>6 DEF Zo!default_zone
  <2>8. ASSUME NEW s \in Suffixes, Zo!Encloses(s, h) PROVE Len(s) < 1 + m
    <3>1. Len(s) \in lengths
      BY <2>8
    <3> QED
      BY <2>1, <2>3, <2>5, <3>1
  <2> QED
    BY <2>5, <2>7, <2>8
<1> QED
  BY <1>2, <1>3

\* What find_zone returns: the hostname cut down to j labels, more than any
\* public suffix of it has; and unless the DNS did not answer, no name of more
\* labels that is still above the hostname has NS records.
Nearest(h, j, found) ==
    /\ found.zone = Zo!Suffix(h, j) /\ found.transient \in BOOLEAN
    /\ \A s \in Suffixes : Zo!Encloses(s, h) => Len(s) < j
    /\ ~found.transient => \A l \in (j + 1)..(Len(h) - 1) : ns[Zo!Suffix(h, l)] = "none"

LEMMA FindZoneIs ==
    ASSUME Zo!ZonesConstants, NEW h \in ZoneHosts
    PROVE  \E j \in 1..(Len(h) - 1) : Nearest(h, j, Zo!find_zone(h))
<1>1. h \in Seq(STRING) /\ Len(h) \in Nat /\ Len(h) >= 2
  BY DEF Zo!ZonesConstants
<1>2. PICK k \in 1..(Len(h) - 1) : /\ Zo!default_zone(h) = Zo!Suffix(h, k)
                                  /\ \A s \in Suffixes : Zo!Encloses(s, h) => Len(s) < k
  BY DefaultZone
<1>3. Len(Zo!default_zone(h)) = k
  BY <1>1, <1>2, SuffixIs
<1> DEFINE K == Len(h) - k
           names == Zo!candidate_zones(h)
<1>4. names = [i \in 1..K |-> Zo!Suffix(h, Len(h) - i)] /\ K \in Nat /\ K >= 1
  BY <1>1, <1>3 DEF Zo!candidate_zones
<1>5. Len(names) = K /\ DOMAIN names = 1..K
  <2> DEFINE T == {names[i] : i \in 1..K}
  <2>1. names \in [1..K -> T] /\ DOMAIN names = 1..K
    BY <1>4
  <2> HIDE DEF T, names, K
  <2>2. names \in Seq(T)
    BY <1>4, <2>1
  <2> QED
    BY <1>4, <2>1, <2>2
<1> HIDE DEF names
<1>6. \A i \in 1..K : names[i] = Zo!Suffix(h, Len(h) - i)
  BY <1>4
<1> DEFINE stops == {i \in 1..K : ns[names[i]] # "none"}
           last == names[K]
           first == names[CHOOSE i \in stops : \A j \in stops : i <= j]
<1>7. Zo!find_zone(h) = IF stops = {} THEN [zone |-> last, transient |-> FALSE]
                        ELSE IF ns[first] = "unavailable" THEN [zone |-> last, transient |-> TRUE]
                        ELSE [zone |-> first, transient |-> FALSE]
  BY <1>5 DEF Zo!find_zone, names
<1>8. last = Zo!Suffix(h, k)
  <2>1. Len(h) - K = k /\ K \in 1..K
    BY <1>1, <1>4
  <2> QED
    BY <1>6, <2>1
<1>9. CASE stops = {}
  <2>1. Zo!find_zone(h) = [zone |-> last, transient |-> FALSE]
    BY <1>7, <1>9
  <2>2. ASSUME NEW l \in (k + 1)..(Len(h) - 1) PROVE ns[Zo!Suffix(h, l)] = "none"
    <3>1. Len(h) - l \in 1..K /\ Len(h) - (Len(h) - l) = l
      BY <1>1
    <3>2. names[Len(h) - l] = Zo!Suffix(h, l)
      BY <1>6, <3>1
    <3> QED
      BY <1>9, <3>1, <3>2
  <2>3. Nearest(h, k, Zo!find_zone(h))
    BY <1>2, <1>8, <2>1, <2>2 DEF Nearest
  <2> QED
    BY <2>3
<1>10. CASE stops # {} /\ ns[first] = "unavailable"
  <2>1. Zo!find_zone(h) = [zone |-> last, transient |-> TRUE]
    BY <1>7, <1>10
  <2>2. Nearest(h, k, Zo!find_zone(h))
    BY <1>2, <1>8, <2>1 DEF Nearest
  <2> QED
    BY <2>2
<1>11. CASE stops # {} /\ ns[first] # "unavailable"
  <2> DEFINE i == CHOOSE n \in stops : \A m \in stops : n <= m
  <2>1. stops \subseteq 1..K
    OBVIOUS
  <2>2. \E n \in stops : \A m \in stops : n <= m
    <3>1. stops \subseteq Nat
      BY <2>1
    <3> HIDE DEF stops
    <3> QED
      BY <1>11, <3>1, LeastNumber
  <2>3. i \in stops /\ \A m \in stops : i <= m
    BY <2>2
  <2>4. Zo!find_zone(h) = [zone |-> names[i], transient |-> FALSE]
    BY <1>7, <1>11
  <2> HIDE DEF i
  <2>5. i \in 1..K /\ names[i] = Zo!Suffix(h, Len(h) - i)
    BY <1>6, <2>1, <2>3
  <2> DEFINE j == Len(h) - i
  <2>6. j \in 1..(Len(h) - 1) /\ j >= k
    BY <1>1, <2>5
  <2>7. ASSUME NEW l \in (j + 1)..(Len(h) - 1) PROVE ns[Zo!Suffix(h, l)] = "none"
    <3>1. Len(h) - l \in 1..K /\ Len(h) - (Len(h) - l) = l /\ Len(h) - l < i
      BY <1>1, <2>5, <2>6
    <3>2. names[Len(h) - l] = Zo!Suffix(h, l)
      BY <1>6, <3>1
    <3>3. Len(h) - l \notin stops
      BY <2>3, <2>5, <3>1
    <3> QED
      BY <3>1, <3>2, <3>3
  <2>8. ASSUME NEW s \in Suffixes, Zo!Encloses(s, h) PROVE Len(s) < j
    <3>1. Len(s) < k /\ Len(s) \in Nat
      BY <1>2, <2>8 DEF Zo!ZonesConstants
    <3> QED
      BY <2>6, <3>1
  <2>9. Nearest(h, j, Zo!find_zone(h))
    BY <2>4, <2>5, <2>7, <2>8 DEF Nearest
  <2> QED
    BY <2>6, <2>9
<1> QED
  BY <1>9, <1>10, <1>11

-----------------------------------------------------------------------------
(* The types, and what rows and workers know. *)

ZoneRow == [template : Templates \cup {None}, supported : BOOLEAN, expires_at : Int]

Refresh == [pc : {"idle", "lookup", "discover", "store", "apply"}, host : ZoneHosts \cup {None},
            known : Zo!ZoneNames \cup {None}, template : Templates \cup {None},
            zone : Zo!ZoneNames \cup {None}, lookup : {"none", "found", "failed"},
            supported : BOOLEAN, transient : BOOLEAN]

ZoneTypes ==
    /\ rows \in [Zo!ZoneNames -> ZoneRow \cup {None}]
    /\ zone \in [ZoneHosts -> Zo!ZoneNames \cup {None}]
    /\ zoneWorker \in [ZoneWorkers -> Refresh]
    /\ template \in Templates \cup {None}
    /\ zoneNow \in Int

\* What a refresh has found out by the time it is at pc.
Knows(w) ==
    /\ zoneWorker[w].pc # "idle" => zoneWorker[w].host \in ZoneHosts
    /\ zoneWorker[w].pc \in {"discover", "store", "apply"} => zoneWorker[w].zone \in Zo!ZoneNames
    /\ zoneWorker[w].pc = "store" /\ zoneWorker[w].supported
         => <<zoneWorker[w].zone, zoneWorker[w].template>> \in zoneProven
    /\ zoneWorker[w].pc = "apply"
         => /\ rows[zoneWorker[w].zone] # None
            /\ rows[zoneWorker[w].zone].expires_at > zoneNow - Retention

\* Every cached support of a template was a provider's answer.
RowsProven ==
    \A z \in Zo!ZoneNames :
        rows[z] # None /\ rows[z].supported => <<z, rows[z].template>> \in zoneProven

ZoneInv == ZoneTypes /\ RowsProven /\ \A w \in ZoneWorkers : Knows(w)

LEMMA SuffixIsZone ==
    ASSUME NEW h \in ZoneHosts, NEW j \in 1..(Len(h) - 1) PROVE Zo!Suffix(h, j) \in Zo!ZoneNames
BY DEF Zo!ZoneNames

LEMMA DefaultIsZone ==
    ASSUME Zo!ZonesConstants, NEW h \in ZoneHosts PROVE Zo!default_zone(h) \in Zo!ZoneNames
BY DefaultZone, SuffixIsZone

LEMMA IdleRefresh == Zo!Idle \in Refresh /\ Zo!Idle.pc = "idle"
BY DEF Zo!Idle, Refresh

LEMMA ZonesInit == ASSUME Zo!ZonesConstants, Zo!Init PROVE ZoneInv
<1>1. zone \in [ZoneHosts -> Zo!ZoneNames \cup {None}]
  BY DefaultIsZone DEF Zo!Init
<1>2. zoneWorker \in [ZoneWorkers -> Refresh] /\ \A w \in ZoneWorkers : zoneWorker[w].pc = "idle"
  BY IdleRefresh DEF Zo!Init
<1>3. /\ rows \in [Zo!ZoneNames -> ZoneRow \cup {None}] /\ \A z \in Zo!ZoneNames : rows[z] = None
      /\ template \in Templates \cup {None} /\ zoneNow \in Int
  BY DEF Zo!Init
<1> QED
  BY <1>1, <1>2, <1>3 DEF ZoneInv, ZoneTypes, RowsProven, Knows

LEMMA OneRefresh ==
    ASSUME ZoneTypes, NEW w \in ZoneWorkers, NEW r \in Refresh, zoneWorker' = [zoneWorker EXCEPT ![w] = r]
    PROVE  /\ zoneWorker' \in [ZoneWorkers -> Refresh] /\ zoneWorker'[w] = r
           /\ \A v \in ZoneWorkers : v # w => zoneWorker'[v] = zoneWorker[v]
BY DEF ZoneTypes

\* A refresh goes on or ends; the rows, the zones and the clock stay.
LEMMA RefreshMoves ==
    ASSUME ZoneInv, UNCHANGED <<rows, template, zoneNow>>, zoneProven \subseteq zoneProven',
           zone' \in [ZoneHosts -> Zo!ZoneNames \cup {None}],
           NEW w \in ZoneWorkers, NEW r \in Refresh, zoneWorker' = [zoneWorker EXCEPT ![w] = r],
           r.pc # "idle" => r.host \in ZoneHosts,
           r.pc \in {"discover", "store", "apply"} => r.zone \in Zo!ZoneNames,
           r.pc = "store" /\ r.supported => <<r.zone, r.template>> \in zoneProven',
           r.pc = "apply" => rows[r.zone] # None /\ rows[r.zone].expires_at > zoneNow - Retention
    PROVE  ZoneInv'
<1>1. ZoneTypes /\ RowsProven /\ \A v \in ZoneWorkers : Knows(v)
  BY DEF ZoneInv
<1>2. /\ zoneWorker' \in [ZoneWorkers -> Refresh] /\ zoneWorker'[w] = r
      /\ \A v \in ZoneWorkers : v # w => zoneWorker'[v] = zoneWorker[v]
  BY <1>1, OneRefresh
<1>3. ZoneTypes'
  BY <1>1, <1>2 DEF ZoneTypes
<1>4. RowsProven'
  BY <1>1 DEF RowsProven
<1>5. Knows(w)'
  BY <1>2 DEF Knows
<1>6. ASSUME NEW v \in ZoneWorkers, v # w PROVE Knows(v)'
  BY <1>1, <1>2, <1>6 DEF Knows
<1> QED
  BY <1>3, <1>4, <1>5, <1>6 DEF ZoneInv

LEMMA ZoneClaim ==
    ASSUME Zo!ZonesConstants, ZoneInv, NEW w \in ZoneWorkers, NEW h \in ZoneHosts, Zo!Claim(w, h)
    PROVE  ZoneInv'
<1>1. ZoneTypes
  BY DEF ZoneInv
<1>2. zone[h] # None /\ UNCHANGED <<rows, template, zoneNow, zone, zoneProven>>
  BY DEF Zo!Claim
<1>3. zone[h] \in Zo!ZoneNames /\ zone \in [ZoneHosts -> Zo!ZoneNames \cup {None}]
  BY <1>1, <1>2 DEF ZoneTypes
<1>4. CASE Zo!Fresh(zone[h], template)
  <2> DEFINE r == [Zo!Idle EXCEPT !.pc = "apply", !.host = h, !.zone = zone[h]]
  <2>1. zoneWorker' = [zoneWorker EXCEPT ![w] = r]
    BY <1>4 DEF Zo!Claim
  <2>2. r \in Refresh /\ r.pc = "apply" /\ r.host = h /\ r.zone = zone[h]
    BY <1>3 DEF Zo!Idle, Refresh
  <2> HIDE DEF r
  <2>3. rows[zone[h]] # None /\ rows[zone[h]].expires_at > zoneNow
    BY <1>4 DEF Zo!Fresh
  <2>4. rows[zone[h]].expires_at \in Int /\ zoneNow \in Int /\ Retention \in Nat
    BY <1>1, <1>3, <2>3 DEF ZoneTypes, ZoneRow, Zo!ZonesConstants
  <2>5. rows[zone[h]].expires_at > zoneNow - Retention
    BY <2>3, <2>4
  <2> QED
    BY <1>2, <1>3, <2>1, <2>2, <2>3, <2>5, RefreshMoves
<1>5. CASE ~Zo!Fresh(zone[h], template)
  <2> DEFINE r == [Zo!Idle EXCEPT !.pc = "lookup", !.host = h, !.known = zone[h], !.template = template]
  <2>1. zoneWorker' = [zoneWorker EXCEPT ![w] = r]
    BY <1>5 DEF Zo!Claim
  <2>2. r \in Refresh /\ r.pc = "lookup" /\ r.host = h
    BY <1>1, <1>3 DEF Zo!Idle, Refresh, ZoneTypes
  <2> HIDE DEF r
  <2> QED
    BY <1>2, <1>3, <2>1, <2>2, RefreshMoves
<1> QED
  BY <1>4, <1>5

\* What FindZone makes of a refresh.
LEMMA FindZoneMakes ==
    ASSUME Zo!ZonesConstants, ZoneInv, NEW w \in ZoneWorkers, Zo!FindZone(w)
    PROVE  \E r \in Refresh : \E j \in 1..(Len(zoneWorker[w].host) - 1) :
             /\ zoneWorker' = [zoneWorker EXCEPT ![w] = r]
             /\ zoneWorker[w].host \in ZoneHosts /\ zoneWorker[w].pc = "lookup"
             /\ Nearest(zoneWorker[w].host, j, Zo!find_zone(zoneWorker[w].host))
             /\ r.pc \in {"apply", "discover"} /\ r.host = zoneWorker[w].host
             /\ r.zone = Zo!Suffix(zoneWorker[w].host, j) /\ r.zone \in Zo!ZoneNames
             /\ r.lookup = IF Zo!find_zone(zoneWorker[w].host).transient THEN "failed" ELSE "found"
             /\ r.pc = "apply" => Zo!Fresh(r.zone, zoneWorker[w].template)
<1> DEFINE me == zoneWorker[w]
           found == Zo!find_zone(me.host)
           lookup == IF found.transient THEN "failed" ELSE "found"
<1>1. me \in Refresh /\ me.pc = "lookup" /\ me.host \in ZoneHosts
  BY DEF ZoneInv, ZoneTypes, Knows, Zo!FindZone
<1>2. PICK j \in 1..(Len(me.host) - 1) : Nearest(me.host, j, found)
  BY <1>1, FindZoneIs
<1>3. /\ found.zone = Zo!Suffix(me.host, j) /\ found.transient \in BOOLEAN
      /\ found.zone \in Zo!ZoneNames
  BY <1>1, <1>2, SuffixIsZone DEF Nearest
<1>4. zoneWorker' = [zoneWorker EXCEPT ![w] =
                IF found.zone # me.known /\ Zo!Fresh(found.zone, me.template)
                THEN Zo!Done(me, found.zone, lookup)
                ELSE [me EXCEPT !.pc = "discover", !.known = None, !.zone = found.zone,
                                !.transient = found.transient, !.lookup = lookup]]
  BY DEF Zo!FindZone
<1>5. lookup \in {"found", "failed"}
  OBVIOUS
<1> HIDE DEF found, lookup
<1>6. CASE found.zone # me.known /\ Zo!Fresh(found.zone, me.template)
  <2> DEFINE r == [Zo!Idle EXCEPT !.pc = "apply", !.host = me.host, !.zone = found.zone, !.lookup = lookup]
  <2>1. zoneWorker' = [zoneWorker EXCEPT ![w] = r]
    BY <1>4, <1>6 DEF Zo!Done
  <2>2. r \in Refresh /\ r.pc = "apply" /\ r.host = me.host /\ r.zone = found.zone /\ r.lookup = lookup
    BY <1>1, <1>3, <1>5 DEF Zo!Idle, Refresh
  <2> HIDE DEF r
  <2> QED
    BY <1>1, <1>2, <1>3, <1>6, <2>1, <2>2 DEF found, lookup
<1>7. CASE ~(found.zone # me.known /\ Zo!Fresh(found.zone, me.template))
  <2> DEFINE r == [me EXCEPT !.pc = "discover", !.known = None, !.zone = found.zone,
                             !.transient = found.transient, !.lookup = lookup]
  <2>1. zoneWorker' = [zoneWorker EXCEPT ![w] = r]
    BY <1>4, <1>7
  <2>2. r \in Refresh /\ r.pc = "discover" /\ r.host = me.host /\ r.zone = found.zone /\ r.lookup = lookup
    BY <1>1, <1>3, <1>5 DEF Refresh
  <2> HIDE DEF r
  <2> QED
    BY <1>1, <1>2, <1>3, <2>1, <2>2 DEF found, lookup
<1> QED
  BY <1>6, <1>7

LEMMA ZoneFind ==
    ASSUME Zo!ZonesConstants, ZoneInv, NEW w \in ZoneWorkers, Zo!FindZone(w)
    PROVE  ZoneInv'
<1>1. ZoneTypes
  BY DEF ZoneInv
<1>2. UNCHANGED <<rows, template, zoneNow, zone, zoneProven>>
  BY DEF Zo!FindZone
<1>3. PICK r \in Refresh :
             /\ zoneWorker' = [zoneWorker EXCEPT ![w] = r]
             /\ zoneWorker[w].host \in ZoneHosts
             /\ r.pc \in {"apply", "discover"} /\ r.host = zoneWorker[w].host
             /\ r.zone \in Zo!ZoneNames
             /\ r.pc = "apply" => Zo!Fresh(r.zone, zoneWorker[w].template)
  BY FindZoneMakes
<1>4. r.pc = "apply" => rows[r.zone] # None /\ rows[r.zone].expires_at > zoneNow - Retention
  <2>1. r.pc = "apply" => rows[r.zone] # None /\ rows[r.zone].expires_at > zoneNow
    BY <1>3 DEF Zo!Fresh
  <2>2. rows[r.zone] # None => rows[r.zone].expires_at \in Int
    BY <1>1, <1>3 DEF ZoneTypes, ZoneRow
  <2>3. zoneNow \in Int /\ Retention \in Nat
    BY <1>1 DEF ZoneTypes, Zo!ZonesConstants
  <2> QED
    BY <2>1, <2>2, <2>3
<1>5. zone' \in [ZoneHosts -> Zo!ZoneNames \cup {None}]
  BY <1>1, <1>2 DEF ZoneTypes
<1> QED
  BY <1>2, <1>3, <1>4, <1>5, RefreshMoves

LEMMA ZoneDiscover ==
    ASSUME ZoneInv, NEW w \in ZoneWorkers, Zo!discover(w)
    PROVE  ZoneInv'
<1> DEFINE me == zoneWorker[w]
<1>1. /\ ZoneTypes /\ me \in Refresh /\ me.pc = "discover" /\ me.host \in ZoneHosts
      /\ me.zone \in Zo!ZoneNames
  BY DEF ZoneInv, ZoneTypes, Knows, Zo!discover
<1>2. UNCHANGED <<rows, template, zoneNow, zone>>
  BY DEF Zo!discover
<1>3. PICK d \in Zo!Discoveries(me.template) :
         /\ zoneWorker' = [zoneWorker EXCEPT ![w] =
              [me EXCEPT !.pc = "store", !.supported = d.supported,
                         !.transient = me.transient \/ d.transient]]
         /\ zoneProven' = IF d.supported THEN zoneProven \cup {<<me.zone, me.template>>} ELSE zoneProven
  BY DEF Zo!discover
<1>4. d.supported \in BOOLEAN
  <2>1. \/ \E tr \in BOOLEAN : d = [supported |-> FALSE, transient |-> tr]
        \/ d = [supported |-> TRUE, transient |-> FALSE]
    BY DEF Zo!Discoveries
  <2>2. ASSUME NEW tr \in BOOLEAN, d = [supported |-> FALSE, transient |-> tr]
        PROVE  d.supported \in BOOLEAN
    BY <2>2
  <2>3. CASE d = [supported |-> TRUE, transient |-> FALSE]
    BY <2>3
  <2> QED
    BY <2>1, <2>2, <2>3
<1> DEFINE r == [me EXCEPT !.pc = "store", !.supported = d.supported,
                           !.transient = me.transient \/ d.transient]
<1>5. /\ r \in Refresh /\ r.pc = "store" /\ r.host = me.host /\ r.zone = me.zone
      /\ r.template = me.template /\ r.supported = d.supported
  <2>1. (me.transient \/ d.transient) \in BOOLEAN
    OBVIOUS
  <2> QED
    BY <1>1, <1>4, <2>1 DEF Refresh
<1>6. zoneWorker' = [zoneWorker EXCEPT ![w] = r]
  BY <1>3
<1> HIDE DEF r
<1>7. zoneProven \subseteq zoneProven' /\ (r.supported => <<r.zone, r.template>> \in zoneProven')
  <2>1. CASE d.supported
    <3>1. zoneProven' = zoneProven \cup {<<me.zone, me.template>>}
      BY <1>3, <2>1
    <3> QED
      BY <1>5, <3>1
  <2>2. CASE ~d.supported
    <3>1. zoneProven' = zoneProven /\ ~r.supported
      BY <1>3, <1>5, <2>2
    <3> QED
      BY <3>1
  <2> QED
    BY <2>1, <2>2
<1>8. zone' \in [ZoneHosts -> Zo!ZoneNames \cup {None}]
  BY <1>1, <1>2 DEF ZoneTypes
<1> QED
  BY <1>1, <1>2, <1>5, <1>6, <1>7, <1>8, RefreshMoves

LEMMA ZoneStore ==
    ASSUME Zo!ZonesConstants, ZoneInv, NEW w \in ZoneWorkers, Zo!Store(w)
    PROVE  ZoneInv'
<1> DEFINE me == zoneWorker[w]
<1>1. ZoneTypes /\ RowsProven /\ \A v \in ZoneWorkers : Knows(v)
  BY DEF ZoneInv
<1>2. /\ me \in Refresh /\ me.pc = "store" /\ me.host \in ZoneHosts /\ me.zone \in Zo!ZoneNames
      /\ me.supported => <<me.zone, me.template>> \in zoneProven
  BY <1>1 DEF ZoneTypes, Knows, Zo!Store
<1>3. UNCHANGED <<template, zone, zoneProven, zoneNow>>
  BY DEF Zo!Store
<1>4. zone' \in [ZoneHosts -> Zo!ZoneNames \cup {None}]
  BY <1>1, <1>3 DEF ZoneTypes
<1>5. CASE zoneWorker' = [zoneWorker EXCEPT ![w] = Zo!Idle] /\ UNCHANGED rows
  BY <1>3, <1>4, <1>5, IdleRefresh, RefreshMoves
<1>6. CASE /\ rows' = [rows EXCEPT ![me.zone] = Zo!Stored(me)]
           /\ zoneWorker' = [zoneWorker EXCEPT ![w] = Zo!Done(me, me.zone, me.lookup)]
  <2> DEFINE row2 == Zo!Stored(me)
             r == Zo!Done(me, me.zone, me.lookup)
  <2>1. r \in Refresh /\ r.pc = "apply" /\ r.host = me.host /\ r.zone = me.zone
    BY <1>2 DEF Zo!Done, Zo!Idle, Refresh
  <2>2. /\ zoneNow \in Int /\ ZoneTtl \in Nat /\ RetryTtl \in Nat /\ Retention \in Nat \ {0}
    BY <1>1 DEF ZoneTypes, Zo!ZonesConstants
  <2> DEFINE expiry == zoneNow + (IF me.transient THEN RetryTtl ELSE ZoneTtl)
  <2>3. expiry \in Int /\ expiry > zoneNow - Retention
    BY <2>2
  <2>4. row2 = [template |-> me.template, supported |-> me.supported, expires_at |-> expiry]
    BY DEF Zo!Stored
  <2> HIDE DEF row2, r, expiry
  <2>5. /\ row2 \in ZoneRow /\ row2.expires_at = expiry /\ row2.supported = me.supported
        /\ row2.template = me.template
    BY <1>2, <2>3, <2>4 DEF Refresh, ZoneRow
  <2>6. row2 # None
    BY <2>5 DEF Zo!ZonesConstants, ZoneRow
  <2>7. /\ rows' \in [Zo!ZoneNames -> ZoneRow \cup {None}] /\ rows'[me.zone] = row2
        /\ \A z \in Zo!ZoneNames : z # me.zone => rows'[z] = rows[z]
    BY <1>1, <1>2, <1>6, <2>5 DEF ZoneTypes, row2
  <2>8. /\ zoneWorker' \in [ZoneWorkers -> Refresh] /\ zoneWorker'[w] = r
        /\ \A v \in ZoneWorkers : v # w => zoneWorker'[v] = zoneWorker[v]
    BY <1>1, <1>6, <2>1, OneRefresh DEF r
  <2>9. ZoneTypes'
    BY <1>1, <1>3, <1>4, <2>7, <2>8 DEF ZoneTypes
  <2>10. RowsProven'
    <3> SUFFICES ASSUME NEW z \in Zo!ZoneNames, rows'[z] # None, rows'[z].supported
                 PROVE  <<z, rows'[z].template>> \in zoneProven
      BY <1>3 DEF RowsProven
    <3>1. CASE z = me.zone
      BY <1>2, <2>5, <2>7, <3>1
    <3>2. CASE z # me.zone
      BY <1>1, <2>7, <3>2 DEF RowsProven
    <3> QED
      BY <3>1, <3>2
  <2>11. Knows(w)'
    BY <1>2, <1>3, <2>1, <2>3, <2>5, <2>6, <2>7, <2>8 DEF Knows
  <2>12. ASSUME NEW v \in ZoneWorkers, v # w PROVE Knows(v)'
    <3>1. Knows(v) /\ zoneWorker'[v] = zoneWorker[v]
      BY <1>1, <2>8, <2>12
    <3>2. CASE zoneWorker[v].zone = me.zone
      BY <1>3, <2>3, <2>5, <2>6, <2>7, <3>1, <3>2 DEF Knows
    <3>3. CASE zoneWorker[v].zone # me.zone
      BY <1>3, <2>7, <3>1, <3>3 DEF Knows
    <3> QED
      BY <3>2, <3>3
  <2> QED
    BY <2>9, <2>10, <2>11, <2>12 DEF ZoneInv
<1> QED
  BY <1>5, <1>6 DEF Zo!Store

LEMMA ZoneApply ==
    ASSUME ZoneInv, NEW w \in ZoneWorkers, Zo!Apply(w)
    PROVE  ZoneInv'
<1>1. /\ ZoneTypes /\ zoneWorker[w].host \in ZoneHosts /\ zoneWorker[w].zone \in Zo!ZoneNames
  BY DEF ZoneInv, Knows, Zo!Apply
<1>2. /\ UNCHANGED <<rows, template, zoneProven, zoneNow>> /\ zoneWorker' = [zoneWorker EXCEPT ![w] = Zo!Idle]
      /\ \/ zone' = [zone EXCEPT ![zoneWorker[w].host] = zoneWorker[w].zone]
         \/ UNCHANGED zone
  BY DEF Zo!Apply
<1>3. zone' \in [ZoneHosts -> Zo!ZoneNames \cup {None}]
  BY <1>1, <1>2 DEF ZoneTypes
<1> QED
  BY <1>2, <1>3, IdleRefresh, RefreshMoves

\* What the purge leaves: a row in use or not old enough.
LEMMA PurgeLeaves ==
    ASSUME Zo!ZonesConstants, ZoneInv, Zo!purge_zones
    PROVE  /\ rows' \in [Zo!ZoneNames -> ZoneRow \cup {None}]
           /\ \A z \in Zo!ZoneNames :
                /\ rows'[z] # None => rows'[z] = rows[z]
                /\ rows[z] # None /\ (rows[z].expires_at > zoneNow - Retention \/ Zo!Referenced(z))
                     => rows'[z] = rows[z]
<1>1. ZoneTypes
  BY DEF ZoneInv
<1>2. rows' = [z \in Zo!ZoneNames |->
                 IF rows[z] # None /\ rows[z].expires_at <= zoneNow - Retention /\ ~Zo!Referenced(z)
                 THEN None ELSE rows[z]]
  BY DEF Zo!purge_zones
<1>3. \A z \in Zo!ZoneNames : rows'[z] = rows[z] \/ rows'[z] = None
  BY <1>2
<1>4. rows' \in [Zo!ZoneNames -> ZoneRow \cup {None}]
  BY <1>1, <1>2, <1>3 DEF ZoneTypes
<1>5. ASSUME NEW z \in Zo!ZoneNames, rows[z] # None,
             rows[z].expires_at > zoneNow - Retention \/ Zo!Referenced(z)
      PROVE  rows'[z] = rows[z]
  <2>1. rows[z].expires_at \in Int
    BY <1>1, <1>5 DEF ZoneTypes, ZoneRow
  <2>2. zoneNow - Retention \in Int
    BY <1>1 DEF ZoneTypes, Zo!ZonesConstants
  <2>3. rows[z].expires_at > zoneNow - Retention => ~(rows[z].expires_at <= zoneNow - Retention)
    BY <2>1, <2>2
  <2> QED
    BY <1>2, <1>5, <2>3
<1> QED
  BY <1>3, <1>4, <1>5

LEMMA ZoneOthers ==
    ASSUME Zo!ZonesConstants, ZoneInv,
           \/ \E h \in ZoneHosts : Zo!Removed(h) \/ Zo!Registered(h)
           \/ Zo!purge_zones \/ Zo!set_template \/ Zo!DnsChanges \/ Zo!Tick
           \/ UNCHANGED Zo!vars
    PROVE  ZoneInv'
<1>1. ZoneTypes /\ RowsProven /\ \A v \in ZoneWorkers : Knows(v)
  BY DEF ZoneInv
<1>2. ASSUME UNCHANGED <<rows, zoneWorker, zoneProven, zoneNow>>, template' \in Templates \cup {None},
             zone' \in [ZoneHosts -> Zo!ZoneNames \cup {None}]
      PROVE  ZoneInv'
  BY <1>1, <1>2 DEF ZoneInv, ZoneTypes, RowsProven, Knows
<1>3. ASSUME NEW h \in ZoneHosts, Zo!Removed(h) \/ Zo!Registered(h) PROVE ZoneInv'
  <2>1. /\ UNCHANGED <<rows, zoneWorker, zoneProven, zoneNow, template>>
        /\ zone' = [zone EXCEPT ![h] = None] \/ zone' = [zone EXCEPT ![h] = Zo!default_zone(h)]
    BY <1>3 DEF Zo!Removed, Zo!Registered
  <2>2. zone' \in [ZoneHosts -> Zo!ZoneNames \cup {None}]
    BY <1>1, <2>1, DefaultIsZone DEF ZoneTypes
  <2> QED
    BY <1>1, <1>2, <2>1, <2>2 DEF ZoneTypes
<1>4. CASE Zo!purge_zones
  <2>1. UNCHANGED <<template, zone, zoneWorker, zoneProven, zoneNow>>
    BY <1>4 DEF Zo!purge_zones
  <2>2. /\ rows' \in [Zo!ZoneNames -> ZoneRow \cup {None}]
        /\ \A z \in Zo!ZoneNames :
             /\ rows'[z] # None => rows'[z] = rows[z]
             /\ rows[z] # None /\ rows[z].expires_at > zoneNow - Retention => rows'[z] = rows[z]
    BY <1>4, PurgeLeaves
  <2>3. ZoneTypes' /\ RowsProven'
    BY <1>1, <2>1, <2>2 DEF ZoneTypes, RowsProven
  <2>4. ASSUME NEW v \in ZoneWorkers PROVE Knows(v)'
    BY <1>1, <2>1, <2>2 DEF Knows
  <2> QED
    BY <2>3, <2>4 DEF ZoneInv
<1>5. CASE Zo!set_template \/ Zo!DnsChanges \/ UNCHANGED Zo!vars
  BY <1>1, <1>2, <1>5 DEF Zo!set_template, Zo!DnsChanges, Zo!vars, ZoneTypes
<1>6. CASE Zo!Tick
  <2>1. /\ UNCHANGED <<rows, template, zone, zoneWorker, zoneProven>> /\ zoneNow' = zoneNow + 1
        /\ \A w \in ZoneWorkers : zoneWorker[w].pc = "idle"
    BY <1>6 DEF Zo!Tick
  <2>2. zoneNow' \in Int
    BY <1>1, <2>1 DEF ZoneTypes
  <2>3. ZoneTypes' /\ RowsProven'
    BY <1>1, <2>1, <2>2 DEF ZoneTypes, RowsProven
  <2>4. ASSUME NEW v \in ZoneWorkers PROVE Knows(v)'
    BY <2>1 DEF Knows
  <2> QED
    BY <2>3, <2>4 DEF ZoneInv
<1> QED
  BY <1>3, <1>4, <1>5, <1>6

LEMMA ZoneStep ==
    ASSUME Zo!ZonesConstants, ZoneInv, [Zo!Next]_(Zo!vars) PROVE ZoneInv'
BY ZoneClaim, ZoneFind, ZoneDiscover, ZoneStore, ZoneApply, ZoneOthers DEF Zo!Next

LEMMA OffersAlwaysProven ==
    ASSUME Zo!ZonesConstants PROVE Zo!Spec => []Zo!OfferedWasProven
<1>1. ZoneInv => Zo!OfferedWasProven
  BY DEF ZoneInv, ZoneTypes, RowsProven, Zo!OfferedWasProven, Zo!select_method
<1>2. Zo!Init => ZoneInv
  BY ZonesInit
<1>3. ZoneInv /\ [Zo!Next]_(Zo!vars) => ZoneInv'
  BY ZoneStep
<1> QED
  BY <1>1, <1>2, <1>3, PTL DEF Zo!Spec

\* Only FindZone takes a refresh on from its lookup.
LEMMA LookupEnds ==
    ASSUME ZoneInv, Zo!Next, NEW w \in ZoneWorkers, zoneWorker[w].pc = "lookup", zoneWorker'[w].pc # "lookup"
    PROVE  Zo!FindZone(w)
<1>1. zoneWorker \in [ZoneWorkers -> Refresh]
  BY DEF ZoneInv, ZoneTypes
<1>2. ASSUME NEW v \in ZoneWorkers, NEW r, zoneWorker' = [zoneWorker EXCEPT ![v] = r] PROVE v = w
  BY <1>1, <1>2
<1>3. zoneWorker' # zoneWorker
  OBVIOUS
<1>4. ASSUME NEW v \in ZoneWorkers, NEW h \in ZoneHosts, Zo!Claim(v, h) PROVE FALSE
  <2>1. v = w /\ zoneWorker[v].pc = "idle"
    BY <1>2, <1>4 DEF Zo!Claim
  <2> QED
    BY <2>1
<1>5. ASSUME NEW v \in ZoneWorkers, Zo!discover(v) PROVE FALSE
  <2>1. v = w /\ zoneWorker[v].pc = "discover"
    BY <1>2, <1>5 DEF Zo!discover
  <2> QED
    BY <2>1
<1>6. ASSUME NEW v \in ZoneWorkers, Zo!Store(v) PROVE FALSE
  <2>1. v = w /\ zoneWorker[v].pc = "store"
    BY <1>2, <1>6 DEF Zo!Store
  <2> QED
    BY <2>1
<1>7. ASSUME NEW v \in ZoneWorkers, Zo!Apply(v) PROVE FALSE
  <2>1. v = w /\ zoneWorker[v].pc = "apply"
    BY <1>2, <1>7 DEF Zo!Apply
  <2> QED
    BY <2>1
<1>8. ASSUME NEW v \in ZoneWorkers, Zo!FindZone(v) PROVE v = w
  BY <1>2, <1>8 DEF Zo!FindZone
<1>9. ~(\/ \E h \in ZoneHosts : Zo!Removed(h) \/ Zo!Registered(h)
        \/ Zo!purge_zones \/ Zo!set_template \/ Zo!DnsChanges \/ Zo!Tick)
  BY <1>3 DEF Zo!Removed, Zo!Registered, Zo!purge_zones, Zo!set_template,
              Zo!DnsChanges, Zo!Tick
<1> QED
  BY <1>4, <1>5, <1>6, <1>7, <1>8, <1>9 DEF Zo!Next

LEMMA NearestFound ==
    ASSUME Zo!ZonesConstants, ZoneInv, Zo!Next
    PROVE  Zo!NearestZoneStep
<1> SUFFICES ASSUME NEW w \in ZoneWorkers, zoneWorker[w].pc = "lookup", zoneWorker'[w].pc \in {"apply", "discover"}
             PROVE  /\ Zo!Encloses(zoneWorker'[w].zone, zoneWorker[w].host)
                    /\ zoneWorker'[w].zone \notin Suffixes /\ zoneWorker'[w].zone # zoneWorker[w].host
                    /\ \/ zoneWorker'[w].lookup = "failed"
                       \/ \A n \in Zo!ZoneNames :
                            /\ Zo!Encloses(n, zoneWorker[w].host) /\ Len(n) > Len(zoneWorker'[w].zone)
                            /\ n # zoneWorker[w].host
                            => ns[n] = "none"
  BY DEF Zo!NearestZoneStep
<1> DEFINE h == zoneWorker[w].host
<1>1. ZoneTypes /\ Zo!FindZone(w)
  BY LookupEnds DEF ZoneInv
<1>2. PICK r \in Refresh, j \in 1..(Len(h) - 1) :
             /\ zoneWorker' = [zoneWorker EXCEPT ![w] = r]
             /\ h \in ZoneHosts
             /\ Nearest(h, j, Zo!find_zone(h))
             /\ r.zone = Zo!Suffix(h, j)
             /\ r.lookup = IF Zo!find_zone(h).transient THEN "failed" ELSE "found"
  BY <1>1, FindZoneMakes
<1>3. zoneWorker'[w] = r
  BY <1>1, <1>2, OneRefresh
<1>4. h \in Seq(STRING) /\ Len(h) \in Nat
  BY <1>2 DEF Zo!ZonesConstants
<1>5. j \in 0..Len(h) /\ j \in Nat /\ j < Len(h)
  BY <1>4
<1>6. Len(r.zone) = j /\ Zo!Encloses(r.zone, h)
  BY <1>2, <1>4, <1>5, SuffixIs
<1>7. r.zone # h
  BY <1>5, <1>6
<1>8. r.zone \notin Suffixes
  BY <1>2, <1>5, <1>6 DEF Nearest
<1>9. ASSUME ~Zo!find_zone(h).transient, NEW n \in Zo!ZoneNames, Zo!Encloses(n, h),
             Len(n) > j, n # h
      PROVE  ns[n] = "none"
  <2>1. Len(n) <= Len(h) /\ Zo!Suffix(h, Len(n)) = n
    BY <1>9 DEF Zo!Encloses
  <2>2. Len(n) \in Nat
    <3>1. PICK g \in ZoneHosts : \E l \in 1..(Len(g) - 1) : n = Zo!Suffix(g, l)
      BY DEF Zo!ZoneNames
    <3>2. PICK l \in 1..(Len(g) - 1) : n = Zo!Suffix(g, l)
      BY <3>1
    <3>3. g \in Seq(STRING) /\ l \in 0..Len(g)
      BY DEF Zo!ZonesConstants
    <3> QED
      BY <3>2, <3>3, SuffixIs
  <2>3. Len(n) # Len(h)
    <3>1. Zo!Suffix(h, Len(h)) = h
      <4>1. Zo!Suffix(h, Len(h)) = SubSeq(h, Len(h) - Len(h) + 1, Len(h))
        BY DEF Zo!Suffix
      <4>2. Len(h) - Len(h) + 1 = 1
        BY <1>4
      <4>3. SubSeq(h, 1, Len(h)) = h
        BY <1>4, SubSeqFull
      <4> QED
        BY <4>1, <4>2, <4>3
    <3> QED
      BY <1>9, <2>1, <3>1
  <2>4. Len(n) \in (j + 1)..(Len(h) - 1)
    BY <1>4, <1>5, <1>9, <2>1, <2>2, <2>3
  <2> QED
    BY <1>2, <1>9, <2>1, <2>4 DEF Nearest
<1> QED
  BY <1>2, <1>3, <1>6, <1>7, <1>8, <1>9

LEMMA ShownStays ==
    ASSUME Zo!ZonesConstants, ZoneInv, Zo!Next
    PROVE  Zo!ShownStaysShownStep
<1>1. ZoneTypes /\ \A v \in ZoneWorkers : Knows(v)
  BY DEF ZoneInv
<1> SUFFICES ASSUME NEW h \in ZoneHosts, zone[h] # None, rows[zone[h]] # None, zone'[h] # None
             PROVE  rows'[zone'[h]] # None
  BY DEF Zo!ShownStaysShownStep
<1>2. zone[h] \in Zo!ZoneNames
  BY <1>1 DEF ZoneTypes
<1>3. CASE UNCHANGED <<rows, zone>>
  BY <1>3
<1>4. ASSUME NEW w \in ZoneWorkers, Zo!Store(w) PROVE rows'[zone'[h]] # None
  <2>1. UNCHANGED zone /\ (UNCHANGED rows \/ rows' = [rows EXCEPT ![zoneWorker[w].zone] = Zo!Stored(zoneWorker[w])])
    BY <1>4 DEF Zo!Store
  <2>2. Zo!Stored(zoneWorker[w]) # None
    <3>1. zoneWorker[w] \in Refresh /\ zoneNow \in Int /\ ZoneTtl \in Nat /\ RetryTtl \in Nat
      BY <1>1 DEF ZoneTypes, Zo!ZonesConstants
    <3>2. zoneNow + (IF zoneWorker[w].transient THEN RetryTtl ELSE ZoneTtl) \in Int
      BY <3>1
    <3>3. Zo!Stored(zoneWorker[w]) \in ZoneRow
      BY <3>1, <3>2 DEF Zo!Stored, ZoneRow, Refresh
    <3> QED
      BY <3>3 DEF ZoneRow, Zo!ZonesConstants
  <2> QED
    BY <1>1, <1>2, <2>1, <2>2 DEF ZoneTypes
<1>5. ASSUME NEW w \in ZoneWorkers, Zo!Apply(w) PROVE rows'[zone'[h]] # None
  <2>1. /\ UNCHANGED rows /\ zoneWorker[w].pc = "apply"
        /\ UNCHANGED zone \/ zone' = [zone EXCEPT ![zoneWorker[w].host] = zoneWorker[w].zone]
    BY <1>5 DEF Zo!Apply
  <2>2. rows[zoneWorker[w].zone] # None
    BY <1>1, <2>1 DEF Knows
  <2>3. zone'[h] \in {zone[h], zoneWorker[w].zone}
    BY <1>1, <2>1 DEF ZoneTypes
  <2> QED
    BY <2>1, <2>2, <2>3
<1>6. ASSUME NEW g \in ZoneHosts, Zo!Removed(g) \/ Zo!Registered(g) PROVE rows'[zone'[h]] # None
  <2>1. UNCHANGED rows
    BY <1>6 DEF Zo!Removed, Zo!Registered
  <2>2. zone'[h] = zone[h]
    BY <1>1, <1>6 DEF Zo!Removed, Zo!Registered, ZoneTypes
  <2> QED
    BY <2>1, <2>2
<1>7. CASE Zo!purge_zones
  <2>1. UNCHANGED zone /\ Zo!Referenced(zone[h])
    BY <1>7 DEF Zo!purge_zones, Zo!Referenced
  <2>2. rows'[zone[h]] = rows[zone[h]]
    BY <1>2, <1>7, <2>1, PurgeLeaves
  <2> QED
    BY <2>1, <2>2
<1> QED
  BY <1>3, <1>4, <1>5, <1>6, <1>7 DEF Zo!Next, Zo!Claim, Zo!FindZone, Zo!discover,
     Zo!set_template, Zo!DnsChanges, Zo!Tick

LEMMA ZonesAlwaysKept == ASSUME Zo!ZonesConstants PROVE Zo!Spec => Zo!ZonesKept
<1>1. ZoneInv /\ [Zo!Next]_(Zo!vars) =>
        [Zo!NearestZoneStep /\ Zo!ShownStaysShownStep]_(Zo!vars)
  BY NearestFound, ShownStays
<1>2. Zo!Init => ZoneInv
  BY ZonesInit
<1>3. ZoneInv /\ [Zo!Next]_(Zo!vars) => ZoneInv'
  BY ZoneStep
<1> QED
  BY <1>1, <1>2, <1>3, PTL DEF Zo!Spec, Zo!ZonesKept
-----------------------------------------------------------------------------
(* What the reconciler posts and what the gateway makes of it: EdgeConfig, *)
(* the part Ga, which has the content that EdgeReconciler abstracts, for   *)
(* any names and addresses of origins and any number of changes.           *)

GateTypes == apps \in [EdgeApps -> Ga!App] /\ dns \in [OriginNames -> SUBSET Addresses]

\* The last of finitely many: the one with the fewest after it.
LEMMA LastNumber ==
    ASSUME NEW S, S \subseteq Nat, IsFiniteSet(S), S # {}
    PROVE  \E x \in S : \A y \in S : y <= x
<1> DEFINE After(n) == {s \in S : s > n}
           Counts == {Cardinality(After(n)) : n \in S}
<1>1. \A x \in S : IsFiniteSet(After(x)) /\ Cardinality(After(x)) \in Nat
  <2> TAKE x \in S
  <2>1. After(x) \in SUBSET S
    OBVIOUS
  <2>2. IsFiniteSet(After(x))
    BY <2>1, FS_Subset
  <2> QED
    BY <2>2, FS_CardinalityType
<1>2. Counts \subseteq Nat /\ Counts # {}
  BY <1>1
<1>3. PICK c \in Counts : \A d \in Counts : c <= d
  BY <1>2, LeastNumber
<1>4. PICK x \in S : c = Cardinality(After(x))
  OBVIOUS
<1>5. \A y \in S : Cardinality(After(x)) <= Cardinality(After(y))
  BY <1>3, <1>4
<1>6. ASSUME NEW y \in S, y > x PROVE FALSE
  <2>1. x \in Nat /\ y \in Nat
    OBVIOUS
  <2>2. After(y) \in SUBSET After(x)
    <3>1. ASSUME NEW s \in S, s > y PROVE s > x
      BY <1>6, <2>1, <3>1
    <3> QED
      BY <3>1
  <2>3. y \in After(x) /\ y \notin After(y)
    BY <1>6, <2>1
  <2>4. IsFiniteSet(After(x)) /\ Cardinality(After(x)) \in Nat /\ Cardinality(After(y)) \in Nat
    BY <1>1
  <2>5. Cardinality(After(x)) <= Cardinality(After(y))
    BY <1>5
  <2> HIDE DEF After
  <2>6. Cardinality(After(y)) <= Cardinality(After(x)) /\ Cardinality(After(x)) # Cardinality(After(y))
    BY <2>2, <2>3, <2>4, FS_Subset
  <2> QED
    BY <2>4, <2>5, <2>6
<1>7. \A y \in S : y <= x
  BY <1>6
<1> QED
  BY <1>7

LEMMA GateInit == ASSUME Ga!Init PROVE GateTypes
BY DEF Ga!Init, GateTypes

LEMMA GateStep == ASSUME GateTypes, [Ga!Next]_(Ga!vars) PROVE GateTypes'
<1>1. CASE UNCHANGED <<apps, dns>>
  BY <1>1 DEF GateTypes
<1>2. ASSUME NEW a \in EdgeApps, Ga!AppChanges(a) PROVE GateTypes'
  <2> DEFINE x == apps[a]
  <2>1. x \in Ga!App /\ x.active \in BOOLEAN /\ x.verified \in BOOLEAN /\ x.ownHost \in BOOLEAN
    BY DEF GateTypes, Ga!App
  <2>2. UNCHANGED dns
    BY <1>2 DEF Ga!AppChanges
  <2>3. \E y \in Ga!App : apps' = [apps EXCEPT ![a] = y]
    <3>1. CASE apps' = [apps EXCEPT ![a].active = ~@]
      <4>1. [x EXCEPT !.active = ~x.active] \in Ga!App
        BY <2>1 DEF Ga!App
      <4> QED
        BY <3>1, <4>1
    <3>2. CASE apps' = [apps EXCEPT ![a].verified = ~@]
      <4>1. [x EXCEPT !.verified = ~x.verified] \in Ga!App
        BY <2>1 DEF Ga!App
      <4> QED
        BY <3>2, <4>1
    <3>3. CASE apps' = [apps EXCEPT ![a].ownHost = ~@]
      <4>1. [x EXCEPT !.ownHost = ~x.ownHost] \in Ga!App
        BY <2>1 DEF Ga!App
      <4> QED
        BY <3>3, <4>1
    <3>4. ASSUME NEW t \in Targets, apps' = [apps EXCEPT ![a].target = t]
          PROVE  \E y \in Ga!App : apps' = [apps EXCEPT ![a] = y]
      <4>1. [x EXCEPT !.target = t] \in Ga!App
        BY <2>1 DEF Ga!App
      <4> QED
        BY <3>4, <4>1
    <3>5. ASSUME NEW n \in OriginNames, apps' = [apps EXCEPT ![a].name = n]
          PROVE  \E y \in Ga!App : apps' = [apps EXCEPT ![a] = y]
      <4>1. [x EXCEPT !.name = n] \in Ga!App
        BY <2>1 DEF Ga!App
      <4> QED
        BY <3>5, <4>1
    <3> QED
      BY <1>2, <3>1, <3>2, <3>3, <3>4, <3>5 DEF Ga!AppChanges
  <2> QED
    BY <2>2, <2>3 DEF GateTypes
<1>3. ASSUME NEW n \in OriginNames, Ga!DnsChanges(n) PROVE GateTypes'
  BY <1>3 DEF Ga!DnsChanges, GateTypes
<1>4. CASE Ga!reconcile \/ Ga!set_apps \/ UNCHANGED Ga!vars
  BY <1>1, <1>4 DEF Ga!reconcile, Ga!set_apps, Ga!vars
<1>5. CASE Ga!Change
  BY <1>1, <1>2, <1>3, <1>5 DEF Ga!Change, Ga!DomainChanges, Ga!SettingsChange
<1> QED
  BY <1>4, <1>5 DEF Ga!Next

\* The address dialled is one the origin has.
LEMMA PinnedDial ==
    ASSUME Ga!ConfigConstants, GateTypes, NEW n \in OriginNames, dns[n] # {}
    PROVE  Ga!pinned_dial(n) \in dns[n]
<1>1. dns[n] \subseteq Nat
  BY DEF Ga!ConfigConstants, GateTypes
<1>2. \E x \in dns[n] : \A y \in dns[n] : x <= y
  BY <1>1, LeastNumber
<1> QED
  BY <1>2 DEF Ga!pinned_dial

\* The origins at an address, as the gateway is told of them.
LEMMA Upstreams ==
    ASSUME GateTypes
    PROVE  /\ \A p \in Ga!edge_origins.upstreams :
                \E b \in Ga!Offered : p[2] = apps[b].name /\ p[1] \in dns[apps[b].name]
           /\ \A b \in Ga!Offered : \A x \in dns[apps[b].name] :
                <<x, apps[b].name>> \in Ga!edge_origins.upstreams
<1> DEFINE listed == {q \in Addresses \X Ga!Offered : q[1] \in dns[apps[q[2]].name]}
<1>1. Ga!edge_origins.upstreams = {<<p[1], apps[p[2]].name>> : p \in listed}
  BY DEF Ga!edge_origins, Ga!resolve_dials
<1>2. ASSUME NEW p \in Ga!edge_origins.upstreams
      PROVE  \E b \in Ga!Offered : p[2] = apps[b].name /\ p[1] \in dns[apps[b].name]
  <2>1. PICK q \in listed : p = <<q[1], apps[q[2]].name>>
    BY <1>1
  <2>2. q[2] \in Ga!Offered /\ p[2] = apps[q[2]].name /\ p[1] \in dns[apps[q[2]].name]
    BY <2>1
  <2> QED
    BY <2>2
<1>3. ASSUME NEW b \in Ga!Offered, NEW x \in dns[apps[b].name]
      PROVE  <<x, apps[b].name>> \in Ga!edge_origins.upstreams
  <2>1. b \in EdgeApps /\ apps[b].name \in OriginNames
    BY DEF Ga!Offered, GateTypes, Ga!App
  <2>2. x \in Addresses
    BY <2>1 DEF GateTypes
  <2>3. <<x, b>> \in listed
    BY <2>2
  <2> QED
    BY <1>1, <2>3
<1> QED
  BY <1>2, <1>3

\* The names the gateway's table could have kept for an address.
NamesAt(x) == {p[2] : p \in {q \in Ga!edge_origins.upstreams : q[1] = x}}

LEMMA NameKept ==
    ASSUME Ga!ConfigConstants, GateTypes, NEW x, NamesAt(x) # {}
    PROVE  Ga!NameOf(Ga!edge_origins, x) \in NamesAt(x)
<1>1. NamesAt(x) \in SUBSET OriginNames
  <2>1. ASSUME NEW n \in NamesAt(x) PROVE n \in OriginNames
    <3>1. PICK p \in Ga!edge_origins.upstreams : n = p[2]
      BY DEF NamesAt
    <3>2. PICK b \in Ga!Offered : p[2] = apps[b].name
      BY Upstreams
    <3> QED
      BY <3>1, <3>2 DEF GateTypes, Ga!App, Ga!Offered
  <2> QED
    BY <2>1
<1>2. NamesAt(x) \subseteq Nat /\ IsFiniteSet(NamesAt(x))
  <2>1. OriginNames \subseteq Nat /\ IsFiniteSet(OriginNames)
    BY DEF Ga!ConfigConstants, Ga!IsFiniteSet, IsFiniteSet
  <2>2. IsFiniteSet(NamesAt(x))
    BY <1>1, <2>1, FS_Subset
  <2> QED
    BY <1>1, <2>1, <2>2
<1>3. \E n \in NamesAt(x) : \A m \in NamesAt(x) : m <= n
  BY <1>2, LastNumber
<1>4. Ga!NameOf(Ga!edge_origins, x) = CHOOSE n \in NamesAt(x) : \A m \in NamesAt(x) : m <= n
  BY DEF Ga!NameOf, NamesAt
<1> QED
  BY <1>3, <1>4

-----------------------------------------------------------------------------
(* What the gateway accepts. *)

\* While no two origins share an address, the name kept for the address that
\* is dialled is the origin's own.
LEMMA OwnName ==
    ASSUME Ga!ConfigConstants, GateTypes, Ga!DistinctAddresses, NEW a \in Ga!Offered,
           NEW x \in dns[apps[a].name]
    PROVE  Ga!NameOf(Ga!edge_origins, x) = apps[a].name
<1>1. <<x, apps[a].name>> \in Ga!edge_origins.upstreams
  BY Upstreams
<1>2. apps[a].name \in NamesAt(x)
  BY <1>1 DEF NamesAt
<1>3. ASSUME NEW n \in NamesAt(x) PROVE n = apps[a].name
  <2>1. PICK p \in Ga!edge_origins.upstreams : n = p[2] /\ p[1] = x
    BY DEF NamesAt
  <2>2. PICK b \in Ga!Offered : p[2] = apps[b].name /\ p[1] \in dns[apps[b].name]
    BY Upstreams
  <2> QED
    BY <2>1, <2>2 DEF Ga!DistinctAddresses
<1> QED
  BY <1>2, <1>3, NameKept

LEMMA BuiltIsValid ==
    ASSUME Ga!ConfigConstants, GateTypes, Ga!DistinctAddresses
    PROVE  Ga!validate_apps(Ga!build_apps, Ga!edge_origins)
<1> DEFINE config == Ga!build_apps
           facts == Ga!edge_origins
<1>1. /\ facts.edgeNames = Ga!portal_hosts /\ facts.portal = settings.portal
      /\ facts.operator = settings.operator /\ facts.publicApi = settings.publicApi
  BY DEF Ga!edge_origins
<1>2. /\ config.portal = Ga!allowlisted_routes_for(Ga!portal_hosts, settings.portal)
      /\ config.operator = Ga!allowlisted_routes_for(Ga!portal_hosts, settings.operator)
      /\ config.api = Ga!api_route
      /\ config.tls = IF settings.disableHttps THEN None ELSE "on_demand"
      /\ config.routes = [a \in Ga!serveable_route_groups |->
                            [hosts |-> Ga!Routed(a), proxy |-> Ga!_origin_proxy(a)]]
  BY DEF Ga!build_apps
<1> HIDE DEF config, facts
<1>3. ASSUME NEW ranges PROVE Ga!ValidPair(Ga!allowlisted_routes_for(Ga!portal_hosts, ranges), ranges, facts)
  BY <1>1 DEF Ga!ValidPair, Ga!allowlisted_routes_for
<1>4. Ga!ValidApi(config.api, facts)
  BY <1>1, <1>2 DEF Ga!ValidApi, Ga!api_route
<1>5. ASSUME NEW a \in DOMAIN config.routes
      PROVE  Ga!_validate_app_route(config.routes[a], facts)
  <2>1. a \in Ga!Offered /\ a \in EdgeApps /\ dns[apps[a].name] # {} /\ apps[a].name \in OriginNames
    BY <1>2 DEF Ga!serveable_route_groups, Ga!Offered, GateTypes, Ga!App
  <2> DEFINE x == Ga!pinned_dial(apps[a].name)
  <2>2. x \in dns[apps[a].name]
    BY <2>1, PinnedDial
  <2>3. config.routes[a].proxy = Ga!_origin_proxy(a)
    BY <1>2
  <2>4. /\ config.routes[a].proxy.dial = x
        /\ config.routes[a].proxy.host \in {None, apps[a].name}
        /\ config.routes[a].proxy.serverName \in {None, apps[a].name}
    BY <2>3 DEF Ga!_origin_proxy
  <2> HIDE DEF x
  <2>5. <<x, apps[a].name>> \in facts.upstreams
    BY <2>1, <2>2, Upstreams DEF facts
  <2>6. Ga!NameOf(facts, x) = apps[a].name
    BY <2>1, <2>2, OwnName DEF facts
  <2>7. \E p \in facts.upstreams : p[1] = x
    BY <2>5
  <2> QED
    BY <2>4, <2>6, <2>7 DEF Ga!_validate_app_route
<1>6. ASSUME NEW a \in DOMAIN config.routes, NEW b \in DOMAIN config.routes, a # b
      PROVE  config.routes[a].hosts \cap config.routes[b].hosts = {}
  <2>1. config.routes[a].hosts = Ga!Routed(a) /\ config.routes[b].hosts = Ga!Routed(b)
    BY <1>2
  <2> QED
    BY <1>6, <2>1 DEF Ga!Routed
<1> QED
  BY <1>1, <1>2, <1>3, <1>4, <1>5, <1>6 DEF Ga!validate_apps, config, facts

LEMMA Admission == Ga!AdmissionNests
<1> SUFFICES ASSUME NEW h \in EdgeHosts
             PROVE  /\ Ga!is_serveable(domains[h]) => Ga!routable(domains[h])
                    /\ Ga!routable(domains[h]) => Ga!tls_ask(h)
  BY DEF Ga!AdmissionNests
<1> QED
  BY DEF Ga!is_serveable, Ga!routable, Ga!tls_ask, Ga!certificate_authorized

LEMMA OwnerAnswers == Ga!OnlyTheOwnerAnswers
<1> SUFFICES ASSUME NEW a, NEW h, NEW probe \in BOOLEAN, Ga!verify(Ga!edge_assert(h, probe), a)
             PROVE  /\ domains[h].owner = a /\ apps[a].active
                    /\ domains[h].status \in {"provisioning", "ready", "attention_required"}
                    /\ ~probe => Ga!is_serveable(domains[h])
  BY DEF Ga!OnlyTheOwnerAnswers
<1>1. Ga!edge_assert(h, probe) = a /\ Ga!edge_assert(h, probe) # None
  BY DEF Ga!verify
<1>2. /\ domains[h].owner = a
      /\ Ga!is_serveable(domains[h]) \/ (Ga!routable(domains[h]) /\ probe)
  BY <1>1 DEF Ga!edge_assert
<1> QED
  BY <1>2 DEF Ga!is_serveable, Ga!routable

LEMMA PartsAlwaysAgree == ASSUME Ga!ConfigConstants PROVE Ga!Spec => []Ga!EdgeAgrees
<1>1. GateTypes => Ga!EdgeAgrees
  BY BuiltIsValid, Admission, OwnerAnswers DEF Ga!EdgeAgrees, Ga!AcceptedUnlessShared
<1> QED
  BY <1>1, GateInit, GateStep, PTL DEF Ga!Spec

LEMMA AlwaysVouched == ASSUME Ga!ConfigConstants PROVE Ga!Spec => Ga!AcceptedIsVouched
<1>1. GateTypes /\ [Ga!Next]_(Ga!vars) => [Ga!AcceptedIsVouchedStep]_(Ga!vars)
  <2> SUFFICES ASSUME GateTypes, Ga!Next, verdict = None, verdict' = "accepted"
               PROVE  Ga!AcceptedIsVouchedStep
    BY DEF Ga!AcceptedIsVouchedStep
  <2>1. /\ Ga!validate_apps(payload, Ga!edge_origins) /\ running' = payload
    BY DEF Ga!Next, Ga!reconcile, Ga!set_apps, Ga!Change, Ga!ConfigConstants
  <2> DEFINE facts == Ga!edge_origins
  <2>2. /\ facts.portal = settings.portal
        /\ facts.operator = settings.operator /\ facts.publicApi = settings.publicApi
    BY DEF Ga!edge_origins
  <2>3. /\ Ga!ValidPair(payload.portal, facts.portal, facts)
        /\ Ga!ValidPair(payload.operator, facts.operator, facts)
        /\ Ga!ValidApi(payload.api, facts)
        /\ \A a \in DOMAIN payload.routes : Ga!_validate_app_route(payload.routes[a], facts)
    BY <2>1 DEF Ga!validate_apps
  <2> HIDE DEF facts
  <2>4. ASSUME NEW a \in DOMAIN payload.routes
        PROVE  \E b \in EdgeApps :
                  /\ apps[b].active /\ apps[b].verified
                  /\ payload.routes[a].proxy.dial \in dns[apps[b].name]
                  /\ {payload.routes[a].proxy.host, payload.routes[a].proxy.serverName}
                       \subseteq {None, apps[b].name}
    <3> DEFINE x == payload.routes[a].proxy.dial
               name == Ga!NameOf(facts, x)
    <3>1. /\ \E p \in facts.upstreams : p[1] = x
          /\ {payload.routes[a].proxy.host, payload.routes[a].proxy.serverName} \subseteq {None, name}
      BY <2>3 DEF Ga!_validate_app_route
    <3>2. NamesAt(x) # {}
      BY <3>1 DEF NamesAt, facts
    <3>3. name \in NamesAt(x)
      BY <3>2, NameKept DEF facts
    <3> HIDE DEF name
    <3>4. PICK p \in facts.upstreams : name = p[2] /\ p[1] = x
      BY <3>3 DEF NamesAt, facts
    <3>5. PICK b \in Ga!Offered : p[2] = apps[b].name /\ p[1] \in dns[apps[b].name]
      BY Upstreams DEF facts
    <3>6. b \in EdgeApps /\ apps[b].active /\ apps[b].verified
      BY DEF Ga!Offered, Ga!serving_origin
    <3> QED
      BY <3>1, <3>4, <3>5, <3>6
  <2>5. /\ payload.portal # None => payload.portal.ranges = settings.portal
        /\ payload.operator # None => payload.operator.ranges = settings.operator
        /\ payload.api # None => settings.publicApi
    BY <2>2, <2>3 DEF Ga!ValidPair, Ga!ValidApi
  <2> QED
    BY <2>1, <2>4, <2>5 DEF Ga!AcceptedIsVouchedStep
<1> QED
  BY <1>1, GateInit, GateStep, PTL DEF Ga!Spec, Ga!AcceptedIsVouched

-----------------------------------------------------------------------------
(* What a reconciler run makes of Caddy's counters: Traffic, the part Tr,  *)
(* for any number of applications, requests and runs.                      *)

(* The sum of all applications' counts. *)

Counts == [requests : Int, bytes : Int]

\* One step of the fold: an element of s and the sum of the others.
Summed(f, s, g) ==
    IF s = {} THEN Tr!Zero
    ELSE Tr!Plus(f[CHOOSE x \in s : TRUE], g[s \ {CHOOSE x \in s : TRUE}])

Sums(f) == CHOOSE g : g = [s \in SUBSET DOMAIN f |-> Summed(f, s, g)]

LEMMA FoldIsSum ==
    ASSUME NEW f
    PROVE  Tr!FoldFunction(Tr!Plus, Tr!Zero, f) = Sums(f)[DOMAIN f]
BY DEF Tr!FoldFunction, Tr!FoldFunctionOnSet, Tr!MapThenFoldSet, Sums, Summed

\* Of some subsets of a finite set, one of the smallest.
LEMMA SmallestSet ==
    ASSUME NEW S, IsFiniteSet(S), NEW C \in SUBSET SUBSET S, C # {}
    PROVE  \E s \in C : \A x \in s : s \ {x} \notin C
<1> DEFINE Sizes == {Cardinality(s) : s \in C}
<1>1. \A s \in C : IsFiniteSet(s) /\ Cardinality(s) \in Nat
  BY FS_Subset, FS_CardinalityType
<1>2. Sizes \subseteq Nat /\ Sizes # {}
  BY <1>1
<1>3. PICK n \in Sizes : \A m \in Sizes : n <= m
  BY <1>2, LeastNumber
<1>4. PICK s \in C : n = Cardinality(s)
  OBVIOUS
<1>5. ASSUME NEW x \in s, s \ {x} \in C PROVE FALSE
  <2>1. Cardinality(s \ {x}) = Cardinality(s) - 1
    BY <1>1, FS_RemoveElement
  <2>2. Cardinality(s) <= Cardinality(s \ {x})
    BY <1>3, <1>4, <1>5
  <2> QED
    BY <1>1, <2>1, <2>2
<1> QED
  BY <1>5

\* The recursion of the fold has a solution on the sets up to any size.
LEMMA SumsExist ==
    ASSUME NEW f, IsFiniteSet(DOMAIN f)
    PROVE  \E g : g = [s \in SUBSET DOMAIN f |-> Summed(f, s, g)]
<1> DEFINE Upto(n) == {s \in SUBSET DOMAIN f : Cardinality(s) <= n}
           Bad == {n \in Nat : ~ \E g : g = [s \in Upto(n) |-> Summed(f, s, g)]}
<1>0. \A s \in SUBSET DOMAIN f : IsFiniteSet(s) /\ Cardinality(s) \in Nat
  BY FS_Subset, FS_CardinalityType
<1>1. ASSUME Bad # {} PROVE FALSE
  <2>1. PICK n \in Bad : \A m \in Bad : n <= m
    BY <1>1, LeastNumber
  <2>2. CASE n = 0
    <3> DEFINE g == [s \in Upto(0) |-> Tr!Zero]
    <3>1. ASSUME NEW s \in Upto(0) PROVE s = {}
      <4>1. Cardinality(s) = 0 /\ IsFiniteSet(s)
        BY <1>0
      <4> QED
        BY <4>1, FS_EmptySet
    <3>2. g = [s \in Upto(0) |-> Summed(f, s, g)]
      BY <3>1 DEF Summed
    <3> QED
      BY <2>2, <3>2
  <2>3. CASE n # 0
    <3>0. n \in Nat
      BY <2>1
    <3>1. n - 1 \in Nat /\ n - 1 \notin Bad /\ n \in Nat
      <4> HIDE DEF Bad
      <4> QED
        BY <2>1, <2>3, <3>0
    <3>2. PICK h : h = [s \in Upto(n - 1) |-> Summed(f, s, h)]
      BY <3>1
    <3> DEFINE g == [s \in Upto(n) |-> Summed(f, s, h)]
    <3>3. ASSUME NEW s \in Upto(n) PROVE Summed(f, s, g) = Summed(f, s, h)
      <4>1. CASE s = {}
        BY <4>1 DEF Summed
      <4>2. CASE s # {}
        <5> DEFINE x == CHOOSE x \in s : TRUE
        <5>1. x \in s
          BY <4>2
        <5>2. Cardinality(s \ {x}) = Cardinality(s) - 1 /\ Cardinality(s) <= n /\ Cardinality(s) \in Nat
          BY <1>0, <5>1, FS_RemoveElement
        <5> DEFINE t == s \ {x}
        <5>3. t \in Upto(n - 1) /\ t \in Upto(n)
          BY <5>2, <3>1
        <5>4. g[t] = h[t]
          <6>1. g[t] = Summed(f, t, h)
            BY <5>3
          <6>2. h[t] = Summed(f, t, h)
            BY <3>2, <5>3
          <6> QED
            BY <6>1, <6>2
        <5> HIDE DEF g
        <5> QED
          BY <4>2, <5>4 DEF Summed
      <4> QED
        BY <4>1, <4>2
    <3>4. g = [s \in Upto(n) |-> Summed(f, s, g)]
      BY <3>3
    <3> QED
      BY <2>1, <3>4
  <2> QED
    BY <2>2, <2>3
<1>2. Cardinality(DOMAIN f) \in Nat \ Bad
  BY <1>0, <1>1
<1>3. ASSUME NEW s \in SUBSET DOMAIN f PROVE s \in Upto(Cardinality(DOMAIN f))
  BY FS_Subset
<1>4. Upto(Cardinality(DOMAIN f)) = SUBSET DOMAIN f
  BY <1>3
<1>5. PICK g : g = [s \in Upto(Cardinality(DOMAIN f)) |-> Summed(f, s, g)]
  BY <1>2
<1> QED
  BY <1>4, <1>5

LEMMA SumsAre ==
    ASSUME NEW f, IsFiniteSet(DOMAIN f), NEW s \in SUBSET DOMAIN f
    PROVE  Sums(f)[s] = Summed(f, s, Sums(f))
<1>1. Sums(f) = [t \in SUBSET DOMAIN f |-> Summed(f, t, Sums(f))]
  BY SumsExist DEF Sums
<1> QED
  BY <1>1

LEMMA PlusIs ==
    ASSUME NEW x \in Counts, NEW y \in Counts, NEW d \in Counts
    PROVE  /\ Tr!Plus(x, y) \in Counts /\ Tr!Zero \in Counts
           /\ Tr!Plus(x, Tr!Plus(y, d)) = Tr!Plus(Tr!Plus(x, y), d)
           /\ Tr!Plus(Tr!Plus(x, d), y) = Tr!Plus(Tr!Plus(x, y), d)
           /\ Tr!Plus(x, Tr!Zero) = x
BY DEF Counts, Tr!Plus, Tr!Zero

LEMMA SumsType ==
    ASSUME NEW S, IsFiniteSet(S), NEW f \in [S -> Counts], NEW s \in SUBSET S
    PROVE  Sums(f)[s] \in Counts
<1> DEFINE C == {t \in SUBSET S : Sums(f)[t] \notin Counts}
<1>1. ASSUME C # {} PROVE FALSE
  <2>1. PICK t \in C : \A x \in t : t \ {x} \notin C
    <3>1. C \in SUBSET SUBSET S
      OBVIOUS
    <3> HIDE DEF C
    <3> QED
      BY <1>1, <3>1, SmallestSet
  <2>2. Sums(f)[t] = Summed(f, t, Sums(f))
    BY SumsAre
  <2>3. CASE t = {}
    BY <2>1, <2>2, <2>3 DEF Summed, Counts, Tr!Zero
  <2>4. CASE t # {}
    <3> DEFINE x == CHOOSE x \in t : TRUE
    <3>1. x \in t /\ x \in S
      BY <2>4
    <3>2. t \ {x} \in SUBSET S /\ t \ {x} \notin C
      BY <2>1, <3>1
    <3>3. Sums(f)[t \ {x}] \in Counts /\ f[x] \in Counts
      BY <3>1, <3>2
    <3>4. Sums(f)[t] = Tr!Plus(f[x], Sums(f)[t \ {x}])
      BY <2>2, <2>4 DEF Summed
    <3> QED
      BY <2>1, <3>3, <3>4, PlusIs
  <2> QED
    BY <2>3, <2>4
<1> QED
  BY <1>1

\* Adding to one application's count adds to the sum.
LEMMA SumsAdd ==
    ASSUME NEW S, IsFiniteSet(S), NEW f \in [S -> Counts], NEW a \in S, NEW d \in Counts,
           NEW h \in [S -> Counts], h[a] = Tr!Plus(f[a], d),
           \A x \in S : x # a => h[x] = f[x],
           NEW s \in SUBSET S
    PROVE  Sums(h)[s] = IF a \in s THEN Tr!Plus(Sums(f)[s], d) ELSE Sums(f)[s]
<1> DEFINE Right(t) == Sums(h)[t] = IF a \in t THEN Tr!Plus(Sums(f)[t], d) ELSE Sums(f)[t]
           C == {t \in SUBSET S : ~Right(t)}
<1>1. ASSUME C # {} PROVE FALSE
  <2>1. PICK t \in C : \A x \in t : t \ {x} \notin C
    <3>1. C \in SUBSET SUBSET S
      OBVIOUS
    <3> HIDE DEF C
    <3> QED
      BY <1>1, <3>1, SmallestSet
  <2>2. Sums(f)[t] = Summed(f, t, Sums(f)) /\ Sums(h)[t] = Summed(h, t, Sums(h))
    BY SumsAre
  <2>3. CASE t = {}
    BY <2>1, <2>2, <2>3 DEF Summed
  <2>4. CASE t # {}
    <3> DEFINE x == CHOOSE x \in t : TRUE
               u == t \ {x}
    <3>1. x \in t /\ x \in S
      BY <2>4
    <3>2. u \in SUBSET S /\ Right(u)
      BY <2>1, <3>1
    <3>3. Sums(f)[u] \in Counts /\ f[x] \in Counts
      BY <3>1, <3>2, SumsType
    <3>4. Sums(f)[t] = Tr!Plus(f[x], Sums(f)[u]) /\ Sums(h)[t] = Tr!Plus(h[x], Sums(h)[u])
      BY <2>2, <2>4 DEF Summed
    <3>6. ~Right(t) /\ Right(u) /\ (a \in t <=> a = x \/ a \in u) /\ x \notin u
      BY <2>1, <3>1, <3>2
    <3> HIDE DEF x, u
    <3>5. CASE x = a
      <4>1. Sums(h)[t] = Tr!Plus(Tr!Plus(f[x], d), Sums(f)[u])
        BY <3>4, <3>5, <3>6
      <4>2. Tr!Plus(Tr!Plus(f[x], d), Sums(f)[u])
              = Tr!Plus(Tr!Plus(f[x], Sums(f)[u]), d)
        BY <3>3 DEF Counts, Tr!Plus
      <4> QED
        BY <4>1, <4>2, <3>4, <3>5, <3>6
    <3>7. CASE x # a /\ a \in u
      <4>1. Sums(h)[t] = Tr!Plus(f[x], Tr!Plus(Sums(f)[u], d))
        BY <3>1, <3>4, <3>7, <3>6
      <4>2. Tr!Plus(f[x], Tr!Plus(Sums(f)[u], d))
              = Tr!Plus(Tr!Plus(f[x], Sums(f)[u]), d)
        BY <3>3 DEF Counts, Tr!Plus
      <4> QED
        BY <4>1, <4>2, <3>4, <3>7, <3>6
    <3>8. CASE x # a /\ a \notin u
      BY <3>1, <3>4, <3>8, <3>6
    <3> QED
      BY <3>5, <3>7, <3>8
  <2> QED
    BY <2>3, <2>4
<1>2. Right(s)
  BY <1>1
<1> QED
  BY <1>2

\* Nothing was counted, so the sum is nothing.
LEMMA SumsZero ==
    ASSUME NEW S, IsFiniteSet(S), NEW s \in SUBSET S
    PROVE  Sums([a \in S |-> Tr!Zero])[s] = Tr!Zero
<1> DEFINE f == [a \in S |-> Tr!Zero]
           C == {t \in SUBSET S : Sums(f)[t] # Tr!Zero}
<1>0. DOMAIN f = S /\ \A x \in S : f[x] = Tr!Zero
  OBVIOUS
<1> HIDE DEF f
<1>1. ASSUME C # {} PROVE FALSE
  <2>1. PICK t \in C : \A x \in t : t \ {x} \notin C
    <3>1. C \in SUBSET SUBSET S
      OBVIOUS
    <3> HIDE DEF C
    <3> QED
      BY <1>1, <3>1, SmallestSet
  <2>2. Sums(f)[t] = Summed(f, t, Sums(f))
    BY <1>0, SumsAre
  <2>3. CASE t = {}
    BY <2>1, <2>2, <2>3 DEF Summed
  <2>4. CASE t # {}
    <3> DEFINE x == CHOOSE x \in t : TRUE
    <3>1. x \in t /\ x \in S
      BY <2>4
    <3>2. t \ {x} \in SUBSET S /\ t \ {x} \notin C
      BY <2>1, <3>1
    <3>3. Sums(f)[t \ {x}] = Tr!Zero /\ f[x] = Tr!Zero
      BY <1>0, <3>1, <3>2
    <3>4. Sums(f)[t] = Tr!Plus(Tr!Zero, Tr!Zero)
      BY <2>2, <2>4, <3>3 DEF Summed
    <3>5. Tr!Plus(Tr!Zero, Tr!Zero) = Tr!Zero
      BY DEF Tr!Plus, Tr!Zero
    <3> QED
      BY <2>1, <3>4, <3>5
  <2> QED
    BY <2>3, <2>4
<1>2. Sums(f)[s] = Tr!Zero
  BY <1>1
<1> QED
  BY <1>2 DEF f

Sum(f) == Tr!FoldFunction(Tr!Plus, Tr!Zero, f)

LEMMA SumIs ==
    ASSUME Tr!TrafficConstants
    PROVE  /\ \A f \in [EdgeApps -> Counts] : Sum(f) \in Counts
           /\ \A f \in [EdgeApps -> Counts], a \in EdgeApps, d \in Counts :
                Sum([f EXCEPT ![a] = Tr!Plus(@, d)]) = Tr!Plus(Sum(f), d)
           /\ Sum([a \in EdgeApps |-> Tr!Zero]) = Tr!Zero
<1>0. IsFiniteSet(EdgeApps) /\ EdgeApps \in SUBSET EdgeApps
  BY DEF Tr!TrafficConstants, Tr!IsFiniteSet, IsFiniteSet
<1>1. ASSUME NEW f \in [EdgeApps -> Counts] PROVE Sum(f) \in Counts
  <2>1. Sum(f) = Sums(f)[EdgeApps]
    BY FoldIsSum DEF Sum
  <2> QED
    BY <1>0, <2>1, SumsType
<1>2. ASSUME NEW f \in [EdgeApps -> Counts], NEW a \in EdgeApps, NEW d \in Counts
      PROVE  Sum([f EXCEPT ![a] = Tr!Plus(@, d)]) = Tr!Plus(Sum(f), d)
  <2> DEFINE h == [f EXCEPT ![a] = Tr!Plus(@, d)]
  <2>1. /\ DOMAIN f = EdgeApps /\ DOMAIN h = EdgeApps
        /\ h[a] = Tr!Plus(f[a], d) /\ \A x \in EdgeApps : x # a => h[x] = f[x]
    OBVIOUS
  <2>0. h \in [EdgeApps -> Counts]
    BY PlusIs
  <2> HIDE DEF h
  <2>2. Sums(h)[EdgeApps] = Tr!Plus(Sums(f)[EdgeApps], d)
    BY <1>0, <2>0, <2>1, SumsAdd
  <2>3. Sum(f) = Sums(f)[EdgeApps] /\ Sum(h) = Sums(h)[EdgeApps]
    BY <2>1, FoldIsSum DEF Sum
  <2>4. Sum(h) = Tr!Plus(Sum(f), d)
    BY <2>2, <2>3
  <2> QED
    BY <2>4 DEF h
<1>3. Sum([a \in EdgeApps |-> Tr!Zero]) = Tr!Zero
  <2> DEFINE f == [a \in EdgeApps |-> Tr!Zero]
  <2>1. DOMAIN f = EdgeApps /\ Sums(f)[EdgeApps] = Tr!Zero
    BY <1>0, SumsZero
  <2> HIDE DEF f
  <2>2. Sum(f) = Tr!Zero
    BY <2>1, FoldIsSum DEF Sum
  <2> QED
    BY <2>2 DEF f
<1> QED
  BY <1>1, <1>2, <1>3

-----------------------------------------------------------------------------
(* What Caddy counted, what is recorded, and what is still to be added. *)

NatCounts == [requests : Nat, bytes : Nat]
Leq(x, y) == x.requests <= y.requests /\ x.bytes <= y.bytes

TrafficTypes ==
    /\ total \in NatCounts /\ counter \in NatCounts /\ served \in NatCounts /\ lost \in Counts
    /\ traffic \in [EdgeApps -> Counts] /\ trafficOwner \in EdgeApps \cup {None}
    /\ run \in [pc : {"idle", "locked", "applying", "changed", "committing"},
                counter : NatCounts, traffic : [EdgeApps -> Counts]]
    /\ faulty \in BOOLEAN /\ posted \in BOOLEAN
    /\ total.bytes <= total.requests

\* What would be recorded if the total were read now, never more than served.
Could(f, base) == Tr!Plus(Sum(f), Tr!Added(total, base))

Within ==
    /\ Leq(Could(traffic, counter), served)
    /\ run.pc # "idle" => Leq(Could(run.traffic, run.counter), served)
    /\ run.pc = "changed" => Leq(Tr!Plus(Sum(run.traffic), total), served)

\* The counts in force: those of the tally that will commit, if there is one.
Current == IF run.pc = "idle" THEN traffic ELSE run.traffic
Base == IF run.pc = "idle" THEN counter
        ELSE IF run.pc = "changed" THEN Tr!Zero ELSE run.counter

Exact ==
    ~faulty =>
        /\ ~posted /\ Leq(Base, total)
        /\ Tr!Plus(Tr!Plus(Sum(Current), lost), Tr!Minus(total, Base)) = served

TrafficInv == TrafficTypes /\ Within /\ Exact

LEMMA TrafficInit ==
    ASSUME Tr!TrafficConstants, Tr!Init PROVE TrafficInv
<1>0. Sum([a \in EdgeApps |-> Tr!Zero]) = Tr!Zero
  BY SumIs
<1>1. TrafficTypes
  <2>1. Tr!Zero \in NatCounts /\ NatCounts \subseteq Counts
    BY DEF Tr!Zero, NatCounts, Counts
  <2>2. Tr!Zero.bytes <= Tr!Zero.requests
    BY DEF Tr!Zero
  <2>3. [a \in EdgeApps |-> Tr!Zero] \in [EdgeApps -> Counts]
    BY <2>1
  <2> QED
    BY <2>1, <2>2, <2>3 DEF Tr!Init, TrafficTypes, Tr!Idle
<1>2. Sum(traffic) = Tr!Zero
  BY <1>0 DEF Tr!Init
<1>3. Within /\ Exact
  BY <1>2 DEF Tr!Init, Within, Exact, Could, Current, Base, Leq, Tr!Idle, Tr!Zero,
              Tr!Plus, Tr!Minus, Tr!Added
<1> QED
  BY <1>1, <1>3 DEF TrafficInv

LEMMA TrafficTypesKept ==
    ASSUME Tr!TrafficConstants, TrafficTypes, [Tr!Next]_(Tr!vars)
    PROVE  TrafficTypes'
<1>0. /\ run.pc \in {"idle", "locked", "applying", "changed", "committing"}
      /\ run.counter \in NatCounts /\ run.traffic \in [EdgeApps -> Counts]
      /\ Tr!Zero \in NatCounts /\ total \in NatCounts /\ NatCounts \subseteq Counts
  BY DEF TrafficTypes, NatCounts, Counts, Tr!Zero
<1>1. ASSUME NEW b \in {0, 1}, Tr!Serve(b) PROVE TrafficTypes'
  BY <1>1 DEF TrafficTypes, Tr!Serve, Tr!Plus, NatCounts
<1>2. CASE Tr!Restart
  BY <1>0, <1>2 DEF TrafficTypes, Tr!Restart, Tr!Zero
<1>3. CASE Tr!AppliedLate
  <2>1. total' \in NatCounts /\ total'.bytes <= total'.requests
    <3>1. CASE total' = total
      BY <3>1 DEF TrafficTypes
    <3>2. CASE total' = Tr!Zero
      BY <1>0, <3>2 DEF Tr!Zero
    <3> QED
      BY <1>3, <3>1, <3>2 DEF Tr!AppliedLate
  <2> QED
    BY <1>3, <2>1 DEF TrafficTypes, Tr!AppliedLate
<1>4. CASE Tr!OwnerChanges
  BY <1>4 DEF TrafficTypes, Tr!OwnerChanges
<1>5. CASE Tr!acquire_reconcile_lock
  BY <1>5 DEF TrafficTypes, Tr!acquire_reconcile_lock
<1>6. CASE Tr!record_totals
  <2> DEFINE added == Tr!Added(total, run.counter)
  <2>1. added \in Counts
    BY <1>0 DEF Tr!Added, Tr!Minus, Counts, NatCounts
  <2>2. trafficOwner # None => [run.traffic EXCEPT ![trafficOwner] = Tr!Plus(@, added)] \in [EdgeApps -> Counts]
    <3>1. trafficOwner # None => Tr!Plus(run.traffic[trafficOwner], added) \in Counts
      BY <1>0, <2>1 DEF TrafficTypes, Tr!Plus, Counts
    <3> QED
      BY <1>0, <3>1
  <2>3. Tr!Plus(lost, added) \in Counts
    BY <2>1 DEF TrafficTypes, Tr!Plus, Counts
  <2> HIDE DEF added
  <2>4. run'.pc = "applying" /\ run'.counter \in NatCounts /\ run'.traffic \in [EdgeApps -> Counts]
        /\ run' = [pc |-> run'.pc, counter |-> run'.counter, traffic |-> run'.traffic]
    <3>1. CASE run' = [pc |-> "applying", counter |-> total,
                       traffic |-> IF trafficOwner = None THEN run.traffic
                                   ELSE [run.traffic EXCEPT ![trafficOwner] = Tr!Plus(@, added)]]
      BY <1>0, <2>2, <3>1
    <3>2. CASE \E base \in {run.counter, Tr!Zero} :
           run' = [run EXCEPT !.pc = "applying", !.counter = base]
      BY <1>0, <3>2 DEF TrafficTypes
    <3>3. CASE run' = [run EXCEPT !.pc = "applying"]
      BY <1>0, <3>3 DEF TrafficTypes
    <3> QED
      BY <1>6, <3>1, <3>2, <3>3 DEF Tr!record_totals, added
  <2>5. lost' \in Counts /\ faulty' \in BOOLEAN
    BY <1>6, <2>3 DEF TrafficTypes, Tr!record_totals, added
  <2> QED
    BY <1>6, <2>4, <2>5 DEF TrafficTypes, Tr!record_totals
<1>7. CASE Tr!Unchanged
  BY <1>7 DEF TrafficTypes, Tr!Unchanged
<1>8. CASE Tr!Applied
  <2>1. lost' \in Counts
    BY <1>0, <1>8 DEF TrafficTypes, Tr!Applied, Tr!Plus, Tr!Minus, Counts, NatCounts
  <2> QED
    BY <1>0, <1>8, <2>1 DEF TrafficTypes, Tr!Applied, Tr!Zero
<1>9. CASE Tr!TimedOut
  BY <1>9 DEF TrafficTypes, Tr!TimedOut, Tr!AfterTimeout
<1>10. CASE Tr!reset_baselines
  BY <1>0, <1>10 DEF TrafficTypes, Tr!reset_baselines
<1>11. CASE Tr!Commit
  <2>1. Tr!Idle \in [pc : {"idle", "locked", "applying", "changed", "committing"},
                    counter : NatCounts, traffic : [EdgeApps -> Counts]]
    BY <1>0 DEF Tr!Idle
  <2> QED
    BY <1>0, <1>11, <2>1 DEF TrafficTypes, Tr!Commit
<1>12. CASE UNCHANGED Tr!vars
  BY <1>12 DEF TrafficTypes, Tr!vars
<1> QED
  BY <1>1, <1>2, <1>3, <1>4, <1>5, <1>6, <1>7, <1>8, <1>9, <1>10, <1>11, <1>12 DEF Tr!Next

\* Serving adds as much to what could be recorded as to what was served; a
\* total that starts again adds nothing.
LEMMA CouldGrow ==
    ASSUME NEW x \in NatCounts, NEW base \in NatCounts, NEW sum \in Counts, NEW s \in NatCounts,
           NEW d \in NatCounts,
           Leq(Tr!Plus(sum, Tr!Added(x, base)), s)
    PROVE  /\ Leq(Tr!Plus(sum, Tr!Added(Tr!Plus(x, d), base)), Tr!Plus(s, d))
           /\ Leq(Tr!Plus(sum, Tr!Added(Tr!Zero, base)), s)
           /\ Leq(sum, s)
BY DEF NatCounts, Counts, Leq, Tr!Plus, Tr!Minus, Tr!Added, Tr!Zero

LEMMA WithinKept ==
    ASSUME Tr!TrafficConstants, TrafficTypes, Within, [Tr!Next]_(Tr!vars)
    PROVE  Within'
<1> USE DEF Could
<1>0. /\ run.pc \in {"idle", "locked", "applying", "changed", "committing"}
      /\ run.counter \in NatCounts /\ run.traffic \in [EdgeApps -> Counts] /\ traffic \in [EdgeApps -> Counts]
      /\ total \in NatCounts /\ counter \in NatCounts /\ served \in NatCounts
      /\ Tr!Zero \in NatCounts /\ NatCounts \subseteq Counts
      /\ Sum(traffic) \in Counts /\ Sum(run.traffic) \in Counts
  BY SumIs DEF TrafficTypes, NatCounts, Counts, Tr!Zero
<1>1. ASSUME NEW b \in {0, 1}, Tr!Serve(b) PROVE Within'
  <2> DEFINE d == [requests |-> 1, bytes |-> b]
  <2>1. d \in NatCounts
    BY DEF NatCounts
  <2>2. total' = Tr!Plus(total, d) /\ served' = Tr!Plus(served, d)
        /\ UNCHANGED <<counter, traffic, run>>
    BY <1>1 DEF Tr!Serve
  <2> HIDE DEF d
  <2>3. Leq(Could(traffic, counter), served)'
    BY <1>0, <2>1, <2>2, CouldGrow DEF Within
  <2>4. run.pc # "idle" => Leq(Could(run.traffic, run.counter), served)'
    BY <1>0, <2>1, <2>2, CouldGrow DEF Within
  <2>5. run.pc = "changed" => Leq(Tr!Plus(Sum(run.traffic), total), served)'
    BY <1>0, <2>1, <2>2 DEF Within, Tr!Plus, Leq, NatCounts, Counts
  <2> QED
    BY <2>2, <2>3, <2>4, <2>5 DEF Within
<1>2. CASE total' = Tr!Zero /\ UNCHANGED <<counter, traffic, served>> /\ UNCHANGED <<run>>
  <2>1. Leq(Could(traffic, counter), served)' /\ Leq(Sum(traffic), served)
    BY <1>0, <1>2, CouldGrow DEF Within
  <2>2. run.pc # "idle" => Leq(Could(run.traffic, run.counter), served)' /\ Leq(Sum(run.traffic), served)
    BY <1>0, <1>2, CouldGrow DEF Within
  <2>3. run.pc = "changed" => Leq(Tr!Plus(Sum(run.traffic), total), served)'
    BY <1>0, <1>2, <2>2 DEF Tr!Plus, Leq, Tr!Zero, Counts
  <2> QED
    BY <1>2, <2>1, <2>2, <2>3 DEF Within
<1>3. CASE UNCHANGED <<counter, traffic, served, total, run>>
  BY <1>3 DEF Within
<1>5. CASE Tr!acquire_reconcile_lock
  BY <1>5 DEF Within, Tr!acquire_reconcile_lock
<1>6. CASE Tr!record_totals
  <2>0. /\ UNCHANGED <<total, counter, traffic, served>> /\ run.pc = "locked" /\ run'.pc = "applying"
    <3>1. UNCHANGED <<total, counter, traffic, served>> /\ run.pc = "locked"
      BY <1>6 DEF Tr!record_totals
    <3>2. \/ \E x, y : run' = [pc |-> "applying", counter |-> x, traffic |-> y]
          \/ \E base : run' = [run EXCEPT !.pc = "applying", !.counter = base]
          \/ run' = [run EXCEPT !.pc = "applying"]
      BY <1>6, Zenon DEF Tr!record_totals
    <3>3. CASE \E x, y : run' = [pc |-> "applying", counter |-> x, traffic |-> y]
      BY <3>1, <3>3
    <3>4. CASE \E base : run' = [run EXCEPT !.pc = "applying", !.counter = base]
      BY <3>1, <3>4 DEF TrafficTypes
    <3>5. CASE run' = [run EXCEPT !.pc = "applying"]
      BY <3>1, <3>5 DEF TrafficTypes
    <3> QED
      BY <3>2, <3>3, <3>4, <3>5
  <2> DEFINE added == Tr!Added(total, run.counter)
  <2>1. added \in Counts
    BY <1>0 DEF Tr!Added, Tr!Minus, Counts, NatCounts
  <2>2. Leq(Tr!Plus(Sum(run.traffic), added), served)
    BY <2>0 DEF Within
  <2>3. ASSUME NEW b \in NatCounts, Tr!Added(total, b) = Tr!Zero, NEW f \in [EdgeApps -> Counts],
               Leq(Sum(f), served), run'.counter = b, run'.traffic = f
        PROVE Leq(Could(run.traffic, run.counter), served)'
    <3>1. Sum(f) \in Counts
      BY SumIs
    <3>2. Tr!Plus(Sum(f), Tr!Zero) = Sum(f)
      BY <3>1 DEF Tr!Plus, Tr!Zero, Counts
    <3> QED
      BY <2>0, <2>3, <3>2
  <2>4. Leq(Sum(run.traffic), served)
    BY <1>0, <2>2, CouldGrow
  <2>5. Tr!Added(total, total) = Tr!Zero
    BY <1>0 DEF Tr!Added, Tr!Minus, Tr!Zero, NatCounts
  <2>6. total.requests = 0 => Tr!Added(total, Tr!Zero) = Tr!Zero
    BY <1>0 DEF TrafficTypes, Tr!Added, Tr!Minus, Tr!Zero, NatCounts
  <2> SUFFICES Leq(Could(run.traffic, run.counter), served)'
    BY <2>0 DEF Within
  <2>7. CASE run' = [pc |-> "applying", counter |-> total,
                   traffic |-> IF trafficOwner = None THEN run.traffic
                               ELSE [run.traffic EXCEPT ![trafficOwner] = Tr!Plus(@, added)]]
    <3>1. CASE trafficOwner = None
      BY <1>0, <2>3, <2>4, <2>5, <2>7, <3>1
    <3>2. CASE trafficOwner # None
      <4> DEFINE f == [run.traffic EXCEPT ![trafficOwner] = Tr!Plus(@, added)]
      <4>1. f \in [EdgeApps -> Counts] /\ Sum(f) = Tr!Plus(Sum(run.traffic), added)
        <5>1. trafficOwner \in EdgeApps
          BY <3>2 DEF TrafficTypes
        <5>2. f \in [EdgeApps -> Counts]
          BY <1>0, <2>1, <5>1, PlusIs
        <5> QED
          BY <1>0, <2>1, <5>1, <5>2, SumIs
      <4>2. run'.counter = total /\ run'.traffic = f
        BY <2>7, <3>2
      <4> HIDE DEF f, added
      <4> QED
        BY <1>0, <2>2, <2>3, <2>5, <4>1, <4>2
    <3> QED
      BY <3>1, <3>2
  <2>8. CASE total.requests = 0 /\ \E base \in {run.counter, Tr!Zero} :
               run' = [run EXCEPT !.pc = "applying", !.counter = base]
    <3>1. PICK base \in {run.counter, Tr!Zero} : run' = [run EXCEPT !.pc = "applying", !.counter = base]
      BY <2>8
    <3>2. run'.counter = base /\ run'.traffic = run.traffic
      BY <3>1 DEF TrafficTypes
    <3>3. CASE base = run.counter
      BY <2>0, <3>2, <3>3 DEF Within
    <3>4. CASE base = Tr!Zero
      BY <1>0, <2>3, <2>4, <2>6, <2>8, <3>2, <3>4
    <3> QED
      BY <3>3, <3>4
  <2>9. CASE run' = [run EXCEPT !.pc = "applying"]
    <3>1. run'.counter = run.counter /\ run'.traffic = run.traffic
      BY <2>9 DEF TrafficTypes
    <3> QED
      BY <2>0, <3>1 DEF Within
  <2> QED
    BY <1>6, <2>7, <2>8, <2>9 DEF Tr!record_totals
<1>7. CASE Tr!Unchanged \/ Tr!TimedOut
  <2>1. /\ run.pc = "applying" /\ run'.pc = "committing" /\ run'.counter = run.counter
        /\ run'.traffic = run.traffic /\ UNCHANGED <<total, counter, traffic, served>>
    BY <1>7 DEF Tr!Unchanged, Tr!TimedOut, Tr!AfterTimeout, TrafficTypes
  <2> QED
    BY <2>1 DEF Within
<1>8. CASE Tr!Applied
  <2>1. /\ run.pc = "applying" /\ run'.pc = "changed" /\ run'.counter = run.counter
        /\ run'.traffic = run.traffic /\ total' = Tr!Zero /\ UNCHANGED <<counter, traffic, served>>
    BY <1>8 DEF Tr!Applied, TrafficTypes
  <2>2. Leq(Could(traffic, counter), served)'
    BY <1>0, <2>1, CouldGrow DEF Within
  <2>3. Leq(Could(run.traffic, run.counter), served)' /\ Leq(Sum(run.traffic), served)
    BY <1>0, <2>1, CouldGrow DEF Within
  <2>4. Leq(Tr!Plus(Sum(run.traffic), total), served)'
    BY <1>0, <2>1, <2>3 DEF Tr!Plus, Leq, Tr!Zero, Counts
  <2> QED
    BY <2>1, <2>2, <2>3, <2>4 DEF Within
<1>10. CASE Tr!reset_baselines
  <2>1. /\ run.pc = "changed" /\ run'.pc = "committing" /\ run'.counter \in {run.counter, Tr!Zero}
        /\ run'.traffic = run.traffic /\ UNCHANGED <<total, counter, traffic, served>>
    BY <1>10 DEF Tr!reset_baselines, TrafficTypes
  <2>2. Tr!Added(total, Tr!Zero) = total
    BY <1>0 DEF Tr!Added, Tr!Minus, Tr!Zero, NatCounts
  <2>3. CASE run'.counter = run.counter
    BY <2>1, <2>3 DEF Within
  <2>4. CASE run'.counter = Tr!Zero
    BY <2>1, <2>2, <2>4 DEF Within
  <2> QED
    BY <2>1, <2>3, <2>4
<1>11. CASE Tr!Commit
  <2>1. run.pc = "committing" /\ run'.pc = "idle" /\ UNCHANGED <<total, served>>
        /\ \/ counter' = run.counter /\ traffic' = run.traffic
           \/ UNCHANGED <<counter, traffic>>
    BY <1>11 DEF Tr!Commit, Tr!Idle
  <2> QED
    BY <2>1 DEF Within
<1> QED
  BY <1>1, <1>2, <1>3, <1>5, <1>6, <1>7, <1>8, <1>10, <1>11
  DEF Tr!Next, Tr!vars, Tr!Restart, Tr!AppliedLate, Tr!OwnerChanges

\* What record_totals does without a fault.
LEMMA ReadExactly ==
    ASSUME Tr!TrafficConstants, TrafficTypes, Tr!record_totals, ~faulty', Leq(run.counter, total)
    PROVE  /\ run'.pc = "applying" /\ ~faulty /\ Leq(run'.counter, total)
           /\ run'.counter \in NatCounts /\ run'.traffic \in [EdgeApps -> Counts]
           /\ Tr!Plus(Tr!Plus(Sum(run'.traffic), lost'), Tr!Minus(total, run'.counter))
                = Tr!Plus(Tr!Plus(Sum(run.traffic), lost), Tr!Minus(total, run.counter))
<1>0. /\ run.counter \in NatCounts /\ run.traffic \in [EdgeApps -> Counts] /\ total \in NatCounts
      /\ lost \in Counts /\ Sum(run.traffic) \in Counts /\ Tr!Zero \in NatCounts
  BY SumIs DEF TrafficTypes, NatCounts, Tr!Zero
<1> DEFINE added == Tr!Added(total, run.counter)
<1>1. added \in Counts /\ added = Tr!Minus(total, run.counter)
  BY <1>0 DEF Leq, Tr!Added, Tr!Minus, NatCounts, Counts
<1>2. Leq(total, total) /\ Tr!Minus(total, total) = Tr!Zero
  BY <1>0 DEF Leq, Tr!Minus, Tr!Zero, NatCounts
<1>3. Tr!Plus(Sum(run.traffic), added) \in Counts /\ Tr!Plus(lost, added) \in Counts
  BY <1>0, <1>1, PlusIs
<1>4. /\ Tr!Plus(Tr!Plus(Tr!Plus(Sum(run.traffic), added), lost), Tr!Zero)
            = Tr!Plus(Tr!Plus(Sum(run.traffic), lost), added)
      /\ Tr!Plus(Tr!Plus(Sum(run.traffic), Tr!Plus(lost, added)), Tr!Zero)
            = Tr!Plus(Tr!Plus(Sum(run.traffic), lost), added)
  BY <1>0, <1>1 DEF Counts, Tr!Plus, Tr!Zero
<1> HIDE DEF added
<1>5. CASE /\ run' = [pc |-> "applying", counter |-> total,
                      traffic |-> IF trafficOwner = None THEN run.traffic
                                  ELSE [run.traffic EXCEPT ![trafficOwner] = Tr!Plus(@, added)]]
           /\ lost' = IF trafficOwner = None /\ ~faulty THEN Tr!Plus(lost, added) ELSE lost
           /\ UNCHANGED faulty
  <2>1. run'.pc = "applying" /\ run'.counter = total /\ ~faulty
    BY <1>5
  <2>2. CASE trafficOwner = None
    <3>1. run'.traffic = run.traffic /\ lost' = Tr!Plus(lost, added)
      BY <1>5, <2>1, <2>2
    <3> QED
      BY <1>0, <1>1, <1>2, <1>4, <2>1, <3>1
  <2>3. CASE trafficOwner # None
    <3> DEFINE f == [run.traffic EXCEPT ![trafficOwner] = Tr!Plus(@, added)]
    <3>1. trafficOwner \in EdgeApps
      BY <2>3 DEF TrafficTypes
    <3>2. f \in [EdgeApps -> Counts]
      BY <1>0, <1>1, <3>1, PlusIs
    <3>3. Sum(f) = Tr!Plus(Sum(run.traffic), added)
      BY <1>0, <1>1, <3>1, SumIs
    <3>4. run'.traffic = f /\ lost' = lost
      BY <1>5, <2>3
    <3> HIDE DEF f
    <3> QED
      BY <1>0, <1>1, <1>2, <1>4, <2>1, <3>2, <3>3, <3>4
  <2> QED
    BY <2>2, <2>3
<1>6. CASE /\ total.requests = 0
           /\ \E base \in {run.counter, Tr!Zero} : run' = [run EXCEPT !.pc = "applying", !.counter = base]
           /\ UNCHANGED <<lost, faulty>>
  <2>1. PICK base \in {run.counter, Tr!Zero} : run' = [run EXCEPT !.pc = "applying", !.counter = base]
    BY <1>6
  <2>2. run.counter = Tr!Zero
    BY <1>0, <1>6 DEF Leq, NatCounts, TrafficTypes, Tr!Zero
  <2>3. run'.pc = "applying" /\ run'.counter = run.counter /\ run'.traffic = run.traffic
    BY <2>1, <2>2 DEF TrafficTypes
  <2> QED
    BY <1>0, <1>6, <2>3
<1>7. CASE faulty' = TRUE
  BY <1>7
<1> QED
  BY <1>5, <1>6, <1>7 DEF Tr!record_totals, added

LEMMA ExactKept ==
    ASSUME Tr!TrafficConstants, TrafficTypes, Exact, [Tr!Next]_(Tr!vars)
    PROVE  Exact'
<1>0. /\ run.pc \in {"idle", "locked", "applying", "changed", "committing"}
      /\ run.counter \in NatCounts /\ run.traffic \in [EdgeApps -> Counts] /\ traffic \in [EdgeApps -> Counts]
      /\ total \in NatCounts /\ counter \in NatCounts /\ served \in NatCounts /\ lost \in Counts
      /\ Tr!Zero \in NatCounts /\ NatCounts \subseteq Counts
      /\ Sum(traffic) \in Counts /\ Sum(run.traffic) \in Counts
  BY SumIs DEF TrafficTypes, NatCounts, Counts, Tr!Zero
<1>a. Base \in NatCounts /\ Sum(Current) \in Counts
  BY <1>0 DEF Base, Current
<1>1. ASSUME NEW b \in {0, 1}, Tr!Serve(b) PROVE Exact'
  <2> DEFINE d == [requests |-> 1, bytes |-> b]
  <2>1. d \in NatCounts
    BY DEF NatCounts
  <2>2. total' = Tr!Plus(total, d) /\ served' = Tr!Plus(served, d)
        /\ UNCHANGED <<counter, traffic, run, lost, posted, faulty>>
    BY <1>1 DEF Tr!Serve
  <2>3. Base' = Base /\ Current' = Current
    BY <2>2 DEF Base, Current
  <2> HIDE DEF d
  <2>4. ASSUME NEW x \in NatCounts, NEW y \in Counts, NEW z \in Counts, NEW s \in NatCounts, Leq(x, total),
               Tr!Plus(Tr!Plus(y, z), Tr!Minus(total, x)) = s
        PROVE  /\ Leq(x, Tr!Plus(total, d))
               /\ Tr!Plus(Tr!Plus(y, z), Tr!Minus(Tr!Plus(total, d), x)) = Tr!Plus(s, d)
    BY <1>0, <2>1, <2>4 DEF Tr!Plus, Tr!Minus, Leq, NatCounts, Counts
  <2> QED
    BY <1>0, <1>a, <2>2, <2>3, <2>4 DEF Exact
<1>2. CASE Tr!Restart \/ Tr!TimedOut
  BY <1>2 DEF Exact, Tr!Restart, Tr!TimedOut
<1>3. CASE Tr!AppliedLate
  BY <1>3 DEF Exact, Tr!AppliedLate
<1>4. CASE UNCHANGED <<counter, traffic, served, total, run, lost, posted, faulty>>
  BY <1>4 DEF Exact, Base, Current
<1>5. CASE Tr!acquire_reconcile_lock
  <2>1. Base' = Base /\ Current' = Current /\ UNCHANGED <<total, lost, posted, served, faulty>>
    BY <1>5 DEF Base, Current, Tr!acquire_reconcile_lock
  <2> QED
    BY <2>1 DEF Exact
<1>6. CASE Tr!record_totals
  <2>1. run.pc = "locked" /\ UNCHANGED <<total, counter, traffic, trafficOwner, posted, served, runs>>
    BY <1>6 DEF Tr!record_totals
  <2>2. SUFFICES ASSUME ~faulty' PROVE Exact'
    BY DEF Exact
  <2>3. ~faulty
    BY <1>6, <2>2 DEF Tr!record_totals
  <2>4. Base = run.counter /\ Current = run.traffic
    BY <2>1 DEF Base, Current
  <2>5. /\ ~posted /\ Leq(run.counter, total)
        /\ Tr!Plus(Tr!Plus(Sum(run.traffic), lost), Tr!Minus(total, run.counter)) = served
    BY <2>3, <2>4 DEF Exact
  <2>6. /\ run'.pc = "applying" /\ Leq(run'.counter, total)
        /\ Tr!Plus(Tr!Plus(Sum(run'.traffic), lost'), Tr!Minus(total, run'.counter)) = served
    BY <1>6, <2>2, <2>5, ReadExactly
  <2>7. Base' = run'.counter /\ Current' = run'.traffic
    BY <2>6 DEF Base, Current
  <2> QED
    BY <2>1, <2>5, <2>6, <2>7 DEF Exact
<1>7. CASE Tr!Unchanged
  <2>1. Base' = Base /\ Current' = Current /\ UNCHANGED <<total, lost, posted, served, faulty>>
    BY <1>7 DEF Base, Current, Tr!Unchanged, TrafficTypes
  <2> QED
    BY <2>1 DEF Exact
<1>8. CASE Tr!Applied
  <2>1. /\ Base = run.counter /\ Current = run.traffic /\ Base' = Tr!Zero /\ Current' = run.traffic
        /\ total' = Tr!Zero /\ UNCHANGED <<posted, served, faulty>>
        /\ ~faulty => lost' = Tr!Plus(lost, Tr!Minus(total, run.counter))
    BY <1>8 DEF Base, Current, Tr!Applied, TrafficTypes
  <2>2. ASSUME NEW x \in NatCounts, NEW y \in Counts, NEW z \in Counts, NEW s \in NatCounts, NEW t \in NatCounts,
               Tr!Plus(Tr!Plus(y, z), Tr!Minus(t, x)) = s
        PROVE  /\ Leq(Tr!Zero, Tr!Zero)
               /\ Tr!Plus(Tr!Plus(y, Tr!Plus(z, Tr!Minus(t, x))),
                          Tr!Minus(Tr!Zero, Tr!Zero)) = s
    BY <2>2 DEF Tr!Plus, Tr!Minus, Leq, NatCounts, Counts, Tr!Zero
  <2> QED
    BY <1>0, <2>1, <2>2 DEF Exact
<1>10. CASE Tr!reset_baselines
  <2>1. SUFFICES ASSUME ~faulty' PROVE Exact'
    BY DEF Exact
  <2>2. Base' = Base /\ Current' = Current /\ UNCHANGED <<total, lost, posted, served, faulty>>
    BY <1>10, <2>1 DEF Base, Current, Tr!reset_baselines, TrafficTypes
  <2> QED
    BY <2>2 DEF Exact
<1>11. CASE Tr!Commit
  <2>1. SUFFICES ASSUME ~faulty' PROVE Exact'
    BY DEF Exact
  <2>2. Base' = Base /\ Current' = Current /\ UNCHANGED <<total, lost, posted, served, faulty>>
    BY <1>11, <2>1 DEF Base, Current, Tr!Commit, Tr!Idle
  <2> QED
    BY <2>2 DEF Exact
<1> QED
  BY <1>1, <1>2, <1>3, <1>4, <1>5, <1>6, <1>7, <1>8, <1>10, <1>11
  DEF Tr!Next, Tr!vars, Tr!OwnerChanges

LEMMA TrafficAccurate == ASSUME Tr!TrafficConstants, TrafficInv PROVE Tr!TrafficIsAccurate
<1>0. /\ Sum(traffic) \in Counts /\ Sum(traffic) = Tr!Recorded
      /\ total \in NatCounts /\ counter \in NatCounts /\ served \in NatCounts
  BY SumIs DEF TrafficInv, TrafficTypes, Sum, Tr!Recorded
<1>1. Tr!NeverOvercounts
  <2>1. Leq(Sum(traffic), served)
    BY <1>0, CouldGrow DEF TrafficInv, Within, Could, NatCounts
  <2> QED
    BY <1>0, <2>1 DEF Leq, Tr!NeverOvercounts
<1>2. Tr!NothingElseIsLost
  BY <1>0 DEF TrafficInv, Exact, Base, Current, Tr!NothingElseIsLost
<1> QED
  BY <1>1, <1>2 DEF Tr!TrafficIsAccurate

LEMMA AlwaysCounted ==
    ASSUME Tr!TrafficConstants PROVE Tr!Spec => []Tr!TrafficIsAccurate
<1>1. Tr!Init => TrafficInv
  BY TrafficInit
<1>2. TrafficInv /\ [Tr!Next]_(Tr!vars) => TrafficInv'
  BY TrafficTypesKept, WithinKept, ExactKept DEF TrafficInv
<1>3. TrafficInv => Tr!TrafficIsAccurate
  BY TrafficAccurate
<1> QED
  BY <1>1, <1>2, <1>3, PTL DEF Tr!Spec

-----------------------------------------------------------------------------
(* The same of the behaviours of MCChecks that are about each part. *)

LEMMA OutcomesInFocus ==
    /\ ChecksInit /\ focus = "outcomes" => Out!Init
    /\ [ChecksNext]_checksVars /\ focus = "outcomes"
         => (focus = "outcomes")' /\ [Out!Next]_(Out!vars)
    /\ [ChecksNext]_checksVars /\ ~(focus = "outcomes") => ~(focus = "outcomes")'
BY DEF ChecksInit, ChecksNext, checksVars, outcomesVars, Out!vars, Out!world, Out!row

LEMMA ZonesInFocus ==
    /\ ChecksInit /\ focus = "zones" => Zo!Init
    /\ [ChecksNext]_checksVars /\ focus = "zones"
         => (focus = "zones")' /\ [Zo!Next]_(Zo!vars)
    /\ [ChecksNext]_checksVars /\ ~(focus = "zones") => ~(focus = "zones")'
BY DEF ChecksInit, ChecksNext, checksVars, zonesVars, Zo!vars

LEMMA GatewayInFocus ==
    /\ ChecksInit /\ focus = "gateway" => Ga!Init
    /\ [ChecksNext]_checksVars /\ focus = "gateway"
         => (focus = "gateway")' /\ [Ga!Next]_(Ga!vars)
    /\ [ChecksNext]_checksVars /\ ~(focus = "gateway") => ~(focus = "gateway")'
BY DEF ChecksInit, ChecksNext, checksVars, gatewayVars, Ga!vars

LEMMA TrafficInFocus ==
    /\ ChecksInit /\ focus = "traffic" => Tr!Init
    /\ [ChecksNext]_checksVars /\ focus = "traffic"
         => (focus = "traffic")' /\ [Tr!Next]_(Tr!vars)
    /\ [ChecksNext]_checksVars /\ ~(focus = "traffic") => ~(focus = "traffic")'
BY DEF ChecksInit, ChecksNext, checksVars, trafficVars, Tr!vars

\* Whatever happens outside and whenever: every check of a domain in service
\* comes round in time, so drift is found within REVALIDATE_INTERVAL, an
\* expiring certificate within the same interval of the moment the warning
\* begins, whatever its lifetime, and a lost ownership record ends
\* the service after the grace period and at most one backoff.
THEOREM StaysCurrent == ChecksSpec => []ServedIsCurrent
<1>1. Out!Spec => []Out!ServedIsCurrent
  BY AlwaysCurrent, PartsAssumption
<1> QED
  BY <1>1, OutcomesInFocus, PTL DEF ChecksSpec, Out!Spec, ServedIsCurrent

\* The service is suspended only when no check has seen the ownership record
\* for the whole grace period: the failures counted are those after the last
\* pass (record_check keeps failing_since, and a pass clears it).
THEOREM SuspendedInTime == ChecksSpec => SuspendedAfterGrace
<1>1. Out!Spec => Out!SuspendedAfterGrace
  BY AlwaysInTime, PartsAssumption
<1>2. [Out!SuspendedAfterGraceStep]_(Out!vars) => [focus = "outcomes" => Out!SuspendedAfterGraceStep]_outcomesVars
  BY DEF outcomesVars, Out!vars, Out!world, Out!row
<1> QED
  BY <1>1, <1>2, OutcomesInFocus, PTL DEF ChecksSpec, Out!Spec, Out!SuspendedAfterGrace, SuspendedAfterGrace

\* The routing check passes exactly when the CNAMEs lead from the hostname to
\* the target within MAX_CNAME_HOPS, although cname_chain stops at the first
\* name it has seen before: for any names, any number of hops and any records,
\* with loops, self-references and names that do not resolve.
THEOREM RoutingDecided == ChecksSpec => []RoutingIsReachability
<1>1. Out!Spec => []Out!RoutingIsReachability
  BY RoutingAlwaysDecided, PartsAssumption
<1> QED
  BY <1>1, OutcomesInFocus, PTL DEF ChecksSpec, Out!Spec, RoutingIsReachability

\* Domain Connect is offered only for a template that the zone's provider
\* said it supports: no worker's late answer about a template that is no
\* longer configured is taken for one about the template that is.
THEOREM OffersAreProven == ChecksSpec => []OfferedWasProven
<1>1. Zo!Spec => []Zo!OfferedWasProven
  BY OffersAlwaysProven, PartsAssumption
<1> QED
  BY <1>1, ZonesInFocus, PTL DEF ChecksSpec, Zo!Spec, OfferedWasProven

\* Every lookup finds the smallest customer zone that encloses the hostname,
\* never a public suffix (candidate_zones, find_zone); and a domain whose zone
\* is cached keeps one that is, whatever is purged and however late a worker
\* writes.
THEOREM ZonesAreKept == ChecksSpec => ZonesKept
<1>1. Zo!Spec => Zo!ZonesKept
  BY ZonesAlwaysKept, PartsAssumption
<1>2. [Zo!NearestZoneStep /\ Zo!ShownStaysShownStep]_(Zo!vars) => [focus = "zones" => Zo!NearestZoneStep /\ Zo!ShownStaysShownStep]_zonesVars
  BY DEF zonesVars, Zo!vars
<1> QED
  BY <1>1, <1>2, ZonesInFocus, PTL DEF ChecksSpec, Zo!Spec, Zo!ZonesKept, ZonesKept

\* The parts of the edge agree at every moment: what the reconciler would
\* build the gateway would accept unless two origins share an address
\* (_dial_order, edge_origins, validate_apps); the three admission rules are
\* nested; and only an origin of a hostname's present owner takes its
\* assertions, whatever Caddy runs.
THEOREM EdgePartsAgree == ChecksSpec => []EdgeAgrees
<1>1. Ga!Spec => []Ga!EdgeAgrees
  BY PartsAlwaysAgree, PartsAssumption
<1> QED
  BY <1>1, GatewayInFocus, PTL DEF ChecksSpec, Ga!Spec, EdgeAgrees

\* However old the configuration that arrives, what the gateway lets through
\* leads only to origins verified and active when it asked, under one of
\* their names, and opens the portal, the operator API and the API no further
\* than the settings of that moment.
THEOREM OnlyVouchedAccepted == ChecksSpec => AcceptedIsVouched
<1>1. Ga!Spec => Ga!AcceptedIsVouched
  BY AlwaysVouched, PartsAssumption
<1>2. [Ga!AcceptedIsVouchedStep]_(Ga!vars) => [focus = "gateway" => Ga!AcceptedIsVouchedStep]_gatewayVars
  BY DEF gatewayVars, Ga!vars
<1> QED
  BY <1>1, <1>2, GatewayInFocus, PTL DEF ChecksSpec, Ga!Spec, Ga!AcceptedIsVouched, AcceptedIsVouched

\* The recorded traffic is never more than was served, whatever restarts,
\* timeouts, failed writes and changes of owner come between a reading and
\* the commit (record_totals, reset_baselines); and without such a fault it is
\* short only of what arrived between a reading and the configuration applied
\* after it, or while the hostname had no owner.
THEOREM TrafficCounted == ChecksSpec => []TrafficIsAccurate
<1>1. Tr!Spec => []Tr!TrafficIsAccurate
  BY AlwaysCounted, PartsAssumption
<1> QED
  BY <1>1, TrafficInFocus, PTL DEF ChecksSpec, Tr!Spec, TrafficIsAccurate
=============================================================================
