--------------------------- MODULE SurfacesProofs ---------------------------
(***************************************************************************)
(* Theorems about Surfaces, for any number of concurrent calls, any tokens *)
(* and passwords, and any number of applications and rows.  Su is the part *)
(* of MCOperations that is Surfaces, with constants of its own; what is    *)
(* shown of Su!Spec is at the end carried over to the specification the    *)
(* run checks.                                                             *)
(***************************************************************************)
EXTENDS MCOperations, SequenceTheorems, TLAPS

-----------------------------------------------------------------------------
(* Calls and what they loaded. *)

AppRow == [active : BOOLEAN, deleted : BOOLEAN, gone : BOOLEAN]
ChildRow == [app : Nat, live : BOOLEAN, gone : BOOLEAN]

\* A call has the fields of a call, whatever their values.
IsCall(r) ==
    r \in [surface : {r.surface}, effect : {r.effect}, held : {r.held}, app : {r.app},
          child : {r.child}, active : {r.active}, stored : {r.stored},
          consent : {r.consent}, live : {r.live}, fresh : {r.fresh}]

TypeInv ==
    /\ applications \in Seq(AppRow) /\ children \in Seq(ChildRow)
    /\ \A i \in DOMAIN children : children[i].app \in DOMAIN applications
    /\ surfaceCall \in [Calls -> {surfaceCall[c] : c \in Calls}]
    /\ \A c \in Calls : IsCall(surfaceCall[c])

\* An open call is about rows there are, on either backend.
Names(r) ==
    /\ r.effect \in Su!OfApplication => r.app \in DOMAIN applications
    /\ r.effect \in Su!OfChild => r.child \in DOMAIN children
    /\ r.effect \in Su!OfStatus => r.active \in BOOLEAN
    /\ r.effect \notin Su!OfStatus => r.active = None

\* What a call that can still commit on SQLite loaded is there now, and what
\* it was let in by would let it in again.
Current(r) ==
    /\ r.effect \in Su!OfApplication => r.app \in Su!get_application_by_slug
    /\ r.effect \in Su!OfChild => Su!FoundChild(r.child, r.app)
    /\ r.effect \in Su!OfStatus => r.active = applications[r.app].active
    /\ r.effect \in Su!OfRows => r.live = Su!LiveOf(r.app)
    /\ r.effect = "delete_application" => ~Su!NotEmpty(r.app, r.consent)
    /\ r.surface = "operator" => Su!matches(r.held)

CallsOpen == \A c \in Calls : Names(surfaceCall[c])
Snapshots == \A c \in Calls : surfaceCall[c].fresh => Current(surfaceCall[c])

CallInv == TypeInv /\ CallsOpen /\ Snapshots

LEMMA ClosedCall ==
    ASSUME Su!SurfacesConstants
    PROVE  /\ IsCall(Su!Closed) /\ Su!Closed.effect = None /\ Su!Closed.active = None /\ Su!Closed.surface = None /\ Su!Closed.fresh
           /\ None \notin Su!OfApplication /\ None \notin Su!OfChild /\ None \notin Su!OfStatus
           /\ None \notin Su!OfRows /\ None # "delete_application" /\ None # "operator"
           /\ None # "portal" /\ Names(Su!Closed) /\ Current(Su!Closed)
BY DEF Su!SurfacesConstants, IsCall, Su!Closed, Su!OfApplication, Su!OfChild, Su!OfStatus, Su!OfRows, Names, Current

LEMMA InitCalls == ASSUME Su!SurfacesConstants, Su!Init PROVE CallInv
<1> DEFINE a == [active |-> TRUE, deleted |-> FALSE, gone |-> FALSE]
           k == [app |-> 1, live |-> TRUE, gone |-> FALSE]
<1>1. a \in AppRow /\ k \in ChildRow /\ k.app = 1
  BY DEF AppRow, ChildRow
<1>2. applications = <<a>> /\ children = <<k>>
  BY DEF Su!Init
<1> HIDE DEF a, k
<1>3. applications \in Seq(AppRow) /\ children \in Seq(ChildRow)
      /\ DOMAIN applications = {1} /\ DOMAIN children = {1} /\ children[1] = k
  BY <1>1, <1>2
<1>4. surfaceCall = [c \in Calls |-> Su!Closed]
  BY DEF Su!Init
<1>5. TypeInv
  BY <1>1, <1>3, <1>4, ClosedCall DEF TypeInv
<1> QED
  BY <1>4, <1>5, ClosedCall DEF CallInv, CallsOpen, Snapshots

LEMMA RowTypes ==
    ASSUME TypeInv
    PROVE  /\ \A a \in DOMAIN applications : applications[a] \in AppRow
           /\ \A i \in DOMAIN children : children[i] \in ChildRow
           /\ DOMAIN applications = 1..Len(applications) /\ Len(applications) \in Nat
           /\ DOMAIN children = 1..Len(children) /\ Len(children) \in Nat
BY ElementOfSeq, LenProperties DEF TypeInv

LEMMA Stale ==
    ASSUME NEW r, IsCall(r)
    PROVE  LET s == [r EXCEPT !.fresh = FALSE] IN
           /\ IsCall(s) /\ s.fresh = FALSE
           /\ s.surface = r.surface /\ s.effect = r.effect /\ s.held = r.held
           /\ s.app = r.app /\ s.child = r.child /\ s.active = r.active
BY DEF IsCall

\* Whoever commits leaves every other open call behind.
LEMMA Closes ==
    ASSUME Su!SurfacesConstants, TypeInv, NEW c \in Calls, Su!Close(c)
    PROVE  /\ surfaceCall' \in [Calls -> {surfaceCall'[d] : d \in Calls}]
           /\ surfaceCall'[c] = Su!Closed
           /\ \A d \in Calls :
                \/ surfaceCall'[d] = Su!Closed
                \/ /\ d # c /\ surfaceCall[d] # Su!Closed /\ ~surfaceCall'[d].fresh /\ surfaceCall'[d] # Su!Closed
                   /\ surfaceCall'[d].surface = surfaceCall[d].surface /\ surfaceCall'[d].effect = surfaceCall[d].effect
                   /\ surfaceCall'[d].held = surfaceCall[d].held /\ surfaceCall'[d].app = surfaceCall[d].app
                   /\ surfaceCall'[d].child = surfaceCall[d].child /\ surfaceCall'[d].active = surfaceCall[d].active
           /\ \A d \in Calls : IsCall(surfaceCall'[d])
           /\ \A d \in Calls \ {c} : surfaceCall'[d] = Su!Closed => surfaceCall[d] = Su!Closed
<1> DEFINE F(d) == CASE d = c -> Su!Closed
                            [] surfaceCall[d] = Su!Closed -> Su!Closed
                            [] OTHER -> [surfaceCall[d] EXCEPT !.fresh = FALSE]
<1>1. surfaceCall' = [d \in Calls |-> F(d)]
  BY DEF Su!Close
<1>2. F(c) = Su!Closed
  BY Zenon
<1>3. ASSUME NEW d \in Calls PROVE surfaceCall[d] = Su!Closed => F(d) = Su!Closed
  BY <1>3, Zenon
<1>4. ASSUME NEW d \in Calls, d # c, surfaceCall[d] # Su!Closed
      PROVE  F(d) = [surfaceCall[d] EXCEPT !.fresh = FALSE]
  BY <1>4
<1>5. ASSUME NEW d \in Calls, d # c, surfaceCall[d] # Su!Closed
      PROVE  /\ IsCall(F(d)) /\ ~F(d).fresh /\ F(d) # Su!Closed
             /\ F(d).surface = surfaceCall[d].surface /\ F(d).effect = surfaceCall[d].effect
             /\ F(d).held = surfaceCall[d].held /\ F(d).app = surfaceCall[d].app
             /\ F(d).child = surfaceCall[d].child /\ F(d).active = surfaceCall[d].active
  <2> DEFINE r == surfaceCall[d]
  <2>1. IsCall(r)
    BY DEF TypeInv
  <2> HIDE DEF r
  <2>3. F(d) = [r EXCEPT !.fresh = FALSE]
    BY <1>4, <1>5 DEF r
  <2>4. Su!Closed.fresh = TRUE
    BY DEF Su!Closed
  <2> HIDE DEF F
  <2> QED
    BY <2>1, <2>3, <2>4, Stale DEF r
<1> HIDE DEF F
<1>6. \A d \in Calls : surfaceCall'[d] = F(d)
  BY <1>1
<1> QED
  BY <1>1, <1>2, <1>3, <1>5, <1>6, ClosedCall

\* A commit that keeps the rows well-formed keeps the invariant: nobody else
\* can still commit what it loaded before.
LEMMA Committed ==
    ASSUME Su!SurfacesConstants, CallInv, NEW c \in Calls, Su!Close(c),
           applications' \in Seq(AppRow), children' \in Seq(ChildRow),
           \A i \in DOMAIN children' : children'[i].app \in DOMAIN applications',
           DOMAIN applications \subseteq DOMAIN applications',
           DOMAIN children \subseteq DOMAIN children'
    PROVE  CallInv'
<1>0. TypeInv /\ CallsOpen
  BY DEF CallInv
<1>1. TypeInv'
  BY <1>0, Closes DEF TypeInv
<1>2. ASSUME NEW d \in Calls PROVE Names(surfaceCall[d])'
  <2>1. CASE surfaceCall'[d] = Su!Closed
    BY <2>1, ClosedCall DEF Names
  <2>2. CASE surfaceCall'[d] # Su!Closed
    <3>1. /\ surfaceCall'[d].effect = surfaceCall[d].effect /\ surfaceCall'[d].app = surfaceCall[d].app
          /\ surfaceCall'[d].child = surfaceCall[d].child /\ surfaceCall'[d].active = surfaceCall[d].active
      BY <1>0, <2>2, Closes
    <3>2. Names(surfaceCall[d])
      BY <1>0 DEF CallsOpen
    <3> QED
      BY <3>1, <3>2 DEF Names
  <2> QED
    BY <2>1, <2>2
<1>3. ASSUME NEW d \in Calls, surfaceCall'[d].fresh PROVE Current(surfaceCall[d])'
  <2>1. surfaceCall'[d] = Su!Closed
    BY <1>0, <1>3, Closes
  <2> QED
    BY <2>1, ClosedCall DEF Current
<1> QED
  BY <1>1, <1>2, <1>3 DEF CallInv, CallsOpen, Snapshots

\* Steps of one call that touch neither the rows nor the token.
LEMMA OneCall ==
    ASSUME Su!SurfacesConstants, CallInv, NEW c \in Calls, NEW r, IsCall(r),
           surfaceCall' = [surfaceCall EXCEPT ![c] = r], UNCHANGED <<kind, Su!rows, stored>>,
           Names(r), r.fresh => Current(r)
    PROVE  CallInv'
<1>0. UNCHANGED <<kind, applications, children, stored>>
  BY DEF Su!rows
<1>1. surfaceCall' = [d \in Calls |-> IF d = c THEN r ELSE surfaceCall[d]]
  BY DEF CallInv, TypeInv
<1>2. TypeInv'
  BY <1>0, <1>1 DEF CallInv, TypeInv
<1>3. ASSUME NEW d \in Calls PROVE Names(surfaceCall[d])' /\ (surfaceCall'[d].fresh => Current(surfaceCall[d])')
  <2>1. CASE d = c
    <3>1. surfaceCall'[d] = r
      BY <1>1, <2>1
    <3> QED
      BY <1>0, <3>1 DEF Names, Current, Su!get_application_by_slug, Su!FoundChild, Su!LiveOf, Su!NotEmpty, Su!matches
  <2>2. CASE d # c
    <3>1. surfaceCall'[d] = surfaceCall[d]
      BY <1>1, <2>2
    <3>2. Names(surfaceCall[d]) /\ (surfaceCall[d].fresh => Current(surfaceCall[d]))
      BY DEF CallInv, CallsOpen, Snapshots
    <3> QED
      BY <1>0, <3>1, <3>2 DEF Names, Current, Su!get_application_by_slug, Su!FoundChild, Su!LiveOf, Su!NotEmpty, Su!matches
  <2> QED
    BY <2>1, <2>2
<1> QED
  BY <1>2, <1>3 DEF CallInv, CallsOpen, Snapshots

LEMMA FailsStep == ASSUME Su!SurfacesConstants, CallInv, NEW c \in Calls, Su!Fails(c) PROVE CallInv'
BY ClosedCall, OneCall DEF Su!Fails, Su!gates

LEMMA OpenStep ==
    ASSUME Su!SurfacesConstants, CallInv, NEW c \in Calls, NEW surface, NEW effect,
           NEW held \in Su!Admits(surface), surface \in {"portal", "operator", "cli"},
           Su!Open(c, surface, effect, held)
    PROVE  CallInv'
<1> DEFINE R(a, i, consent) ==
             [surface |-> IF kind = "gates" THEN surface ELSE None, effect |-> effect,
              held |-> IF kind = "gates" THEN held ELSE None, app |-> a, child |-> i,
              active |-> IF effect \in Su!OfStatus THEN applications[a].active ELSE None,
              stored |-> IF effect \in Su!OfToken THEN stored ELSE None, consent |-> consent,
              live |-> IF effect \in Su!OfRows THEN Su!LiveOf(a) ELSE {}, fresh |-> TRUE]
<1>1. PICK a \in IF effect \in Su!OfApplication THEN Su!get_application_by_slug ELSE {0} :
      \E i \in IF effect \in Su!OfChild THEN {j \in DOMAIN children : Su!FoundChild(j, a)} ELSE {0} :
      \E consent \in IF effect = "delete_application" /\ kind = "domain"
                     THEN BOOLEAN ELSE {FALSE} :
        /\ effect = "delete_application" => ~Su!NotEmpty(a, consent)
        /\ surfaceCall' = [surfaceCall EXCEPT ![c] = R(a, i, consent)]
  BY DEF Su!Open
<1>2. PICK i \in IF effect \in Su!OfChild THEN {j \in DOMAIN children : Su!FoundChild(j, a)} ELSE {0} :
      \E consent \in IF effect = "delete_application" /\ kind = "domain"
                     THEN BOOLEAN ELSE {FALSE} :
        /\ effect = "delete_application" => ~Su!NotEmpty(a, consent)
        /\ surfaceCall' = [surfaceCall EXCEPT ![c] = R(a, i, consent)]
  BY <1>1
<1>3. PICK consent \in IF effect = "delete_application" /\ kind = "domain"
                     THEN BOOLEAN ELSE {FALSE} :
        /\ effect = "delete_application" => ~Su!NotEmpty(a, consent)
        /\ surfaceCall' = [surfaceCall EXCEPT ![c] = R(a, i, consent)]
  BY <1>2
<1> DEFINE r == R(a, i, consent)
<1>4. IsCall(r) /\ r.effect = effect /\ r.app = a /\ r.child = i /\ r.consent = consent
      /\ r.active = (IF effect \in Su!OfStatus THEN applications[a].active ELSE None)
      /\ r.live = (IF effect \in Su!OfRows THEN Su!LiveOf(a) ELSE {})
      /\ r.surface \in {surface, None} /\ (r.surface # None => r.held = held)
  BY DEF IsCall
<1>5. UNCHANGED <<kind, Su!rows, stored>>
  BY DEF Su!Open, Su!gates
<1> HIDE DEF r, R
<1>6. effect \in Su!OfApplication => a \in Su!get_application_by_slug /\ a \in DOMAIN applications
  BY <1>1 DEF Su!get_application_by_slug
<1>7. effect \in Su!OfChild => i \in DOMAIN children /\ Su!FoundChild(i, a)
  BY <1>2
<1>8. effect \in Su!OfStatus => effect \in Su!OfApplication
  BY DEF Su!OfStatus, Su!OfApplication
<1>9. Names(r)
  <2>1. effect \in Su!OfStatus => applications[a].active \in BOOLEAN
    BY <1>6, <1>8, RowTypes DEF CallInv, AppRow
  <2> QED
    BY <2>1, <1>4, <1>6, <1>7 DEF Names
<1>10. r.surface = "operator" => Su!matches(r.held)
  <2>1. ASSUME r.surface = "operator" PROVE surface = "operator" /\ r.held = held
    BY <1>4, <2>1, ClosedCall
  <2>2. ASSUME surface = "operator" PROVE Su!matches(held)
    <3>1. Su!Admits("operator") = {t \in Tokens \cup {0} : Su!matches(t)}
      BY DEF Su!Admits
    <3> QED
      BY <2>2, <3>1
  <2> QED
    BY <2>1, <2>2
<1>11. Current(r)
  BY <1>3, <1>4, <1>6, <1>7, <1>10 DEF Current
<1> QED
  BY <1>3, <1>4, <1>5, <1>9, <1>11, OneCall DEF r

-----------------------------------------------------------------------------
(* Commits, one by one: the rows they leave. *)

LEMMA CreateStep ==
    ASSUME Su!SurfacesConstants, CallInv, NEW c \in Calls, Su!create_application(c)
    PROVE  /\ CallInv' /\ children' = children
           /\ DOMAIN applications \subseteq DOMAIN applications'
           /\ \A a \in DOMAIN applications : applications'[a] = applications[a]
           /\ \A a \in DOMAIN applications' \ DOMAIN applications : ~applications'[a].deleted
<1> DEFINE new == [active |-> TRUE, deleted |-> FALSE, gone |-> FALSE]
<1>1. new \in AppRow /\ ~new.deleted
  BY DEF AppRow
<1>2. applications' = Append(applications, new) /\ children' = children /\ Su!Close(c)
  BY DEF Su!create_application
<1> HIDE DEF new
<1>3. applications \in Seq(AppRow)
  BY DEF CallInv, TypeInv
<1>4. /\ applications' \in Seq(AppRow) /\ Len(applications') = Len(applications) + 1
      /\ \A a \in 1..Len(applications) : applications'[a] = applications[a]
      /\ applications'[Len(applications) + 1] = new
  BY <1>1, <1>2, <1>3, AppendProperties
<1>5. DOMAIN applications' = 1..(Len(applications) + 1) /\ DOMAIN applications = 1..Len(applications)
      /\ Len(applications) \in Nat
  BY <1>3, <1>4, LenProperties
<1>6. CallInv'
  BY <1>2, <1>4, <1>5, Committed DEF CallInv, TypeInv
<1> QED
  BY <1>1, <1>2, <1>4, <1>5, <1>6

LEMMA UpdateStep ==
    ASSUME Su!SurfacesConstants, CallInv, NEW c \in Calls, Su!UpdateApplication(c)
    PROVE  /\ CallInv' /\ children' = children
           /\ DOMAIN applications' = DOMAIN applications
           /\ surfaceCall[c].app \in DOMAIN applications
           /\ \A a \in DOMAIN applications :
                /\ a # surfaceCall[c].app => applications'[a] = applications[a]
                /\ applications'[a].deleted = applications[a].deleted
<1>1. surfaceCall[c].effect \in {"set", "status", "update"} /\ Su!Close(c) /\ children' = children
  BY DEF Su!UpdateApplication, Su!Ready
<1>2. surfaceCall[c].app \in DOMAIN applications
  BY <1>1 DEF CallInv, CallsOpen, Names, Su!OfApplication
<1>3. PICK active \in IF surfaceCall[c].effect = "set" THEN {None} ELSE BOOLEAN :
        applications' = IF active = surfaceCall[c].active THEN applications
                        ELSE [applications EXCEPT ![surfaceCall[c].app].active = active]
  BY DEF Su!UpdateApplication
<1>4. CASE applications' = applications
  BY <1>1, <1>2, <1>4, Committed DEF CallInv, TypeInv
<1>5. CASE active \in BOOLEAN /\ applications' = [applications EXCEPT ![surfaceCall[c].app].active = active]
  <2> DEFINE new == [applications[surfaceCall[c].app] EXCEPT !.active = active]
  <2>1. new \in AppRow /\ new.deleted = applications[surfaceCall[c].app].deleted
    BY <1>2, <1>5, RowTypes DEF CallInv, AppRow
  <2>2. applications' = [applications EXCEPT ![surfaceCall[c].app] = new]
    BY <1>5
  <2> HIDE DEF new
  <2>3. applications' \in Seq(AppRow) /\ DOMAIN applications' = DOMAIN applications
    BY <1>2, <2>1, <2>2, ExceptSeq, LenProperties DEF CallInv, TypeInv
  <2>4. CallInv'
    BY <1>1, <2>3, Committed DEF CallInv, TypeInv
  <2> QED
    BY <1>1, <1>2, <2>1, <2>2, <2>3, <2>4
<1>6. active \in BOOLEAN \/ active = surfaceCall[c].active
  <2>1. CASE surfaceCall[c].effect = "set"
    <3>1. active = None /\ surfaceCall[c].active = None
      BY <1>3, <2>1 DEF CallInv, CallsOpen, Names, Su!OfStatus
    <3> QED
      BY <3>1
  <2> QED
    BY <1>3, <2>1
<1> QED
  BY <1>3, <1>4, <1>5, <1>6

\* Ending rows changes nothing else of them.
LEMMA EndedRows ==
    ASSUME TypeInv, NEW ids
    PROVE  /\ Su!Ended(ids) \in Seq(ChildRow) /\ DOMAIN Su!Ended(ids) = DOMAIN children
           /\ \A i \in DOMAIN children :
                /\ Su!Ended(ids)[i].app = children[i].app
                /\ i \notin ids => Su!Ended(ids)[i] = children[i]
                /\ i \in ids => Su!Ended(ids)[i].live = FALSE
<1> DEFINE row(i) == IF i \in ids THEN [children[i] EXCEPT !.live = FALSE] ELSE children[i]
<1>1. ASSUME NEW i \in DOMAIN children
      PROVE  /\ row(i) \in ChildRow /\ row(i).app = children[i].app
             /\ i \notin ids => row(i) = children[i]
             /\ i \in ids => row(i).live = FALSE
  <2>1. children[i] \in ChildRow
    BY RowTypes
  <2> QED
    BY <2>1 DEF ChildRow
<1>2. Su!Ended(ids) = [i \in DOMAIN children |-> row(i)]
  BY DEF Su!Ended
<1> HIDE DEF row
<1>3. Su!Ended(ids) \in [1..Len(children) -> ChildRow] /\ Len(children) \in Nat
  BY <1>1, <1>2, RowTypes
<1>4. Su!Ended(ids) \in Seq(ChildRow)
  BY <1>3, SeqDef
<1> QED
  BY <1>1, <1>2, <1>4

LEMMA DeleteStep ==
    ASSUME Su!SurfacesConstants, CallInv, NEW c \in Calls, Su!delete_application(c)
    PROVE  /\ CallInv'
           /\ DOMAIN applications' = DOMAIN applications /\ DOMAIN children' = DOMAIN children
           /\ surfaceCall[c].effect = "delete_application" /\ surfaceCall[c].app \in DOMAIN applications
           /\ \A a \in DOMAIN applications : a # surfaceCall[c].app => applications'[a] = applications[a]
           /\ applications'[surfaceCall[c].app].active =
                IF surfaceCall[c].active THEN FALSE ELSE applications[surfaceCall[c].app].active
           /\ \A i \in DOMAIN children : children'[i].app = children[i].app
           /\ \E listed \in {surfaceCall[c].live, Su!LiveOf(surfaceCall[c].app)} :
                children' = IF kind \in Su!EndedWithApplication THEN Su!Ended(listed) ELSE children
<1> DEFINE a == surfaceCall[c].app
           new == [applications[a] EXCEPT
                            !.active = IF surfaceCall[c].active THEN FALSE ELSE applications[a].active,
                            !.deleted = TRUE]
<1>1. /\ surfaceCall[c].effect = "delete_application" /\ Su!Close(c)
      /\ applications' = [applications EXCEPT ![a] = new]
  BY DEF Su!delete_application, Su!Ready
<1>2. PICK listed \in {surfaceCall[c].live, Su!LiveOf(a)} :
        children' = IF kind \in Su!EndedWithApplication THEN Su!Ended(listed) ELSE children
  BY DEF Su!delete_application
<1>3. a \in DOMAIN applications
  BY <1>1 DEF CallInv, CallsOpen, Names, Su!OfApplication
<1>4. /\ new \in AppRow
      /\ new.active = IF surfaceCall[c].active THEN FALSE ELSE applications[a].active
  <2>1. applications[a] \in AppRow
    BY <1>3, RowTypes DEF CallInv
  <2> HIDE DEF a
  <2> QED
    BY <2>1 DEF AppRow
<1> HIDE DEF new
<1>5. applications' \in Seq(AppRow) /\ DOMAIN applications' = DOMAIN applications
  BY <1>1, <1>3, <1>4, ExceptSeq, LenProperties DEF CallInv, TypeInv
<1>6. /\ children' \in Seq(ChildRow) /\ DOMAIN children' = DOMAIN children
      /\ \A i \in DOMAIN children : children'[i].app = children[i].app
  BY <1>2, EndedRows DEF CallInv, TypeInv
<1>7. CallInv'
  BY <1>1, <1>5, <1>6, Committed DEF CallInv, TypeInv
<1> QED
  BY <1>1, <1>2, <1>3, <1>4, <1>5, <1>6, <1>7

LEMMA ChildCreatedStep ==
    ASSUME Su!SurfacesConstants, CallInv, NEW c \in Calls, Su!ChildCreated(c)
    PROVE  /\ CallInv' /\ applications' = applications
           /\ surfaceCall[c].effect \in Su!OfApplication
           /\ DOMAIN children \subseteq DOMAIN children'
           /\ \A i \in DOMAIN children : children'[i] = children[i]
           /\ \A i \in DOMAIN children' \ DOMAIN children : children'[i].app = surfaceCall[c].app
<1> DEFINE new == [app |-> surfaceCall[c].app, live |-> TRUE, gone |-> FALSE]
<1>1. /\ surfaceCall[c].effect \in {"create", "replace"} /\ Su!Close(c) /\ applications' = applications
      /\ children' = Append(children, new)
  BY DEF Su!ChildCreated, Su!Ready
<1>2. surfaceCall[c].effect \in Su!OfApplication /\ surfaceCall[c].app \in DOMAIN applications
  BY <1>1 DEF CallInv, CallsOpen, Names, Su!OfApplication, Su!OfChild
<1>3. new \in ChildRow /\ new.app = surfaceCall[c].app
  BY <1>2, RowTypes DEF ChildRow, CallInv
<1> HIDE DEF new
<1>4. children \in Seq(ChildRow)
  BY DEF CallInv, TypeInv
<1>5. /\ children' \in Seq(ChildRow) /\ Len(children') = Len(children) + 1
      /\ \A i \in 1..Len(children) : children'[i] = children[i]
      /\ children'[Len(children) + 1] = new
  BY <1>1, <1>3, <1>4, AppendProperties
<1>6. DOMAIN children' = 1..(Len(children) + 1) /\ DOMAIN children = 1..Len(children)
      /\ Len(children) \in Nat
  BY <1>4, <1>5, LenProperties
<1>7. \A i \in DOMAIN children' : children'[i].app \in DOMAIN applications'
  BY <1>1, <1>2, <1>3, <1>5, <1>6 DEF CallInv, TypeInv
<1>8. CallInv'
  BY <1>1, <1>5, <1>6, <1>7, Committed DEF CallInv, TypeInv
<1> QED
  BY <1>1, <1>2, <1>3, <1>5, <1>6, <1>8

LEMMA ChildChangedStep ==
    ASSUME Su!SurfacesConstants, CallInv, NEW c \in Calls, Su!ChildChanged(c)
    PROVE  /\ CallInv' /\ applications' = applications
           /\ surfaceCall[c].effect \in Su!OfChild /\ surfaceCall[c].effect \in Su!OfApplication
           /\ DOMAIN children' = DOMAIN children
           /\ \A i \in DOMAIN children :
                /\ i # surfaceCall[c].child => children'[i] = children[i]
                /\ children'[i].app = children[i].app
<1> DEFINE k == surfaceCall[c].child
           new == [children[k] EXCEPT !.live = IF surfaceCall[c].effect = "end" THEN FALSE ELSE children[k].live,
                                      !.gone = surfaceCall[c].effect = "remove"]
<1>1. /\ surfaceCall[c].effect \in {"change", "end", "remove"} /\ Su!Close(c) /\ applications' = applications
      /\ children' = [children EXCEPT ![k] = new]
  BY DEF Su!ChildChanged, Su!Ready
<1>2. surfaceCall[c].effect \in Su!OfChild /\ surfaceCall[c].effect \in Su!OfApplication /\ k \in DOMAIN children
  BY <1>1 DEF CallInv, CallsOpen, Names, Su!OfApplication, Su!OfChild
<1>3. new \in ChildRow /\ new.app = children[k].app
  <2>1. children[k] \in ChildRow
    BY <1>2, RowTypes DEF CallInv
  <2> HIDE DEF k
  <2> QED
    BY <2>1 DEF ChildRow
<1> HIDE DEF new
<1>4. children' \in Seq(ChildRow) /\ DOMAIN children' = DOMAIN children
  BY <1>1, <1>2, <1>3, ExceptSeq, LenProperties DEF CallInv, TypeInv
<1>5. \A i \in DOMAIN children :
        (i # k => children'[i] = children[i]) /\ children'[i].app = children[i].app
  BY <1>1, <1>2, <1>3
<1>6. CallInv'
  BY <1>1, <1>4, <1>5, Committed DEF CallInv, TypeInv
<1> QED
  BY <1>1, <1>2, <1>4, <1>5, <1>6

LEMMA PurgeStep ==
    ASSUME Su!SurfacesConstants, CallInv, NEW c \in Calls, Su!purge_tombstones(c)
    PROVE  /\ CallInv'
           /\ DOMAIN applications' = DOMAIN applications /\ DOMAIN children' = DOMAIN children
           /\ \A a \in DOMAIN applications :
                /\ applications'[a].active = applications[a].active
                /\ applications'[a].deleted = applications[a].deleted
                /\ applications[a].deleted => applications'[a].gone
           /\ \A i \in DOMAIN children :
                /\ children'[i].app = children[i].app
                /\ children'[i].live => children[i].live
<1> DEFINE Purged == {a \in DOMAIN applications : applications[a].deleted}
           A(a) == [applications[a] EXCEPT !.gone = applications[a].gone \/ a \in Purged]
           K(i) == IF children[i].app \in Purged
                   THEN [children[i] EXCEPT !.live = FALSE, !.gone = TRUE] ELSE children[i]
<1>1. /\ Su!Close(c) /\ applications' = [a \in DOMAIN applications |-> A(a)]
      /\ children' = [i \in DOMAIN children |-> K(i)]
  BY DEF Su!purge_tombstones
<1>2. ASSUME NEW a \in DOMAIN applications
      PROVE  /\ A(a) \in AppRow /\ A(a).active = applications[a].active
             /\ A(a).deleted = applications[a].deleted
             /\ applications[a].deleted => A(a).gone
  <2>1. applications[a] \in AppRow
    BY RowTypes DEF CallInv
  <2> DEFINE p == a \in Purged
  <2>2. p \in BOOLEAN /\ (applications[a].deleted => p)
    OBVIOUS
  <2> HIDE DEF p
  <2>3. A(a) = [applications[a] EXCEPT !.gone = applications[a].gone \/ p]
    BY DEF p
  <2> HIDE DEF A
  <2> QED
    BY <2>1, <2>2, <2>3 DEF AppRow
<1>3. ASSUME NEW i \in DOMAIN children
      PROVE  K(i) \in ChildRow /\ K(i).app = children[i].app /\ (K(i).live => children[i].live)
  <2>1. children[i] \in ChildRow
    BY RowTypes DEF CallInv
  <2> HIDE DEF Purged
  <2> QED
    BY <2>1 DEF ChildRow
<1> HIDE DEF A, K, Purged
<1>4. applications' \in Seq(AppRow)
  <2>1. applications' \in [1..Len(applications) -> AppRow] /\ Len(applications) \in Nat
    BY <1>1, <1>2, RowTypes DEF CallInv
  <2> QED
    BY <2>1, SeqDef
<1>5. children' \in Seq(ChildRow)
  <2>1. children' \in [1..Len(children) -> ChildRow] /\ Len(children) \in Nat
    BY <1>1, <1>3, RowTypes DEF CallInv
  <2> QED
    BY <2>1, SeqDef
<1>6. CallInv'
  <2>1. DOMAIN applications' = DOMAIN applications /\ DOMAIN children' = DOMAIN children
    BY <1>1
  <2>2. \A i \in DOMAIN children : children'[i].app = children[i].app
    BY <1>1, <1>3
  <2> QED
    BY <1>1, <1>4, <1>5, <2>1, <2>2, Committed DEF CallInv, TypeInv
<1> QED
  BY <1>1, <1>2, <1>3, <1>6

-----------------------------------------------------------------------------
(* The invariant of the calls. *)

LEMMA TokenStep ==
    ASSUME Su!SurfacesConstants, CallInv, NEW c \in Calls,
           Su!reset(c) \/ \E token \in Tokens : Su!set_token(c, token)
    PROVE  CallInv' /\ UNCHANGED <<applications, children>>
<1>1. Su!Close(c) /\ UNCHANGED <<applications, children>>
  BY DEF Su!reset, Su!set_token, Su!rows
<1> QED
  BY <1>1, Committed DEF CallInv, TypeInv

LEMMA RestartStep ==
    ASSUME Su!SurfacesConstants, CallInv, NEW pw, Su!Restart(pw)
    PROVE  /\ CallInv' /\ UNCHANGED <<applications, children>>
           /\ \A c \in Calls : surfaceCall'[c] = Su!Closed \/ (surfaceCall'[c] = surfaceCall[c] /\ surfaceCall[c].surface = "cli")
<1>1. /\ UNCHANGED <<applications, children, kind, stored>>
      /\ surfaceCall' = [c \in Calls |-> IF surfaceCall[c].surface = "cli" THEN surfaceCall[c] ELSE Su!Closed]
  BY DEF Su!Restart, Su!rows
<1>2. \A c \in Calls : surfaceCall'[c] = Su!Closed \/ (surfaceCall'[c] = surfaceCall[c] /\ surfaceCall[c].surface = "cli")
  BY <1>1
<1>3. TypeInv'
  BY <1>1, <1>2, ClosedCall DEF CallInv, TypeInv
<1>4. ASSUME NEW c \in Calls PROVE Names(surfaceCall[c])' /\ (surfaceCall'[c].fresh => Current(surfaceCall[c])')
  <2>1. CASE surfaceCall'[c] = Su!Closed
    BY <2>1, ClosedCall DEF Names, Current
  <2>2. CASE surfaceCall'[c] = surfaceCall[c]
    <3>1. Names(surfaceCall[c]) /\ (surfaceCall[c].fresh => Current(surfaceCall[c]))
      BY DEF CallInv, CallsOpen, Snapshots
    <3> QED
      BY <1>1, <2>2, <3>1 DEF Names, Current, Su!get_application_by_slug, Su!FoundChild, Su!LiveOf, Su!NotEmpty, Su!matches
  <2> QED
    BY <1>2, <2>1, <2>2
<1> QED
  BY <1>1, <1>2, <1>3, <1>4 DEF CallInv, CallsOpen, Snapshots

LEMMA IdleStep ==
    ASSUME CallInv, UNCHANGED <<kind, Su!rows, stored, surfaceCall>>
    PROVE  CallInv'
<1>1. UNCHANGED <<kind, applications, children, stored, surfaceCall>>
  BY DEF Su!rows
<1>2. TypeInv'
  BY <1>1 DEF CallInv, TypeInv
<1>3. ASSUME NEW c \in Calls PROVE Names(surfaceCall[c])' /\ (surfaceCall'[c].fresh => Current(surfaceCall[c])')
  <2>1. Names(surfaceCall[c]) /\ (surfaceCall[c].fresh => Current(surfaceCall[c]))
    BY DEF CallInv, CallsOpen, Snapshots
  <2> QED
    BY <1>1, <2>1 DEF Names, Current, Su!get_application_by_slug, Su!FoundChild, Su!LiveOf, Su!NotEmpty, Su!matches
<1> QED
  BY <1>2, <1>3 DEF CallInv, CallsOpen, Snapshots

\* Every step, by what it does.
LEMMA Steps ==
    ASSUME [Su!Next]_(Su!vars)
    PROVE  \/ \E c \in Calls :
                \/ \E surface \in {"portal", "operator", "cli"} : \E held \in Su!Admits(surface) :
                     \E effect \in Su!Effects(surface) : Su!Open(c, surface, effect, held)
                \/ Su!Fails(c) \/ Su!create_application(c) \/ Su!UpdateApplication(c)
                \/ Su!delete_application(c) \/ Su!ChildCreated(c) \/ Su!ChildChanged(c)
                \/ Su!purge_tombstones(c)
                \/ Su!reset(c) \/ \E token \in Tokens : Su!set_token(c, token)
           \/ \E pw \in Passwords : Su!Restart(pw)
           \/ Su!login \/ Su!Tick \/ UNCHANGED Su!vars
BY DEF Su!Next

LEMMA CallStep == ASSUME Su!SurfacesConstants, CallInv, [Su!Next]_(Su!vars) PROVE CallInv'
<1>1. ASSUME NEW c \in Calls, NEW surface \in {"portal", "operator", "cli"},
             NEW held \in Su!Admits(surface), NEW effect, Su!Open(c, surface, effect, held)
      PROVE  CallInv'
  BY <1>1, OpenStep
<1>2. ASSUME NEW c \in Calls,
             \/ Su!Fails(c) \/ Su!create_application(c) \/ Su!UpdateApplication(c)
             \/ Su!delete_application(c) \/ Su!ChildCreated(c) \/ Su!ChildChanged(c)
             \/ Su!purge_tombstones(c)
      PROVE  CallInv'
  BY <1>2, FailsStep, CreateStep, UpdateStep, DeleteStep, ChildCreatedStep, ChildChangedStep, PurgeStep
<1>3. ASSUME NEW c \in Calls, Su!reset(c) \/ \E token \in Tokens : Su!set_token(c, token)
      PROVE  CallInv'
  BY <1>3, TokenStep
<1>4. ASSUME NEW pw \in Passwords, Su!Restart(pw) PROVE CallInv'
  BY <1>4, RestartStep
<1>5. CASE Su!login \/ Su!Tick \/ UNCHANGED Su!vars
  BY <1>5, IdleStep DEF Su!login, Su!Tick, Su!vars, Su!gates
<1> QED
  BY <1>1, <1>2, <1>3, <1>4, <1>5, Steps

-----------------------------------------------------------------------------
(* Deletion. *)

\* On SQLite, who commits has loaded what is there.
LEMMA Mine ==
    ASSUME CallInv, Su!OnSqlite, NEW c \in Calls, Su!Succeeds(c)
    PROVE  Current(surfaceCall[c])
BY DEF CallInv, Snapshots, Su!OnSqlite, Su!Succeeds

LEMMA Backend == ASSUME [Su!Next]_(Su!vars) PROVE UNCHANGED <<surfaceBackend, kind>>
BY Steps DEF Su!Open, Su!Fails, Su!create_application, Su!UpdateApplication, Su!delete_application, Su!ChildCreated,
   Su!ChildChanged, Su!purge_tombstones, Su!reset, Su!set_token, Su!Restart, Su!login, Su!Tick, Su!vars

LEMMA DeletionInit == ASSUME Su!Init PROVE Su!DeletionSticks
BY DEF Su!Init, Su!DeletionSticks

LEMMA DeletionStep ==
    ASSUME Su!SurfacesConstants, CallInv, Su!DeletionSticks, [Su!Next]_(Su!vars)
    PROVE  Su!DeletionSticks'
<1>0. UNCHANGED <<surfaceBackend, kind>>
  BY Backend
<1> SUFFICES ASSUME Su!OnSqlite, NEW a \in DOMAIN applications', applications'[a].deleted
             PROVE  /\ ~applications'[a].active
                    /\ kind \in Su!EndedWithApplication =>
                                \A i \in DOMAIN children' : ~(children'[i].app = a /\ children'[i].live)
  BY <1>0 DEF Su!DeletionSticks, Su!OnSqlite, Su!LiveOf
<1> DEFINE Goal == /\ ~applications'[a].active
                   /\ kind \in Su!EndedWithApplication =>
                                \A i \in DOMAIN children' : ~(children'[i].app = a /\ children'[i].live)
<1>a. ASSUME NEW b \in DOMAIN applications, applications[b].deleted
      PROVE  /\ ~applications[b].active
             /\ kind \in Su!EndedWithApplication =>
                  \A i \in DOMAIN children : ~(children[i].app = b /\ children[i].live)
  BY <1>a DEF Su!DeletionSticks, Su!LiveOf
<1>1. CASE UNCHANGED <<applications, children>>
  BY <1>1, <1>a
<1>2. ASSUME NEW c \in Calls, Su!create_application(c) PROVE Goal
  <2>1. a \in DOMAIN applications /\ applications'[a] = applications[a] /\ children' = children
    BY <1>2, CreateStep
  <2> QED
    BY <1>a, <2>1
<1>3. ASSUME NEW c \in Calls, Su!UpdateApplication(c) PROVE Goal
  <2>1. Current(surfaceCall[c]) /\ surfaceCall[c].effect \in Su!OfApplication
    BY <1>3, Mine DEF Su!UpdateApplication, Su!Ready, Su!OfApplication
  <2>2. ~applications[surfaceCall[c].app].deleted
    BY <2>1 DEF Current, Su!get_application_by_slug
  <2>3. a \in DOMAIN applications /\ applications'[a].deleted = applications[a].deleted
    BY <1>3, UpdateStep
  <2>4. applications'[a] = applications[a] /\ children' = children
    BY <1>3, <2>2, <2>3, UpdateStep
  <2> QED
    BY <1>a, <2>3, <2>4
<1>4. ASSUME NEW c \in Calls, Su!delete_application(c) PROVE Goal
  <2>1. Current(surfaceCall[c]) /\ surfaceCall[c].effect = "delete_application"
    BY <1>4, Mine DEF Su!delete_application, Su!Ready
  <2>2. surfaceCall[c].live = Su!LiveOf(surfaceCall[c].app) /\ surfaceCall[c].active = applications[surfaceCall[c].app].active
    BY <2>1 DEF Current, Su!OfRows, Su!OfStatus
  <2>3. children' = IF kind \in Su!EndedWithApplication THEN Su!Ended(Su!LiveOf(surfaceCall[c].app)) ELSE children
    <3>1. PICK listed \in {surfaceCall[c].live, Su!LiveOf(surfaceCall[c].app)} :
            children' = IF kind \in Su!EndedWithApplication THEN Su!Ended(listed) ELSE children
      BY <1>4, DeleteStep
    <3>2. listed = Su!LiveOf(surfaceCall[c].app)
      BY <2>2, <3>1
    <3> QED
      BY <3>1, <3>2
  <2>4. kind \in Su!EndedWithApplication => \A i \in DOMAIN children :
           /\ children'[i].app = children[i].app
           /\ i \notin Su!LiveOf(surfaceCall[c].app) => children'[i] = children[i]
           /\ i \in Su!LiveOf(surfaceCall[c].app) => children'[i].live = FALSE
    BY <2>3, EndedRows DEF CallInv
  <2>5. DOMAIN children' = DOMAIN children /\ a \in DOMAIN applications
    BY <1>4, DeleteStep
  <2>6. CASE a = surfaceCall[c].app
    <3>1. ~applications'[a].active
      <4>1. applications[a].active \in BOOLEAN
        BY <2>5, RowTypes DEF CallInv, AppRow
      <4> QED
        BY <1>4, <2>2, <2>6, <4>1, DeleteStep
    <3> QED
      BY <2>4, <2>5, <2>6, <3>1 DEF Su!LiveOf
  <2>7. CASE a # surfaceCall[c].app
    <3>1. applications'[a] = applications[a]
      BY <1>4, <2>5, <2>7, DeleteStep
    <3> QED
      BY <1>a, <2>4, <2>5, <2>7, <3>1 DEF Su!LiveOf
  <2> QED
    BY <2>6, <2>7
<1>5. ASSUME NEW c \in Calls, Su!ChildCreated(c) PROVE Goal
  <2>1. Current(surfaceCall[c]) /\ surfaceCall[c].effect \in Su!OfApplication
    BY <1>5, Mine, ChildCreatedStep DEF Su!ChildCreated, Su!Ready
  <2>2. ~applications[surfaceCall[c].app].deleted
    BY <2>1 DEF Current, Su!get_application_by_slug
  <2>3. applications' = applications /\ a # surfaceCall[c].app
    BY <1>5, <2>2, ChildCreatedStep
  <2>4. /\ \A i \in DOMAIN children : children'[i] = children[i]
        /\ \A i \in DOMAIN children' \ DOMAIN children : children'[i].app = surfaceCall[c].app
    BY <1>5, ChildCreatedStep
  <2>5. ASSUME NEW i \in DOMAIN children', children'[i].app = a
        PROVE  i \in DOMAIN children /\ children'[i] = children[i]
    BY <2>3, <2>4, <2>5
  <2> QED
    BY <1>a, <2>3, <2>5
<1>6. ASSUME NEW c \in Calls, Su!ChildChanged(c) PROVE Goal
  <2>1. Current(surfaceCall[c]) /\ surfaceCall[c].effect \in Su!OfApplication /\ surfaceCall[c].effect \in Su!OfChild
    BY <1>6, Mine, ChildChangedStep DEF Su!ChildChanged, Su!Ready
  <2>2. ~applications[surfaceCall[c].app].deleted /\ children[surfaceCall[c].child].app = surfaceCall[c].app
    BY <2>1 DEF Current, Su!get_application_by_slug, Su!FoundChild
  <2>3. /\ applications' = applications /\ DOMAIN children' = DOMAIN children
        /\ \A i \in DOMAIN children :
             (i # surfaceCall[c].child => children'[i] = children[i]) /\ children'[i].app = children[i].app
    BY <1>6, ChildChangedStep
  <2> QED
    BY <1>a, <2>2, <2>3
<1>7. ASSUME NEW c \in Calls, Su!purge_tombstones(c) PROVE Goal
  BY <1>a, <1>7, PurgeStep
<1>8. ASSUME NEW c \in Calls, Su!reset(c) \/ \E token \in Tokens : Su!set_token(c, token) PROVE Goal
  BY <1>1, <1>8, TokenStep
<1>9. ASSUME NEW c \in Calls, \/ Su!Fails(c)
                              \/ \E surface, held, effect : Su!Open(c, surface, effect, held)
      PROVE  Goal
  BY <1>1, <1>9 DEF Su!Fails, Su!Open, Su!rows
<1>10. CASE Su!login \/ Su!Tick \/ UNCHANGED Su!vars \/ \E pw \in Passwords : Su!Restart(pw)
  BY <1>1, <1>10 DEF Su!login, Su!Tick, Su!vars, Su!Restart, Su!rows
<1> QED
  BY <1>2, <1>3, <1>4, <1>5, <1>6, <1>7, <1>8, <1>9, <1>10, Steps

\* A deleted application stays inactive with nothing live under it, whatever
\* calls were open when it was deleted: on SQLite none of them can commit.
LEMMA DeletedAlways ==
    ASSUME Su!SurfacesConstants
    PROVE  Su!Spec => []Su!DeletionSticks
<1>1. Su!Init => CallInv /\ Su!DeletionSticks
  BY InitCalls, DeletionInit
<1>2. CallInv /\ Su!DeletionSticks /\ [Su!Next]_(Su!vars) => (CallInv /\ Su!DeletionSticks)'
  BY CallStep, DeletionStep
<1> QED
  BY <1>1, <1>2, PTL DEF Su!Spec

-----------------------------------------------------------------------------
(* What is committed. *)

LEMMA SameRows ==
    ASSUME NEW a, NEW s, NEW t,
           \A j : (j \in DOMAIN s /\ s[j].app = a) <=> (j \in DOMAIN t /\ t[j].app = a),
           \A j \in DOMAIN s : s[j].app = a => t[j] = s[j]
    PROVE  Su!RowsOf(a, t) = Su!RowsOf(a, s)
<1>1. {j \in DOMAIN s : s[j].app = a} = {j \in DOMAIN t : t[j].app = a}
  OBVIOUS
<1> QED
  BY <1>1 DEF Su!RowsOf

LEMMA Frozen == ASSUME Su!SurfacesConstants, CallInv, [Su!Next]_(Su!vars) PROVE Su!ArchiveIsFrozenStep
<1> SUFFICES ASSUME Su!OnSqlite, NEW a \in DOMAIN applications, applications[a].deleted,
                    ~applications'[a].gone
             PROVE  /\ applications'[a] = applications[a]
                    /\ Su!RowsOf(a, children') = Su!RowsOf(a, children)
  BY DEF Su!ArchiveIsFrozenStep
<1> DEFINE Goal == /\ applications'[a] = applications[a]
                   /\ Su!RowsOf(a, children') = Su!RowsOf(a, children)
<1>1. CASE UNCHANGED <<applications, children>>
  BY <1>1
<1>2. ASSUME NEW c \in Calls, Su!create_application(c) PROVE Goal
  BY <1>2, CreateStep
<1>3. ASSUME NEW c \in Calls, Su!UpdateApplication(c) PROVE Goal
  <2>1. Current(surfaceCall[c]) /\ surfaceCall[c].effect \in Su!OfApplication
    BY <1>3, Mine DEF Su!UpdateApplication, Su!Ready, Su!OfApplication
  <2>2. ~applications[surfaceCall[c].app].deleted
    BY <2>1 DEF Current, Su!get_application_by_slug
  <2> QED
    BY <1>3, <2>2, UpdateStep
<1>4. ASSUME NEW c \in Calls, Su!delete_application(c) PROVE Goal
  <2>1. Current(surfaceCall[c]) /\ surfaceCall[c].effect = "delete_application"
    BY <1>4, Mine DEF Su!delete_application, Su!Ready
  <2>2. surfaceCall[c].live = Su!LiveOf(surfaceCall[c].app) /\ ~applications[surfaceCall[c].app].deleted
    BY <2>1 DEF Current, Su!OfRows, Su!OfApplication, Su!get_application_by_slug
  <2>3. PICK listed \in {surfaceCall[c].live, Su!LiveOf(surfaceCall[c].app)} :
          children' = IF kind \in Su!EndedWithApplication THEN Su!Ended(listed) ELSE children
    BY <1>4, DeleteStep
  <2>4. \A i \in DOMAIN children :
           /\ children'[i].app = children[i].app
           /\ i \notin Su!LiveOf(surfaceCall[c].app) => children'[i] = children[i]
    BY <2>2, <2>3, EndedRows DEF CallInv
  <2>5. DOMAIN children' = DOMAIN children /\ a # surfaceCall[c].app /\ applications'[a] = applications[a]
    BY <1>4, <2>2, DeleteStep
  <2>6. \A i \in DOMAIN children : children[i].app = a => children'[i] = children[i]
    BY <2>4, <2>5 DEF Su!LiveOf
  <2>7. Su!RowsOf(a, children') = Su!RowsOf(a, children)
    BY <2>4, <2>5, <2>6, SameRows
  <2> QED
    BY <2>5, <2>7
<1>5. ASSUME NEW c \in Calls, Su!ChildCreated(c) PROVE Goal
  <2>1. Current(surfaceCall[c]) /\ surfaceCall[c].effect \in Su!OfApplication
    BY <1>5, Mine, ChildCreatedStep DEF Su!ChildCreated, Su!Ready
  <2>2. ~applications[surfaceCall[c].app].deleted
    BY <2>1 DEF Current, Su!get_application_by_slug
  <2>3. applications' = applications /\ a # surfaceCall[c].app
    BY <1>5, <2>2, ChildCreatedStep
  <2>4. /\ \A i \in DOMAIN children : i \in DOMAIN children' /\ children'[i] = children[i]
        /\ \A i \in DOMAIN children' \ DOMAIN children : children'[i].app = surfaceCall[c].app
    BY <1>5, ChildCreatedStep
  <2>5. Su!RowsOf(a, children') = Su!RowsOf(a, children)
    BY <2>3, <2>4, SameRows
  <2> QED
    BY <2>3, <2>5
<1>6. ASSUME NEW c \in Calls, Su!ChildChanged(c) PROVE Goal
  <2>1. Current(surfaceCall[c]) /\ surfaceCall[c].effect \in Su!OfApplication /\ surfaceCall[c].effect \in Su!OfChild
    BY <1>6, Mine, ChildChangedStep DEF Su!ChildChanged, Su!Ready
  <2>2. ~applications[surfaceCall[c].app].deleted /\ children[surfaceCall[c].child].app = surfaceCall[c].app
    BY <2>1 DEF Current, Su!get_application_by_slug, Su!FoundChild
  <2>3. /\ applications' = applications /\ DOMAIN children' = DOMAIN children
        /\ \A i \in DOMAIN children :
             (i # surfaceCall[c].child => children'[i] = children[i]) /\ children'[i].app = children[i].app
    BY <1>6, ChildChangedStep
  <2>4. \A i \in DOMAIN children : children[i].app = a => children'[i] = children[i]
    BY <2>2, <2>3
  <2>5. Su!RowsOf(a, children') = Su!RowsOf(a, children)
    BY <2>3, <2>4, SameRows
  <2> QED
    BY <2>3, <2>5
<1>7. ASSUME NEW c \in Calls, Su!purge_tombstones(c) PROVE Goal
  BY <1>7, PurgeStep
<1>8. ASSUME NEW c \in Calls, Su!reset(c) \/ \E token \in Tokens : Su!set_token(c, token) PROVE Goal
  BY <1>1, <1>8, TokenStep
<1>9. ASSUME NEW c \in Calls, \/ Su!Fails(c)
                              \/ \E surface, held, effect : Su!Open(c, surface, effect, held)
      PROVE  Goal
  BY <1>1, <1>9 DEF Su!Fails, Su!Open, Su!rows
<1>10. CASE Su!login \/ Su!Tick \/ UNCHANGED Su!vars \/ \E pw \in Passwords : Su!Restart(pw)
  BY <1>1, <1>10 DEF Su!login, Su!Tick, Su!vars, Su!Restart, Su!rows
<1> QED
  BY <1>2, <1>3, <1>4, <1>5, <1>6, <1>7, <1>8, <1>9, <1>10, Steps

\* Of the calls that are closed by a step that writes anything, one made it.
LEMMA WhoCommits ==
    ASSUME Su!SurfacesConstants, CallInv, [Su!Next]_(Su!vars), NEW c \in Calls, surfaceCall[c] # Su!Closed,
           surfaceCall'[c] = Su!Closed, <<applications, children, stored>> # <<applications, children, stored>>'
    PROVE  /\ Su!Succeeds(c)
           /\ \/ Su!create_application(c) \/ Su!UpdateApplication(c) \/ Su!delete_application(c)
              \/ Su!ChildCreated(c) \/ Su!ChildChanged(c) \/ Su!purge_tombstones(c)
              \/ Su!reset(c) \/ \E token \in Tokens : Su!set_token(c, token)
<1> DEFINE By(d) == \/ Su!create_application(d) \/ Su!UpdateApplication(d) \/ Su!delete_application(d)
                    \/ Su!ChildCreated(d) \/ Su!ChildChanged(d) \/ Su!purge_tombstones(d)
                    \/ Su!reset(d) \/ \E token \in Tokens : Su!set_token(d, token)
<1>1. ASSUME NEW d \in Calls, By(d) PROVE Su!Close(d) /\ Su!Succeeds(d)
  BY <1>1 DEF Su!create_application, Su!UpdateApplication, Su!delete_application, Su!ChildCreated,
     Su!ChildChanged, Su!purge_tombstones, Su!reset, Su!set_token, Su!Ready
<1>2. PICK d \in Calls : By(d)
  BY Steps DEF Su!Open, Su!Fails, Su!Restart, Su!login, Su!Tick, Su!vars, Su!rows, Su!gates
<1>3. d = c
  BY <1>1, <1>2, Closes DEF CallInv
<1> QED
  BY <1>1, <1>2, <1>3

LEMMA Unasked == ASSUME Su!SurfacesConstants, CallInv, [Su!Next]_(Su!vars) PROVE Su!NothingDroppedUnaskedStep
<1> SUFFICES ASSUME Su!OnSqlite, kind = "domain", NEW c \in Calls,
                    surfaceCall[c].effect = "delete_application", ~surfaceCall[c].consent,
                    surfaceCall'[c] = Su!Closed, applications' # applications
             PROVE  children' = children
  BY DEF Su!NothingDroppedUnaskedStep
<1>1. surfaceCall[c] # Su!Closed
  BY ClosedCall
<1>2. Su!Succeeds(c) /\ (Su!delete_application(c) \/ Su!create_application(c) \/ Su!UpdateApplication(c)
                      \/ Su!ChildCreated(c) \/ Su!ChildChanged(c) \/ Su!purge_tombstones(c)
                      \/ Su!reset(c) \/ \E token \in Tokens : Su!set_token(c, token))
  BY <1>1, WhoCommits
<1>3. Su!delete_application(c)
  BY <1>2 DEF Su!create_application, Su!UpdateApplication, Su!ChildCreated, Su!ChildChanged,
     Su!purge_tombstones, Su!reset, Su!set_token, Su!Ready
<1>4. Current(surfaceCall[c])
  BY <1>2, Mine
<1>5. Su!LiveOf(surfaceCall[c].app) = {} /\ surfaceCall[c].live = {}
  BY <1>4 DEF Current, Su!NotEmpty, Su!OfRows
<1>6. PICK listed \in {surfaceCall[c].live, Su!LiveOf(surfaceCall[c].app)} :
        children' = IF kind \in Su!EndedWithApplication THEN Su!Ended(listed) ELSE children
  BY <1>3, DeleteStep
<1>7. Su!Ended({}) = children
  <2>1. Su!Ended({}) = [i \in DOMAIN children |-> children[i]]
    BY DEF Su!Ended
  <2>2. children = [i \in DOMAIN children |-> children[i]]
    BY DEF CallInv, TypeInv
  <2> QED
    BY <2>1, <2>2
<1> QED
  BY <1>5, <1>6, <1>7

LEMMA TokenReplaced == ASSUME Su!SurfacesConstants, CallInv, [Su!Next]_(Su!vars) PROVE Su!CurrentTokenCommitsStep
<1> SUFFICES ASSUME Su!OnSqlite, NEW c \in Calls, surfaceCall[c].surface = "operator", surfaceCall'[c] = Su!Closed,
                    <<Su!rows, stored>> # <<Su!rows', stored'>>
             PROVE  Su!matches(surfaceCall[c].held)
  BY DEF Su!CurrentTokenCommitsStep
<1>1. surfaceCall[c] # Su!Closed
  BY ClosedCall
<1>2. <<applications, children, stored>> # <<applications, children, stored>>'
  BY DEF Su!rows
<1>3. Su!Succeeds(c)
  BY <1>1, <1>2, WhoCommits
<1> QED
  BY <1>3, Mine DEF Current

\* What a call commits on SQLite is what was meant when it does: no step
\* changes a deleted application's archive, drops live domains unasked, or is
\* committed under a token that has been replaced.
LEMMA CommittedAlways ==
    ASSUME Su!SurfacesConstants
    PROVE  Su!Spec => Su!CommitsAsMeant
<1>1. Su!Init => CallInv
  BY InitCalls
<1>2. CallInv /\ [Su!Next]_(Su!vars) => CallInv'
  BY CallStep
<1>3. CallInv /\ [Su!Next]_(Su!vars) => Su!CommitsAsMeantStep
  BY Frozen, Unasked, TokenReplaced DEF Su!CommitsAsMeantStep
<1> QED
  BY <1>1, <1>2, <1>3, PTL DEF Su!Spec, Su!CommitsAsMeant

-----------------------------------------------------------------------------
(* The gates. *)

\* Without a secret of its own the portal signs each cookie with the password
\* it was handed out under.
SignedByPassword == ~ownSecret => \A k \in cookies : k.secret = k.under

GateInv ==
    /\ stored \in Tokens \cup {None}
    /\ lastSet = IF stored # None THEN stored ELSE 0
    /\ SignedByPassword /\ Su!PasswordSignsOut

LEMMA GateInit == ASSUME Su!SurfacesConstants, Su!Init PROVE GateInv
<1>1. \A c \in Calls : surfaceCall[c].surface = None
  BY ClosedCall DEF Su!Init
<1>2. ownSecret \/ \A k \in cookies : k.secret = password /\ k.under = password
  BY DEF Su!Init, Su!SessionSecret
<1> QED
  BY <1>1, <1>2, ClosedCall DEF Su!Init, GateInv, SignedByPassword, Su!PasswordSignsOut

\* What a call holds, and the password, change only where someone is let in
\* or everyone is turned out.
LEMMA HeldStep ==
    ASSUME Su!SurfacesConstants, TypeInv, Su!PasswordSignsOut, UNCHANGED <<ownSecret, password>>,
           NEW c \in Calls, Su!Close(c)
    PROVE  Su!PasswordSignsOut'
<1> SUFFICES ASSUME ~ownSecret, NEW d \in Calls, surfaceCall'[d].surface = "portal"
             PROVE  surfaceCall'[d].held.under = password
  BY DEF Su!PasswordSignsOut
<1>1. surfaceCall'[d] # Su!Closed
  BY ClosedCall
<1>2. surfaceCall'[d].surface = surfaceCall[d].surface /\ surfaceCall'[d].held = surfaceCall[d].held
  BY <1>1, Closes
<1> QED
  BY <1>2 DEF Su!PasswordSignsOut

LEMMA LetIn ==
    ASSUME Su!SurfacesConstants, CallInv, GateInv, NEW c \in Calls, NEW effect,
           NEW surface \in {"portal", "operator", "cli"}, NEW held \in Su!Admits(surface),
           Su!Open(c, surface, effect, held)
    PROVE  GateInv'
<1>1. UNCHANGED <<stored, password, ownSecret, cookies, lastSet>>
  BY DEF Su!Open, Su!gates
<1>2. ASSUME NEW d \in Calls, d # c PROVE surfaceCall'[d] = surfaceCall[d]
  BY <1>2 DEF Su!Open, CallInv, TypeInv
<1>3. surfaceCall'[c].surface \in {surface, None} /\ (surfaceCall'[c].surface # None => surfaceCall'[c].held = held)
  BY DEF Su!Open, CallInv, TypeInv
<1>4. ASSUME ~ownSecret, surfaceCall'[c].surface = "portal" PROVE surfaceCall'[c].held.under = password
  <2>1. surface = "portal" /\ surfaceCall'[c].held = held
    BY <1>3, <1>4, ClosedCall
  <2>2. held \in cookies /\ Su!ReadSession(held)
    <3>1. Su!Admits("portal") = {k \in cookies : Su!ReadSession(k)}
      BY DEF Su!Admits
    <3> QED
      BY <2>1, <3>1
  <2> QED
    BY <1>4, <2>1, <2>2 DEF Su!ReadSession, Su!SessionSecret, GateInv, SignedByPassword
<1> QED
  BY <1>1, <1>2, <1>4 DEF GateInv, SignedByPassword, Su!PasswordSignsOut

LEMMA GateStep ==
    ASSUME Su!SurfacesConstants, CallInv, GateInv, [Su!Next]_(Su!vars)
    PROVE  GateInv'
<1>0. TypeInv
  BY DEF CallInv
<1>1. ASSUME NEW c \in Calls, Su!Close(c), UNCHANGED <<stored, password, ownSecret, cookies, lastSet>>
      PROVE  GateInv'
  BY <1>0, <1>1, HeldStep DEF GateInv, SignedByPassword
<1>2. ASSUME NEW c \in Calls,
             \/ Su!create_application(c) \/ Su!UpdateApplication(c) \/ Su!delete_application(c)
             \/ Su!ChildCreated(c) \/ Su!ChildChanged(c) \/ Su!purge_tombstones(c)
      PROVE  GateInv'
  <2>1. Su!Close(c) /\ UNCHANGED Su!gates
    BY <1>2 DEF Su!create_application, Su!UpdateApplication, Su!delete_application, Su!ChildCreated,
       Su!ChildChanged, Su!purge_tombstones
  <2> QED
    BY <1>1, <2>1 DEF Su!gates
<1>3. ASSUME NEW c \in Calls, NEW token \in Tokens, Su!set_token(c, token) PROVE GateInv'
  <2>1. stored' = token /\ lastSet' = token /\ Su!Close(c) /\ UNCHANGED <<password, ownSecret, cookies>>
    BY <1>3 DEF Su!set_token
  <2>2. token # None
    BY DEF Su!SurfacesConstants
  <2> QED
    BY <1>0, <2>1, <2>2, HeldStep DEF GateInv, SignedByPassword
<1>4. ASSUME NEW c \in Calls, Su!reset(c) PROVE GateInv'
  BY <1>0, <1>4, HeldStep DEF Su!reset, GateInv, SignedByPassword
<1>5. ASSUME NEW c \in Calls, Su!Fails(c) PROVE GateInv'
  <2>1. UNCHANGED <<stored, password, ownSecret, cookies, lastSet>>
    BY <1>5 DEF Su!Fails, Su!gates
  <2>2. \A d \in Calls : surfaceCall'[d] = surfaceCall[d] \/ surfaceCall'[d].surface = None
    BY <1>0, <1>5, ClosedCall DEF Su!Fails, TypeInv
  <2> QED
    BY <2>1, <2>2, ClosedCall DEF GateInv, SignedByPassword, Su!PasswordSignsOut
<1>6. CASE Su!login
  <2>1. /\ UNCHANGED <<stored, password, ownSecret, lastSet, surfaceCall>>
        /\ \A k \in cookies' : k \in cookies \/ (k.secret = Su!SessionSecret(password) /\ k.under = password)
    BY <1>6 DEF Su!login
  <2> QED
    BY <2>1 DEF Su!SessionSecret, GateInv, SignedByPassword, Su!PasswordSignsOut
<1>7. ASSUME NEW pw \in Passwords, Su!Restart(pw) PROVE GateInv'
  <2>1. UNCHANGED <<stored, ownSecret, cookies, lastSet>>
    BY <1>7 DEF Su!Restart
  <2>2. \A c \in Calls : surfaceCall'[c].surface # "portal"
    BY <1>7, RestartStep, ClosedCall
  <2> QED
    BY <2>1, <2>2 DEF GateInv, SignedByPassword, Su!PasswordSignsOut
<1>8. CASE Su!Tick \/ UNCHANGED Su!vars
  BY <1>8 DEF Su!Tick, Su!vars, Su!gates, GateInv, SignedByPassword, Su!PasswordSignsOut
<1>9. ASSUME NEW c \in Calls, NEW surface \in {"portal", "operator", "cli"},
             NEW held \in Su!Admits(surface), NEW effect, Su!Open(c, surface, effect, held)
      PROVE  GateInv'
  BY <1>9, LetIn
<1> QED
  BY <1>2, <1>3, <1>4, <1>5, <1>6, <1>7, <1>8, <1>9, Steps

\* On either backend the operator API admits the token set last and no other,
\* and no request is let into the portal by a session of an earlier password.
LEMMA GatesAlways ==
    ASSUME Su!SurfacesConstants
    PROVE  Su!Spec => []Su!GatesFollowTheSecrets
<1>1. Su!Init => CallInv /\ GateInv
  BY InitCalls, GateInit
<1>2. CallInv /\ GateInv /\ [Su!Next]_(Su!vars) => (CallInv /\ GateInv)'
  BY CallStep, GateStep
<1>3. GateInv => Su!GatesFollowTheSecrets
  BY DEF GateInv, Su!GatesFollowTheSecrets, Su!TokenIsTheLastSet, Su!matches
<1> QED
  BY <1>1, <1>2, <1>3, PTL DEF Su!Spec

-----------------------------------------------------------------------------
(* The same of the behaviours of MCOperations that are about the surfaces. *)

LEMMA SurfacesInFocus ==
    /\ OperationsInit /\ focus = "surfaces" => Su!Init
    /\ [OperationsNext]_operationsVars /\ focus = "surfaces"
         => (focus = "surfaces")' /\ [Su!Next]_(Su!vars)
    /\ [OperationsNext]_operationsVars /\ ~(focus = "surfaces")
         => ~(focus = "surfaces")'
BY DEF OperationsInit, OperationsNext, operationsVars, surfacesVars, Su!vars, Su!rows, Su!gates

\* A deleted application stays inactive with nothing live under it, whatever
\* calls were open when it was deleted: on SQLite none of them can commit
\* (delete_application, update_application and what is created under it).
THEOREM DeletedForGood == OperationsSpec => []DeletionSticks
<1>1. Su!Spec => []Su!DeletionSticks
  BY DeletedAlways, PartsAssumption
<1> QED
  BY <1>1, SurfacesInFocus, PTL DEF OperationsSpec, Su!Spec, DeletionSticks

\* What a call commits on SQLite is what was meant when it does: no step
\* changes a deleted application's archive, drops live domains unasked, or is
\* committed under a token that has been replaced.
THEOREM CommittedAsMeant == OperationsSpec => CommitsAsMeant
<1>1. Su!Spec => Su!CommitsAsMeant
  BY CommittedAlways, PartsAssumption
<1>2. [Su!CommitsAsMeantStep]_(Su!vars) => [focus = "surfaces" => Su!CommitsAsMeantStep]_surfacesVars
  BY DEF surfacesVars, Su!vars, Su!rows, Su!gates
<1> QED
  BY <1>1, <1>2, SurfacesInFocus, PTL DEF OperationsSpec, Su!Spec, Su!CommitsAsMeant, CommitsAsMeant

\* On either backend the operator API admits the token set last and no other
\* (matches), and no request is let into the portal by a session of an earlier
\* password (read_session).
THEOREM GatesFollow == OperationsSpec => []GatesFollowTheSecrets
<1>1. Su!Spec => []Su!GatesFollowTheSecrets
  BY GatesAlways, PartsAssumption
<1> QED
  BY <1>1, SurfacesInFocus, PTL DEF OperationsSpec, Su!Spec, GatesFollowTheSecrets
============================================================================
