------------------------ MODULE AdministrationProofs ------------------------
(***************************************************************************)
(* Theorems about Administration, for any number of concurrent calls, any  *)
(* delays and any number of rows.                                          *)
(***************************************************************************)
EXTENDS Administration, FiniteSetTheorems, SequenceTheorems,
        WellFoundedInduction, TLAPS

-----------------------------------------------------------------------------
(* Calls and what they loaded. *)

Ops == {"none", "issue_key", "rotate", "delete", "rotate_secret", "verify", "verify_activate",
        "activate", "retire"}

Seen == Seq(AssertionKey) \cup ApiCredential \cup WebhookSecret \cup VerifiedOrigin \cup {None}

Call == [op : Ops, id : Nat, delay : Nat, at : Nat, seen : Seen, fresh : BOOLEAN,
         probe : BOOLEAN \cup {None}]

TypeInv == /\ TypeOK /\ call \in [Calls -> Call]
           /\ subject = "credentials" => 1 \in DOMAIN credentials

\* An open call is about rows there are, loaded no later than now.
Names(c) ==
    /\ call[c].at <= now /\ call[c].delay \in Delays \cup {0}
    /\ call[c].op = "issue_key" => subject = "keys" /\ call[c].seen \in Seq(AssertionKey)
    /\ call[c].op \in {"issue_key", "rotate", "rotate_secret"} => call[c].delay \in Delays
    /\ call[c].op = "rotate" => subject = "credentials"
    /\ call[c].op = "rotate_secret" => subject = "secret" /\ call[c].seen \in WebhookSecret
    /\ call[c].op \in {"verify", "verify_activate", "activate", "retire"} => subject = "origins"
    /\ call[c].op \in {"rotate", "delete"} /\ subject = "credentials" =>
         call[c].id \in DOMAIN credentials /\ call[c].seen \in ApiCredential
    /\ call[c].op \in {"verify", "verify_activate", "activate", "retire", "delete"}
         /\ subject = "origins" =>
         call[c].id \in DOMAIN origins /\ call[c].seen \in VerifiedOrigin

CallsOpen == \A c \in Calls : call[c].op # "none" => Names(c)

\* A call that was not overtaken has loaded what is there now.
Snapshots ==
    \A c \in Calls : call[c].op # "none" /\ call[c].fresh
                     => call[c].seen = Loaded(call[c].id)

CallInv == TypeInv /\ CallsOpen /\ Snapshots

LEMMA ClosedCall == Closed \in Call /\ Closed.op = "none"
BY DEF Closed, Call, Ops, Seen

LEMMA DelayTypes == \A delay \in Delays \cup {0} : delay \in Nat
<1>1. Delays \subseteq Nat
  BY AdministrationAssumption
<1> QED
  BY <1>1

LEMMA Later ==
    ASSUME NEW delay \in Delays
    PROVE  MaxClock \in Nat /\ Never \in Nat /\ delay \in Nat /\ MaxClock + delay < Never
BY AdministrationAssumption, Zenon

LEMMA OneRow == ASSUME NEW S, NEW x \in S PROVE <<x>> \in Seq(S) /\ 1 \in DOMAIN <<x>>
OBVIOUS

LEMMA NoRow == ASSUME NEW S PROVE <<>> \in Seq(S)
OBVIOUS

LEMMA InitCalls == Init => CallInv
<1> SUFFICES ASSUME Init PROVE CallInv
  OBVIOUS
<1> USE AdministrationAssumption
<1> DEFINE key == [from |-> 0, revoked |-> FALSE]
           credential == [expires |-> Never, revoked |-> FALSE, gone |-> FALSE]
           origin == [status |-> "pending", active |-> FALSE, gone |-> FALSE, last |-> "none"]
<1>a. key \in AssertionKey /\ credential \in ApiCredential /\ origin \in VerifiedOrigin
  BY DEF AssertionKey, ApiCredential, VerifiedOrigin, OriginStatus
<1>b. secret \in WebhookSecret
  BY DEF Init, WebhookSecret
<1>c. assertionKeys = (IF subject = "keys" THEN <<key>> ELSE <<>>)
      /\ credentials = (IF subject = "credentials" THEN <<credential>> ELSE <<>>)
      /\ origins = (IF subject = "origins" THEN [i \in 1..2 |-> origin] ELSE <<>>)
  BY DEF Init
<1> HIDE DEF key, credential, origin
<1>d. assertionKeys \in Seq(AssertionKey)
  BY <1>a, <1>c, OneRow, NoRow
<1>e. credentials \in Seq(ApiCredential) /\ (subject = "credentials" => 1 \in DOMAIN credentials)
  BY <1>a, <1>c, OneRow, NoRow
<1>f. origins \in Seq(VerifiedOrigin)
  <2>1. [i \in 1..2 |-> origin] \in [1..2 -> VerifiedOrigin]
    BY <1>a
  <2>2. [i \in 1..2 |-> origin] \in Seq(VerifiedOrigin)
    BY <2>1, SeqDef
  <2> QED
    BY <1>c, <2>2, NoRow
<1>1. TypeOK
  BY <1>b, <1>d, <1>e, <1>f DEF Init, TypeOK
<1>2. call \in [Calls -> Call] /\ \A c \in Calls : call[c].op = "none"
  BY ClosedCall DEF Init
<1> QED
  BY <1>1, <1>2, <1>e DEF CallInv, TypeInv, CallsOpen, Snapshots

-----------------------------------------------------------------------------
(* Steps that write no row. *)

\* One call changes; the rows and the clock do not.
LEMMA OneCall ==
    ASSUME CallInv, NEW c \in Calls, NEW x \in Call, call' = [call EXCEPT ![c] = x],
           UNCHANGED <<backend, subject, rows, now>>,
           x.op # "none" => Names(c)',
           x.op # "none" /\ x.fresh => x.seen = Loaded(x.id)
    PROVE  CallInv'
<1>1. UNCHANGED <<backend, subject, assertionKeys, credentials, secret, origins, now>>
  BY DEF rows
<1>2. call'[c] = x /\ call' \in [Calls -> Call] /\ \A d \in Calls \ {c} : call'[d] = call[d]
  BY DEF CallInv, TypeInv
<1>3. TypeInv'
  BY <1>1, <1>2 DEF CallInv, TypeInv, TypeOK
<1>4. CallsOpen'
  <2> SUFFICES ASSUME NEW d \in Calls, call'[d].op # "none" PROVE Names(d)'
    BY DEF CallsOpen
  <2>1. CASE d = c
    BY <1>2, <2>1
  <2>2. CASE d # c
    BY <1>1, <1>2, <2>2 DEF CallInv, CallsOpen, Names
  <2> QED
    BY <2>1, <2>2
<1>5. Snapshots'
  BY <1>1, <1>2 DEF CallInv, Snapshots, Loaded
<1> QED
  BY <1>3, <1>4, <1>5 DEF CallInv

LEMMA FailsStep == ASSUME CallInv, NEW c \in Calls, Fails(c) PROVE CallInv'
BY ClosedCall, OneCall DEF Fails

LEMMA FetchStep == ASSUME CallInv, NEW c \in Calls, fetch_token(c) PROVE CallInv'
<1>1. PICK ok \in BOOLEAN : call' = [call EXCEPT ![c] = [@ EXCEPT !.probe = ok]]
  BY DEF fetch_token
<1> DEFINE x == [call[c] EXCEPT !.probe = ok]
<1>2. call[c] \in Call
  BY DEF CallInv, TypeInv
<1>3. x \in Call /\ x.op = call[c].op /\ x.id = call[c].id /\ x.at = call[c].at
      /\ x.delay = call[c].delay /\ x.seen = call[c].seen /\ x.fresh = call[c].fresh
  BY <1>2 DEF Call
<1>4. call' = [call EXCEPT ![c] = x] /\ UNCHANGED <<backend, subject, rows, now>>
      /\ call[c].op \in {"verify", "verify_activate"}
  BY <1>1 DEF fetch_token, CallInv, TypeInv
<1> HIDE DEF x
<1>5. call'[c] = x
  BY <1>4 DEF CallInv, TypeInv
<1>6. Names(c)'
  BY <1>3, <1>4, <1>5 DEF CallInv, CallsOpen, Names, rows
<1>7. x.fresh => x.seen = Loaded(x.id)
  BY <1>3, <1>4 DEF CallInv, Snapshots
<1> QED
  BY <1>3, <1>4, <1>6, <1>7, OneCall

LEMMA OpenStep ==
    ASSUME CallInv, NEW c \in Calls, NEW q \in Requests, Open(c, q[1], q[2], q[3])
    PROVE  CallInv'
<1> DEFINE x == [Closed EXCEPT !.op = q[1], !.id = q[2], !.delay = q[3], !.at = now,
                               !.seen = Loaded(q[2])]
<1>0. TypeOK /\ now \in Nat /\ (subject = "credentials" => 1 \in DOMAIN credentials)
  BY AdministrationAssumption DEF CallInv, TypeInv, TypeOK
<1>1. subject \in {"keys", "credentials", "secret", "origins"}
  BY <1>0, AdministrationAssumption DEF TypeOK
<1>2. /\ subject = "keys" => q[1] = "issue_key" /\ q[2] = 0 /\ q[3] \in Delays
                             /\ Loaded(q[2]) \in Seq(AssertionKey)
      /\ subject = "secret" => q[1] = "rotate_secret" /\ q[2] = 1 /\ q[3] \in Delays
                             /\ Loaded(q[2]) \in WebhookSecret
  BY <1>0 DEF Requests, Loaded, TypeOK
<1>3. subject = "credentials" =>
        /\ q[1] \in {"rotate", "delete"} /\ q[2] = 1 /\ q[3] \in Delays \cup {0}
        /\ q[1] = "rotate" => q[3] \in Delays
        /\ 1 \in DOMAIN credentials /\ Loaded(q[2]) \in ApiCredential
  BY <1>0 DEF Requests, Loaded, TypeOK
<1>4. subject = "origins" =>
        /\ q[1] \in {"verify", "verify_activate", "activate", "retire", "delete"}
        /\ q[2] \in DOMAIN origins
        /\ q[2] \in Nat /\ q[3] = 0 /\ Loaded(q[2]) \in VerifiedOrigin
  BY <1>0 DEF Requests, Loaded, TypeOK
<1>5. q[1] \in Ops /\ q[2] \in Nat /\ q[3] \in Nat /\ Loaded(q[2]) \in Seen
  <2>1. q[1] \in Ops
    BY <1>1, <1>2, <1>3, <1>4 DEF Ops
  <2>2. q[2] \in Nat /\ q[3] \in Delays \cup {0}
    BY <1>1, <1>2, <1>3, <1>4
  <2>a. q[3] \in Nat
    BY <2>2, DelayTypes
  <2>3. Loaded(q[2]) \in Seen
    BY <1>1, <1>2, <1>3, <1>4, Zenon DEF Seen
  <2> QED
    BY <2>1, <2>2, <2>a, <2>3
<1>6. /\ x \in Call /\ x.op = q[1] /\ x.id = q[2] /\ x.delay = q[3] /\ x.at = now
      /\ x.seen = Loaded(q[2])
  BY <1>0, <1>5, ClosedCall DEF Call, Closed
<1>7. call' = [call EXCEPT ![c] = x] /\ UNCHANGED <<backend, subject, rows, now>>
  BY DEF Open
<1> HIDE DEF x
<1>8. call'[c] = x
  BY <1>7 DEF CallInv, TypeInv
<1>9. Names(c)'
  BY <1>0, <1>1, <1>2, <1>3, <1>4, <1>6, <1>7, <1>8 DEF Names, rows
<1> QED
  BY <1>6, <1>7, <1>9, OneCall

-----------------------------------------------------------------------------
(* Which key signs. *)

LEMMA Least ==
    ASSUME NEW T \in SUBSET Nat, T # {}
    PROVE  \E x \in T : \A y \in T : x <= y
<1> DEFINE R == OpToRel(<, Nat)
<1>1. IsWellFoundedOn(R, Nat)
  BY NatLessThanWellFounded, Zenon
<1>2. \A x, y \in Nat : x < y => <<x, y>> \in R
  BY DEF OpToRel
<1> HIDE DEF R
<1>3. PICK x \in T : \A y \in T : ~(<<y, x>> \in R)
  BY <1>1, WFMin
<1>4. \A y \in T : ~(y < x)
  BY <1>2, <1>3
<1> QED
  BY <1>4

Signers(keys, t) == {i \in Live(keys) : keys[i].from <= t}

\* signing_key finds a key whenever one is live and active.
LEMMA SigningKey ==
    ASSUME NEW keys \in Seq(AssertionKey), NEW t
    PROVE  /\ Signers(keys, t) = {} => signing_key(keys, t) = 0
           /\ Signers(keys, t) # {} => signing_key(keys, t) \in Signers(keys, t)
           /\ signing_key(keys, t) # 0 <=> Signers(keys, t) # {}
<1> DEFINE ready == Signers(keys, t)
<1>0. /\ ready \subseteq 1..Len(keys) /\ Len(keys) \in Nat
      /\ \A i \in 1..Len(keys) : keys[i].from \in 0..Never
  <2>1. \A i \in 1..Len(keys) : keys[i] \in AssertionKey
    OBVIOUS
  <2> QED
    BY <2>1 DEF Signers, Live, AssertionKey
<1>1. CASE ready = {}
  BY <1>1 DEF signing_key, Signers
<1>2. CASE ready # {}
  <2> DEFINE Ages == {Never - keys[i].from : i \in ready}
  <2>1. Ages \in SUBSET Nat /\ Ages # {}
    BY <1>0, <1>2, AdministrationAssumption
  <2>2. PICK m \in Ages : \A y \in Ages : m <= y
    BY <2>1, Least
  <2> DEFINE Backwards == {Len(keys) - i : i \in {j \in ready : Never - keys[j].from = m}}
  <2>3. Backwards \in SUBSET Nat /\ Backwards # {}
    BY <1>0, <2>2
  <2>4. PICK b \in Backwards : \A y \in Backwards : b <= y
    BY <2>3, Least
  <2>5. PICK i \in ready : Never - keys[i].from = m /\ Len(keys) - i = b
    BY <2>4
  <2>6. ASSUME NEW j \in ready
        PROVE  keys[j].from < keys[i].from \/ (keys[j].from = keys[i].from /\ j <= i)
    <3>1. m <= Never - keys[j].from
      BY <2>2
    <3>2. Never - keys[j].from = m => b <= Len(keys) - j
      BY <2>4
    <3>3. /\ keys[i].from \in 0..Never /\ keys[j].from \in 0..Never /\ Never \in Nat
          /\ i \in Nat /\ j \in Nat /\ Len(keys) \in Nat
      BY <1>0, AdministrationAssumption
    <3> HIDE DEF Ages, Backwards
    <3> QED
      BY <2>5, <3>1, <3>2, <3>3
  <2>7. signing_key(keys, t) \in ready
    BY <1>2, <2>6 DEF signing_key, Signers
  <2> QED
    BY <1>0, <1>2, <2>7
<1> QED
  BY <1>1, <1>2

-----------------------------------------------------------------------------
(* Commits. *)

\* A commit leaves every other open call with a snapshot that is out of date.
LEMMA Outdated ==
    ASSUME CallInv, TypeOK', UNCHANGED <<backend, subject, now>>,
           DOMAIN credentials \subseteq DOMAIN credentials', DOMAIN origins \subseteq DOMAIN origins',
           DOMAIN call' = Calls, call' = [d \in Calls |-> call'[d]],
           \A d \in Calls : \/ call'[d] = Closed
                            \/ call'[d] = [call[d] EXCEPT !.fresh = (call[d].op = "none")]
    PROVE  CallInv'
<1>1. ASSUME NEW d \in Calls
      PROVE  /\ call'[d] \in Call
             /\ call'[d].op # "none" =>
                  /\ ~call'[d].fresh /\ call'[d].op = call[d].op /\ call'[d].id = call[d].id
                  /\ call'[d].at = call[d].at /\ call'[d].delay = call[d].delay
                  /\ call'[d].seen = call[d].seen
  <2>1. call[d] \in Call
    BY DEF CallInv, TypeInv
  <2>2. CASE call'[d] = Closed
    BY <2>2, ClosedCall
  <2>3. CASE call'[d] = [call[d] EXCEPT !.fresh = (call[d].op = "none")]
    <3>1. (call[d].op = "none") \in BOOLEAN
      OBVIOUS
    <3> QED
      BY <2>1, <2>3, <3>1 DEF Call
  <2> QED
    BY <2>2, <2>3
<1>2. call' \in [Calls -> Call]
  BY <1>1
<1>3. TypeInv'
  BY <1>2 DEF CallInv, TypeInv
<1>4. CallsOpen'
  BY <1>1 DEF CallInv, CallsOpen, Names
<1>5. Snapshots'
  BY <1>1 DEF Snapshots
<1> QED
  BY <1>3, <1>4, <1>5 DEF CallInv

LEMMA Closes ==
    ASSUME CallInv, TypeOK', UNCHANGED <<backend, subject, now>>, NEW c \in Calls, Close(c),
           DOMAIN credentials \subseteq DOMAIN credentials', DOMAIN origins \subseteq DOMAIN origins'
    PROVE  CallInv'
<1>1. /\ DOMAIN call' = Calls /\ call' = [d \in Calls |-> call'[d]]
      /\ \A d \in Calls : \/ call'[d] = Closed
                          \/ call'[d] = [call[d] EXCEPT !.fresh = (call[d].op = "none")]
  BY DEF Close
<1> QED
  BY <1>1, Outdated

\* What a call that commits knows.
LEMMA Committing ==
    ASSUME CallInv, NEW c \in Calls, NEW op \in Ops \ {"none"}, Ready(c, op)
    PROVE  /\ call[c].op = op /\ call[c] \in Call /\ Names(c)
           /\ call[c].fresh => call[c].seen = Loaded(call[c].id)
           /\ call[c].fresh \in BOOLEAN /\ (OnSqlite => call[c].fresh)
BY DEF Call, CallInv, TypeInv, CallsOpen, Snapshots, Ready, Succeeds, OnSqlite

\* Issuing: the key that signed at the time of the call is the only one kept.
LEMMA IssueFields ==
    ASSUME CallInv, NEW c \in Calls, issue_key(c)
    PROVE  LET n == Len(assertionKeys) + 1
               seen == call[c].seen
               at == call[c].at IN
           /\ TypeOK' /\ Close(c) /\ UNCHANGED <<backend, subject, credentials, secret, origins, now>>
           /\ n \in Nat \ {0} /\ DOMAIN assertionKeys = 1 .. (n - 1)
           /\ DOMAIN assertionKeys' = 1 .. n /\ Len(assertionKeys') = n
           /\ \A i \in 1 .. (n - 1) :
                /\ assertionKeys'[i].from = assertionKeys[i].from
                /\ assertionKeys'[i].revoked <=>
                     assertionKeys[i].revoked \/ (i \in DOMAIN seen /\ Replaced(seen, i, at))
           /\ at \in Nat /\ at <= now /\ seen \in Seq(AssertionKey)
           /\ OnSqlite => seen = assertionKeys
<1> DEFINE n == Len(assertionKeys) + 1
           seen == call[c].seen
           at == call[c].at
           after == [i \in DOMAIN assertionKeys |->
                       IF i \in DOMAIN seen /\ Replaced(seen, i, at)
                       THEN [assertionKeys[i] EXCEPT !.revoked = TRUE]
                       ELSE assertionKeys[i]]
           new == [from |-> at + call[c].delay, revoked |-> FALSE]
<1>1. /\ call[c].op = "issue_key" /\ call[c] \in Call /\ Names(c)
      /\ call[c].fresh => seen = Loaded(call[c].id)
      /\ OnSqlite => call[c].fresh
  BY Committing DEF issue_key, Ready, Ops
<1>2. subject = "keys" /\ seen \in Seq(AssertionKey) /\ at <= now /\ at \in Nat
      /\ call[c].delay \in Delays
  BY <1>1 DEF Names, Call
<1>3. OnSqlite => seen = assertionKeys
  BY <1>1, <1>2 DEF Loaded
<1>4. /\ assertionKeys \in Seq(AssertionKey) /\ n \in Nat \ {0}
      /\ DOMAIN assertionKeys = 1 .. (n - 1) /\ now \in 0..MaxClock
      /\ \A i \in 1 .. (n - 1) : assertionKeys[i] \in AssertionKey
  BY DEF CallInv, TypeInv, TypeOK
<1>5. new \in AssertionKey /\ ~new.revoked
  <2>1. at \in 0..MaxClock /\ call[c].delay \in Nat /\ MaxClock \in Nat /\ Never \in Nat
        /\ MaxClock + call[c].delay < Never
    BY <1>2, <1>4, Later
  <2>a. at + call[c].delay \in 0..Never
    BY <2>1
  <2> QED
    BY <2>a DEF AssertionKey
<1>6. /\ assertionKeys' = Append(after, new) /\ Close(c)
      /\ UNCHANGED <<backend, subject, credentials, secret, origins, now>>
  BY DEF issue_key
<1>7. ASSUME NEW i \in 1 .. (n - 1)
      PROVE  /\ after[i] \in AssertionKey /\ after[i].from = assertionKeys[i].from
             /\ after[i].revoked <=>
                  assertionKeys[i].revoked \/ (i \in DOMAIN seen /\ Replaced(seen, i, at))
  <2>1. assertionKeys[i] \in AssertionKey
    BY <1>4
  <2>2. CASE i \in DOMAIN seen /\ Replaced(seen, i, at)
    <3>1. after[i] = [assertionKeys[i] EXCEPT !.revoked = TRUE]
      BY <1>4, <2>2
    <3> QED
      BY <2>1, <2>2, <3>1 DEF AssertionKey
  <2>3. CASE ~(i \in DOMAIN seen /\ Replaced(seen, i, at))
    BY <1>4, <2>1, <2>3
  <2> QED
    BY <2>2, <2>3
<1>8. after \in Seq(AssertionKey) /\ Len(after) = n - 1 /\ DOMAIN after = 1 .. (n - 1)
  <2>1. DOMAIN after = 1 .. (n - 1)
    BY <1>4
  <2>2. after \in [1 .. (n - 1) -> AssertionKey]
    BY <1>4, <1>7, <2>1
  <2> HIDE DEF after
  <2>3. after \in Seq(AssertionKey)
    BY <1>4, <2>2, SeqDef
  <2> QED
    BY <1>4, <2>1, <2>3
<1> HIDE DEF after, new
<1>9. /\ assertionKeys' \in Seq(AssertionKey) /\ DOMAIN assertionKeys' = 1 .. n
      /\ Len(assertionKeys') = n
      /\ \A i \in 1 .. (n - 1) : assertionKeys'[i] = after[i]
  BY <1>4, <1>5, <1>6, <1>8
<1>10. TypeOK'
  BY <1>6, <1>9 DEF CallInv, TypeInv, TypeOK
<1> QED
  BY <1>2, <1>3, <1>4, <1>6, <1>7, <1>9, <1>10

-----------------------------------------------------------------------------
(* What a step does to each kind of row. *)

\* Live keys only become fewer, except by issue_key.
KeysKept == /\ DOMAIN assertionKeys' = DOMAIN assertionKeys
            /\ Live(assertionKeys') \subseteq Live(assertionKeys)
            /\ \A i \in DOMAIN assertionKeys : assertionKeys'[i].from = assertionKeys[i].from

\* A revocation or a deletion is final; an expiry is put off only by a rotation
\* that was overtaken.
CredentialsKept ==
    \A i \in DOMAIN credentials :
        /\ i \in DOMAIN credentials'
        /\ credentials[i].revoked => credentials'[i].revoked
        /\ credentials[i].gone => credentials'[i].gone
        /\ \/ credentials'[i].expires <= credentials[i].expires
           \/ \E c \in Calls : OvertakenRotation(c, i)

\* The previous secret is the one that the current secret replaced.
SecretsInOrder == secret.overtaken \/ secret.previous = secret.current - 1

\* A verified origin's latest proof succeeded, in service or not, or was overtaken.
Proven(origin) ==
    origin.status = "verified" => /\ origin.last \in {"passed", "overtaken"}
                                  /\ OnSqlite => origin.last = "passed"

OriginsProven == \A i \in DOMAIN origins : Proven(origins[i])

Others == /\ CredentialsKept
          /\ SecretsInOrder => SecretsInOrder'
          /\ OriginsProven => OriginsProven'
          /\ UNCHANGED backend /\ now <= now'

Kept == KeysKept /\ Others

\* A step that changes no row of a kind keeps that kind.
LEMMA Unchanged ==
    ASSUME CallInv
    PROVE  /\ UNCHANGED assertionKeys => KeysKept
           /\ UNCHANGED credentials => CredentialsKept
           /\ UNCHANGED secret => (SecretsInOrder => SecretsInOrder')
           /\ UNCHANGED <<backend, origins>> => (OriginsProven => OriginsProven')
<1>1. UNCHANGED assertionKeys => KeysKept
  BY DEF KeysKept
<1>2. UNCHANGED credentials => CredentialsKept
  <2>1. \A i \in DOMAIN credentials : credentials[i] \in ApiCredential
    BY DEF CallInv, TypeInv, TypeOK
  <2> QED
    BY <2>1, AdministrationAssumption DEF CredentialsKept, ApiCredential
<1>3. UNCHANGED secret => (SecretsInOrder => SecretsInOrder')
  BY DEF SecretsInOrder
<1>4. UNCHANGED <<backend, origins>> => (OriginsProven => OriginsProven')
  BY DEF OriginsProven, Proven, OnSqlite
<1> QED
  BY <1>1, <1>2, <1>3, <1>4

LEMMA Clock == CallInv /\ UNCHANGED now => now <= now'
BY AdministrationAssumption DEF CallInv, TypeInv, TypeOK

LEMMA RotateStep ==
    ASSUME CallInv, NEW c \in Calls, rotate_credential(c)
    PROVE  CallInv' /\ Kept
<1> DEFINE id == call[c].id
           old == call[c].seen
           cutoff == call[c].at + call[c].delay
           row == credentials[id]
           w == Written(old, row, cutoff)
           new == [expires |-> Never, revoked |-> FALSE, gone |-> FALSE]
           all == [credentials EXCEPT ![id] = w]
<1>1. /\ call[c].op = "rotate" /\ call[c] \in Call /\ Names(c)
      /\ call[c].fresh => old = Loaded(id)
      /\ OnSqlite => call[c].fresh
  BY Committing DEF rotate_credential, Ready, Ops
<1>2. /\ subject = "credentials" /\ old \in ApiCredential /\ id \in DOMAIN credentials
      /\ call[c].delay \in Delays /\ call[c].at \in Nat /\ call[c].at <= now
      /\ call[c].fresh => old = row
  BY <1>1 DEF Names, Call, Loaded
<1>3. credentials \in Seq(ApiCredential) /\ row \in ApiCredential /\ now \in 0..MaxClock
      /\ \A i \in DOMAIN credentials : credentials[i] \in ApiCredential
  BY <1>2 DEF CallInv, TypeInv, TypeOK
<1>4. cutoff \in 0..Never /\ Never \in Nat
  <2>1. MaxClock \in Nat /\ Never \in Nat /\ call[c].delay \in Nat /\ MaxClock + call[c].delay < Never
    BY <1>2, Later
  <2> QED
    BY <1>2, <1>3, <2>1
<1>5. /\ credentials' = Append(all, new) /\ Close(c)
      /\ UNCHANGED <<backend, subject, assertionKeys, secret, origins, now>>
  BY DEF rotate_credential
<1> HIDE DEF cutoff
<1>6. /\ w \in ApiCredential /\ w.revoked = row.revoked /\ w.gone = row.gone
      /\ w.expires <= row.expires \/ (~call[c].fresh /\ w.expires = cutoff)
  <2> DEFINE e == NewExpiry(old, cutoff)
  <2>1. /\ old.expires \in 0..Never /\ row.expires \in 0..Never /\ e \in 0..Never
        /\ e \in {cutoff, old.expires}
        /\ e <= old.expires
    BY <1>2, <1>3, <1>4 DEF NewExpiry, ApiCredential
  <2>2. CASE e = old.expires
    <3>1. w = row
      BY <2>2 DEF Written
    <3> QED
      BY <1>3, <1>4, <2>1, <3>1
  <2>3. CASE e # old.expires
    <3>1. w = [row EXCEPT !.expires = e]
      BY <2>3 DEF Written
    <3> HIDE DEF e, w
    <3>2. w \in ApiCredential /\ w.revoked = row.revoked /\ w.gone = row.gone /\ w.expires = e
      BY <1>3, <2>1, <3>1 DEF ApiCredential
    <3>3. CASE call[c].fresh
      BY <1>2, <2>1, <3>2, <3>3
    <3>4. CASE ~call[c].fresh
      BY <2>1, <2>3, <3>2, <3>4
    <3> QED
      BY <3>3, <3>4
  <2> QED
    BY <2>2, <2>3
<1>7. new \in ApiCredential
  BY <1>4 DEF ApiCredential
<1> HIDE DEF w, new
<1>8. /\ all \in Seq(ApiCredential) /\ DOMAIN all = DOMAIN credentials
      /\ \A i \in DOMAIN credentials : all[i] = IF i = id THEN w ELSE credentials[i]
  BY <1>2, <1>3, <1>6
<1> HIDE DEF all
<1>9. /\ credentials' \in Seq(ApiCredential) /\ DOMAIN credentials \subseteq DOMAIN credentials'
      /\ \A i \in DOMAIN credentials : credentials'[i] = all[i]
  BY <1>3, <1>5, <1>7, <1>8
<1>10. TypeOK'
  BY <1>5, <1>9 DEF CallInv, TypeInv, TypeOK
<1>11. CallInv'
  BY <1>5, <1>9, <1>10, Closes
<1>12. CredentialsKept
  <2> SUFFICES ASSUME NEW i \in DOMAIN credentials
               PROVE  /\ i \in DOMAIN credentials'
                      /\ credentials[i].revoked => credentials'[i].revoked
                      /\ credentials[i].gone => credentials'[i].gone
                      /\ \/ credentials'[i].expires <= credentials[i].expires
                         \/ \E d \in Calls : OvertakenRotation(d, i)
    BY DEF CredentialsKept
  <2>1. credentials[i].expires \in Nat
    BY <1>3, <1>4 DEF ApiCredential
  <2>2. CASE i # id
    BY <1>8, <1>9, <2>1, <2>2
  <2>3. CASE i = id
    <3>1. credentials'[i] = w /\ i \in DOMAIN credentials'
      BY <1>8, <1>9, <2>3
    <3>2. call'[c].op = "none"
      BY <1>5, ClosedCall DEF Close
    <3>3. ~call[c].fresh /\ w.expires = cutoff => OvertakenRotation(c, i)
      BY <1>1, <2>3, <3>1, <3>2 DEF OvertakenRotation, cutoff
    <3> QED
      BY <1>6, <2>3, <3>1, <3>3
  <2> QED
    BY <2>2, <2>3
<1> QED
  BY <1>5, <1>11, <1>12, Unchanged, Clock DEF Kept, Others

LEMMA DeleteStep ==
    ASSUME CallInv, NEW c \in Calls, delete_credential(c)
    PROVE  CallInv' /\ Kept
<1> DEFINE id == call[c].id
           w == [credentials[id] EXCEPT !.gone = TRUE]
<1>1. call[c].op = "delete" /\ Names(c)
  BY Committing DEF delete_credential, Ready, Ops
<1>2. id \in DOMAIN credentials
  BY <1>1 DEF Names, delete_credential
<1>3. credentials \in Seq(ApiCredential) /\ credentials[id] \in ApiCredential
      /\ \A i \in DOMAIN credentials : credentials[i] \in ApiCredential
  BY <1>2 DEF CallInv, TypeInv, TypeOK
<1>4. /\ w \in ApiCredential /\ w.revoked = credentials[id].revoked /\ w.gone
      /\ w.expires = credentials[id].expires
  BY <1>3 DEF ApiCredential
<1>5. /\ credentials' = [credentials EXCEPT ![id] = w] /\ Close(c)
      /\ UNCHANGED <<backend, subject, assertionKeys, secret, origins, now>>
  BY <1>2 DEF delete_credential
<1> HIDE DEF w
<1>6. /\ credentials' \in Seq(ApiCredential) /\ DOMAIN credentials' = DOMAIN credentials
      /\ \A i \in DOMAIN credentials : credentials'[i] = IF i = id THEN w ELSE credentials[i]
  BY <1>2, <1>3, <1>4, <1>5
<1>7. TypeOK'
  BY <1>5, <1>6 DEF CallInv, TypeInv, TypeOK
<1>8. CallInv'
  BY <1>5, <1>6, <1>7, Closes
<1>9. CredentialsKept
  <2>1. \A i \in DOMAIN credentials : credentials[i].expires \in Nat
    BY <1>3, AdministrationAssumption DEF ApiCredential
  <2> QED
    BY <1>4, <1>6, <2>1 DEF CredentialsKept
<1> QED
  BY <1>5, <1>8, <1>9, Unchanged, Clock DEF Kept, Others

LEMMA SecretStep ==
    ASSUME CallInv, NEW c \in Calls, rotate_secret(c)
    PROVE  CallInv' /\ Kept
<1> DEFINE until == call[c].at + call[c].delay
<1>1. /\ call[c].op = "rotate_secret" /\ call[c] \in Call /\ Names(c)
      /\ call[c].fresh => call[c].seen = Loaded(call[c].id)
      /\ call[c].fresh \in BOOLEAN
  BY Committing DEF rotate_secret, Ready, Ops
<1>2. /\ subject = "secret" /\ call[c].seen \in WebhookSecret
      /\ call[c].delay \in Delays /\ call[c].at \in Nat /\ call[c].at <= now
      /\ call[c].fresh => call[c].seen = secret
  BY <1>1 DEF Names, Call, Loaded
<1>3. secret \in WebhookSecret /\ now \in 0..MaxClock
  BY DEF CallInv, TypeInv, TypeOK
<1>4. until \in 0..Never
  <2>1. MaxClock \in Nat /\ Never \in Nat /\ call[c].delay \in Nat /\ MaxClock + call[c].delay < Never
    BY <1>2, Later
  <2> QED
    BY <1>2, <1>3, <2>1
<1>5. /\ secret' = [current |-> secret.current + 1, previous |-> call[c].seen.current, until |-> until,
                     overtaken |-> ~call[c].fresh]
      /\ Close(c) /\ UNCHANGED <<backend, subject, assertionKeys, credentials, origins, now>>
  BY DEF rotate_secret, KeptSecret
<1> HIDE DEF until
<1>6. secret' \in WebhookSecret
  BY <1>1, <1>2, <1>3, <1>4, <1>5 DEF WebhookSecret
<1>7. TypeOK'
  BY <1>5, <1>6 DEF CallInv, TypeInv, TypeOK
<1>8. CallInv'
  BY <1>5, <1>7, Closes
<1>9. SecretsInOrder'
  <2>1. CASE call[c].fresh
    <3>1. secret'.previous = secret.current /\ secret'.current = secret.current + 1
          /\ secret.current \in Nat
      BY <1>2, <1>3, <1>5, <2>1 DEF WebhookSecret
    <3> QED
      BY <3>1 DEF SecretsInOrder
  <2>2. CASE ~call[c].fresh
    <3>1. secret'.overtaken = TRUE
      BY <1>1, <1>5, <2>2
    <3> QED
      BY <3>1 DEF SecretsInOrder
  <2> QED
    BY <2>1, <2>2
<1> QED
  BY <1>5, <1>8, <1>9, Unchanged, Clock DEF Kept, Others

LEMMA PutFields ==
    ASSUME NEW seen \in VerifiedOrigin, NEW row \in VerifiedOrigin, NEW want \in VerifiedOrigin
    PROVE  /\ Put(seen, row, want) \in VerifiedOrigin
           /\ Put(seen, row, want).last = row.last
           /\ Put(seen, row, want).status \in {row.status, want.status}
           /\ seen.status = want.status => Put(seen, row, want).status = row.status
           /\ seen = row => Put(seen, row, want).status = want.status
BY DEF Put, VerifiedOrigin

\* A call about an origin that has written its rows: the one it names, and the
\* others when that one is activated.
LEMMA OriginStep ==
    ASSUME CallInv, NEW c \in Calls, NEW id \in DOMAIN origins, NEW x \in VerifiedOrigin,
           NEW activated \in BOOLEAN, WriteOrigin(c, Rows(id, x, activated)),
           Proven(origins[id]) => Proven(x)
    PROVE  CallInv' /\ Kept
<1> DEFINE all == Rows(id, x, activated)
<1>0. origins \in Seq(VerifiedOrigin) /\ \A i \in DOMAIN origins : origins[i] \in VerifiedOrigin
  BY DEF CallInv, TypeInv, TypeOK
<1>1. /\ origins' = all /\ Close(c)
      /\ UNCHANGED <<backend, subject, assertionKeys, credentials, secret, now>>
  BY DEF WriteOrigin
<1>2. ASSUME NEW i \in DOMAIN origins
      PROVE  all[i] \in VerifiedOrigin /\ (Proven(origins[i]) => Proven(all[i]))
  <2>1. CASE i = id
    BY <2>1 DEF Rows
  <2>2. CASE i # id /\ activated
    <3>1. all[i] = [origins[i] EXCEPT !.active = FALSE] /\ origins[i] \in VerifiedOrigin
      BY <1>0, <2>2 DEF Rows
    <3>2. all[i] \in VerifiedOrigin /\ all[i].status = origins[i].status
          /\ all[i].last = origins[i].last
      BY <3>1 DEF VerifiedOrigin
    <3> HIDE DEF all
    <3> QED
      BY <3>2 DEF Proven
  <2>3. CASE i # id /\ ~activated
    BY <1>0, <2>3 DEF Rows
  <2> QED
    BY <2>1, <2>2, <2>3
<1>3. all \in Seq(VerifiedOrigin) /\ DOMAIN all = DOMAIN origins
  <2>1. DOMAIN all = DOMAIN origins /\ DOMAIN origins = 1..Len(origins) /\ Len(origins) \in Nat
    BY <1>0 DEF Rows
  <2>2. all \in [1..Len(origins) -> VerifiedOrigin]
    BY <1>2, <2>1 DEF Rows
  <2> HIDE DEF all
  <2> QED
    BY <2>1, <2>2, SeqDef
<1> HIDE DEF all
<1>4. TypeOK'
  BY <1>1, <1>3 DEF CallInv, TypeInv, TypeOK
<1>5. CallInv'
  BY <1>1, <1>3, <1>4, Closes
<1>6. OriginsProven => OriginsProven'
  BY <1>1, <1>2, <1>3 DEF OriginsProven, Proven, OnSqlite
<1> QED
  BY <1>1, <1>5, <1>6, Unchanged, Clock DEF Kept, Others

\* What a call about an origin knows when it commits.
LEMMA AboutOrigin ==
    ASSUME CallInv, NEW c \in Calls,
           NEW op \in {"verify", "verify_activate", "activate", "retire", "delete"},
           Ready(c, op), op = "delete" => subject = "origins"
    PROVE  /\ call[c].id \in DOMAIN origins /\ call[c].seen \in VerifiedOrigin
           /\ call[c] \in Call
           /\ origins \in Seq(VerifiedOrigin)
           /\ \A i \in DOMAIN origins : origins[i] \in VerifiedOrigin
           /\ call[c].fresh => call[c].seen = origins[call[c].id]
           /\ call[c].fresh \in BOOLEAN /\ (OnSqlite => call[c].fresh)
<1>1. /\ call[c].op = op /\ call[c] \in Call /\ Names(c)
      /\ call[c].fresh => call[c].seen = Loaded(call[c].id)
      /\ call[c].fresh \in BOOLEAN /\ (OnSqlite => call[c].fresh)
  BY Committing DEF Ops
<1>2. subject = "origins" /\ call[c].id \in DOMAIN origins /\ call[c].seen \in VerifiedOrigin
  BY <1>1 DEF Names
<1>3. origins \in Seq(VerifiedOrigin) /\ \A i \in DOMAIN origins : origins[i] \in VerifiedOrigin
  BY DEF CallInv, TypeInv, TypeOK
<1> QED
  BY <1>1, <1>2, <1>3 DEF Loaded

\* One row of the origins is replaced by another.
LEMMA OneOrigin ==
    ASSUME CallInv, NEW c \in Calls, NEW id \in DOMAIN origins, NEW x \in VerifiedOrigin,
           WriteOrigin(c, [origins EXCEPT ![id] = x]), Proven(origins[id]) => Proven(x)
    PROVE  CallInv' /\ Kept
<1>1. origins \in Seq(VerifiedOrigin)
  BY DEF CallInv, TypeInv, TypeOK
<1>2. [origins EXCEPT ![id] = x] = Rows(id, x, FALSE)
  BY <1>1 DEF Rows
<1> QED
  BY <1>2, OriginStep

LEMMA VerifyStep ==
    ASSUME CallInv, NEW c \in Calls, record_origin_verification(c)
    PROVE  CallInv' /\ Kept
<1> DEFINE id == call[c].id
           seen == call[c].seen
           ok == call[c].probe
           activated == ok /\ call[c].op = "verify_activate"
           want == IF ok THEN [seen EXCEPT !.status = "verified", !.active = @ \/ activated]
                   ELSE AfterFailure(seen)
           last == IF ok THEN "passed" ELSE IF call[c].fresh THEN "failed" ELSE "overtaken"
           put == Put(seen, origins[id], want)
           x == [put EXCEPT !.last = last]
<1>1. /\ id \in DOMAIN origins /\ seen \in VerifiedOrigin /\ origins[id] \in VerifiedOrigin
      /\ call[c].fresh => seen = origins[id]
      /\ call[c].fresh \in BOOLEAN /\ (OnSqlite => call[c].fresh)
  BY AboutOrigin DEF record_origin_verification
<1>2. ok \in BOOLEAN
  <2>1. call[c] \in Call
    BY DEF CallInv, TypeInv
  <2>2. ok \in BOOLEAN \cup {None} /\ ok # None
    BY <2>1 DEF record_origin_verification, Call
  <2> QED
    BY <2>2
<1>3. activated \in BOOLEAN
  BY <1>2
<1>4. WriteOrigin(c, Rows(id, x, activated))
  BY DEF record_origin_verification
<1> HIDE DEF activated
<1>5. want \in VerifiedOrigin /\ (~ok => want.status = "failed")
  <2>1. CASE ok
    BY <1>1, <1>3, <2>1 DEF VerifiedOrigin, OriginStatus
  <2>2. CASE ~ok
    <3>1. want = AfterFailure(seen)
      BY <2>2
    <3> QED
      BY <1>1, <3>1 DEF VerifiedOrigin, OriginStatus, AfterFailure
  <2> QED
    BY <1>2, <2>1, <2>2
<1> HIDE DEF want
<1>6. put \in VerifiedOrigin /\ (call[c].fresh => put.status = want.status)
  BY <1>1, <1>5, PutFields
<1> HIDE DEF put
<1>7. last \in {"passed", "failed", "overtaken"} /\ (ok => last = "passed")
      /\ (~ok /\ call[c].fresh => last = "failed") /\ (~ok /\ ~call[c].fresh => last = "overtaken")
  OBVIOUS
<1> HIDE DEF last
<1>8. x \in VerifiedOrigin /\ x.status = put.status /\ x.last = last
  BY <1>6, <1>7 DEF VerifiedOrigin
<1> HIDE DEF x
<1>9. Proven(x)
  BY <1>1, <1>2, <1>5, <1>6, <1>7, <1>8 DEF Proven
<1> QED
  BY <1>1, <1>3, <1>4, <1>8, <1>9, OriginStep

LEMMA RetireStep ==
    ASSUME CallInv, NEW c \in Calls, retire_origin(c)
    PROVE  CallInv' /\ Kept
<1> DEFINE id == call[c].id
           seen == call[c].seen
           want == [seen EXCEPT !.status = "retired", !.active = FALSE]
           x == Put(seen, origins[id], want)
<1>1. id \in DOMAIN origins /\ seen \in VerifiedOrigin /\ origins[id] \in VerifiedOrigin
  BY AboutOrigin DEF retire_origin
<1>2. want \in VerifiedOrigin /\ want.status = "retired"
  BY <1>1 DEF VerifiedOrigin, OriginStatus
<1>3. WriteOrigin(c, [origins EXCEPT ![id] = x])
  BY <1>1 DEF retire_origin
<1> HIDE DEF want
<1>4. x \in VerifiedOrigin /\ x.status \in {origins[id].status, "retired"}
      /\ x.last = origins[id].last
  BY <1>1, <1>2, PutFields
<1> HIDE DEF x
<1>5. Proven(origins[id]) => Proven(x)
  BY <1>4 DEF Proven
<1> QED
  BY <1>1, <1>3, <1>4, <1>5, OneOrigin

LEMMA RemoveStep ==
    ASSUME CallInv, NEW c \in Calls, delete_origin(c)
    PROVE  CallInv' /\ Kept
<1> DEFINE id == call[c].id
           x == [origins[id] EXCEPT !.gone = TRUE]
<1>1. id \in DOMAIN origins /\ origins[id] \in VerifiedOrigin
  BY AboutOrigin DEF delete_origin
<1>2. WriteOrigin(c, [origins EXCEPT ![id] = x])
  BY <1>1 DEF delete_origin
<1>3. x \in VerifiedOrigin /\ x.status = origins[id].status /\ x.last = origins[id].last
  BY <1>1 DEF VerifiedOrigin
<1> HIDE DEF x
<1>4. Proven(origins[id]) => Proven(x)
  BY <1>3 DEF Proven
<1> QED
  BY <1>1, <1>2, <1>3, <1>4, OneOrigin

LEMMA ActivateStep ==
    ASSUME CallInv, NEW c \in Calls, activate_origin(c)
    PROVE  CallInv' /\ Kept
<1> DEFINE id == call[c].id
           seen == call[c].seen
           want == [seen EXCEPT !.active = TRUE]
           x == Put(seen, origins[id], want)
<1>1. id \in DOMAIN origins /\ seen \in VerifiedOrigin /\ origins[id] \in VerifiedOrigin
  BY AboutOrigin DEF activate_origin
<1>2. want \in VerifiedOrigin /\ want.status = seen.status
  BY <1>1 DEF VerifiedOrigin
<1>3. WriteOrigin(c, Rows(id, x, TRUE))
  BY DEF activate_origin
<1> HIDE DEF want
<1>4. x \in VerifiedOrigin /\ x.last = origins[id].last /\ x.status = origins[id].status
  BY <1>1, <1>2, PutFields
<1> HIDE DEF x
<1>5. Proven(origins[id]) => Proven(x)
  BY <1>4 DEF Proven
<1> QED
  BY <1>1, <1>3, <1>4, <1>5, OriginStep

LEMMA RevokeStep == ASSUME CallInv, Revoke PROVE CallInv' /\ Kept
<1>1. /\ UNCHANGED <<backend, subject, secret, origins, now>>
      /\ DOMAIN call' = Calls /\ call' = [d \in Calls |-> call'[d]]
      /\ \A d \in Calls : call'[d] = [call[d] EXCEPT !.fresh = (call[d].op = "none")]
  BY DEF Revoke
<1>2. ASSUME NEW i \in Live(assertionKeys),
             assertionKeys' = [assertionKeys EXCEPT ![i].revoked = TRUE], UNCHANGED credentials
      PROVE  CallInv' /\ Kept
  <2> DEFINE w == [assertionKeys[i] EXCEPT !.revoked = TRUE]
  <2>1. assertionKeys \in Seq(AssertionKey) /\ i \in DOMAIN assertionKeys
        /\ assertionKeys[i] \in AssertionKey
    BY DEF CallInv, TypeInv, TypeOK, Live
  <2>2. w \in AssertionKey /\ w.revoked /\ w.from = assertionKeys[i].from
    BY <2>1 DEF AssertionKey
  <2>3. assertionKeys' = [assertionKeys EXCEPT ![i] = w]
    BY <1>2, <2>1
  <2> HIDE DEF w
  <2>4. /\ assertionKeys' \in Seq(AssertionKey) /\ DOMAIN assertionKeys' = DOMAIN assertionKeys
        /\ \A j \in DOMAIN assertionKeys : assertionKeys'[j] = IF j = i THEN w ELSE assertionKeys[j]
    BY <2>1, <2>2, <2>3
  <2>5. TypeOK'
    BY <1>1, <1>2, <2>4 DEF CallInv, TypeInv, TypeOK
  <2>6. CallInv'
    BY <1>1, <1>2, <2>5, Outdated
  <2>7. KeysKept
    BY <2>2, <2>4 DEF KeysKept, Live
  <2> QED
    BY <1>1, <1>2, <2>6, <2>7, Unchanged, Clock DEF Kept, Others
<1>3. ASSUME NEW i \in DOMAIN credentials,
             credentials' = [credentials EXCEPT ![i].revoked = TRUE], UNCHANGED assertionKeys
      PROVE  CallInv' /\ Kept
  <2> DEFINE w == [credentials[i] EXCEPT !.revoked = TRUE]
  <2>1. credentials \in Seq(ApiCredential)
        /\ \A j \in DOMAIN credentials : credentials[j] \in ApiCredential
    BY DEF CallInv, TypeInv, TypeOK
  <2>2. w \in ApiCredential /\ w.revoked /\ w.gone = credentials[i].gone
        /\ w.expires = credentials[i].expires
    BY <2>1 DEF ApiCredential
  <2>3. credentials' = [credentials EXCEPT ![i] = w]
    BY <1>3, <2>1
  <2> HIDE DEF w
  <2>4. /\ credentials' \in Seq(ApiCredential) /\ DOMAIN credentials' = DOMAIN credentials
        /\ \A j \in DOMAIN credentials : credentials'[j] = IF j = i THEN w ELSE credentials[j]
    BY <2>1, <2>2, <2>3
  <2>5. TypeOK'
    BY <1>1, <1>3, <2>4 DEF CallInv, TypeInv, TypeOK
  <2>6. CallInv'
    BY <1>1, <2>4, <2>5, Outdated
  <2>7. CredentialsKept
    <3>1. \A j \in DOMAIN credentials : credentials[j].expires \in Nat
      BY <2>1, AdministrationAssumption DEF ApiCredential
    <3> QED
      BY <2>2, <2>4, <3>1 DEF CredentialsKept
  <2> QED
    BY <1>1, <1>3, <2>6, <2>7, Unchanged, Clock DEF Kept, Others
<1> QED
  BY <1>2, <1>3 DEF Revoke

LEMMA TickStep == ASSUME CallInv, Tick PROVE CallInv' /\ Kept
<1>1. /\ UNCHANGED <<backend, subject, assertionKeys, credentials, secret, origins, call>>
      /\ now' \in 0..MaxClock /\ now <= now' /\ now \in Nat
  BY AdministrationAssumption DEF Tick, rows, CallInv, TypeInv, TypeOK
<1>2. TypeInv'
  BY <1>1 DEF CallInv, TypeInv, TypeOK
<1>3. CallsOpen'
  <2> SUFFICES ASSUME NEW c \in Calls, call[c].op # "none" PROVE Names(c)'
    BY <1>1 DEF CallsOpen
  <2>1. call[c].at \in Nat /\ Names(c)
    BY DEF CallInv, CallsOpen, TypeInv, Call
  <2>2. call'[c].at <= now'
    <3>1. call[c].at <= now /\ now' \in Nat
      BY <1>1, <2>1, AdministrationAssumption DEF Names
    <3> QED
      BY <1>1, <2>1, <3>1
  <2> QED
    BY <1>1, <2>1, <2>2 DEF Names
<1>4. Snapshots'
  BY <1>1 DEF CallInv, Snapshots, Loaded
<1> QED
  BY <1>1, <1>2, <1>3, <1>4, Unchanged DEF CallInv, Kept, Others

LEMMA IdleStep ==
    ASSUME CallInv, UNCHANGED <<backend, rows, now>> PROVE Kept
<1>1. UNCHANGED <<backend, assertionKeys, credentials, secret, origins, now>>
  BY DEF rows
<1> QED
  BY <1>1, Unchanged, Clock DEF Kept, Others

LEMMA IssueStep == ASSUME CallInv, NEW c \in Calls, issue_key(c) PROVE CallInv' /\ Others
<1>1. TypeOK' /\ Close(c) /\ UNCHANGED <<backend, subject, credentials, secret, origins, now>>
  BY IssueFields
<1>2. CallInv'
  BY <1>1, Closes
<1> QED
  BY <1>1, <1>2, Unchanged, Clock DEF Others

\* Every step keeps what calls know; only issue_key adds a live key.
LEMMA CallStep ==
    ASSUME CallInv, [Next]_vars
    PROVE  CallInv' /\ Others /\ (KeysKept \/ \E c \in Calls : issue_key(c))
<1>1. CASE UNCHANGED vars
  <2>1. UNCHANGED <<backend, subject, assertionKeys, credentials, secret, origins, call, now>>
    BY <1>1 DEF vars, rows
  <2>2. CallInv'
    BY <2>1 DEF CallInv, TypeInv, TypeOK, CallsOpen, Names, Snapshots, Loaded
  <2> QED
    BY <2>1, <2>2, IdleStep DEF Kept, rows
<1>2. ASSUME NEW c \in Calls, NEW q \in Requests, Open(c, q[1], q[2], q[3])
      PROVE  CallInv' /\ Kept
  BY <1>2, OpenStep, IdleStep DEF Open
<1>3. ASSUME NEW c \in Calls, fetch_token(c) PROVE CallInv' /\ Kept
  BY <1>3, FetchStep, IdleStep DEF fetch_token
<1>4. ASSUME NEW c \in Calls, Fails(c) PROVE CallInv' /\ Kept
  BY <1>4, FailsStep, IdleStep DEF Fails
<1>5. ASSUME NEW c \in Calls, Commit(c)
      PROVE  CallInv' /\ Others /\ (KeysKept \/ \E d \in Calls : issue_key(d))
  BY <1>5, IssueStep, RotateStep, DeleteStep, SecretStep, VerifyStep, ActivateStep, RetireStep,
     RemoveStep DEF Commit, Kept
<1> QED
  BY <1>1, <1>2, <1>3, <1>4, <1>5, RevokeStep, TickStep DEF Next, Kept

-----------------------------------------------------------------------------
(* What is trusted is in force. *)

LEMMA LiveIsFinite ==
    ASSUME NEW keys \in Seq(AssertionKey)
    PROVE  IsFiniteSet(Live(keys)) /\ Cardinality(Live(keys)) \in Nat
<1>1. Live(keys) \subseteq 1..Len(keys) /\ Len(keys) \in Nat
  BY DEF Live
<1>2. IsFiniteSet(1..Len(keys))
  BY <1>1, FS_Interval
<1>3. IsFiniteSet(Live(keys))
  BY <1>1, <1>2, FS_Subset
<1> QED
  BY <1>3, FS_CardinalityType

LEMMA Pair == ASSUME NEW a, NEW b, NEW S \in SUBSET {a, b} PROVE Cardinality(S) <= 2
<1>1. IsFiniteSet({a}) /\ Cardinality({a}) = 1
  BY FS_Singleton
<1>2. {a, b} = {a} \cup {b}
  OBVIOUS
<1>3. IsFiniteSet({a, b}) /\ Cardinality({a, b}) <= 2 /\ Cardinality({a, b}) \in Nat
  <2>1. IsFiniteSet({a} \cup {b})
        /\ Cardinality({a} \cup {b}) = (IF b \in {a} THEN Cardinality({a}) ELSE Cardinality({a}) + 1)
    BY <1>1, FS_AddElement
  <2> QED
    BY <1>1, <1>2, <2>1
<1>4. Cardinality(S) <= Cardinality({a, b}) /\ Cardinality(S) \in Nat
  BY <1>3, FS_Subset, FS_CardinalityType
<1> QED
  BY <1>3, <1>4

\* On SQLite the keys left by a call are the one that signed and the new one.
AtMostTwoLive == OnSqlite => Cardinality(Live(assertionKeys)) <= 2

LEMMA TwoLive ==
    ASSUME CallInv, AtMostTwoLive, CallInv', UNCHANGED backend,
           KeysKept \/ \E c \in Calls : issue_key(c)
    PROVE  AtMostTwoLive'
<1>0. assertionKeys \in Seq(AssertionKey) /\ assertionKeys' \in Seq(AssertionKey)
  BY DEF CallInv, TypeInv, TypeOK
<1>1. CASE KeysKept
  <2>1. Live(assertionKeys') \subseteq Live(assertionKeys)
    BY <1>1 DEF KeysKept
  <2>2. Cardinality(Live(assertionKeys')) <= Cardinality(Live(assertionKeys))
    BY <1>0, <2>1, LiveIsFinite, FS_Subset
  <2> QED
    BY <1>0, <2>2, LiveIsFinite DEF AtMostTwoLive, OnSqlite
<1>2. ASSUME NEW c \in Calls, issue_key(c) PROVE AtMostTwoLive'
  <2> DEFINE n == Len(assertionKeys) + 1
             s == signing_key(assertionKeys, call[c].at)
  <2> SUFFICES ASSUME OnSqlite PROVE Cardinality(Live(assertionKeys')) <= 2
    BY DEF AtMostTwoLive, OnSqlite
  <2>1. /\ n \in Nat \ {0} /\ DOMAIN assertionKeys = 1 .. (n - 1) /\ DOMAIN assertionKeys' = 1 .. n
        /\ call[c].seen = assertionKeys
        /\ \A i \in 1 .. (n - 1) :
             assertionKeys'[i].revoked <=>
               assertionKeys[i].revoked
               \/ (i \in DOMAIN assertionKeys /\ Replaced(assertionKeys, i, call[c].at))
    BY <1>2, IssueFields
  <2>2. ASSUME NEW i \in Live(assertionKeys'), i # n PROVE i = s
    <3>1. i \in 1 .. (n - 1) /\ ~assertionKeys'[i].revoked
      BY <2>1, <2>2 DEF Live
    <3>2. ~assertionKeys[i].revoked /\ ~Replaced(assertionKeys, i, call[c].at)
      BY <2>1, <3>1
    <3> QED
      BY <3>2 DEF Replaced
  <2>3. Live(assertionKeys') \in SUBSET {s, n}
    BY <2>2
  <2> QED
    BY <2>3, Pair
<1> QED
  BY <1>1, <1>2

-----------------------------------------------------------------------------
(* How many keys overlapping calls can leave live: what survives the commit *)
(* of an open call, counted with the open calls that read before it.        *)

IsIssuing(c) == call[c].op = "issue_key"

\* The live keys that the commit of c leaves alone.
Spared(c) == {i \in Live(assertionKeys) :
                i > Len(call[c].seen) \/ i = signing_key(call[c].seen, call[c].at)}

\* The other open calls that read no more keys than c did.
Earlier(c) == {d \in Calls \ {c} : IsIssuing(d) /\ Len(call[d].seen) <= Len(call[c].seen)}

\* What c read was there, revoked keys stay revoked and active_from is never moved.
ReadBefore(c) == /\ Len(call[c].seen) <= Len(assertionKeys)
                 /\ \A i \in DOMAIN call[c].seen :
                      /\ call[c].seen[i].revoked => i \notin Live(assertionKeys)
                      /\ call[c].seen[i].from = assertionKeys[i].from

Fits(c) == Cardinality(Spared(c)) + Cardinality(Earlier(c)) <= Cardinality(Calls)

KeysCounted ==
    /\ Cardinality(Live(assertionKeys)) <= Cardinality(Calls) + 1
    /\ \A c \in Calls : IsIssuing(c) => ReadBefore(c) /\ Fits(c)

LEMMA CallsFinite == IsFiniteSet(Calls) /\ Cardinality(Calls) \in Nat
BY AdministrationAssumption, FS_CardinalityType

LEMMA Smaller ==
    ASSUME NEW T, IsFiniteSet(T), NEW S \in SUBSET T
    PROVE  /\ IsFiniteSet(S) /\ Cardinality(S) \in Nat /\ Cardinality(T) \in Nat
           /\ Cardinality(S) <= Cardinality(T)
BY FS_Subset, FS_CardinalityType

LEMMA Single ==
    ASSUME NEW x, NEW S \in SUBSET {x} PROVE Cardinality(S) <= 1 /\ Cardinality(S) \in Nat
<1>1. IsFiniteSet({x}) /\ Cardinality({x}) = 1
  BY FS_Singleton
<1> QED
  BY <1>1, Smaller

LEMMA OneMore ==
    ASSUME NEW S, IsFiniteSet(S), NEW x
    PROVE  /\ IsFiniteSet(S \cup {x}) /\ Cardinality(S \cup {x}) \in Nat
           /\ Cardinality(S \cup {x}) <= Cardinality(S) + 1
<1>1. Cardinality(S) \in Nat
  BY FS_CardinalityType
<1>2. /\ IsFiniteSet(S \cup {x})
      /\ Cardinality(S \cup {x}) = IF x \in S THEN Cardinality(S) ELSE Cardinality(S) + 1
  BY FS_AddElement
<1> QED
  BY <1>1, <1>2

LEMMA Finite ==
    ASSUME CallInv, NEW c \in Calls
    PROVE  /\ IsFiniteSet(Spared(c)) /\ Cardinality(Spared(c)) \in Nat
           /\ IsFiniteSet(Earlier(c)) /\ Cardinality(Earlier(c)) \in Nat
<1>1. assertionKeys \in Seq(AssertionKey)
  BY DEF CallInv, TypeInv, TypeOK
<1>2. Spared(c) \subseteq Live(assertionKeys) /\ Earlier(c) \subseteq Calls
  BY DEF Spared, Earlier
<1> QED
  BY <1>1, <1>2, LiveIsFinite, CallsFinite, Smaller

\* A call that would leave one key at the most fits whoever else is open.
LEMMA OneSpared ==
    ASSUME NEW c \in Calls, NEW x, NEW S \in SUBSET {x}, NEW E \in SUBSET (Calls \ {c})
    PROVE  Cardinality(S) + Cardinality(E) <= Cardinality(Calls)
<1>1. Cardinality(S) <= 1 /\ Cardinality(S) \in Nat
  BY Single
<1>2. IsFiniteSet(Calls \ {c}) /\ Cardinality(Calls \ {c}) = Cardinality(Calls) - 1
  BY CallsFinite, FS_RemoveElement
<1>3. Cardinality(E) <= Cardinality(Calls) - 1 /\ Cardinality(E) \in Nat
  BY <1>2, Smaller
<1> QED
  BY <1>1, <1>3, CallsFinite

\* d goes on issuing with what it read.
GoesOn(d) == /\ call[d].op = "issue_key" /\ call'[d].op = "issue_key"
             /\ call'[d].seen = call[d].seen /\ call'[d].at = call[d].at

CallsKept == \A d \in Calls : call'[d].op = "issue_key" => GoesOn(d)

LEMMA CallsGoOn ==
    ASSUME CallInv, [Next]_vars
    PROVE  \/ \E c \in Calls : issue_key(c)
           \/ \E c \in Calls, q \in Requests :
                Open(c, q[1], q[2], q[3]) /\ q[1] = "issue_key"
           \/ CallsKept
<1>0. call \in [Calls -> Call]
  BY DEF CallInv, TypeInv
<1>1. CASE UNCHANGED call
  BY <1>1 DEF CallsKept, GoesOn
<1>2. ASSUME NEW c \in Calls, NEW x, call' = [call EXCEPT ![c] = x], x.op # "issue_key"
      PROVE  CallsKept
  BY <1>0, <1>2 DEF CallsKept, GoesOn
<1>3. ASSUME NEW c \in Calls, NEW q \in Requests, Open(c, q[1], q[2], q[3]), q[1] # "issue_key"
      PROVE  CallsKept
  <2> DEFINE x == [Closed EXCEPT !.op = q[1], !.id = q[2], !.delay = q[3], !.at = now,
                                 !.seen = Loaded(q[2])]
  <2>1. x.op = q[1]
    BY DEF Closed
  <2>2. call' = [call EXCEPT ![c] = x]
    BY <1>3 DEF Open
  <2> HIDE DEF x
  <2> QED
    BY <1>2, <1>3, <2>1, <2>2
<1>4. ASSUME NEW c \in Calls, fetch_token(c) PROVE CallsKept
  <2>1. PICK ok \in BOOLEAN : call' = [call EXCEPT ![c] = [@ EXCEPT !.probe = ok]]
    BY <1>4 DEF fetch_token
  <2> DEFINE x == [call[c] EXCEPT !.probe = ok]
  <2>2. call' = [call EXCEPT ![c] = x] /\ x.op = call[c].op /\ x.op # "issue_key"
    BY <1>0, <1>4, <2>1 DEF Call, fetch_token
  <2> HIDE DEF x
  <2> QED
    BY <1>2, <2>2
<1>5. ASSUME NEW c \in Calls, Fails(c) PROVE CallsKept
  BY <1>2, <1>5, ClosedCall DEF Fails
<1>6. ASSUME \A d \in Calls : \/ call'[d] = Closed
                              \/ call'[d] = [call[d] EXCEPT !.fresh = (call[d].op = "none")]
      PROVE  CallsKept
  <2> SUFFICES ASSUME NEW d \in Calls, call'[d].op = "issue_key" PROVE GoesOn(d)
    BY DEF CallsKept
  <2>1. call'[d] = [call[d] EXCEPT !.fresh = (call[d].op = "none")] /\ call[d] \in Call
    BY <1>0, <1>6, ClosedCall
  <2>2. call'[d].op = call[d].op /\ call'[d].seen = call[d].seen /\ call'[d].at = call[d].at
    BY <2>1 DEF Call
  <2> QED
    BY <2>2 DEF GoesOn
<1>7. ASSUME NEW c \in Calls, Commit(c), ~issue_key(c) PROVE CallsKept
  <2>1. Close(c)
    BY <1>7 DEF Commit, rotate_credential, delete_credential, rotate_secret, WriteOrigin,
                record_origin_verification, activate_origin, retire_origin, delete_origin
  <2> QED
    BY <1>6, <2>1 DEF Close
<1>8. ASSUME Revoke PROVE CallsKept
  BY <1>6, <1>8 DEF Revoke
<1> QED
  BY <1>1, <1>3, <1>4, <1>5, <1>7, <1>8 DEF Next, vars, Tick

\* When no key is added and no call begins to issue one, only less is left.
LEMMA FewerKeys ==
    ASSUME CallInv, CallInv', KeysCounted, KeysKept, CallsKept PROVE KeysCounted'
<1>0. /\ assertionKeys \in Seq(AssertionKey) /\ assertionKeys' \in Seq(AssertionKey)
      /\ Live(assertionKeys') \subseteq Live(assertionKeys)
      /\ Len(assertionKeys') = Len(assertionKeys)
  BY DEF CallInv, TypeInv, TypeOK, KeysKept
<1>1. Cardinality(Live(assertionKeys')) <= Cardinality(Calls) + 1
  BY <1>0, LiveIsFinite, Smaller, CallsFinite DEF KeysCounted
<1>2. ASSUME NEW c \in Calls, IsIssuing(c)' PROVE ReadBefore(c)' /\ Fits(c)'
  <2>1. GoesOn(c) /\ ReadBefore(c) /\ Fits(c)
    BY <1>2 DEF CallsKept, IsIssuing, KeysCounted, GoesOn
  <2>2. ReadBefore(c)'
    <3>1. call[c].seen \in Seq(AssertionKey)
      BY <2>1 DEF GoesOn, CallInv, CallsOpen, Names
    <3>2. DOMAIN call[c].seen \subseteq DOMAIN assertionKeys
      BY <1>0, <2>1, <3>1 DEF ReadBefore
    <3> QED
      BY <1>0, <2>1, <3>1, <3>2 DEF ReadBefore, GoesOn, KeysKept
  <2>3. Spared(c)' \subseteq Spared(c)
    BY <1>0, <2>1 DEF Spared, GoesOn
  <2>4. Earlier(c)' \subseteq Earlier(c)
    BY <2>1 DEF Earlier, IsIssuing, CallsKept, GoesOn
  <2>5. /\ Cardinality(Spared(c)') <= Cardinality(Spared(c)) /\ Cardinality(Spared(c)') \in Nat
        /\ Cardinality(Earlier(c)') <= Cardinality(Earlier(c)) /\ Cardinality(Earlier(c)') \in Nat
        /\ Cardinality(Spared(c)) \in Nat /\ Cardinality(Earlier(c)) \in Nat
    BY <2>3, <2>4, Finite, Smaller
  <2> QED
    BY <2>1, <2>2, <2>5, CallsFinite DEF Fits
<1> QED
  BY <1>1, <1>2 DEF KeysCounted

\* A call that begins reads every key there is.
LEMMA OneMoreCall ==
    ASSUME CallInv, CallInv', KeysCounted, NEW c \in Calls, NEW q \in Requests,
           Open(c, q[1], q[2], q[3]), q[1] = "issue_key"
    PROVE  KeysCounted'
<1>0. /\ assertionKeys \in Seq(AssertionKey) /\ Len(assertionKeys) \in Nat
      /\ call \in [Calls -> Call] /\ UNCHANGED assertionKeys
  BY DEF CallInv, TypeInv, TypeOK, Open, rows
<1>1. subject = "keys"
  <2>1. call'[c].op = "issue_key" /\ UNCHANGED subject
    BY <1>0 DEF Open, Closed
  <2>2. Names(c)'
    BY <2>1 DEF CallInv, CallsOpen
  <2> QED
    BY <2>1, <2>2 DEF Names
<1>2. /\ call'[c].seen = assertionKeys /\ call'[c].op = "issue_key"
      /\ \A d \in Calls \ {c} : call'[d] = call[d]
  BY <1>0, <1>1 DEF Open, Closed, Loaded
<1>3. call[c].op = "none"
  BY DEF Open
<1>4. ASSUME NEW d \in Calls, Len(call'[d].seen) = Len(assertionKeys) PROVE Fits(d)'
  <2>1. Spared(d)' \subseteq {signing_key(call'[d].seen, call'[d].at)}
    BY <1>0, <1>4 DEF Spared, Live
  <2>2. Earlier(d)' \subseteq Calls \ {d}
    BY DEF Earlier
  <2> QED
    BY <2>1, <2>2, OneSpared DEF Fits
<1>5. ReadBefore(c)' /\ Fits(c)'
  BY <1>0, <1>2, <1>4 DEF ReadBefore, Live
<1>6. ASSUME NEW d \in Calls, d # c, IsIssuing(d)' PROVE ReadBefore(d)' /\ Fits(d)'
  <2>1. call'[d] = call[d] /\ ReadBefore(d) /\ Fits(d) /\ call[d].seen \in Seq(AssertionKey)
    BY <1>2, <1>6 DEF IsIssuing, KeysCounted, CallInv, CallsOpen, Names
  <2>2. ReadBefore(d)' /\ Len(call[d].seen) <= Len(assertionKeys) /\ Len(call[d].seen) \in Nat
    BY <1>0, <2>1 DEF ReadBefore
  <2>3. CASE Len(call[d].seen) = Len(assertionKeys)
    BY <1>4, <2>1, <2>2, <2>3
  <2>4. CASE Len(call[d].seen) # Len(assertionKeys)
    <3>1. Earlier(d)' \subseteq Earlier(d)
      BY <1>0, <1>2, <2>1, <2>2, <2>4 DEF Earlier, IsIssuing
    <3>2. Spared(d)' = Spared(d)
      BY <1>0, <2>1 DEF Spared
    <3>3. /\ Cardinality(Earlier(d)') <= Cardinality(Earlier(d)) /\ Cardinality(Earlier(d)') \in Nat
          /\ Cardinality(Spared(d)) \in Nat /\ Cardinality(Earlier(d)) \in Nat
      BY <3>1, Finite, Smaller
    <3> QED
      BY <2>1, <2>2, <3>2, <3>3, CallsFinite DEF Fits
  <2> QED
    BY <2>3, <2>4
<1> QED
  BY <1>0, <1>5, <1>6 DEF KeysCounted

\* A commit leaves what it spared and the new key.  A call that read earlier than
\* the one that commits is left with no more than that; for one that read later,
\* the committed call is one fewer before it.
LEMMA OneMoreKey ==
    ASSUME CallInv, CallInv', KeysCounted, NEW c \in Calls, issue_key(c)
    PROVE  KeysCounted'
<1> DEFINE n == Len(assertionKeys) + 1
<1>1. /\ n \in Nat \ {0} /\ DOMAIN assertionKeys = 1 .. (n - 1)
      /\ DOMAIN assertionKeys' = 1 .. n /\ Len(assertionKeys') = n /\ Close(c)
      /\ \A i \in 1 .. (n - 1) :
           /\ assertionKeys'[i].from = assertionKeys[i].from
           /\ assertionKeys'[i].revoked <=>
                assertionKeys[i].revoked
                \/ (i \in DOMAIN call[c].seen /\ Replaced(call[c].seen, i, call[c].at))
      /\ call[c].seen \in Seq(AssertionKey)
  BY IssueFields
<1>2. IsIssuing(c) /\ ReadBefore(c) /\ Fits(c)
  BY DEF issue_key, Ready, IsIssuing, KeysCounted
<1>3. Live(assertionKeys') \subseteq Spared(c) \cup {n} /\ Spared(c) \subseteq Live(assertionKeys)
  <2> SUFFICES ASSUME NEW i \in Live(assertionKeys'), i # n PROVE i \in Spared(c)
    BY DEF Spared
  <2>1. i \in 1 .. (n - 1) /\ ~assertionKeys'[i].revoked
    BY <1>1 DEF Live
  <2>2. i \in Live(assertionKeys) /\ ~(i \in DOMAIN call[c].seen /\ Replaced(call[c].seen, i, call[c].at))
    BY <1>1, <2>1 DEF Live
  <2>3. CASE i \in DOMAIN call[c].seen
    BY <1>2, <2>2, <2>3 DEF Replaced, ReadBefore, Spared
  <2>4. CASE i \notin DOMAIN call[c].seen
    BY <1>1, <2>1, <2>2, <2>4 DEF Spared
  <2> QED
    BY <2>3, <2>4
<1>4. /\ IsFiniteSet(Spared(c) \cup {n})
      /\ Cardinality(Spared(c) \cup {n}) <= Cardinality(Spared(c)) + 1
      /\ Cardinality(Spared(c)) \in Nat /\ Cardinality(Earlier(c)) \in Nat
      /\ Cardinality(Spared(c) \cup {n}) \in Nat
  BY Finite, OneMore
<1> HIDE DEF n
<1>5. Cardinality(Live(assertionKeys')) <= Cardinality(Calls) + 1
  <2>1. /\ Cardinality(Live(assertionKeys')) <= Cardinality(Spared(c) \cup {n})
        /\ Cardinality(Live(assertionKeys')) \in Nat
    BY <1>3, <1>4, Smaller
  <2> QED
    BY <1>2, <1>4, <2>1, CallsFinite DEF Fits
<1>6. call'[c].op = "none" /\ \A d \in Calls : call'[d].op = "issue_key" => GoesOn(d)
  <2>1. call'[c].op = "none"
    BY <1>1, ClosedCall DEF Close
  <2>2. ASSUME NEW d \in Calls, call'[d].op = "issue_key" PROVE GoesOn(d)
    <3>1. call'[d] = [call[d] EXCEPT !.fresh = (call[d].op = "none")] /\ call[d] \in Call
      BY <1>1, <2>1, <2>2 DEF Close, CallInv, TypeInv
    <3>2. call'[d].op = call[d].op /\ call'[d].seen = call[d].seen /\ call'[d].at = call[d].at
      BY <3>1 DEF Call
    <3> QED
      BY <2>2, <3>2 DEF GoesOn
  <2> QED
    BY <2>1, <2>2
<1>7. ASSUME NEW d \in Calls, IsIssuing(d)' PROVE ReadBefore(d)' /\ Fits(d)'
  <2>1. d # c /\ GoesOn(d) /\ IsIssuing(d) /\ ReadBefore(d) /\ Fits(d)
    BY <1>6, <1>7 DEF IsIssuing, GoesOn, KeysCounted
  <2>2. call[d].seen \in Seq(AssertionKey) /\ Len(call[d].seen) \in Nat
        /\ Len(call[c].seen) \in Nat
    BY <1>1, <2>1 DEF IsIssuing, CallInv, CallsOpen, Names
  <2>3. Live(assertionKeys') \subseteq Live(assertionKeys) \cup {n} /\ n = Len(assertionKeys) + 1
    BY <1>3 DEF n
  <2>4. ReadBefore(d)'
    <3>1. DOMAIN call[d].seen \subseteq 1 .. (n - 1) /\ n \notin DOMAIN call[d].seen
      BY <1>1, <2>1, <2>2, <2>3 DEF ReadBefore
    <3> QED
      BY <1>1, <2>1, <2>2, <2>3, <3>1 DEF ReadBefore, GoesOn
  <2>5. /\ IsFiniteSet(Spared(d)) /\ Cardinality(Spared(d)) \in Nat
        /\ IsFiniteSet(Earlier(d)) /\ Cardinality(Earlier(d)) \in Nat
        /\ IsFiniteSet(Earlier(c))
    BY Finite
  <2>6. CASE c \in Earlier(d)
    <3>1. Earlier(d)' \subseteq Earlier(d) \ {c}
      BY <1>6, <2>1 DEF Earlier, IsIssuing, GoesOn
    <3>2. Spared(d)' \subseteq Spared(d) \cup {n}
      BY <1>3, <2>1 DEF Spared, GoesOn
    <3>3. /\ IsFiniteSet(Earlier(d) \ {c}) /\ Cardinality(Earlier(d) \ {c}) = Cardinality(Earlier(d)) - 1
          /\ IsFiniteSet(Spared(d) \cup {n})
          /\ Cardinality(Spared(d) \cup {n}) <= Cardinality(Spared(d)) + 1
      BY <2>5, <2>6, OneMore, FS_RemoveElement
    <3>4. /\ Cardinality(Earlier(d)') <= Cardinality(Earlier(d) \ {c}) /\ Cardinality(Earlier(d)') \in Nat
          /\ Cardinality(Spared(d)') <= Cardinality(Spared(d) \cup {n}) /\ Cardinality(Spared(d)') \in Nat
          /\ Cardinality(Spared(d) \cup {n}) \in Nat
      BY <3>1, <3>2, <3>3, Smaller
    <3> QED
      BY <2>1, <2>4, <2>5, <3>3, <3>4, CallsFinite DEF Fits
  <2>7. CASE c \notin Earlier(d)
    <3>1. Len(call[d].seen) < Len(call[c].seen)
      BY <1>2, <2>1, <2>2, <2>7 DEF Earlier
    <3>2. Earlier(d)' \subseteq Earlier(c) \ {d} /\ d \in Earlier(c)
      <4>1. d \in Earlier(c)
        BY <2>1, <2>2, <3>1 DEF Earlier
      <4>2. ASSUME NEW e \in Earlier(d)' PROVE e \in Earlier(c) /\ e # d
        <5>1. e \in Calls \ {d} /\ call'[e].op = "issue_key" /\ Len(call'[e].seen) <= Len(call'[d].seen)
          BY DEF Earlier, IsIssuing
        <5>2. GoesOn(e) /\ e # c
          BY <1>6, <5>1
        <5>3. call[e].seen \in Seq(AssertionKey) /\ Len(call[e].seen) \in Nat
          BY <5>1, <5>2 DEF GoesOn, CallInv, CallsOpen, Names
        <5>4. Len(call[e].seen) <= Len(call[c].seen)
          BY <2>1, <2>2, <3>1, <5>1, <5>2, <5>3 DEF GoesOn
        <5> QED
          BY <5>1, <5>2, <5>4 DEF Earlier, IsIssuing, GoesOn
      <4> QED
        BY <4>1, <4>2
    <3>3. Spared(d)' \subseteq Spared(c) \cup {n}
      BY <1>3 DEF Spared
    <3>4. IsFiniteSet(Earlier(c) \ {d}) /\ Cardinality(Earlier(c) \ {d}) = Cardinality(Earlier(c)) - 1
      BY <2>5, <3>2, FS_RemoveElement
    <3>5. /\ Cardinality(Earlier(d)') <= Cardinality(Earlier(c) \ {d}) /\ Cardinality(Earlier(d)') \in Nat
          /\ Cardinality(Spared(d)') <= Cardinality(Spared(c) \cup {n}) /\ Cardinality(Spared(d)') \in Nat
      BY <1>4, <3>2, <3>3, <3>4, Smaller
    <3> QED
      BY <1>2, <1>4, <2>4, <3>4, <3>5, CallsFinite DEF Fits
  <2> QED
    BY <2>6, <2>7
<1> QED
  BY <1>5, <1>7 DEF KeysCounted

LEMMA KeysCountedStep ==
    ASSUME CallInv, CallInv', KeysCounted, [Next]_vars,
           KeysKept \/ \E c \in Calls : issue_key(c)
    PROVE  KeysCounted'
<1>1. ASSUME NEW c \in Calls, NEW q \in Requests, Open(c, q[1], q[2], q[3]), q[1] = "issue_key"
      PROVE  KeysCounted'
  BY <1>1, OneMoreCall
<1>2. ASSUME NEW c \in Calls, issue_key(c) PROVE KeysCounted'
  BY <1>2, OneMoreKey
<1> QED
  BY <1>1, <1>2, CallsGoOn, FewerKeys

-----------------------------------------------------------------------------
\* What is trusted, with what makes it so: the previous secret is the one that
\* was replaced, and a verified origin was proven last.
TrustInv == CallInv /\ AtMostTwoLive /\ KeysCounted /\ SecretsInOrder /\ OriginsProven

LEMMA TrustInit == Init => TrustInv
<1> SUFFICES ASSUME Init PROVE TrustInv
  OBVIOUS
<1>1. CallInv
  BY InitCalls
<1>2. AtMostTwoLive
  <2>1. Live(assertionKeys) \in SUBSET {1, 1}
    BY DEF Init, Live
  <2> QED
    BY <2>1, Pair DEF AtMostTwoLive
<1>3. SecretsInOrder
  BY DEF Init, SecretsInOrder
<1>4. OriginsProven
  <2> SUFFICES ASSUME NEW i \in DOMAIN origins PROVE origins[i].status # "verified"
    BY DEF OriginsProven, Proven
  <2> QED
    BY DEF Init
<1>5. KeysCounted
  <2>1. Live(assertionKeys) \subseteq {1}
    BY DEF Init, Live
  <2>2. Cardinality(Live(assertionKeys)) <= 1 /\ Cardinality(Live(assertionKeys)) \in Nat
    BY <2>1, Single
  <2>3. \A c \in Calls : ~IsIssuing(c)
    BY ClosedCall DEF Init, IsIssuing
  <2> QED
    BY <2>2, <2>3, CallsFinite DEF KeysCounted
<1> QED
  BY <1>1, <1>2, <1>3, <1>4, <1>5 DEF TrustInv

LEMMA TrustStep == TrustInv /\ [Next]_vars => TrustInv'
<1> SUFFICES ASSUME TrustInv, [Next]_vars PROVE TrustInv'
  OBVIOUS
<1>1. CallInv' /\ Others /\ (KeysKept \/ \E c \in Calls : issue_key(c))
  BY CallStep DEF TrustInv
<1>2. AtMostTwoLive'
  BY <1>1, TwoLive DEF TrustInv, Others
<1>3. KeysCounted'
  BY <1>1, KeysCountedStep DEF TrustInv
<1> QED
  BY <1>1, <1>2, <1>3 DEF TrustInv, Others

LEMMA TrustInForce == TrustInv => TrustedIsInForce
<1> SUFFICES ASSUME TrustInv PROVE TrustedIsInForce
  OBVIOUS
<1>1. secret \in WebhookSecret /\ now \in Nat
  BY AdministrationAssumption DEF TrustInv, CallInv, TypeInv, TypeOK
<1>2. ToldSecretsSign
  BY <1>1 DEF TrustInv, SecretsInOrder, ToldSecretsSign, signing_secrets, WebhookSecret
<1>3. FailedIsNotServed
  BY DEF TrustInv, OriginsProven, Proven, FailedIsNotServed, serving_origin
<1>4. LiveKeysBounded
  BY DEF TrustInv, AtMostTwoLive, KeysCounted, LiveKeysBounded
<1> QED
  BY <1>2, <1>3, <1>4 DEF TrustedIsInForce

\* However many calls overlap, whatever they decided on and whichever fail: an
\* application has at most two live assertion keys on SQLite, and on PostgreSQL one
\* more than calls can be open (issue_key); the secret that the latest rotation
\* replaced signs for its grace (rotate_secret), and no origin gets traffic whose
\* latest proof of control failed (record_origin_verification, activate_origin),
\* unless on PostgreSQL that rotation or that proof was overtaken.
THEOREM TrustHolds == Spec => []TrustedIsInForce
<1> QED
  BY TrustInit, TrustStep, TrustInForce, PTL DEF Spec

-----------------------------------------------------------------------------
(* Rotations. *)

LEMMA NeverUnsigned ==
    ASSUME CallInv, CallInv', KeysCounted, KeysKept \/ \E d \in Calls : issue_key(d)
    PROVE  IssuingNeverUnsignsStep
<1> SUFFICES ASSUME NEW c \in Calls, Len(assertionKeys') > Len(assertionKeys),
                    call[c].op = "issue_key", call'[c].op = "none",
                    signing_key(call[c].seen, call[c].at) \in Live(assertionKeys)
             PROVE  signing_key(assertionKeys', now) # 0
  BY DEF IssuingNeverUnsignsStep
<1>0. assertionKeys \in Seq(AssertionKey) /\ assertionKeys' \in Seq(AssertionKey)
      /\ call[c] \in Call /\ now \in Nat
      /\ \A i \in DOMAIN assertionKeys : assertionKeys[i].from \in Nat
  <2>1. assertionKeys \in Seq(AssertionKey) /\ assertionKeys' \in Seq(AssertionKey)
        /\ call[c] \in Call /\ now \in Nat
    BY AdministrationAssumption DEF CallInv, TypeInv, TypeOK
  <2>2. \A i \in DOMAIN assertionKeys : assertionKeys[i] \in AssertionKey
    BY <2>1
  <2> QED
    BY <2>1, <2>2, AdministrationAssumption DEF AssertionKey
<1>1. ~KeysKept
  BY <1>0 DEF KeysKept
<1>2. PICK d \in Calls : issue_key(d)
  BY <1>1
<1>3. d = c
  <2> SUFFICES ASSUME d # c PROVE FALSE
    OBVIOUS
  <2>1. call'[c] = [call[c] EXCEPT !.fresh = (call[c].op = "none")]
    BY <1>2 DEF issue_key, Close
  <2>2. call'[c].op = call[c].op
    BY <1>0, <2>1 DEF Call
  <2> QED
    BY <2>2
<1> DEFINE s == signing_key(call[c].seen, call[c].at)
           n == Len(assertionKeys) + 1
<1>4. /\ n \in Nat \ {0} /\ DOMAIN assertionKeys = 1 .. (n - 1) /\ DOMAIN assertionKeys' = 1 .. n
      /\ call[c].seen \in Seq(AssertionKey) /\ call[c].at \in Nat /\ call[c].at <= now
      /\ \A i \in 1 .. (n - 1) :
           /\ assertionKeys'[i].from = assertionKeys[i].from
           /\ assertionKeys'[i].revoked <=>
                assertionKeys[i].revoked
                \/ (i \in DOMAIN call[c].seen /\ Replaced(call[c].seen, i, call[c].at))
  BY <1>2, <1>3, IssueFields
<1>5. s \in 1 .. (n - 1) /\ ~assertionKeys[s].revoked
  BY <1>4 DEF Live
<1>6. assertionKeys[s].from <= call[c].at
  <2>1. s # 0
    BY <1>5
  <2>2. s \in DOMAIN call[c].seen /\ call[c].seen[s].from <= call[c].at
    BY <1>4, <2>1, SigningKey DEF Signers, Live
  <2>3. call[c].seen[s].from = assertionKeys[s].from
    BY <2>2 DEF KeysCounted, ReadBefore, IsIssuing
  <2> QED
    BY <2>2, <2>3
<1>7. ~Replaced(call[c].seen, s, call[c].at)
  BY DEF Replaced
<1>8. s \in Live(assertionKeys')
  BY <1>4, <1>5, <1>7 DEF Live
<1>9. assertionKeys'[s].from <= now
  <2>1. assertionKeys[s].from \in Nat /\ assertionKeys'[s].from = assertionKeys[s].from
    BY <1>0, <1>4, <1>5
  <2> HIDE DEF s
  <2> QED
    BY <1>0, <1>4, <1>6, <2>1
<1> HIDE DEF s
<1>10. Signers(assertionKeys', now) # {}
  BY <1>8, <1>9 DEF Signers
<1> QED
  BY <1>0, <1>10, SigningKey

\* However rotations, revocations and deletions overlap: issuing keeps a key of the
\* application's own signing as long as the one that signed when the call read is
\* not revoked meanwhile (issue_key); what was revoked or deleted stays so, and no
\* credential is given more time, except by a rotation that was overtaken on
\* PostgreSQL, and then no more than that rotation's grace (rotate_credential,
\* delete_credential).
THEOREM RotationsAreSafe == Spec => RotationIsSafe
<1>1. TrustInv /\ [Next]_vars => RotationIsSafeStep
  <2> SUFFICES ASSUME TrustInv, [Next]_vars PROVE RotationIsSafeStep
    OBVIOUS
  <2>1. CallInv /\ KeysCounted /\ CallInv' /\ Others /\ (KeysKept \/ \E c \in Calls : issue_key(c))
    BY CallStep DEF TrustInv
  <2>2. IssuingNeverUnsignsStep
    BY <2>1, NeverUnsigned
  <2>3. NeverExtendedStep
    BY <2>1 DEF NeverExtendedStep, Others, CredentialsKept
  <2> QED
    BY <2>2, <2>3 DEF RotationIsSafeStep
<1> QED
  BY <1>1, TrustInit, TrustStep, PTL DEF Spec, RotationIsSafe
=============================================================================
