--------------------------- MODULE Administration ---------------------------
(***************************************************************************)
(* What operators change on one application: its assertion keys, API       *)
(* credentials, webhook secret and origins.  Every call loads rows, decides *)
(* on what it loaded and writes the columns it changed.  A call that       *)
(* another one commits before is overtaken: on SQLite, where its snapshot  *)
(* is out of date, it fails when it writes; on PostgreSQL it goes through. *)
(* The four kinds of rows share no state: a behaviour is about one of them. *)
(***************************************************************************)
EXTENDS Integers, Sequences, FiniteSets

CONSTANTS
    Backends,       \* a subset of {"sqlite", "postgresql"}
    Subjects,       \* a subset of {"keys", "credentials", "secret", "origins"}
    Calls,          \* concurrent calls
    Delays,         \* activate_in and grace, in ticks
    Never,          \* expires_at of a credential that does not expire
    MaxRows, MaxClock, None

ASSUME AdministrationAssumption ==
    /\ Backends \subseteq {"sqlite", "postgresql"}
    /\ Subjects \subseteq {"keys", "credentials", "secret", "origins"}
    /\ Delays \subseteq Nat /\ MaxRows \in Nat /\ MaxClock \in Nat
    /\ Never \in Nat /\ \A delay \in Delays : MaxClock + delay < Never
    /\ IsFiniteSet(Calls)

VARIABLES
    backend, subject,
    assertionKeys,  \* Seq of [from, revoked]
    credentials,    \* Seq of [expires, revoked, gone]
    secret,         \* the webhook's [current, previous, until], and as history
                    \*   whether the last rotation was overtaken
    origins,        \* Seq of [status, active, gone], and as history the last proof
    call,           \* what each open call loaded and wants
    now

rows == <<assertionKeys, credentials, secret, origins>>
vars == <<backend, subject, rows, call, now>>

Closed == [op |-> "none", id |-> 0, delay |-> 0, at |-> 0, seen |-> None,
           fresh |-> TRUE, probe |-> None]

AssertionKey == [from : 0..Never, revoked : BOOLEAN]
ApiCredential == [expires : 0..Never, revoked : BOOLEAN, gone : BOOLEAN]
WebhookSecret == [current : Nat, previous : Nat, until : 0..Never, overtaken : BOOLEAN]
OriginStatus == {"pending", "verified", "failed", "retired"}
VerifiedOrigin == [status : OriginStatus, active : BOOLEAN, gone : BOOLEAN,
                   last : {"none", "passed", "failed", "overtaken"}]

TypeOK ==
    /\ backend \in Backends /\ subject \in Subjects
    /\ assertionKeys \in Seq(AssertionKey)
    /\ credentials \in Seq(ApiCredential)
    /\ origins \in Seq(VerifiedOrigin)
    /\ secret \in WebhookSecret
    /\ now \in 0..MaxClock

-----------------------------------------------------------------------------
(* Reading. *)

Live(keys) == {i \in DOMAIN keys : ~keys[i].revoked}

\* The live key with the latest active_from that is not in the future, and of
\* two such keys the one created last.
signing_key(keys, t) ==
    LET ready == {i \in Live(keys) : keys[i].from <= t} IN
    IF ready = {} THEN 0
    ELSE CHOOSE i \in ready :
           \A j \in ready : \/ keys[j].from < keys[i].from
                            \/ keys[j].from = keys[i].from /\ j <= i

is_usable(c, t) == ~c.gone /\ ~c.revoked /\ c.expires > t

signing_secrets(s, t) == {s.current} \cup (IF s.until > t THEN {s.previous} ELSE {})

serving_origin ==
    {i \in DOMAIN origins : /\ ~origins[i].gone /\ origins[i].active
                            /\ origins[i].status = "verified"}

-----------------------------------------------------------------------------
(* A call. *)

Loaded(id) == CASE subject = "keys" -> assertionKeys
                [] subject = "credentials" -> credentials[id]
                [] subject = "secret" -> secret
                [] subject = "origins" -> origins[id]

\* The calls there are: an operation, the row it names, and its delay.  They
\* meet on one credential; its replacements are rows like it.
Requests ==
    CASE subject = "keys" -> {"issue_key"} \X {0} \X Delays
      [] subject = "credentials" ->
           ({"rotate"} \X {1} \X Delays) \cup {<<"delete", 1, 0>>}
      [] subject = "secret" -> {"rotate_secret"} \X {1} \X Delays
      [] subject = "origins" ->
           {"verify", "verify_activate", "activate", "retire", "delete"}
             \X (1..Len(origins)) \X {0}

Open(c, op, id, delay) ==
    /\ call[c].op = "none"
    /\ call' = [call EXCEPT ![c] = [Closed EXCEPT !.op = op, !.id = id,
                  !.delay = delay, !.at = now, !.seen = Loaded(id)]]
    /\ UNCHANGED <<backend, subject, rows, now>>

\* fetch_token: the answer of the origin, between the load and the write.
fetch_token(c) ==
    /\ call[c].op \in {"verify", "verify_activate"} /\ call[c].probe = None
    /\ \E ok \in BOOLEAN : call' = [call EXCEPT ![c] = [@ EXCEPT !.probe = ok]]
    /\ UNCHANGED <<backend, subject, rows, now>>

Succeeds(c) == backend = "sqlite" => call[c].fresh

\* A commit makes every other open snapshot out of date.
Close(c) == call' = [d \in Calls |-> IF d = c THEN Closed
                                     ELSE [call[d] EXCEPT !.fresh = (call[d].op = "none")]]

\* An error raised by the service, "database is locked", or no row to update.
Fails(c) == /\ call[c].op # "none"
            /\ call' = [call EXCEPT ![c] = Closed]
            /\ UNCHANGED <<backend, subject, rows, now>>

Ready(c, op) == call[c].op = op /\ Succeeds(c)

\* Issuing keeps the key that signs now and revokes every other live one.
Replaced_All(seen, i, t) == ~seen[i].revoked
Replaced_Waiting(seen, i, t) == ~seen[i].revoked /\ seen[i].from > t
Replaced(seen, i, t) == ~seen[i].revoked /\ i # signing_key(seen, t)

issue_key(c) ==
    /\ Ready(c, "issue_key") /\ Len(assertionKeys) < MaxRows
    /\ LET seen == call[c].seen IN
       assertionKeys' =
         Append([i \in DOMAIN assertionKeys |->
                   IF i \in DOMAIN seen /\ Replaced(seen, i, call[c].at)
                   THEN [assertionKeys[i] EXCEPT !.revoked = TRUE]
                   ELSE assertionKeys[i]],
                [from |-> call[c].at + call[c].delay, revoked |-> FALSE])
    /\ Close(c) /\ UNCHANGED <<backend, subject, credentials, secret, origins, now>>

\* revoke_key and revoke_credential set one column of a row that is not yet
\* revoked; whatever else happens, they come to the same at once.
Revoke ==
    /\ \/ \E i \in Live(assertionKeys) :
            /\ assertionKeys' = [assertionKeys EXCEPT ![i].revoked = TRUE]
            /\ UNCHANGED credentials
       \/ \E i \in DOMAIN credentials \cap {1} :
            /\ ~credentials[i].revoked /\ ~credentials[i].gone
            /\ credentials' = [credentials EXCEPT ![i].revoked = TRUE]
            /\ UNCHANGED assertionKeys
    /\ call' = [d \in Calls |-> [call[d] EXCEPT !.fresh = (call[d].op = "none")]]
    /\ UNCHANGED <<backend, subject, secret, origins, now>>

\* The columns written: only expires_at, and only to bring it forward.
NewExpiry(old, cutoff) ==
    IF ~old.revoked /\ old.expires > cutoff THEN cutoff ELSE old.expires

Written(old, row, cutoff) ==
    IF NewExpiry(old, cutoff) = old.expires THEN row
    ELSE [row EXCEPT !.expires = NewExpiry(old, cutoff)]

rotate_credential(c) ==
    LET id == call[c].id
        old == call[c].seen
        cutoff == call[c].at + call[c].delay IN
    /\ Ready(c, "rotate") /\ Len(credentials) < MaxRows
    /\ ~old.gone /\ ~credentials[id].gone
    /\ credentials' =
         Append([credentials EXCEPT ![id] = Written(old, credentials[id], cutoff)],
                [expires |-> Never, revoked |-> FALSE, gone |-> FALSE])
    /\ Close(c) /\ UNCHANGED <<backend, subject, assertionKeys, secret, origins, now>>

delete_credential(c) ==
    LET id == call[c].id IN
    /\ Ready(c, "delete") /\ subject = "credentials"
    /\ ~call[c].seen.gone /\ ~is_usable(call[c].seen, call[c].at)
    /\ credentials' = [credentials EXCEPT ![id].gone = TRUE]
    /\ Close(c) /\ UNCHANGED <<backend, subject, assertionKeys, secret, origins, now>>

KeptSecret(seen, c) == seen.current

rotate_secret(c) ==
    LET seen == call[c].seen IN
    /\ Ready(c, "rotate_secret") /\ secret.current < MaxRows
    /\ secret' = [current |-> secret.current + 1, previous |-> KeptSecret(seen, c),
                  until |-> call[c].at + call[c].delay, overtaken |-> ~call[c].fresh]
    /\ Close(c) /\ UNCHANGED <<backend, subject, assertionKeys, credentials, origins, now>>

-----------------------------------------------------------------------------
(* Origins: a column is written only where it differs from what was loaded. *)

Put(seen, row, want) ==
    [row EXCEPT !.status = IF seen.status = want.status THEN row.status ELSE want.status,
                !.active = IF seen.active = want.active THEN row.active ELSE want.active]

WriteOrigin(c, all) ==
    /\ ~origins[call[c].id].gone /\ ~call[c].seen.gone
    /\ origins' = all
    /\ Close(c) /\ UNCHANGED <<backend, subject, assertionKeys, credentials, secret, now>>

AfterFailure(seen) == [seen EXCEPT !.status = "failed", !.active = FALSE]

\* The rows when origin id becomes x; the application's other origins keep the
\* traffic unless x is activated.
Rows(id, x, activated) ==
    [i \in DOMAIN origins |->
       IF i = id THEN x
       ELSE IF activated THEN [origins[i] EXCEPT !.active = FALSE] ELSE origins[i]]

\* A proof that succeeds may activate the origin in the same transaction.
record_origin_verification(c) ==
    LET id == call[c].id
        seen == call[c].seen
        ok == call[c].probe
        activated == ok /\ call[c].op = "verify_activate"
        want == IF ok THEN [seen EXCEPT !.status = "verified", !.active = @ \/ activated]
                ELSE AfterFailure(seen)
        last == IF ok THEN "passed" ELSE IF call[c].fresh THEN "failed" ELSE "overtaken" IN
    /\ Ready(c, "verify") \/ Ready(c, "verify_activate")
    /\ ok # None
    /\ WriteOrigin(c, Rows(id, [Put(seen, origins[id], want) EXCEPT !.last = last], activated))

activate_origin(c) ==
    LET id == call[c].id
        seen == call[c].seen IN
    /\ Ready(c, "activate") /\ seen.status = "verified"
    /\ WriteOrigin(c, Rows(id, Put(seen, origins[id], [seen EXCEPT !.active = TRUE]), TRUE))

retire_origin(c) ==
    LET id == call[c].id
        seen == call[c].seen IN
    /\ Ready(c, "retire")
    /\ WriteOrigin(c, [origins EXCEPT ![id] =
         Put(seen, @, [seen EXCEPT !.status = "retired", !.active = FALSE])])

delete_origin(c) ==
    /\ Ready(c, "delete") /\ subject = "origins"
    /\ ~call[c].seen.active
    /\ WriteOrigin(c, [origins EXCEPT ![call[c].id].gone = TRUE])

-----------------------------------------------------------------------------
Tick == subject # "origins" /\ now < MaxClock /\ now' = now + 1 /\ UNCHANGED <<backend, subject, rows, call>>

\* register_origin leaves a pending row; the application has two, one key that
\* signs, one credential and one webhook.
Init ==
    /\ backend \in Backends /\ subject \in Subjects
    /\ assertionKeys = IF subject = "keys" THEN <<[from |-> 0, revoked |-> FALSE]>> ELSE <<>>
    /\ credentials = IF subject = "credentials"
                     THEN <<[expires |-> Never, revoked |-> FALSE, gone |-> FALSE]>> ELSE <<>>
    /\ secret = [current |-> 1, previous |-> 0, until |-> 0, overtaken |-> FALSE]
    /\ origins = IF subject = "origins"
                 THEN [i \in 1..2 |-> [status |-> "pending", active |-> FALSE,
                                       gone |-> FALSE, last |-> "none"]] ELSE <<>>
    /\ call = [c \in Calls |-> Closed]
    /\ now = 0

Commit(c) ==
    \/ issue_key(c) \/ rotate_credential(c) \/ delete_credential(c) \/ rotate_secret(c)
    \/ record_origin_verification(c) \/ activate_origin(c) \/ retire_origin(c)
    \/ delete_origin(c)

Next ==
    \/ \E c \in Calls :
         \/ \E q \in Requests : Open(c, q[1], q[2], q[3])
         \/ fetch_token(c) \/ Fails(c) \/ Commit(c)
    \/ Revoke \/ Tick

Spec == Init /\ [][Next]_vars

-----------------------------------------------------------------------------
(* Properties. *)

OnSqlite == backend = "sqlite"

\* Issuing a key leaves one that signs in its place: if the key that signed an
\* application's requests when the call read is not revoked before it commits,
\* then however calls and the passing of active_from interleave, one of the
\* application's own signs after it.  (A key that only begins to sign while the
\* call is open is revoked by it, and so, on PostgreSQL, is the one that an
\* overlapping call kept.)
IssuingNeverUnsignsStep ==
    \A c \in Calls :
        /\ Len(assertionKeys') > Len(assertionKeys)
        /\ call[c].op = "issue_key" /\ call'[c].op = "none"
        /\ signing_key(call[c].seen, call[c].at) \in Live(assertionKeys)
        => signing_key(assertionKeys', now) # 0

\* The commit, on PostgreSQL, of a rotation that loaded credential i before
\* another call committed, and gives it the time of its own grace.
OvertakenRotation(c, i) ==
    /\ ~OnSqlite /\ ~call[c].fresh
    /\ call[c].op = "rotate" /\ call[c].id = i /\ call'[c].op = "none"
    /\ credentials'[i].expires = call[c].at + call[c].delay

\* A credential that was revoked or deleted stays so whatever overlaps, and none
\* is extended that expires sooner, except by a rotation that was overtaken, and
\* then to no later than the grace of that rotation.
NeverExtendedStep ==
    \A i \in DOMAIN credentials :
        /\ credentials[i].revoked => credentials'[i].revoked
        /\ credentials[i].gone => credentials'[i].gone
        /\ \/ credentials'[i].expires <= credentials[i].expires
           \/ \E c \in Calls : OvertakenRotation(c, i)

\* Overlapping rotations, revocations and deletions neither leave an application
\* without a key to sign with that its calls kept, nor give a credential back what
\* it lost, except through an overtaken rotation on PostgreSQL.
RotationIsSafeStep == IssuingNeverUnsignsStep /\ NeverExtendedStep

\* What a rotation keeps stays and what it ends stays ended, as far as the
\* backend lets overlapping calls see each other (issue_key, rotate_credential,
\* delete_credential, Revoke).
RotationIsSafe == [][RotationIsSafeStep]_vars

\* An application has two live assertion keys at the most; on PostgreSQL calls
\* that overlap can leave more, one for each further call that is open at a time.
LiveKeysBounded ==
    Cardinality(Live(assertionKeys)) <= IF OnSqlite THEN 2 ELSE Cardinality(Calls) + 1

\* The secret that the latest rotation replaced signs until its grace has passed,
\* unless that rotation was overtaken, on PostgreSQL, by another; a further one
\* ends the grace of the one before.
ToldSecretsSign ==
    secret.until > now /\ ~secret.overtaken
        => secret.current - 1 \in signing_secrets(secret, now)

\* Traffic goes to no origin whose latest recorded proof of control failed,
\* whatever verifications and activations overlapped, except where that proof, on
\* PostgreSQL, was overtaken by another commit.
FailedIsNotServed ==
    \A i \in serving_origin : /\ origins[i].last \in {"passed", "overtaken"}
                              /\ OnSqlite => origins[i].last = "passed"

\* What is trusted is in force, on either backend: live keys stay few, secrets sign
\* as long as the last rotation said, and traffic goes to origins proven last.
TrustedIsInForce == LiveKeysBounded /\ ToldSecretsSign /\ FailedIsNotServed

\* "An application never has more than two live keys" (docs/edge-routing.md): not
\* when two calls to issue one overlap on PostgreSQL.
NeverMoreThanTwoLive == Cardinality(Live(assertionKeys)) <= 2

\* "New secret; the previous one keeps signing for 24 hours" (docs/webhooks.md):
\* not when the secret is rotated again in that time.
PreviousKeepsSigningStep ==
    secret.until > now' => secret.previous \in signing_secrets(secret', now')

\* The previous secret signs until its grace has passed, whatever follows.
PreviousKeepsSigning == [][PreviousKeepsSigningStep]_vars
=============================================================================
