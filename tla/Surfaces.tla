------------------------------ MODULE Surfaces ------------------------------
(***************************************************************************)
(* The portal, the operator API and the command line: who is let in, which *)
(* application and which of its rows a call finds by slug and id, and what *)
(* it commits.  Slugs are freed by deletion and may be taken again while   *)
(* forms and calls of the old application are still about; tokens and      *)
(* passwords are replaced while calls they let in are open.  A behaviour   *)
(* is about one slug and one kind of an application's rows, or about who   *)
(* is let in.                                                              *)
(***************************************************************************)
EXTENDS Integers, Sequences, Functions, TLC

CONSTANTS
    Calls,
    Kinds,          \* what behaviours are about: kinds of rows (see PortalForms), "gates"
    Tokens,         \* operator tokens an operator may set; 0 is OPERATOR_API_TOKEN
    Passwords,      \* values PORTAL_PASSWORD takes over restarts
    MaxApps, MaxRows, Ttl, MaxClock, None

VARIABLES
    backend,
    kind,
    applications,   \* Seq of [active, deleted, gone], all of one slug in turn
    children,       \* Seq of [app, live, gone], of the kind
    stored,         \* the OperatorToken row: the token whose digest it holds, or None
    password,
    ownSecret,      \* PORTAL_SESSION_SECRET is set
    cookies,        \* session cookies handed out, [secret, exp, under]
    lastSet,        \* history: the token last set, or 0 since the last reset
    call,
    now

rows == <<applications, children>>
gates == <<stored, password, ownSecret, cookies, lastSet>>
vars == <<backend, kind, rows, gates, call, now>>

\* What is asked of the constants: None is no token, and nothing a call can
\* be about.
SurfacesConstants ==
    /\ None \notin Tokens /\ Ttl \in Nat /\ MaxClock \in Nat
    /\ None \notin {"portal", "operator", "cli"}
    /\ None \notin {"create_application", "purge", "set", "status", "update",
                    "delete_application", "create", "change", "end", "remove", "replace",
                    "set_token", "reset_token"}

-----------------------------------------------------------------------------
(* What each surface offers, and what it does to the rows. *)

\* A setting that also re-issues the claims of its domains (cname_target) writes
\* on live rows of its own application, and they stay live: "set" as the others.
PortalApplicationForms == [create |-> "create_application"]
PortalMaintenanceForms == [purge_tombstones |-> "purge"]
PortalSettingsForms ==
    [name |-> "set", cname_target |-> "set", rate_limit |-> "set", domain_limit |-> "set",
     workspace_probe |-> "set", status |-> "status", delete |-> "delete_application"]
PortalOriginForms ==
    [register |-> "create", host_header |-> "change", verify |-> "change",
     activate |-> "change", retire |-> "end", delete |-> "remove"]
PortalAssertionKeyForms == [issue |-> "create", revoke |-> "end"]
PortalCredentialForms ==
    [issue |-> "create", revoke |-> "end", rotate |-> "replace", delete |-> "remove"]
PortalWebhookForms ==
    [create |-> "create", rotate |-> "change", revoke |-> "end", delete |-> "remove"]
PortalDeliveryForms == [replay |-> "change"]
PortalRegisterForm == [register |-> "create"]
domain_action == [recheck |-> "change", reissue |-> "change", delete |-> "end"]
legacy_import == [imported |-> "create"]

OperatorCreateCall == [create |-> "create_application"]
OperatorApplicationCalls == [update |-> "update", delete |-> "delete_application"]
OperatorOriginCalls ==
    [register |-> "create", update |-> "change", verify |-> "change",
     activate |-> "change", retire |-> "end", delete |-> "remove"]
OperatorAssertionKeyCalls == [issue |-> "create", revoke |-> "end"]
OperatorCredentialCalls ==
    [issue |-> "create", rotate |-> "replace", revoke |-> "end", delete |-> "remove"]

CliCreateCommand == [create |-> "create_application"]
CliTargetCommands == [set_workspace_probe |-> "set", set_cname_target |-> "set"]
CliApplicationCommands ==
    [rename |-> "set", set_rate_limit |-> "set", set_domain_limit |-> "set",
     delete |-> "delete_application"]
CliOriginCommands == [verify |-> "change", activate |-> "change", register |-> "create"]
CliSelectedOriginCommands ==
    [retire |-> "end", set_host_header |-> "change", delete |-> "remove"]
CliAssertionKeyCommands == [issue |-> "create", revoke |-> "end"]
CliCredentialCommands ==
    [issue |-> "create", revoke |-> "end", rotate |-> "replace"]
CliCredentialDeleteCommand == [delete |-> "remove"]
CliImportCommand == [legacy_import |-> "create"]
CliPurgeCommand == [purge_tombstones |-> "purge"]

Nothing == [none |-> None]
PortalForms ==
    [origin |-> PortalOriginForms, key |-> PortalAssertionKeyForms,
     credential |-> PortalCredentialForms,
     webhook |-> PortalWebhookForms @@ PortalDeliveryForms,
     domain |-> PortalRegisterForm @@ domain_action @@ legacy_import]
OperatorCalls ==
    [origin |-> OperatorOriginCalls, key |-> OperatorAssertionKeyCalls,
     credential |-> OperatorCredentialCalls, webhook |-> Nothing, domain |-> Nothing]
CliCommands ==
    [origin |-> CliOriginCommands @@ CliSelectedOriginCommands,
     key |-> CliAssertionKeyCommands,
     credential |-> CliCredentialCommands @@ CliCredentialDeleteCommand,
     webhook |-> Nothing, domain |-> CliImportCommand]

RowEffects(surface) ==
    LET All(forms) == UNION {Range(form) : form \in forms} \ {None} IN
    CASE surface = "portal" -> All({PortalApplicationForms, PortalMaintenanceForms,
                                    PortalSettingsForms, PortalForms[kind]})
      [] surface = "operator" -> All({OperatorCreateCall, OperatorApplicationCalls,
                                      OperatorCalls[kind]})
      [] surface = "cli" -> All({CliCreateCommand, CliPurgeCommand, CliTargetCommands,
                                 CliApplicationCommands, CliCommands[kind]})

OperatorTokenCall == [set_operator_token |-> "set_token"]
CliTokenCommand == [reset_token |-> "reset_token"]

\* Where the rows do not matter one kind of change stands for all.
Effects(surface) ==
    IF kind # "gates" THEN RowEffects(surface)
    ELSE CASE surface = "portal" -> {"status"}
           [] surface = "operator" -> {"update"} \cup Range(OperatorTokenCall)
           [] surface = "cli" -> Range(CliTokenCommand)

OfChild == {"change", "end", "remove", "replace"}
OfStatus == {"status", "update", "delete_application"}
OfRows == {"delete_application", "remove"}
OfToken == {"set_token", "reset_token"}
OfApplication == {"set", "status", "update", "delete_application", "create"} \cup OfChild

-----------------------------------------------------------------------------
(* Who is let in. *)

matches_OrEnv(token) == token \in {stored, 0}
matches(token) == token = IF stored # None THEN stored ELSE 0

\* PortalSettings.from_env: the key cookies are signed with.
SessionSecret(pw) == IF ownSecret THEN "own" ELSE pw

\* Sessions.read, after the form's CSRF token was found to be the cookie's.
ReadSession(cookie) == cookie.secret = SessionSecret(password) /\ cookie.exp >= now

\* What a call may hold to pass each gate.
Admits(surface) ==
    CASE surface = "portal" -> {k \in cookies : ReadSession(k)}
      [] surface = "operator" -> {t \in Tokens \cup {0} : matches(t)}
      [] surface = "cli" -> {None}

-----------------------------------------------------------------------------
(* A call: let in, its rows loaded, then carried out and committed.  What it *)
(* holds is kept where behaviours are about that.                          *)

Closed == [surface |-> None, effect |-> None, held |-> None, app |-> 0, child |-> 0,
           active |-> None, stored |-> None, consent |-> FALSE, live |-> {}, fresh |-> TRUE]

get_application_by_slug ==
    {i \in DOMAIN applications : ~applications[i].deleted /\ ~applications[i].gone}

\* get_origin, get_credential and the like: by id among the application's own.
FoundChild_AnyApplication(i, a) == ~children[i].gone
FoundChild(i, a) == children[i].app = a /\ ~children[i].gone

LiveOf(a) == {i \in DOMAIN children : children[i].app = a /\ children[i].live}

\* A deletion that was not told to take live domains along is refused.
NotEmpty(a, consent) == kind = "domain" /\ LiveOf(a) # {} /\ ~consent

Open(c, surface, effect, held) ==
    /\ call[c] = Closed
    /\ \E a \in IF effect \in OfApplication THEN get_application_by_slug ELSE {0} :
       \E i \in IF effect \in OfChild THEN {j \in DOMAIN children : FoundChild(j, a)} ELSE {0} :
       \E consent \in IF effect = "delete_application" /\ kind = "domain"
                      THEN BOOLEAN ELSE {FALSE} :
         /\ effect = "delete_application" => ~NotEmpty(a, consent)
         /\ call' = [call EXCEPT ![c] =
              [surface |-> IF kind = "gates" THEN surface ELSE None, effect |-> effect,
               held |-> IF kind = "gates" THEN held ELSE None, app |-> a, child |-> i,
               active |-> IF effect \in OfStatus THEN applications[a].active ELSE None,
               stored |-> IF effect \in OfToken THEN stored ELSE None, consent |-> consent,
               live |-> IF effect \in OfRows THEN LiveOf(a) ELSE {}, fresh |-> TRUE]]
    /\ UNCHANGED <<backend, kind, rows, gates, now>>

Succeeds_Stale(c) == TRUE
Succeeds(c) == backend = "sqlite" => call[c].fresh

Close(c) == call' = [d \in Calls |-> CASE d = c -> Closed
                                       [] call[d] = Closed -> Closed
                                       [] OTHER -> [call[d] EXCEPT !.fresh = FALSE]]

Ready(c, effects) == call[c].effect \in effects /\ Succeeds(c)

\* A service error, a conflict, or "database is locked".
Fails(c) == /\ call[c] # Closed
            /\ call' = [call EXCEPT ![c] = Closed]
            /\ UNCHANGED <<backend, kind, rows, gates, now>>

Ended(ids) == [i \in DOMAIN children |->
                 IF i \in ids THEN [children[i] EXCEPT !.live = FALSE] ELSE children[i]]

create_application(c) ==
    /\ Ready(c, {"create_application"})
    /\ get_application_by_slug = {} /\ Len(applications) < MaxApps
    /\ applications' = Append(applications,
         [active |-> TRUE, deleted |-> FALSE, gone |-> FALSE])
    /\ Close(c) /\ UNCHANGED <<backend, kind, children, gates, now>>

\* The status is written if it differs from the one loaded; what other
\* settings say concerns no other call, beyond their being committed.
UpdateApplication(c) ==
    LET a == call[c].app IN
    /\ Ready(c, {"set", "status", "update"}) /\ ~applications[a].gone
    /\ \E active \in IF call[c].effect = "set" THEN {None} ELSE BOOLEAN :
         applications' = IF active = call[c].active THEN applications
                         ELSE [applications EXCEPT ![a].active = active]
    /\ Close(c) /\ UNCHANGED <<backend, kind, children, gates, now>>

\* The rows ended with an application: domains, credentials and origins;
\* webhooks and assertion keys stay.  They are listed after the check.
EndedWithApplication == {"domain", "credential", "origin"}

delete_application(c) ==
    LET a == call[c].app IN
    /\ Ready(c, {"delete_application"}) /\ ~applications[a].gone
    /\ applications' = [applications EXCEPT ![a] =
         [@ EXCEPT !.active = IF call[c].active THEN FALSE ELSE applications[a].active,
                   !.deleted = TRUE]]
    /\ \E listed \in {call[c].live, LiveOf(a)} :
         children' = IF kind \in EndedWithApplication THEN Ended(listed) ELSE children
    /\ Close(c) /\ UNCHANGED <<backend, kind, gates, now>>

ChildCreated(c) ==
    /\ Ready(c, {"create", "replace"}) /\ Len(children) < MaxRows
    /\ ~applications[call[c].app].gone
    /\ call[c].child # 0 => ~children[call[c].child].gone
    /\ children' = Append(children, [app |-> call[c].app, live |-> TRUE, gone |-> FALSE])
    /\ Close(c) /\ UNCHANGED <<backend, kind, applications, gates, now>>

ChildChanged(c) ==
    LET i == call[c].child IN
    /\ Ready(c, {"change", "end", "remove"}) /\ ~children[i].gone
    /\ call[c].effect = "remove" => i \notin call[c].live
    /\ children' = [children EXCEPT ![i] =
         [@ EXCEPT !.live = IF call[c].effect = "end" THEN FALSE ELSE children[i].live,
                   !.gone = call[c].effect = "remove"]]
    /\ Close(c) /\ UNCHANGED <<backend, kind, applications, gates, now>>

\* Applications deleted long enough ago, with every row of theirs.
purge_tombstones(c) ==
    LET Purged == {a \in DOMAIN applications : applications[a].deleted} IN
    /\ Ready(c, {"purge"})
    /\ applications' = [a \in DOMAIN applications |->
                          [applications[a] EXCEPT !.gone = @ \/ a \in Purged]]
    /\ children' = [i \in DOMAIN children |->
                      IF children[i].app \in Purged
                      THEN [children[i] EXCEPT !.live = FALSE, !.gone = TRUE] ELSE children[i]]
    /\ Close(c) /\ UNCHANGED <<backend, kind, gates, now>>

\* set_token updates the row it loaded, or inserts one: neither goes through
\* if the row appeared or went away in between.
SameRow(c) == (call[c].stored = None) = (stored = None)

set_token(c, token) ==
    /\ Ready(c, {"set_token"}) /\ SameRow(c)
    /\ stored' = token /\ lastSet' = token
    /\ Close(c) /\ UNCHANGED <<backend, kind, rows, password, ownSecret, cookies, now>>

reset(c) ==
    /\ Ready(c, {"reset_token"}) /\ SameRow(c)
    /\ stored' = None /\ lastSet' = 0
    /\ Close(c) /\ UNCHANGED <<backend, kind, rows, password, ownSecret, cookies, now>>

-----------------------------------------------------------------------------
login ==
    /\ kind = "gates"
    /\ cookies' = cookies \cup {[secret |-> SessionSecret(password), exp |-> now + Ttl,
                                 under |-> password]}
    /\ UNCHANGED <<backend, kind, rows, stored, password, ownSecret, lastSet, call, now>>

\* The API restarts with another PORTAL_PASSWORD; its open requests are gone.
Restart(pw) ==
    /\ kind = "gates"
    /\ password' = pw
    /\ call' = [c \in Calls |-> IF call[c].surface = "cli" THEN call[c] ELSE Closed]
    /\ UNCHANGED <<backend, kind, rows, stored, ownSecret, cookies, lastSet, now>>

Tick == kind = "gates" /\ now < MaxClock /\ now' = now + 1 /\ UNCHANGED <<backend, kind, rows, gates, call>>

Init ==
    /\ backend \in {"sqlite", "postgresql"} /\ kind \in Kinds
    /\ applications = <<[active |-> TRUE, deleted |-> FALSE, gone |-> FALSE]>>
    /\ children = <<[app |-> 1, live |-> TRUE, gone |-> FALSE]>>
    /\ stored = None /\ lastSet = 0
    /\ password \in Passwords /\ ownSecret \in BOOLEAN
    /\ kind # "gates" => ownSecret /\ password = CHOOSE pw \in Passwords : TRUE
    /\ cookies = {[secret |-> SessionSecret(password), exp |-> Ttl, under |-> password]}
    /\ call = [c \in Calls |-> Closed]
    /\ now = 0

Next ==
    \/ \E c \in Calls :
         \/ \E surface \in {"portal", "operator", "cli"} : \E held \in Admits(surface) :
              \E effect \in Effects(surface) : Open(c, surface, effect, held)
         \/ Fails(c) \/ create_application(c) \/ UpdateApplication(c)
         \/ delete_application(c) \/ ChildCreated(c) \/ ChildChanged(c)
         \/ purge_tombstones(c) \/ reset(c)
         \/ \E token \in Tokens : set_token(c, token)
    \/ login \/ Tick
    \/ \E pw \in Passwords : Restart(pw)

Spec == Init /\ [][Next]_vars

TypeOK ==
    /\ applications \in Seq([active : BOOLEAN, deleted : BOOLEAN, gone : BOOLEAN])
    /\ children \in Seq([app : DOMAIN applications, live : BOOLEAN, gone : BOOLEAN])
    /\ stored \in Tokens \cup {None} /\ password \in Passwords
    /\ \A k \in cookies : k.under \in Passwords /\ k.exp \in Nat
    /\ now \in 0..MaxClock

-----------------------------------------------------------------------------
(* Properties. *)

OnSqlite == backend = "sqlite"

RowsOf(a, all) == [i \in {j \in DOMAIN all : all[j].app = a} |-> all[i]]

\* The records of a deleted application are kept as they were until they are
\* purged, although its slug is free: nothing done to an application that has
\* taken the slug since, by forms and ids of the old one or otherwise, and no
\* call that was open at the deletion, changes them.  On SQLite; on PostgreSQL a
\* call that had read a row before the deletion still writes it.
ArchiveIsFrozenStep ==
    OnSqlite => \A a \in DOMAIN applications :
      applications[a].deleted /\ ~applications'[a].gone =>
        /\ applications'[a] = applications[a]
        /\ RowsOf(a, children') = RowsOf(a, children)

\* Deletion is for good: nothing a form, call or command of these surfaces
\* commits after it brings a deleted application or what ended with it back to
\* life.  On SQLite; a registration through the v1 API, whose authentication
\* commits before the domain is written, is Registration's.
DeletionSticks ==
    OnSqlite => \A a \in DOMAIN applications : applications[a].deleted =>
        /\ ~applications[a].active
        /\ kind \in EndedWithApplication => LiveOf(a) = {}

\* No live domain goes with an application unless the operator said so.
NothingDroppedUnaskedStep ==
    OnSqlite /\ kind = "domain" => \A c \in Calls :
      /\ call[c].effect = "delete_application" /\ ~call[c].consent
      /\ call'[c] = Closed /\ applications' # applications
      => children' = children

\* A token that was replaced commits nothing more: not even a request it let
\* in before the replacement.
CurrentTokenCommitsStep ==
    OnSqlite => \A c \in Calls :
      /\ call[c].surface = "operator" /\ call'[c] = Closed
      /\ <<rows, stored>> # <<rows', stored'>>
      => matches(call[c].held)

\* What CommitsAsMeant asks of one step.
CommitsAsMeantStep ==
    ArchiveIsFrozenStep /\ NothingDroppedUnaskedStep /\ CurrentTokenCommitsStep

\* A call commits what was meant when it does: nothing of a deleted
\* application's archive through its successor's slug, no live domain with an
\* application unless that was asked for, nothing under a replaced token.  On
\* SQLite, whose writers follow one another.
CommitsAsMeant == [][CommitsAsMeantStep]_vars

\* The token accepted is the one set last, on every backend and in whatever
\* order rotations and resets overlap; until then it is OPERATOR_API_TOKEN.
TokenIsTheLastSet == \A t \in Tokens \cup {0} : matches(t) = (t = lastSet)

\* Changing the password signs everyone out, unless PORTAL_SESSION_SECRET is
\* set: no request is let in by a session opened under an earlier password.
PasswordSignsOut ==
    ~ownSecret => \A c \in Calls :
        call[c].surface = "portal" => call[c].held.under = password

\* The operator API admits the token set last, the portal no session of an
\* earlier password.
GatesFollowTheSecrets == TokenIsTheLastSet /\ PasswordSignsOut
=============================================================================
