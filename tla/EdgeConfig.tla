----------------------------- MODULE EdgeConfig -----------------------------
(***************************************************************************)
(* The configuration the reconciler builds and the gateway's opinion of    *)
(* it.  The reconciler builds it from the database and DNS; the gateway    *)
(* asks the management API what the edge may route to and admits only a    *)
(* configuration of the reconciler's shape on what it was told.  Between   *)
(* the two, applications, domains, DNS and settings may change.  Requests  *)
(* are then answered by certificate, route and assertion decisions, each   *)
(* made from the state of its own moment.                                  *)
(***************************************************************************)
EXTENDS Integers, FiniteSets

CONSTANTS
    Applications,
    Hostnames,
    Names,          \* names of origins
    Addresses,      \* numbers: addresses in _dial_order
    Targets,        \* the edge's own names
    Ranges,         \* address allowlists
    EdgeTarget,     \* the target applications start with
    None,
    MaxChanges

VARIABLES
    apps,           \* [active, verified, name, tls, ownHost, target] of each application
    domains,        \* [owner, status, verified, passing] of each hostname
    dns,            \* the addresses of each origin name; {} if none is acceptable
    settings,       \* [portal, operator, publicApi, disableHttps]
    payload,        \* the apps subtree on its way to the gateway
    verdict,        \* the gateway's answer to it
    running,        \* what Caddy runs
    changes

vars == <<apps, domains, dns, settings, payload, verdict, running, changes>>

\* What is asked of the constants: names and addresses are numbers, in the
\* order of the gateway's table and of _dial_order, the names are finitely
\* many, and no verdict is not one.
ConfigConstants ==
    /\ Addresses \subseteq Nat /\ Names \subseteq Nat /\ IsFiniteSet(Names)
    /\ None # "accepted"

Statuses == {"pending_dns", "provisioning", "ready", "attention_required", "suspended"}
App == [active : BOOLEAN, verified : BOOLEAN, name : Names, tls : BOOLEAN,
        ownHost : BOOLEAN, target : Targets]
Domain == [owner : Applications, status : Statuses, verified : BOOLEAN, passing : BOOLEAN]
Settings == [portal : SUBSET Ranges, operator : SUBSET Ranges, publicApi : BOOLEAN,
             disableHttps : BOOLEAN]

-----------------------------------------------------------------------------
(* Who is admitted. *)

routable(d) == /\ d.status \in {"provisioning", "ready", "attention_required"}
               /\ apps[d.owner].active /\ d.verified

is_serveable(d) == /\ d.status = "ready" /\ apps[d.owner].active
                   /\ d.verified /\ d.passing

certificate_authorized(d) == /\ d.status \notin {"pending_dns", "suspended"}
                             /\ apps[d.owner].active /\ d.verified

serving_origin(a) == apps[a].verified

-----------------------------------------------------------------------------
(* Building. *)

resolve_dials_Highest(name) == {x \in dns[name] : \A y \in dns[name] : x >= y}
resolve_dials(name) == dns[name]
pinned_dial(name) == CHOOSE x \in dns[name] : \A y \in dns[name] : x <= y

portal_hosts == {apps[a].target : a \in {b \in Applications : apps[b].active}}

\* The Host an origin is sent: the visitor's, or the origin's own name.
_origin_proxy(a) ==
    [dial |-> pinned_dial(apps[a].name),
     host |-> IF apps[a].ownHost THEN apps[a].name ELSE None,
     serverName |-> IF apps[a].tls THEN apps[a].name ELSE None]

Routed(a) == {h \in Hostnames : domains[h].owner = a /\ routable(domains[h])}

serveable_route_groups ==
    {a \in Applications : /\ apps[a].active /\ serving_origin(a) /\ Routed(a) # {}
                          /\ dns[apps[a].name] # {}}

allowlisted_routes_for(hosts, ranges) ==
    IF ranges = {} \/ hosts = {} THEN None ELSE [hosts |-> hosts, ranges |-> ranges]

api_route == IF settings.publicApi /\ portal_hosts # {}
             THEN [hosts |-> portal_hosts] ELSE None

build_apps ==
    [portal |-> allowlisted_routes_for(portal_hosts, settings.portal),
     operator |-> allowlisted_routes_for(portal_hosts, settings.operator),
     api |-> api_route,
     routes |-> [a \in serveable_route_groups |->
                    [hosts |-> Routed(a), proxy |-> _origin_proxy(a)]],
     tls |-> IF settings.disableHttps THEN None ELSE "on_demand"]

-----------------------------------------------------------------------------
(* Validating. *)

Offered == {a \in Applications : apps[a].active /\ serving_origin(a)}

\* Every address of every offered origin, with the origin's name; the gateway
\* keeps them by address, so of two names on one address the last one listed.
edge_origins ==
    [upstreams |-> {<<p[1], apps[p[2]].name>> : p \in
                       {q \in Addresses \X Offered : q[1] \in resolve_dials(apps[q[2]].name)}},
     edgeNames |-> portal_hosts, portal |-> settings.portal,
     operator |-> settings.operator, publicApi |-> settings.publicApi]

NameOf(facts, x) ==
    LET names == {p[2] : p \in {q \in facts.upstreams : q[1] = x}} IN
    CHOOSE n \in names : \A m \in names : m <= n

ValidPair(routes, ranges, facts) ==
    routes # None => /\ ranges # {} /\ routes.ranges = ranges
                     /\ routes.hosts \subseteq facts.edgeNames

ValidApi(route, facts) ==
    route # None => facts.publicApi /\ route.hosts \subseteq facts.edgeNames

_validate_app_route_AnyUpstream(route, facts) == TRUE
_validate_app_route(route, facts) ==
    /\ \E p \in facts.upstreams : p[1] = route.proxy.dial
    /\ route.proxy.host \in {None, NameOf(facts, route.proxy.dial)}
    /\ route.proxy.serverName \in {None, NameOf(facts, route.proxy.dial)}

validate_apps(config, facts) ==
    /\ ValidPair(config.portal, facts.portal, facts)
    /\ ValidPair(config.operator, facts.operator, facts)
    /\ ValidApi(config.api, facts)
    /\ \A a \in DOMAIN config.routes : _validate_app_route(config.routes[a], facts)
    /\ \A a, b \in DOMAIN config.routes :
         a # b => config.routes[a].hosts \cap config.routes[b].hosts = {}
    /\ config.tls = IF settings.disableHttps THEN None ELSE "on_demand"

-----------------------------------------------------------------------------
(* Requests. *)

\* EDGE_HOSTNAME and former targets that live claims still name are left out here
\* and in portal_hosts alike: they are names of the edge as the targets are.
is_edge_name(n) == n \in portal_hosts

tls_ask(h) == (h \in Hostnames /\ certificate_authorized(domains[h])) \/ is_edge_name(h)

\* The application a request is asserted for, or None: 403.
edge_assert(h, workspaceProbe) ==
    LET d == domains[h] IN
    IF /\ is_serveable(d) \/ (routable(d) /\ workspaceProbe)
       /\ serving_origin(d.owner)
    THEN d.owner ELSE None

\* What an origin does with an assertion: it accepts those of its own
\* application.
verify(asserted, expected) == asserted # None /\ asserted = expected

-----------------------------------------------------------------------------
NoConfig == [portal |-> None, operator |-> None, api |-> None,
             routes |-> <<>>, tls |-> None]

\* Applications with a serving origin, ready domains, any DNS, everything or
\* nothing exposed.
Init ==
    /\ apps \in [Applications -> {x \in App : x.active /\ x.verified /\ x.target = EdgeTarget}]
    /\ domains \in [Hostnames -> {d \in Domain : d.status = "ready" /\ d.verified /\ d.passing}]
    /\ dns \in [Names -> SUBSET Addresses \ {{}}]
    /\ settings \in [portal : {{}, Ranges}, operator : {{}, Ranges}, publicApi : BOOLEAN,
                     disableHttps : BOOLEAN]
    /\ settings.portal = settings.operator
    /\ payload = None /\ verdict = None /\ running = NoConfig
    /\ changes = 0

reconcile ==
    /\ payload = None
    /\ payload' = build_apps /\ verdict' = None
    /\ UNCHANGED <<apps, domains, dns, settings, running, changes>>

\* The origins are fetched and the payload is judged by them; what passes goes
\* on to Caddy.
set_apps ==
    /\ payload # None /\ verdict = None
    /\ \/ /\ validate_apps(payload, edge_origins)
          /\ verdict' = "accepted" /\ running' = payload
       \/ /\ ~validate_apps(payload, edge_origins)
          /\ verdict' = "rejected" /\ UNCHANGED running
    /\ UNCHANGED <<apps, domains, dns, settings, payload, changes>>

AppChanges(a) ==
    /\ apps' \in {[apps EXCEPT ![a].active = ~@], [apps EXCEPT ![a].verified = ~@],
                  [apps EXCEPT ![a].ownHost = ~@]}
                 \cup {[apps EXCEPT ![a].target = t] : t \in Targets}
                 \cup {[apps EXCEPT ![a].name = n] : n \in Names}
    /\ UNCHANGED <<domains, dns, settings>>

\* A domain is checked, or deleted and claimed by another application.
DomainChanges(h) ==
    /\ \E d \in {[owner |-> domains[h].owner, status |-> s, verified |-> s # "pending_dns",
                  passing |-> s = "ready"] : s \in Statuses}
                \cup {[owner |-> a, status |-> "ready", verified |-> TRUE, passing |-> TRUE] :
                        a \in Applications}
                \cup {[domains[h] EXCEPT !.passing = FALSE]} :
         domains' = [domains EXCEPT ![h] = d]
    /\ UNCHANGED <<apps, dns, settings>>

DnsChanges(n) ==
    /\ \E A \in SUBSET Addresses : dns' = [dns EXCEPT ![n] = A]
    /\ UNCHANGED <<apps, domains, settings>>

SettingsChange ==
    /\ settings' \in {[settings EXCEPT !.portal = {}], [settings EXCEPT !.operator = {}],
                      [settings EXCEPT !.publicApi = ~@], [settings EXCEPT !.portal = Ranges]}
    /\ UNCHANGED <<apps, domains, dns>>

Change ==
    /\ changes < MaxChanges
    /\ changes' = changes + 1
    /\ \/ \E a \in Applications : AppChanges(a)
       \/ \E h \in Hostnames : DomainChanges(h)
       \/ \E n \in Names : DnsChanges(n)
       \/ SettingsChange
    /\ UNCHANGED <<payload, verdict, running>>

Next == reconcile \/ set_apps \/ Change

Spec == Init /\ [][Next]_vars

TypeOK ==
    /\ apps \in [Applications -> App] /\ domains \in [Hostnames -> Domain]
    /\ dns \in [Names -> SUBSET Addresses] /\ settings \in Settings
    /\ verdict \in {None, "accepted", "rejected"}
    /\ changes \in 0..MaxChanges
    /\ running.routes \in [DOMAIN running.routes ->
          [hosts : SUBSET Hostnames,
           proxy : [dial : Addresses, host : Names \cup {None},
                    serverName : Names \cup {None}]]]

-----------------------------------------------------------------------------
(* Properties. *)

\* No two applications' origins share an address under different names.
DistinctAddresses ==
    \A a, b \in Offered :
        apps[a].name # apps[b].name => dns[apps[a].name] \cap dns[apps[b].name] = {}

\* What the reconciler builds the gateway accepts, if nothing changed since.
ReconcilerConfigAccepted == changes = 0 => verdict # "rejected"

\* And so it does at every moment while no two origins share an address: a
\* configuration built from the state the gateway is told of is valid.
AcceptedUnlessShared == DistinctAddresses => validate_apps(build_apps, edge_origins)

\* What AcceptedIsVouched asks of one step.
AcceptedIsVouchedStep ==
    verdict = None /\ verdict' = "accepted" =>
      /\ \A a \in DOMAIN running'.routes :
           LET p == running'.routes[a].proxy IN
           \E b \in Applications :
              /\ apps[b].active /\ apps[b].verified /\ p.dial \in dns[apps[b].name]
              /\ {p.host, p.serverName} \subseteq {None, apps[b].name}
      /\ running'.portal # None => running'.portal.ranges = settings.portal
      /\ running'.operator # None => running'.operator.ranges = settings.operator
      /\ running'.api # None => settings.publicApi

\* What the gateway lets through dials only addresses of origins that were
\* verified and active when it was asked, under a name of such an origin at
\* that address, although the configuration is older.
AcceptedIsVouched == [][AcceptedIsVouchedStep]_vars

\* Whatever Caddy still runs, a request reaches a workspace only at an origin
\* of the application that owns the hostname now, and for a hostname that may
\* be served: a route left over from a former owner leads to an origin that
\* refuses the assertion.
OnlyTheOwnerAnswers ==
    \A a \in DOMAIN running.routes : \A h \in running.routes[a].hosts :
        \A probe \in BOOLEAN :
            verify(edge_assert(h, probe), a) =>
                /\ domains[h].owner = a /\ apps[a].active
                /\ domains[h].status \in {"provisioning", "ready", "attention_required"}
                /\ ~probe => is_serveable(domains[h])

\* The three admission rules are nested: a hostname that is served is routed
\* and one that is routed can get a certificate.
AdmissionNests ==
    \A h \in Hostnames : LET d == domains[h] IN
        (is_serveable(d) => routable(d)) /\ (routable(d) => tls_ask(h))

\* The parts of the edge agree: the gateway accepts what the reconciler built
\* unless two origins share an address; what is served is routed and may
\* have a certificate; and an assertion is accepted only by an origin of the
\* hostname's owner, whatever Caddy still runs.
EdgeAgrees == AcceptedUnlessShared /\ AdmissionNests /\ OnlyTheOwnerAnswers
=============================================================================
