--------------------------- MODULE ZoneDetection ---------------------------
(***************************************************************************)
(* The cache of DNS zones.  While a check worker has a domain's DNS in     *)
(* hand it also looks for the zone the hostname is in, asks the zone's     *)
(* provider whether it knows the configured Domain Connect template, and   *)
(* keeps the answer for every hostname of that zone.  None of this holds a *)
(* lock: other workers, the operator, the DNS and the purge come between.  *)
(***************************************************************************)
EXTENDS Integers, Sequences, FiniteSets

CONSTANTS
    Workers,
    Hosts,          \* hostnames, as sequences of labels
    Suffixes,       \* the Public Suffix List
    Templates,      \* the templates the operator may configure
    None,
    ZoneTtl, RetryTtl, Retention,
    MaxChanges,     \* changes of the DNS, settings and domains in a behaviour
    MaxClock

VARIABLES
    ns,             \* what the DNS answers for the NS records of each name
    template,       \* the configured template, or None
    rows,           \* dns_zones
    zone,           \* domains.zone of each hostname, or None when it has no row
    worker,         \* what each worker's refresh knows
    proven,         \* history: <<zone, template>> a provider said it supports
    changes, now

vars == <<ns, template, rows, zone, worker, proven, changes, now>>

-----------------------------------------------------------------------------
(* Names. *)

Suffix(name, n) == SubSeq(name, Len(name) - n + 1, Len(name))
Encloses(z, name) == Len(z) <= Len(name) /\ Suffix(name, Len(z)) = z

\* One label more than the longest public suffix; the parent for the others.
registrable_domain(h) ==
    LET lengths == {Len(s) : s \in {t \in Suffixes : Encloses(t, h)}} IN
    IF lengths = {} THEN Tail(h)
    ELSE Suffix(h, 1 + CHOOSE n \in lengths : \A m \in lengths : m <= n)
default_zone(h) == IF registrable_domain(h) = h THEN Tail(h) ELSE registrable_domain(h)

\* From the hostname's parent up to the registrable domain.
candidate_zones(h) == [i \in 1..(Len(h) - Len(default_zone(h))) |-> Suffix(h, Len(h) - i)]

\* What is asked of the constants: canonicalize has refused hostnames that are
\* registrable domains or public suffixes, no row is None, and what was just
\* stored is not old enough to be purged.
ZonesConstants ==
    /\ Hosts \cup Suffixes \subseteq Seq(STRING)
    /\ \A h \in Hosts : /\ Len(h) >= 2
                         /\ \A s \in Suffixes : Encloses(s, h) => Len(s) + 2 <= Len(h)
    /\ None \notin [template : Templates \cup {None}, supported : BOOLEAN, expires_at : Int]
    /\ ZoneTtl \in Nat /\ RetryTtl \in Nat /\ Retention \in Nat \ {0}

ZoneNames == UNION {{Suffix(h, n) : n \in 1..(Len(h) - 1)} : h \in Hosts}

-----------------------------------------------------------------------------
Row == [template : Templates \cup {None}, supported : BOOLEAN, expires_at : 0..(MaxClock + ZoneTtl)]
Idle == [pc |-> "idle", host |-> None, known |-> None, template |-> None, zone |-> None,
         lookup |-> "none", supported |-> FALSE, transient |-> FALSE]

TypeOK ==
    /\ ns \in [ZoneNames -> {"found", "none", "unavailable"}]
    /\ template \in Templates \cup {None}
    /\ \A z \in ZoneNames : rows[z] \in Row \cup {None}
    /\ \A h \in Hosts : zone[h] # None => Encloses(zone[h], h)
    /\ DOMAIN rows = ZoneNames /\ DOMAIN zone = Hosts
    /\ \A w \in Workers :
         /\ worker[w].pc \in {"idle", "lookup", "discover", "store", "apply"}
         /\ worker[w].host \in Hosts \cup {None}
         /\ worker[w].template \in Templates \cup {None}
         /\ worker[w].lookup \in {"none", "found", "failed"}
         /\ worker[w].supported \in BOOLEAN /\ worker[w].transient \in BOOLEAN
    /\ proven \subseteq ZoneNames \X Templates
    /\ changes \in 0..MaxChanges /\ now \in 0..MaxClock

Init ==
    /\ ns = [n \in ZoneNames |-> "found"]
    /\ template \in Templates
    /\ rows = [z \in ZoneNames |-> None]
    /\ zone = [h \in Hosts |-> default_zone(h)]
    /\ worker = [w \in Workers |-> Idle]
    /\ proven = {}
    /\ changes = 0 /\ now = 0

-----------------------------------------------------------------------------
(* A refresh. *)

Fresh(z, t) == rows[z] # None /\ rows[z].expires_at > now /\ rows[z].template = t

\* A lease that ran out, or a recheck, gives one hostname to two workers; each
\* reads the settings once.
Claim(w, h) ==
    /\ worker[w].pc = "idle" /\ zone[h] # None
    /\ worker' = [worker EXCEPT ![w] =
         IF Fresh(zone[h], template)
         THEN [Idle EXCEPT !.pc = "apply", !.host = h, !.zone = zone[h]]
         ELSE [Idle EXCEPT !.pc = "lookup", !.host = h, !.known = zone[h],
                           !.template = template]]
    /\ UNCHANGED <<ns, template, rows, zone, proven, changes, now>>

\* The first candidate with NS records; the registrable domain when there is
\* none, or when the DNS does not answer for one that comes before it.
find_zone(h) ==
    LET names == candidate_zones(h)
        stops == {i \in DOMAIN names : ns[names[i]] # "none"}
        last == names[Len(names)]
    IN IF stops = {} THEN [zone |-> last, transient |-> FALSE]
       ELSE LET first == names[CHOOSE i \in stops : \A j \in stops : i <= j] IN
            IF ns[first] = "unavailable" THEN [zone |-> last, transient |-> TRUE]
            ELSE [zone |-> first, transient |-> FALSE]

Done(me, z, lookup) == [Idle EXCEPT !.pc = "apply", !.host = me.host, !.zone = z,
                                    !.lookup = lookup]

FindZone(w) ==
    LET me == worker[w]
        found == find_zone(me.host)
        lookup == IF found.transient THEN "failed" ELSE "found"
    IN /\ me.pc = "lookup"
       /\ worker' = [worker EXCEPT ![w] =
            IF found.zone # me.known /\ Fresh(found.zone, me.template)
            THEN Done(me, found.zone, lookup)
            ELSE [me EXCEPT !.pc = "discover", !.known = None, !.zone = found.zone,
                            !.transient = found.transient, !.lookup = lookup]]
       /\ UNCHANGED <<ns, template, rows, zone, proven, changes, now>>

\* The ways discovery ends: no usable record or settings, an error worth
\* trying again sooner, or an answer about the template.
Discoveries(t) ==
    {[supported |-> FALSE, transient |-> tr] : tr \in BOOLEAN}
    \cup (IF t = None THEN {} ELSE {[supported |-> TRUE, transient |-> FALSE]})

discover(w) ==
    LET me == worker[w] IN
    /\ me.pc = "discover"
    /\ \E d \in Discoveries(me.template) :
         /\ worker' = [worker EXCEPT ![w] =
              [me EXCEPT !.pc = "store", !.supported = d.supported,
                         !.transient = me.transient \/ d.transient]]
         /\ proven' = IF d.supported THEN proven \cup {<<me.zone, me.template>>} ELSE proven
    /\ UNCHANGED <<ns, template, rows, zone, changes, now>>

\* Inserted, or updated when another worker was first; or the database fails
\* and the refresh has no result.
Stored_CurrentTemplate(me) ==
    [template |-> template, supported |-> me.supported,
     expires_at |-> now + (IF me.transient THEN RetryTtl ELSE ZoneTtl)]
Stored(me) ==
    [template |-> me.template, supported |-> me.supported,
     expires_at |-> now + (IF me.transient THEN RetryTtl ELSE ZoneTtl)]

Store(w) ==
    LET me == worker[w] IN
    /\ me.pc = "store"
    /\ \/ /\ rows' = [rows EXCEPT ![me.zone] = Stored(me)]
          /\ worker' = [worker EXCEPT ![w] = Done(me, me.zone, me.lookup)]
       \/ worker' = [worker EXCEPT ![w] = Idle] /\ UNCHANGED rows
    /\ UNCHANGED <<ns, template, zone, proven, changes, now>>

\* The zone is written with the outcome of the checks, which may be discarded.
Apply(w) ==
    LET me == worker[w] IN
    /\ me.pc = "apply"
    /\ worker' = [worker EXCEPT ![w] = Idle]
    /\ \/ /\ zone[me.host] # None
          /\ zone' = [zone EXCEPT ![me.host] = me.zone]
       \/ UNCHANGED zone
    /\ UNCHANGED <<ns, template, rows, proven, changes, now>>

-----------------------------------------------------------------------------
(* Domains, purge, settings, the DNS, time. *)

\* The row of a deleted domain goes when its retention is over.
Removed(h) ==
    /\ zone[h] # None
    /\ changes < MaxChanges /\ changes' = changes + 1
    /\ zone' = [zone EXCEPT ![h] = None]
    /\ UNCHANGED <<ns, template, rows, worker, proven, now>>

Registered(h) ==
    /\ zone[h] = None
    /\ zone' = [zone EXCEPT ![h] = default_zone(h)]
    /\ UNCHANGED <<ns, template, rows, worker, proven, changes, now>>

Referenced_Never(z) == FALSE
Referenced(z) == \E h \in Hosts : zone[h] = z

purge_zones ==
    /\ rows' = [z \in ZoneNames |->
                  IF rows[z] # None /\ rows[z].expires_at <= now - Retention /\ ~Referenced(z)
                  THEN None ELSE rows[z]]
    /\ rows' # rows
    /\ UNCHANGED <<ns, template, zone, worker, proven, changes, now>>

\* The signer or the template is set through the operator API.
set_template ==
    /\ changes < MaxChanges /\ changes' = changes + 1
    /\ template' \in (Templates \cup {None}) \ {template}
    /\ UNCHANGED <<ns, rows, zone, worker, proven, now>>

DnsChanges ==
    /\ changes < MaxChanges /\ changes' = changes + 1
    /\ \E n \in ZoneNames \ Suffixes, answer \in {"found", "none", "unavailable"} :
         ns[n] # answer /\ ns' = [ns EXCEPT ![n] = answer]
    /\ UNCHANGED <<template, rows, zone, worker, proven, now>>

\* A refresh takes seconds, the unit of time here is RETRY_TTL.
Tick ==
    /\ now < MaxClock
    /\ \A w \in Workers : worker[w].pc = "idle"
    /\ now' = now + 1
    /\ UNCHANGED <<ns, template, rows, zone, worker, proven, changes>>

Next ==
    \/ \E w \in Workers : \/ \E h \in Hosts : Claim(w, h)
                          \/ FindZone(w) \/ discover(w) \/ Store(w) \/ Apply(w)
    \/ \E h \in Hosts : Removed(h) \/ Registered(h)
    \/ purge_zones \/ set_template \/ DnsChanges \/ Tick

Spec == Init /\ [][Next]_vars

-----------------------------------------------------------------------------
(* Properties. *)

select_method(row, t) == row.supported /\ t # None /\ row.template = t

\* Domain Connect is offered only for a template the zone's provider said it
\* supports: an answer about the template that was configured when a worker
\* asked is never taken for one about the template configured now.
OfferedWasProven ==
    \A h \in Hosts :
        zone[h] # None /\ rows[zone[h]] # None /\ select_method(rows[zone[h]], template)
            => <<zone[h], template>> \in proven

\* A domain that has its setup shown keeps one: neither the purge nor a
\* worker that comes late leaves it with a zone that is not in the cache.
ShownStaysShownStep ==
    \A h \in Hosts : zone[h] # None /\ rows[zone[h]] # None /\ zone'[h] # None
                        => rows'[zone'[h]] # None

\* The zone a lookup finds encloses the hostname and is the smallest customer
\* zone that does: no name between them is delegated, and no public suffix
\* is taken for a zone.
NearestZoneStep ==
    \A w \in Workers :
      worker[w].pc = "lookup" /\ worker'[w].pc \in {"apply", "discover"} =>
        LET h == worker[w].host
            z == worker'[w].zone
            between == {n \in ZoneNames : Encloses(n, h) /\ Len(n) > Len(z) /\ n # h}
        IN /\ Encloses(z, h) /\ z \notin Suffixes /\ z # h
           /\ \/ worker'[w].lookup = "failed"
              \/ \A n \in between : ns[n] = "none"

\* Every lookup finds the nearest zone, and a domain shown with its setup
\* stays so.
ZonesKept == [][NearestZoneStep /\ ShownStaysShownStep]_vars
=============================================================================
