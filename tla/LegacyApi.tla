----------------------------- MODULE LegacyApi -----------------------------
(***************************************************************************)
(* The deprecated /domains endpoints.  One process keeps the configuration *)
(* of a legacy deployment in memory, loads it into Caddy whole, and saves  *)
(* what Caddy then runs to a file, which it loads when it starts.  The     *)
(* handlers never yield, so requests are served one at a time; the process *)
(* or Caddy may stop between any two steps of one.                         *)
(***************************************************************************)
EXTENDS Naturals

CONSTANTS
    Hosts, Upstreams,
    BadUpstream,    \* an upstream Caddy does not accept
    None, Unknown, Absent, Torn,
    MaxRequests

VARIABLES
    pc,             \* "down", "idle", or where the handler is: "loaded", "writing"
    request,        \* the change being served and, once fetched, what is to be saved
    config,         \* self.config: the upstream of each hostname
    running,        \* what Caddy runs
    file,           \* CADDY_CONFIG_FILE: Absent, Torn or a configuration
    told,           \* history: what the last answer about a hostname says of it
    faults,         \* history: what went wrong, of Faults
    requests

vars == <<pc, request, config, running, file, told, faults, requests>>

Configs == [Hosts -> Upstreams \cup {BadUpstream, None}]
https_template == [h \in Hosts |-> None]
Faults == {"refused", "unreached", "unsaved", "restarted", "emptied"}
NoRequest == [host |-> None, upstream |-> None, saved |-> https_template]

\* What is asked of the constants: a missing file is no configuration.
LegacyConstants == Absent \notin Configs

TypeOK ==
    /\ pc \in {"down", "idle", "loaded", "writing"}
    /\ request \in [host : Hosts \cup {None}, upstream : Upstreams \cup {None}, saved : Configs]
    /\ (request = NoRequest) = (pc \in {"down", "idle"})
    /\ config \in Configs
    /\ running \in [Hosts -> Upstreams \cup {None}]
    /\ file \in Configs \cup {Absent, Torn}
    /\ told \in [Hosts -> Upstreams \cup {None, Unknown}]
    /\ faults \subseteq Faults
    /\ requests \in 0..MaxRequests

Init ==
    /\ pc = "down" /\ request = NoRequest
    /\ config = https_template /\ running = https_template
    /\ file = Absent
    /\ told = [h \in Hosts |-> None]
    /\ faults = {}
    /\ requests = 0

-----------------------------------------------------------------------------
(* Starting: the saved configuration when there is one and Caddy accepts   *)
(* it, else an empty one.  A file that is not JSON and a Caddy that does   *)
(* not answer are not caught, and the process does not start.              *)

Accepted(c) == \A h \in Hosts : c[h] # BadUpstream

FromFile_Never == https_template
FromFile == IF file = Absent THEN https_template ELSE file

\* The empty configuration, which Caddy may refuse too: it then goes on with
\* what it runs.  A file that Caddy refused stays as it is until the next
\* save, which overwrites it.
init_config ==
    /\ config' = https_template
    /\ running' \in {https_template, running}
    /\ faults' = faults \cup (IF file = Absent THEN {} ELSE {"emptied"})

Start ==
    /\ pc = "down" /\ file # Torn
    /\ \/ config' = FromFile /\ running' = FromFile /\ UNCHANGED faults
       \/ init_config
    /\ pc' = "idle"
    /\ UNCHANGED <<request, file, told, requests>>

-----------------------------------------------------------------------------
(* A change of one hostname. *)

\* The configuration that is kept, and loaded again, when Caddy refuses the
\* new one.  The copy of it that was changed is a shallow one, so that the
\* change was made to the kept configuration too.
Previous(old, new) == new

\* Caddy loads the configuration and the handler goes on to save it; Caddy
\* refuses it (400); or there is no answer, although Caddy may have loaded it
\* (500).
Load(h, u) ==
    LET new == [config EXCEPT ![h] = u] IN
    /\ pc = "idle" /\ requests < MaxRequests
    /\ requests' = requests + 1
    /\ \/ /\ Accepted(new)
          /\ config' = new /\ running' = new
          /\ pc' = "loaded"
          /\ request' = [NoRequest EXCEPT !.host = h, !.upstream = u]
          /\ UNCHANGED <<told, faults>>
       \/ /\ ~Accepted(new)
          /\ config' = Previous(config, new)
          /\ running' = IF Accepted(Previous(config, new)) THEN Previous(config, new) ELSE running
          /\ faults' = faults \cup {"refused"}
          /\ UNCHANGED <<pc, request, told>>
       \/ /\ config' = new
          /\ running' \in {running} \cup ({new} \cap [Hosts -> Upstreams \cup {None}])
          /\ told' = [told EXCEPT ![h] = Unknown]
          /\ faults' = faults \cup {"unreached"}
          /\ UNCHANGED <<pc, request>>
    /\ UNCHANGED file

add_domain(h, u) == Load(h, u)

\* A hostname that is not in the configuration is an error.
remove_domains(h) == config[h] # None /\ Load(h, None)

-----------------------------------------------------------------------------
(* Saving what Caddy runs. *)

Answered(answer) ==
    /\ pc' = "idle" /\ request' = NoRequest
    /\ told' = [told EXCEPT ![request.host] = answer]

\* Opening the file empties it.
save_config ==
    /\ pc = "loaded"
    /\ pc' = "writing"
    /\ request' = [request EXCEPT !.saved = running]
    /\ file' = Torn
    /\ UNCHANGED <<config, running, told, faults, requests>>

\* An error of Caddy's is logged and the change is answered OK; no answer is
\* a 500.
SaveFails ==
    /\ pc = "loaded"
    /\ \E answer \in {request.upstream, Unknown} : Answered(answer)
    /\ faults' = faults \cup {"unsaved"}
    /\ UNCHANGED <<config, running, file, requests>>

Write ==
    /\ pc = "writing"
    /\ file' = request.saved
    /\ Answered(request.upstream)
    /\ UNCHANGED <<config, running, faults, requests>>

-----------------------------------------------------------------------------
(* Faults. *)

Crash ==
    /\ pc # "down"
    /\ faults' = faults \cup {"restarted"}
    /\ IF pc = "idle"
       THEN pc' = "down" /\ UNCHANGED <<request, told>>
       ELSE /\ pc' = "down" /\ request' = NoRequest
            /\ told' = [told EXCEPT ![request.host] = Unknown]
    /\ UNCHANGED <<config, running, file, requests>>

\* Caddy starts again without hostnames.
CaddyRestarts ==
    /\ running' = https_template
    /\ faults' = faults \cup {"restarted"} \cup (IF pc = "loaded" THEN {"unsaved"} ELSE {})
    /\ UNCHANGED <<pc, request, config, file, told, requests>>

Next ==
    \/ Start \/ save_config \/ SaveFails \/ Write \/ Crash \/ CaddyRestarts
    \/ \E h \in Hosts : \/ \E u \in Upstreams \cup {BadUpstream} : add_domain(h, u)
                        \/ remove_domains(h)

Spec == Init /\ [][Next]_vars

-----------------------------------------------------------------------------
(* Properties. *)

Saved == IF file = Absent THEN https_template ELSE file

\* Whatever the order of requests, crashes and Caddy restarts, a change that
\* was answered OK is in the file, and so survives a restart, unless a save
\* failed, a change was refused, or a crash left half a file.  A start at
\* which Caddy refused the file (the process then goes on from an empty
\* configuration, and its next save overwrites the file) can lose a hostname
\* that was answered for, and does nothing else to it.
AnsweredIsSaved ==
    file # Torn /\ faults \subseteq {"restarted", "emptied"} =>
        \A h \in Hosts : told[h] # Unknown =>
            Saved[h] = told[h] \/ ("emptied" \in faults /\ Saved[h] = None)

\* A refused change has no effect ("Try loading new config. If not
\* successful, load the previous config"): as long as nothing restarted and
\* Caddy answered, each hostname is served as the last answer OK about it said.
RefusedChangesNothing ==
    pc = "idle" /\ faults \subseteq {"refused"} => running = told
=============================================================================
