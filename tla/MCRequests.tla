----------------------------- MODULE MCRequests -----------------------------
(***************************************************************************)
(* Registration, and two parts that requests meet before or instead of it: *)
(* the throttles of failed credentials, sign-ins and credentials, and the  *)
(* legacy API. They share no state; a behaviour is one of the part in      *)
(* focus and the others stay as they began.                                *)
(***************************************************************************)
EXTENDS Registration, TLC

CONSTANTS
    Clients, V6Clients, Prefix48,                                               \* Throttle
    LegacyHosts, Upstreams, BadUpstream, Unknown, Absent, Torn, MaxRequests     \* LegacyApi

VARIABLES
    focus,
    limiter, stamps, open, happened, forgotten, throttleNow,
    pc, request, config, running, file, told, faults, requests

throttleVars == <<limiter, stamps, open, happened, forgotten, throttleNow>>
legacyVars == <<pc, request, config, running, file, told, faults, requests>>
requestsVars == <<focus, vars, throttleVars, legacyVars>>

Th == INSTANCE Throttle WITH
        Limit <- 1, Factor <- 2, Window <- 3, MaxTracked <- 2, MaxFailures <- 6,
        MaxClock <- 4, now <- throttleNow

Le == INSTANCE LegacyApi WITH Hosts <- LegacyHosts

\* What the theorem about the legacy API asks of its constants.
ASSUME PartsAssumption == Le!LegacyConstants

-----------------------------------------------------------------------------
\* The part in focus begins as it does, the others have no state.
Quiet == /\ domains = <<>> /\ req = [r \in Requests |-> Idle] /\ clock = 0
         /\ limit = [a \in Applications |-> None]
         /\ keys = [ak \in Applications \X Keys |-> None]

NoTh ==
    /\ limiter = None /\ stamps = None /\ open = None /\ happened = None
    /\ forgotten = None /\ throttleNow = None

NoLe ==
    /\ pc = None /\ request = None /\ config = None /\ running = None
    /\ file = None /\ told = None /\ faults = None /\ requests = None

RequestsInit ==
    /\ focus \in {"registration", "throttle", "legacy"}
    /\ IF focus = "registration" THEN Init ELSE Quiet
    /\ IF focus = "throttle" THEN Th!Init ELSE NoTh
    /\ IF focus = "legacy" THEN Le!Init ELSE NoLe

RequestsNext ==
    /\ UNCHANGED focus
    /\ \/ /\ focus = "registration" /\ Next
          /\ UNCHANGED <<throttleVars, legacyVars>>
       \/ /\ focus = "throttle" /\ Th!Next
          /\ UNCHANGED <<vars, legacyVars>>
       \/ /\ focus = "legacy" /\ Le!Next
          /\ UNCHANGED <<vars, throttleVars>>

RequestsSpec == RequestsInit /\ [][RequestsNext]_requestsVars

\* Identifiers are only compared, and every property is a safety property.
Symmetry == Permutations(Applications) \cup Permutations(Hostnames)
            \cup Permutations(Requests)

-----------------------------------------------------------------------------
(* Properties: those of the extended module, and those of the part in focus. *)

\* The throttles go by their windows: the failures kept decide as all of them
\* would that happened since the bucket was last dropped, which it is only for as
\* many others that failed later as are tracked; waiting for as long as Retry-After
\* says suffices, and requests in flight exceed a limit by fewer than there are
\* threads.
ThrottledByTheWindow ==
    focus = "throttle" => /\ Th!DecidesByTheWindow /\ Th!DroppedForOthers
                          /\ Th!WaitSuffices /\ Th!OvershootBounded

\* A change the legacy API answered OK is in its file, unless a start at which
\* Caddy refused the file dropped the hostname.
AnsweredIsSaved == focus = "legacy" => Le!AnsweredIsSaved
=============================================================================
