-------------------------- MODULE ServiceContract --------------------------
(***************************************************************************)
(* What the service promises the edge and the owners of hostnames, without *)
(* workers, checks or transactions.  A domain carries one token at a time; *)
(* tokens are never used twice; it is served only while its token is       *)
(* proven, and a token change or a deletion ends that at once.             *)
(***************************************************************************)
CONSTANTS Domains, Claims, None

VARIABLES
    token,    \* the live claim of each domain, None before and after its life
    issued,   \* every claim ever issued
    proven,   \* claims whose records were seen in DNS, or that were imported
    serving,  \* domains the edge may serve
    retired   \* domains that were deleted

contractVars == <<token, issued, proven, serving, retired>>

ContractInit ==
    /\ token = [d \in Domains |-> None]
    /\ issued = {}
    /\ proven = {}
    /\ serving = {}
    /\ retired = {}

\* Service starts only on a token that was already proven, and may stop at any
\* time: a failing check, a suspension.
Keep(d) ==
    /\ token'[d] = token[d]
    /\ d \in retired' <=> d \in retired
    /\ d \in serving' => d \in serving \/ token[d] \in proven

Issue(d) ==
    /\ d \notin retired'
    /\ token'[d] \in issued' \ issued
    /\ d \notin serving'

Retire(d) ==
    /\ token[d] # None
    /\ d \notin retired
    /\ d \in retired'
    /\ token'[d] = None
    /\ d \notin serving'

\* One transaction may touch several domains of an application.
ContractNext ==
    /\ issued \subseteq issued'
    /\ proven \subseteq proven' /\ proven' \subseteq issued'
    /\ \A d \in Domains : Keep(d) \/ Issue(d) \/ Retire(d)

ContractSpec == ContractInit /\ [][ContractNext]_contractVars
============================================================================
