------------------------- MODULE MCDomainLifecycle -------------------------
(***************************************************************************)
(* DomainLifecycle and its contract on small instances: either workers     *)
(* beside requests, without the spare request and the spare token, or all  *)
(* requests with all tokens and no worker.                                 *)
(***************************************************************************)
EXTENDS LifecycleContract, TLC

CONSTANTS SpareClaim, SpareRequest

VARIABLE crowd

MCInit == Init /\ crowd \in {"workers", "requests"}

MCNext ==
    /\ Next /\ UNCHANGED crowd
    /\ \/ /\ crowd = "workers"
          /\ request'[SpareRequest] = NoRequest /\ claimStatus'[SpareClaim] = "unissued"
       \/ crowd = "requests" /\ UNCHANGED worker

MCSpec == MCInit /\ [][MCNext]_<<vars, crowd>>

\* Identifiers are only compared for equality, and no property checked with this
\* symmetry is a liveness property.
Symmetry == Permutations(Claims \ {SpareClaim})
============================================================================
