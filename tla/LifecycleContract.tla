------------------------- MODULE LifecycleContract -------------------------
(***************************************************************************)
(* DomainLifecycle implements ServiceContract, on either backend.          *)
(***************************************************************************)
EXTENDS DomainLifecycle

Contract ==
    INSTANCE ServiceContract WITH
        token   <- [d \in Domains |-> IF phase[d] = "live" THEN active_claim(d) ELSE None],
        issued  <- {c \in Claims : claimStatus[c] # "unissued"},
        serving <- {d \in Domains : is_serveable(d)},
        retired <- {d \in Domains : phase[d] \in {"tombstone", "purged"}}

\* Every step of the service operations, the workers and the clock is a step of
\* the contract or changes nothing the contract speaks of.
KeepsContract == Contract!ContractSpec
============================================================================
