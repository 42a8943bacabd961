-------------------------- MODULE MCDeliveryLifecycle --------------------------
\* Two rows of two tenants, as few tokens as let a row be claimed twice.
EXTENDS DeliveryLifecycle, TLC

CONSTANTS T1, T2

MCTenantOf == (1 :> T1) @@ (2 :> T2)

TokenSymmetry == Permutations(Tokens)
================================================================================
