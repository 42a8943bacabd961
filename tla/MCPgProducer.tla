----------------------------- MODULE MCPgProducer -----------------------------
(***************************************************************************)
(* Instances of PgProducer for TLC.  A behaviour has one of two workloads: *)
(* all calls for one identity, or enqueues and pending imports with one    *)
(* content for the identities of two tenants.                              *)
(***************************************************************************)
EXTENDS PgProducer, TLC

CONSTANTS T1, T2, i1, i2, c1

VARIABLE workload

MCTenantOf == (i1 :> T1) @@ (i2 :> T2)

\* The calls made under the workload.
Workload ==
  \A s \in Sessions : call'[s] # NoCall =>
    \/ workload = "one identity" /\ call'[s].id = i1
    \/ workload = "one content" /\ call'[s].content = c1 /\ call'[s].state = "pending"

MCInit == Init /\ workload \in {"one identity", "one content"}

MCNext == Next /\ Workload /\ UNCHANGED workload

MCSpec == MCInit /\ [][MCNext]_<<vars, workload>> /\ Fairness
===============================================================================
