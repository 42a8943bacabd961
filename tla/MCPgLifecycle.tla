----------------------------- MODULE MCPgLifecycle -----------------------------
(***************************************************************************)
(* Instances of PgLifecycle for TLC.  Row n belongs to tenant T1 if n is   *)
(* odd and to T2 otherwise.  A behaviour has one of three workloads: every *)
(* call, at any time, on one row, with long leases; claims and             *)
(* acknowledgements of a tenant and of the administrator on all rows at    *)
(* one time; or claims of one row with a short lease, renewed with a long  *)
(* one, so that a lease may end before and after a repeated UPDATE.        *)
(***************************************************************************)
EXTENDS PgLifecycle

CONSTANTS T1, T2

VARIABLE workload

MCTenantOf == [r \in Rows |-> IF r % 2 = 1 THEN T1 ELSE T2]

OnlyRow1 == \A r \in Rows \ {1} : delivery'[r] = AbsentRow

Asks(ops, lease) == \A s \in Sessions : call'[s].op \in ops => call'[s].arg = lease

\* What callers, producers and the clock do under the workload.
Restricted ==
  \/ /\ workload = "one row"
     /\ OnlyRow1 /\ Asks({"claim", "renew"}, 2)
     /\ \A s \in Sessions : call'[s].scope # Admin => call'[s].op = "finalize"
  \/ /\ workload = "one time"
     /\ now' = 0 /\ Asks({"claim"}, 2)
     /\ \A s \in Sessions : call'[s].op \in {"none", "claim", "ack"}
  \/ /\ workload = "renewed lease"
     /\ OnlyRow1 /\ Asks({"claim"}, 1) /\ Asks({"renew"}, 2)
     /\ \A s \in Sessions : call'[s].scope = Admin /\ call'[s].op \in {"none", "claim", "renew"}

MCInit == Init /\ workload \in {"one row", "one time", "renewed lease"}

MCNext == Next /\ Restricted /\ UNCHANGED workload

MCSpec == MCInit /\ [][MCNext]_<<vars, workload>> /\ Fairness
================================================================================
