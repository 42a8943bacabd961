--------------------------- MODULE MCMysqlLifecycle ----------------------------
(***************************************************************************)
(* Instances of MysqlLifecycle for TLC.  Row n belongs to tenant T1 if n   *)
(* is odd and to T2 otherwise.  A behaviour has one of two workloads: any  *)
(* call, at any time, on one row, or claims of a tenant and of the         *)
(* administrator, and one session's acknowledgements, on all rows at one   *)
(* time.                                                                   *)
(***************************************************************************)
EXTENDS MysqlLifecycle

CONSTANTS T1, T2, s1, s2

VARIABLE workload

MCTenantOf == [r \in Rows |-> IF r % 2 = 1 THEN T1 ELSE T2]

\* What callers, producers and the clock do under the workload.
Restricted ==
  \/ /\ workload = "one row"
     /\ \A r \in Rows \ {1} : delivery'[r] = AbsentRow
     /\ \A s \in Sessions : /\ call'[s].scope # Admin => call'[s].op = "finalize"
                            /\ call'[s].limit # 1
  \/ /\ workload = "one time"
     /\ now' = 0
     /\ \A s \in Sessions : /\ call'[s].op \in {"none", "claim", "ack"}
                            /\ call'[s].limit = 1 => call'[s].scope = Admin
     /\ call'[s2].op # "ack"

MCInit == Init /\ workload \in {"one row", "one time"}

MCNext == Next /\ Restricted /\ UNCHANGED workload

MCSpec == MCInit /\ [][MCNext]_<<vars, workload>> /\ Fairness
================================================================================
