--------------------------- MODULE MCSqliteLifecycle ---------------------------
(***************************************************************************)
(* Instances of SqliteLifecycle for TLC.  Row n belongs to tenant T1 if n  *)
(* is odd and to T2 otherwise.  A behaviour has one of two workloads: any  *)
(* call on one row, with leases of one tick, where imports run alone and   *)
(* finalisations beside claims only, or enqueues and claims of all rows,   *)
(* by a tenant and by the administrator, with no pager open and leases     *)
(* that outlast the clock.                                                 *)
(***************************************************************************)
EXTENDS SqliteLifecycle

CONSTANTS T1, T2, s1, s2

VARIABLE workload

MCTenantOf == [r \in Rows |-> IF r % 2 = 1 THEN T1 ELSE T2]

\* What callers and pagers do under the workload.
Restricted ==
  \/ /\ workload = "one row"
     /\ \A s \in Sessions : /\ call'[s].scope # Admin => call'[s].op \in CallerOps
                            /\ call'[s].row \in {0, 1} /\ call'[s].limit # 1 /\ call'[s].arg # 2
     /\ call'[s1].op # "finalize" /\ call'[s2].op \in {"none", "claim", "finalize"}
     /\ call'[s2].op = "finalize" => call'[s1].op \in {"none", "claim"}
     /\ call'[s1].op = "import" => call'[s2].op = "none"
  \/ /\ workload = "no pager"
     /\ reading' = {}
     /\ call'[s1].op \in {"none", "enqueue"} /\ call'[s2].op \in {"none", "claim"}
     /\ call'[s2].arg # 1 /\ (call'[s2].limit = 1 => call'[s2].scope = Admin)
     /\ call[s2].op = "none" /\ now > 0 => call'[s2].op = "none"

MCInit == Init /\ workload \in {"one row", "no pager"}

MCNext == Next /\ Restricted /\ UNCHANGED workload

MCSpec == MCInit /\ [][MCNext]_<<vars, workload>> /\ Fairness
================================================================================
