------------------------------ MODULE MCProducers ------------------------------
(***************************************************************************)
(* Instances of Producers for TLC.  A behaviour has one of two             *)
(* workloads: all calls for one identity, but delivered imports of one     *)
(* session only, or calls with one content for all identities, one         *)
(* session's enqueues against enqueues and pending imports of the other.   *)
(***************************************************************************)
EXTENDS Producers

CONSTANTS i1, c1, s2

VARIABLE workload

sqlitevars == <<events, txs, mode>>

\* The calls made, and the changes of workers seen, under the workload.
Workload ==
  \/ /\ workload = "one identity"
     /\ \A s \in Sessions : call'[s] # NoCall =>
          call'[s].id = i1 /\ (s = s2 => call'[s].state = "pending")
  \/ /\ workload = "one content"
     /\ \A s \in Sessions : call'[s] # NoCall =>
          call'[s].content = c1 /\ call'[s].state = "pending"
     /\ call'[s2].op \in {"none", "enqueue"}
     /\ \A i \in Ids : events'[i].delivery \notin Stamps

MCInit == ProducersInit /\ workload \in {"one identity", "one content"}

MCNext == ProducersNext /\ Workload /\ UNCHANGED workload

MCFairness ==
  \A s \in Sessions :
    /\ SF_vars(adapter = "mysql" /\ Continue(s))
    /\ SF_vars(adapter = "mysql" /\ pc[s] \in {"open", "failed"} /\ (Commit(s) \/ Rollback(s)))
    /\ WF_vars(adapter = "mysql" /\ Deadlocked(s) /\ Rollback(s))
    /\ WF_sqlitevars(adapter = "sqlite" /\ Sqlite!Continue(s))

MCSpec == MCInit /\ [][MCNext]_<<producervars, workload>> /\ MCFairness
================================================================================
