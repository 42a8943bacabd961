-------------------------------- MODULE Pagers --------------------------------
(***************************************************************************)
(* The readers of the three adapters.  A behaviour is one of one adapter.  *)
(***************************************************************************)
EXTENDS PgPaging, MysqlPaging, SqlitePaging

VARIABLE adapter

pagersvars == <<handle, rows, live, pager, adapter>>

PagersInit == PagingInit /\ adapter \in {"postgres", "mysql", "sqlite"}

PagersNext ==
  /\ \/ adapter = "postgres" /\ PgNext
     \/ adapter = "mysql" /\ MysqlNext
     \/ adapter = "sqlite" /\ SqliteNext
  /\ UNCHANGED adapter

PagersSpec == PagersInit /\ [][PagersNext]_pagersvars

\* Live pages miss only rows that committed after the cursor had passed their ids,
\* and SQLite's miss no row at all: the next row id is taken by a writer that holds
\* the reservation until it commits.
LivePagesComplete == LiveMissesOnlyLate /\ (adapter = "sqlite" => LiveComplete)
===============================================================================
