------------------------------- MODULE PgPaging -------------------------------
(***************************************************************************)
(* Paging in PostgreSQL: a REPEATABLE READ transaction whose first         *)
(* statement takes the snapshot (bind_tenant for a tenant's pager, the     *)
(* upper bound's SELECT for an administrator's).  A read that fails leaves *)
(* an aborted transaction; rows that fail validation leave a good one.     *)
(***************************************************************************)
EXTENDS Paging

\* SELECT ... WHERE ($1 IS NULL OR tenant_id = $1) AND row_id > $2 [AND row_id <= $4]
pg_query_page(table, after, upper, limit) ==
  FirstIds({r \in Scoped(table, handle) : after < r /\ r <= upper}, limit)

pg_page(limit) == LivePage(pg_query_page(rows, live.cursor, MaxRow, limit))

PgBeginSnapshot ==
  /\ pager.pc = "closed"
  /\ pager' = [NoPager EXCEPT !.pc = IF handle = AllOwners THEN "upper" ELSE "bind"]
  /\ UNCHANGED <<rows, live>>

PgBindTenant ==
  /\ pager.pc = "bind"
  /\ pager' = TakeSnapshot(rows, "upper")
  /\ UNCHANGED <<rows, live>>

\* Mutation of PgSnapshotTable: READ COMMITTED, every statement its own snapshot.
PgLatestTable == rows

\* What a statement of the pager's transaction sees.
PgSnapshotTable == IF pager.taken THEN pager.snap ELSE rows

PgReadUpper ==
  /\ pager.pc = "upper"
  /\ pager' = Opened(PgSnapshotTable, MaxId(PgSnapshotTable, handle))
  /\ UNCHANGED <<rows, live>>

\* An exhausted pager answers an empty page and reads nothing.
pg_next_page(limit) ==
  LET ids == pg_query_page(PgSnapshotTable, pager.cursor, pager.upper, limit)
  IN  /\ pager.pc = "open" /\ ~pager.exhausted
      /\ pager' = IF Hydrates(ids) THEN Advanced(ids, limit) ELSE pager
      /\ UNCHANGED <<rows, live>>

\* The read fails and the transaction is aborted: every later page fails too.
PgFailRead ==
  /\ pager.pc = "open" /\ ~pager.exhausted
  /\ pager' = [pager EXCEPT !.pc = "aborted"]
  /\ UNCHANGED <<rows, live>>

\* finish, rollback, close, or a drop of the pager.
PgFinish ==
  /\ pager.pc # "closed"
  /\ pager' = NoPager
  /\ UNCHANGED <<rows, live>>

PgStep ==
  \/ \E t \in Owners : Allocate(t)
  \/ \E r \in DOMAIN rows : CommitRow(r) \/ RollbackRow(r) \/ DeliverRow(r)
  \/ \E limit \in Limits : pg_page(limit) \/ pg_next_page(limit)
  \/ PgBeginSnapshot \/ PgBindTenant \/ PgReadUpper \/ PgFailRead \/ PgFinish

PgNext == PgStep /\ UNCHANGED handle
===============================================================================
