------------------------------ MODULE MysqlPaging ------------------------------
(***************************************************************************)
(* Paging in MySQL and MariaDB: START TRANSACTION WITH CONSISTENT SNAPSHOT *)
(* takes the snapshot before anything else is read.  The backend is        *)
(* examined next and may be refused; every refusal and failure on the way  *)
(* to an open pager rolls the transaction back.                            *)
(***************************************************************************)
EXTENDS Paging

\* Mutation of mysql_query_page: the cursor's row is read again.
mysql_query_page_from(table, after, upper, limit) ==
  FirstIds({r \in Scoped(table, handle) : after <= r /\ r <= upper}, limit)

\* SELECT ... WHERE row_id > ? [AND row_id <= ?] [AND tenant_id = ?]
mysql_query_page(table, after, upper, limit) ==
  FirstIds({r \in Scoped(table, handle) : after < r /\ r <= upper}, limit)

mysql_page(limit) == LivePage(mysql_query_page(rows, live.cursor, MaxRow, limit))

MysqlBeginSnapshot ==
  /\ pager.pc = "closed"
  /\ pager' = TakeSnapshot(rows, "detect")
  /\ UNCHANGED <<rows, live>>

\* detect_on_connection, the snapshot capability and REPEATABLE-READ.
MysqlDetect ==
  /\ pager.pc = "detect"
  /\ \/ pager' = [pager EXCEPT !.pc = "upper"]
     \/ pager' = NoPager
  /\ UNCHANGED <<rows, live>>

\* What a statement of the pager's transaction sees.
MysqlSnapshotTable == IF pager.taken THEN pager.snap ELSE rows

MysqlReadUpper ==
  /\ pager.pc = "upper"
  /\ pager' = Opened(MysqlSnapshotTable, MaxId(MysqlSnapshotTable, handle))
  /\ UNCHANGED <<rows, live>>

\* An exhausted pager answers an empty page and reads nothing.
mysql_next_page(limit) ==
  LET ids == mysql_query_page(MysqlSnapshotTable, pager.cursor, pager.upper, limit)
  IN  /\ pager.pc = "open" /\ ~pager.exhausted
      /\ pager' = IF Hydrates(ids) THEN Advanced(ids, limit) ELSE pager
      /\ UNCHANGED <<rows, live>>

\* The connection is lost: every later page fails too.
MysqlFailRead ==
  /\ pager.pc = "open" /\ ~pager.exhausted
  /\ pager' = [pager EXCEPT !.pc = "aborted"]
  /\ UNCHANGED <<rows, live>>

\* finish, rollback, close, or a drop of the pager.
MysqlFinish ==
  /\ pager.pc # "closed"
  /\ pager' = NoPager
  /\ UNCHANGED <<rows, live>>

MysqlStep ==
  \/ \E t \in Owners : Allocate(t)
  \/ \E r \in DOMAIN rows : CommitRow(r) \/ RollbackRow(r) \/ DeliverRow(r)
  \/ \E limit \in Limits : mysql_page(limit) \/ mysql_next_page(limit)
  \/ MysqlBeginSnapshot \/ MysqlDetect \/ MysqlReadUpper \/ MysqlFailRead \/ MysqlFinish

MysqlNext == MysqlStep /\ UNCHANGED handle
================================================================================
