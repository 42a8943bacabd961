----------------------------- MODULE SqlitePaging -----------------------------
(***************************************************************************)
(* Paging in SQLite: a deferred read transaction whose first SELECT, of    *)
(* the upper bound, takes the snapshot.  A failed read, rows that do not   *)
(* pass validation included, rolls the transaction back at once and leaves *)
(* a pager that answers Closed.  Row ids are allocated by the one writer,  *)
(* and a rollback gives its id back.                                       *)
(***************************************************************************)
EXTENDS Paging

Writing == \E r \in DOMAIN rows : rows[r].status = "open"

SqliteInsert(t) == ~Writing /\ Allocate(t)

RollbackInsert ==
  /\ Writing
  /\ rows' = SubSeq(rows, 1, Len(rows) - 1)
  /\ UNCHANGED <<live, pager>>

\* One of four statements: with or without a tenant and an upper bound.
read_page_scoped(table, after, upper, limit) ==
  FirstIds({r \in Scoped(table, handle) : after < r /\ r <= upper}, limit)

sqlite_page(limit) == LivePage(read_page_scoped(rows, live.cursor, MaxRow, limit))

SqliteBeginRead ==
  /\ pager.pc = "closed"
  /\ pager' = [NoPager EXCEPT !.pc = "upper"]
  /\ UNCHANGED <<rows, live>>

\* The SELECT of the upper bound, or its failure.
SqliteReadUpper ==
  /\ pager.pc = "upper"
  /\ \/ pager' = Opened(rows, MaxId(rows, handle))
     \/ pager' = NoPager
  /\ UNCHANGED <<rows, live>>

\* The transaction is rolled back and gone.
sqlite_failed == [pager EXCEPT !.pc = "failed"]

\* An exhausted pager answers an empty page, a failed one Closed.
sqlite_next_page(limit) ==
  LET ids == read_page_scoped(pager.snap, pager.cursor, pager.upper, limit)
  IN  /\ pager.pc = "open" /\ ~pager.exhausted
      /\ pager' = IF Hydrates(ids) THEN Advanced(ids, limit) ELSE sqlite_failed
      /\ UNCHANGED <<rows, live>>

SqliteFailRead ==
  /\ pager.pc = "open" /\ ~pager.exhausted
  /\ pager' = sqlite_failed
  /\ UNCHANGED <<rows, live>>

\* finish, rollback and close; they succeed on a failed pager too.
SqliteFinish ==
  /\ pager.pc # "closed"
  /\ pager' = NoPager
  /\ UNCHANGED <<rows, live>>

SqliteStep ==
  \/ \E t \in Owners : SqliteInsert(t)
  \/ RollbackInsert
  \/ \E r \in DOMAIN rows : CommitRow(r) \/ DeliverRow(r)
  \/ \E limit \in Limits : sqlite_page(limit) \/ sqlite_next_page(limit)
  \/ SqliteBeginRead \/ SqliteReadUpper \/ SqliteFailRead \/ SqliteFinish

SqliteNext == SqliteStep /\ UNCHANGED handle
===============================================================================
