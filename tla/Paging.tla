-------------------------------- MODULE Paging --------------------------------
(***************************************************************************)
(* The event table as the pagers read it.  A row id is allocated when a    *)
(* producer inserts and becomes visible when its transaction commits; the  *)
(* two orders differ.  A live reader asks for one page after another, each *)
(* a read of its own; a snapshot pager keeps one read transaction.  How a  *)
(* snapshot is taken and what a failed read leaves behind differ between   *)
(* the adapters: PgPaging, MysqlPaging and SqlitePaging.                   *)
(***************************************************************************)
EXTENDS Integers, Sequences, FiniteSets

CONSTANTS
  Owners,     \* tenant ids
  AllOwners,  \* the scope without a tenant filter
  Readers,    \* the scopes of the handles that read: tenants and AllOwners
  Limits,     \* page limits a caller asks for
  MaxRow,     \* bound on the rows inserted
  BadRows     \* row ids whose stored values do not pass validation

\* A Page limit is never zero.
ASSUME PagingAssumption == MaxRow \in Nat /\ Limits \subseteq Nat \ {0}

VARIABLES
  handle, \* the scope of the handle that reads, live and by pager
  rows,   \* by row id: tenant, commit status, delivery state
  live,   \* the live reader: cursor, ids returned so far, ids committed behind it
  pager   \* the snapshot pager

pagingvars == <<handle, rows, live, pager>>

PageRow == [tenant : Owners, status : {"open", "committed", "rolled_back"},
            state : {"pending", "delivered"}]

\* A pager that is not open.  snap is what its read transaction sees once the
\* snapshot is taken, got what its pages returned: row ids with the delivery state
\* they showed.
NoPager == [pc |-> "closed", taken |-> FALSE, snap |-> <<>>, upper |-> 0, cursor |-> 0,
            exhausted |-> FALSE, got |-> <<>>]

PagingInit ==
  /\ handle \in Readers
  /\ rows = <<>>
  /\ live = [cursor |-> 0, got |-> <<>>, late |-> {}]
  /\ pager = NoPager

\* Ids a read in table sees in scope.
Scoped(table, scope) ==
  {r \in DOMAIN table : /\ table[r].status = "committed"
                        /\ scope \in {AllOwners, table[r].tenant}}

\* ... ORDER BY row_id ASC
InOrder(ids) ==
  CHOOSE s \in [1..Cardinality(ids) -> ids] : \A j, k \in DOMAIN s : j < k => s[j] < s[k]

\* ... LIMIT limit
FirstIds(ids, limit) ==
  LET sorted == InOrder(ids)
  IN  SubSeq(sorted, 1, IF Len(sorted) < limit THEN Len(sorted) ELSE limit)

LastId(ids) == ids[Len(ids)]

AsRead(table, ids) == [k \in DOMAIN ids |-> <<ids[k], table[ids[k]].state>>]

-------------------------------------------------------------------------------
(* Producers and workers.                                                  *)

Allocate(t) ==
  /\ Len(rows) < MaxRow
  /\ rows' = Append(rows, [tenant |-> t, status |-> "open", state |-> "pending"])
  /\ UNCHANGED <<live, pager>>

CommitRow(r) ==
  /\ rows[r].status = "open"
  /\ rows' = [rows EXCEPT ![r].status = "committed"]
  /\ live' = [live EXCEPT !.late = IF r < live.cursor THEN @ \union {r} ELSE @]
  /\ UNCHANGED pager

\* Sequences and AUTO_INCREMENT do not take an id back.
RollbackRow(r) ==
  /\ rows[r].status = "open"
  /\ rows' = [rows EXCEPT ![r].status = "rolled_back"]
  /\ UNCHANGED <<live, pager>>

DeliverRow(r) ==
  /\ rows[r].status = "committed" /\ rows[r].state = "pending"
  /\ rows' = [rows EXCEPT ![r].state = "delivered"]
  /\ UNCHANGED <<live, pager>>

-------------------------------------------------------------------------------
(* A page of ids is returned, or refused if one of its rows is bad.        *)

Hydrates(ids) == \A k \in DOMAIN ids : ids[k] \notin BadRows

LivePage(ids) ==
  /\ live' = IF Hydrates(ids) /\ ids # <<>>
               THEN [live EXCEPT !.cursor = LastId(ids), !.got = @ \o ids]
               ELSE live
  /\ UNCHANGED <<rows, pager>>

\* The pager after a page of ids was read with this limit.
Advanced(ids, limit) ==
  [pager EXCEPT
     !.cursor = IF ids = <<>> THEN @ ELSE LastId(ids),
     !.exhausted = \/ ids = <<>>
                   \/ Len(ids) < limit
                   \/ LastId(ids) = pager.upper,
     !.got = @ \o AsRead(pager.snap, ids)]

MaxId(table, scope) ==
  LET ids == Scoped(table, scope)
  IN  IF ids = {} THEN 0 ELSE CHOOSE r \in ids : \A q \in ids : q <= r

\* The pager's transaction sees table from now on.
TakeSnapshot(table, step) ==
  [pager EXCEPT !.pc = step, !.taken = TRUE, !.snap = table]

\* The pager holds its upper bound and is ready for the first page.
Opened(table, upper) ==
  [TakeSnapshot(table, "open") EXCEPT !.upper = upper, !.exhausted = upper = 0]

-------------------------------------------------------------------------------
(* Properties.                                                             *)

\* What the export of the pager's snapshot consists of.
Export == AsRead(pager.snap, InOrder(Scoped(pager.snap, handle)))

\* SnapshotPager is one consistent read: whatever commits between its pages, the
\* pages are a prefix of the scope's rows as of the snapshot, none twice and none
\* left out, with the delivery states of the snapshot; and when the pager says it
\* is exhausted they are all of them.
SnapshotExact ==
  /\ Len(pager.got) <= Len(Export) /\ pager.got = SubSeq(Export, 1, Len(pager.got))
  /\ pager.exhausted => pager.got = Export

\* Live pages return every committed row of the scope up to the cursor once, in
\* row-id order, except rows that committed after the cursor had passed their id
\* ("callers must reconcile later if concurrent commits can invert row-ID
\* allocation and commit order").
LiveMissesOnlyLate ==
  LET seen == {live.got[k] : k \in DOMAIN live.got}
  IN  /\ \A j, k \in DOMAIN live.got : j < k => live.got[j] < live.got[k]
      /\ {r \in Scoped(rows, handle) : r <= live.cursor} \ live.late = seen

\* Where ids are allocated under the writer reservation, nothing is missed.
LiveComplete ==
  {r \in Scoped(rows, handle) : r <= live.cursor} = {live.got[k] : k \in DOMAIN live.got}
===============================================================================
