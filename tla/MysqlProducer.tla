----------------------------- MODULE MysqlProducer -----------------------------
(***************************************************************************)
(* enqueue_for_scope and import_for_scope of the MySQL/MariaDB adapter, in *)
(* REPEATABLE READ transactions of their callers.  The first plain SELECT  *)
(* on a table fixes the transaction's read view; INSERT and FOR UPDATE see *)
(* the latest committed rows and take record locks, held until the         *)
(* transaction ends: an INSERT that finds a duplicate takes a shared lock  *)
(* on it, a successful INSERT and a locking read an exclusive one.         *)
(***************************************************************************)
EXTENDS EventTable

CONSTANTS
  Free,                       \* no session
  NoView,                     \* no read view yet
  MAX_RECORD_CHANGED_RETRIES  \* retries of a locking read that failed with 1020

ASSUME ProducerAssumption == Free \notin Sessions /\ NoView \notin [Ids -> Row]

VARIABLES
  view,      \* the committed rows each transaction's plain SELECTs see
  inserted,  \* whether the session's call inserted its event
  retries,   \* locking reads of the call that failed so far
  xlock,     \* the session holding the exclusive lock of an event row
  shared,    \* the sessions holding a shared lock of it
  dlock      \* the session holding the lock of its delivery row

locks == <<xlock, shared, dlock>>
locals == <<view, inserted, retries>>
vars == <<events, txs, locals, locks>>

Init ==
  /\ TxInit
  /\ view = [s \in Sessions |-> NoView]
  /\ inserted = [s \in Sessions |-> FALSE]
  /\ retries = [s \in Sessions |-> 0]
  /\ xlock = [i \in Ids |-> Free]
  /\ shared = [i \in Ids |-> {}]
  /\ dlock = [i \in Ids |-> Free]

\* A plain SELECT fixes the read view.
View(s) == IF view[s] = NoView THEN events ELSE view[s]

FixView(s) == view' = [view EXCEPT ![s] = View(s)]

\* What a plain SELECT sees.
Seen(s, i) == IF writes[s][i] # Absent THEN writes[s][i] ELSE View(s)[i]

Open(s) == OpenTx(s) /\ UNCHANGED <<locals, locks>>

\* The enqueue path checks the catalogue only and reads no table yet.
Enqueue(s) == BeginEnqueue(s) /\ UNCHANGED <<locals, locks>>

\* check_schema reads the marker table, which fixes the read view.
ImportForMigration(s) ==
  BeginImport(s) /\ FixView(s) /\ UNCHANGED <<inserted, retries, locks>>

\* The locks another session holds on event i that exclude a shared, or an
\* exclusive, lock of s.
BlocksShared(s, i) == {xlock[i]} \ {s, Free}
BlocksExclusive(s, i) == (shared[i] \union {xlock[i]}) \ {s, Free}

\* Mutation of InsertEvent: the unique key does not make the INSERT wait.
InsertEventAnyway(s, next) ==
  LET i == call[s].id
  IN  /\ inserted' = [inserted EXCEPT ![s] = Latest(s, i) = Absent]
      /\ writes' = IF inserted'[s] THEN [writes EXCEPT ![s][i].content = call[s].content]
                                   ELSE writes
      /\ Proceed(s, next)
      /\ UNCHANGED <<events, view, retries, locks>>

\* The INSERT of the event: error 1062 on the tenant-source-event key is "not
\* inserted".
InsertEvent(s, next) ==
  LET i == call[s].id
  IN  /\ BlocksShared(s, i) = {}
      /\ inserted' = [inserted EXCEPT ![s] = Latest(s, i) = Absent]
      /\ IF inserted'[s]
           THEN /\ writes' = [writes EXCEPT ![s][i].content = call[s].content]
                /\ xlock' = [xlock EXCEPT ![i] = s]
                /\ UNCHANGED shared
           ELSE /\ shared' = [shared EXCEPT ![i] = @ \union {s}]
                /\ UNCHANGED <<writes, xlock>>
      /\ Proceed(s, next)
      /\ UNCHANGED <<events, view, retries, dlock>>

InsertDelivery(s, outcome) ==
  /\ writes' = [writes EXCEPT ![s][call[s].id].delivery = call[s].state]
  /\ Return(s, outcome)

\* Every immutable field is compared.
same_event(c, row) == row.content = c.content

-------------------------------------------------------------------------------
(* enqueue_for_scope                                                       *)

EnqueueInsert(s) == pc[s] = "enqueue_insert" /\ InsertEvent(s, "enqueue_find")

\* Mutation of EnqueueFind: an identity that cannot be found is inserted again.
EnqueueFindAgain(s) ==
  LET row == Seen(s, call[s].id)
  IN  /\ pc[s] = "enqueue_find"
      /\ FixView(s)
      /\ IF row = Absent THEN Proceed(s, "enqueue_insert")
         ELSE IF ~same_event(call[s], row) THEN Return(s, "IdempotencyConflict")
         ELSE Proceed(s, "enqueue_check")
      /\ UNCHANGED <<events, writes, inserted, retries, locks>>

\* A plain SELECT finds the identity: in an old read view, it may not be there.
EnqueueFind(s) ==
  LET row == Seen(s, call[s].id)
  IN  /\ pc[s] = "enqueue_find"
      /\ FixView(s)
      /\ IF row = Absent THEN Return(s, "MissingRow")
         ELSE IF ~same_event(call[s], row) THEN Return(s, "IdempotencyConflict")
         ELSE Proceed(s, "enqueue_check")
      /\ UNCHANGED <<events, writes, inserted, retries, locks>>

EnqueueCheck(s) ==
  /\ pc[s] = "enqueue_check"
  /\ IF Seen(s, call[s].id).delivery # "none"
       THEN Return(s, "AlreadyEnqueued") /\ UNCHANGED writes
     ELSE IF ~inserted[s] THEN Return(s, "MigrationMismatch") /\ UNCHANGED writes
     ELSE InsertDelivery(s, "Enqueued")
  /\ UNCHANGED <<events, locals, locks>>

-------------------------------------------------------------------------------
(* import_for_scope                                                        *)

ImportInsert(s) == pc[s] = "import_insert" /\ InsertEvent(s, "import_find")

\* MariaDB rejects the locking read; it is retried a bounded number of times.
RecordChanged(s) ==
  /\ pc[s] = "import_find" /\ ~inserted[s]
  /\ IF retries[s] < MAX_RECORD_CHANGED_RETRIES
       THEN retries' = [retries EXCEPT ![s] = @ + 1] /\ UNCHANGED <<pc, call, told>>
       ELSE retries' = [retries EXCEPT ![s] = 0] /\ Return(s, "Transient")
  /\ UNCHANGED <<events, writes, view, inserted, locks>>

\* The locking read sees the latest row whatever the read view.
LockedRow(s, i) == Latest(s, i)

ImportFind(s) ==
  LET i == call[s].id
      row == LockedRow(s, i)
  IN  /\ pc[s] = "import_find"
      /\ BlocksExclusive(s, i) = {}
      /\ xlock' = [xlock EXCEPT ![i] = s]
      /\ retries' = [retries EXCEPT ![s] = 0]
      /\ IF row = Absent THEN Return(s, "MissingRow") /\ UNCHANGED writes
         ELSE IF inserted[s] THEN InsertDelivery(s, "Imported")
         ELSE IF ~same_event(call[s], row)
           THEN Return(s, "IdentityConflict") /\ UNCHANGED writes
         ELSE Proceed(s, "import_compare") /\ UNCHANGED writes
      /\ UNCHANGED <<events, view, inserted, shared, dlock>>

delivery_matches(state, row) == row.delivery = state

\* Mutation of LockDelivery: the delivery is read without a lock.
NoDeliveryLock(s, i) == UNCHANGED dlock

LockDelivery(s, i) == dlock' = [dlock EXCEPT ![i] = s]

\* The delivery is read FOR UPDATE.
ImportCompare(s) ==
  LET i == call[s].id
      row == LockedRow(s, i)
  IN  /\ pc[s] = "import_compare"
      /\ dlock[i] \in {s, Free}
      /\ LockDelivery(s, i)
      /\ Return(s, IF row.delivery = "none" THEN "MigrationMismatch"
                   ELSE IF delivery_matches(call[s].state, row) THEN "AlreadyImported"
                   ELSE "ImportConflict")
      /\ UNCHANGED <<events, writes, locals, xlock, shared>>

-------------------------------------------------------------------------------
\* The end of a transaction drops its read view and its locks.
Release(s) ==
  /\ view' = [view EXCEPT ![s] = NoView]
  /\ inserted' = [inserted EXCEPT ![s] = FALSE]
  /\ retries' = [retries EXCEPT ![s] = 0]
  /\ xlock' = [i \in Ids |-> IF xlock[i] = s THEN Free ELSE xlock[i]]
  /\ shared' = [i \in Ids |-> shared[i] \ {s}]
  /\ dlock' = [i \in Ids |-> IF dlock[i] = s THEN Free ELSE dlock[i]]

Commit(s) == CommitTx(s) /\ Release(s)

Rollback(s) == RollbackTx(s) /\ Release(s)

Waits(s, t) ==
  \/ pc[s] \in {"enqueue_insert", "import_insert"} /\ t \in BlocksShared(s, call[s].id)
  \/ pc[s] = "import_find" /\ t \in BlocksExclusive(s, call[s].id)
  \/ pc[s] = "import_compare" /\ t \in {dlock[call[s].id]} \ {s, Free}

\* Sessions that wait for one another in a circle.
Deadlocked(s) ==
  \E S \in SUBSET Sessions : s \in S /\ \A a \in S : \E b \in S : Waits(a, b)

Continue(s) ==
  \/ EnqueueInsert(s) \/ EnqueueFind(s) \/ EnqueueCheck(s)
  \/ ImportInsert(s) \/ ImportFind(s) \/ ImportCompare(s)

Next ==
  \/ \E s \in Sessions : \/ Open(s) \/ Enqueue(s) \/ ImportForMigration(s)
                         \/ Continue(s) \/ RecordChanged(s) \/ Commit(s) \/ Rollback(s)
  \/ \E i \in Ids : dlock[i] = Free /\ Work(i) /\ UNCHANGED <<locals, locks>>

Spec == Init /\ [][Next]_vars

\* A call's statements are executed, one that waits in its turn (waiters for a
\* row are served in order), a caller ends its transaction after finitely many
\* calls, and InnoDB rolls back one of the sessions in a circle (1213).
Fairness ==
  \A s \in Sessions : /\ SF_vars(Continue(s))
                      /\ SF_vars(pc[s] \in {"open", "failed"} /\ (Commit(s) \/ Rollback(s)))
                      /\ WF_vars(Deadlocked(s) /\ Rollback(s))

FairSpec == Spec /\ Fairness

\* A row that cannot be found is answered only to an enqueue, in a transaction
\* whose read view an earlier call has fixed: an import reads the row it lost to
\* under a lock, and a first call reads in a new view.
ResolvedInNewView ==
  \A s \in Sessions : \A a \in told[s] :
    a.outcome \in {"MissingRow", "MigrationMismatch"} =>
      /\ a.outcome = "MissingRow" /\ a.call.op = "enqueue"
      /\ Cardinality(told[s]) > 1

-------------------------------------------------------------------------------
\* Between the statements of a call: the event it inserted has no delivery row yet;
\* the duplicate it met is complete, in the latest version or in the read view,
\* and after the comparison equal.
CallInv(s) ==
  LET c == call[s]
      new == [content |-> c.content, delivery |-> "none"]
  IN  /\ c \in Call
      /\ pc[s] \in {"enqueue_insert", "enqueue_find", "enqueue_check"} => c.op = "enqueue"
      /\ pc[s] \in {"enqueue_find", "import_find"} =>
           IF inserted[s] THEN writes[s][c.id] = new ELSE Complete(Latest(s, c.id))
      /\ pc[s] = "enqueue_check" =>
           /\ view[s] # NoView
           /\ IF inserted[s] THEN writes[s][c.id] = new
                             ELSE Complete(Seen(s, c.id)) /\ Seen(s, c.id).content = c.content
      /\ pc[s] = "import_compare" =>
           /\ ~inserted[s] /\ Complete(Latest(s, c.id))
           /\ Latest(s, c.id).content = c.content

\* A row a transaction has inserted is complete, and no worker has seen it, except
\* while the call that inserted it is under way.
WrittenInv(s, i) ==
  \/ Complete(writes[s][i]) /\ writes[s][i].delivery # "touched"
  \/ /\ pc[s] \in {"enqueue_find", "enqueue_check", "import_find"}
     /\ inserted[s] /\ call[s].id = i

\* A row of a read view is still stored, with that content.
ViewInv(s) ==
  view[s] # NoView =>
    \A i \in Ids : view[s][i] # Absent =>
      Complete(view[s][i]) /\ events[i].content = view[s][i].content

\* What an answer rests on: a replayed import holds its delivery row, and a row was
\* missing only for an enqueue behind an accepted call.
AnswerInv(s, a) ==
  /\ AnswerStands(s, a)
  /\ a.outcome = "AlreadyImported" =>
       dlock[a.call.id] = s /\ Latest(s, a.call.id).delivery = a.call.state
  /\ a.outcome \in {"MissingRow", "MigrationMismatch"} =>
       /\ a.outcome = "MissingRow" /\ a.call.op = "enqueue"
       /\ \E b \in told[s] : b.outcome \in Accepted

\* What one caller's transaction may rely on.
SessionInv(s) ==
  /\ pc[s] \in Steps => CallInv(s)
  /\ pc[s] = "idle" => told[s] = {} /\ writes[s] = NoWrites /\ view[s] = NoView
  /\ pc[s] # "failed" => \A a \in told[s] : a.outcome \in Accepted
  /\ view[s] # NoView /\ pc[s] \in {"open", "enqueue_insert", "enqueue_find"} => told[s] # {}
  /\ IsFiniteSet(told[s])
  /\ ViewInv(s)
  /\ \A i \in Ids : writes[s][i] # Absent => WrittenInv(s, i)
  /\ \A a \in told[s] : AnswerInv(s, a)

LocalsOK ==
  /\ view \in [Sessions -> [Ids -> Row] \union {NoView}]
  /\ inserted \in [Sessions -> BOOLEAN]
  /\ retries \in [Sessions -> Nat]
  /\ xlock \in [Ids -> Sessions \union {Free}]
  /\ shared \in [Ids -> SUBSET Sessions]
  /\ dlock \in [Ids -> Sessions \union {Free}]

\* The invariant behind the producers' promises: committed rows are complete, an
\* uncommitted row is locked by its transaction and its identity is not committed,
\* and every transaction is consistent with what it has read and was told.
IInv ==
  /\ TypeOK /\ LocalsOK
  /\ \A i \in Ids : events[i] = Absent \/ Complete(events[i])
  /\ \A s \in Sessions, i \in Ids :
       writes[s][i] # Absent => events[i] = Absent /\ xlock[i] = s
  /\ \A s \in Sessions : SessionInv(s)
===============================================================================
