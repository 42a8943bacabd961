---------------------------- MODULE SqliteProducer ----------------------------
(***************************************************************************)
(* enqueue_for_scope and import_for_scope of the SQLite adapter.  The      *)
(* caller's transaction is immediate, or deferred: a deferred one reads a  *)
(* snapshot and becomes the database's single writer with the application's*)
(* first write, unless another commit has made its snapshot stale.  Both   *)
(* calls refuse a transaction that is not the writer yet.                  *)
(***************************************************************************)
EXTENDS EventTable

\* What sqlite3_txn_state says of each session's transaction.
VARIABLE mode

Modes == {"none", "deferred", "reading", "stale", "write"}

vars == <<events, txs, mode>>

Init == TxInit /\ mode = [s \in Sessions |-> "none"]

NoWriter == \A s \in Sessions : mode[s] # "write"

SetMode(s, m) == mode' = [mode EXCEPT ![s] = m]

BeginImmediate(s) == NoWriter /\ OpenTx(s) /\ SetMode(s, "write")

BeginDeferred(s) == OpenTx(s) /\ SetMode(s, "deferred")

\* The application's own statements in a deferred transaction.
AppRead(s) ==
  /\ pc[s] = "open" /\ mode[s] = "deferred"
  /\ SetMode(s, "reading")
  /\ UNCHANGED <<events, txs>>

AppWrite(s) ==
  /\ pc[s] = "open" /\ mode[s] \in {"deferred", "reading"} /\ NoWriter
  /\ SetMode(s, "write")
  /\ UNCHANGED <<events, txs>>

\* A commit leaves the snapshots of the readers behind.
AfterCommit(s) ==
  mode' = [t \in Sessions |-> IF t = s THEN "none"
                              ELSE IF mode[t] = "reading" THEN "stale" ELSE mode[t]]

transaction_is_write(s) == mode[s] = "write"

Refuse(s) ==
  /\ ~transaction_is_write(s)
  /\ Return(s, "WriteTransactionRequired")
  /\ UNCHANGED <<events, writes, mode>>

\* Statement ON CONFLICT(tenant_id, source, event_id) DO NOTHING.
InsertEvent(s, found, new) ==
  LET i == call[s].id
  IN  /\ transaction_is_write(s)
      /\ IF Latest(s, i) = Absent
           THEN /\ writes' = [writes EXCEPT ![s][i].content = call[s].content]
                /\ Proceed(s, new)
           ELSE Proceed(s, found) /\ UNCHANGED writes
      /\ UNCHANGED <<events, mode>>

InsertDelivery(s, outcome) ==
  /\ writes' = [writes EXCEPT ![s][call[s].id].delivery = call[s].state]
  /\ Return(s, outcome)
  /\ UNCHANGED <<events, mode>>

\* Every immutable field is compared.
same_event(c, row) == row.content = c.content

\* The duplicate is read and compared.
Find(s, conflict, next) ==
  LET row == Latest(s, call[s].id)
  IN  /\ IF row = Absent THEN Return(s, "MissingRow")
         ELSE IF ~same_event(call[s], row) THEN Return(s, conflict)
         ELSE Proceed(s, next)
      /\ UNCHANGED <<events, writes, mode>>

-------------------------------------------------------------------------------
(* enqueue_for_scope                                                       *)

Enqueue(s) == BeginEnqueue(s) /\ UNCHANGED mode

EnqueueInsert(s) ==
  /\ pc[s] = "enqueue_insert"
  /\ Refuse(s) \/ InsertEvent(s, "enqueue_find", "enqueue_delivery")

EnqueueDelivery(s) == pc[s] = "enqueue_delivery" /\ InsertDelivery(s, "Enqueued")

EnqueueFind(s) ==
  pc[s] = "enqueue_find" /\ Find(s, "IdempotencyConflict", "enqueue_check")

\* Mutation of EnqueueCheck: a missing delivery row is looked for in the events
\* this transaction has not written itself.
EnqueueCheckCommitted(s) ==
  /\ pc[s] = "enqueue_check"
  /\ Return(s, IF events[call[s].id].delivery = "none" THEN "MigrationMismatch"
                                                       ELSE "AlreadyEnqueued")
  /\ UNCHANGED <<events, writes, mode>>

EnqueueCheck(s) ==
  /\ pc[s] = "enqueue_check"
  /\ Return(s, IF Latest(s, call[s].id).delivery = "none" THEN "MigrationMismatch"
                                                          ELSE "AlreadyEnqueued")
  /\ UNCHANGED <<events, writes, mode>>

-------------------------------------------------------------------------------
(* import_for_scope                                                        *)

ImportForMigration(s) == BeginImport(s) /\ UNCHANGED mode

ImportInsert(s) ==
  /\ pc[s] = "import_insert"
  /\ Refuse(s) \/ InsertEvent(s, "import_find", "import_delivery")

ImportDelivery(s) == pc[s] = "import_delivery" /\ InsertDelivery(s, "Imported")

ImportFind(s) ==
  pc[s] = "import_find" /\ Find(s, "IdentityConflict", "import_compare")

\* The canonical pending row, or the canonical delivered one with this stamp.
matches_import(state, row) == row.delivery = state

ImportCompare(s) ==
  LET row == Latest(s, call[s].id)
  IN  /\ pc[s] = "import_compare"
      /\ Return(s, IF row.delivery = "none" THEN "MigrationMismatch"
                   ELSE IF matches_import(call[s].state, row) THEN "AlreadyImported"
                   ELSE "ImportConflict")
      /\ UNCHANGED <<events, writes, mode>>

-------------------------------------------------------------------------------
\* A caller that was not the writer has nothing to commit.
Commit(s) ==
  /\ CommitTx(s)
  /\ IF mode[s] = "write" THEN AfterCommit(s) ELSE SetMode(s, "none")

Rollback(s) == RollbackTx(s) /\ SetMode(s, "none")

WorkerCommit(i) ==
  /\ NoWriter /\ Work(i)
  /\ mode' = [t \in Sessions |-> IF mode[t] = "reading" THEN "stale" ELSE mode[t]]

Continue(s) ==
  \/ EnqueueInsert(s) \/ EnqueueDelivery(s) \/ EnqueueFind(s) \/ EnqueueCheck(s)
  \/ ImportInsert(s) \/ ImportDelivery(s) \/ ImportFind(s) \/ ImportCompare(s)

Next ==
  \/ \E s \in Sessions :
       \/ BeginImmediate(s) \/ BeginDeferred(s) \/ AppRead(s) \/ AppWrite(s)
       \/ Enqueue(s) \/ ImportForMigration(s) \/ Continue(s)
       \/ Commit(s) \/ Rollback(s)
  \/ \E i \in Ids : WorkerCommit(i)

Spec == Init /\ [][Next]_vars

\* A call's statements are executed.
Fairness == \A s \in Sessions : WF_vars(Continue(s))

FairSpec == Spec /\ Fairness

-------------------------------------------------------------------------------
\* Between the statements of a call: it runs in the write transaction once it is past
\* its first check, the event it inserted has no delivery row yet, and the duplicate
\* it found is complete and after the comparison equal.
CallInv(s) ==
  LET c == call[s]
      row == Latest(s, c.id)
  IN  /\ c \in Call
      /\ pc[s] \notin {"enqueue_insert", "import_insert"} => mode[s] = "write"
      /\ pc[s] \in {"enqueue_delivery", "import_delivery"} =>
           writes[s][c.id] = [content |-> c.content, delivery |-> "none"]
      /\ pc[s] \in {"enqueue_find", "import_find"} => Complete(row)
      /\ pc[s] \in {"enqueue_check", "import_compare"} =>
           Complete(row) /\ row.content = c.content

\* A row a transaction has inserted is complete, and no worker has seen it, except
\* while the call that inserted it is at the delivery INSERT.
WrittenInv(s, i) ==
  \/ Complete(writes[s][i]) /\ writes[s][i].delivery # "touched"
  \/ pc[s] \in {"enqueue_delivery", "import_delivery"} /\ call[s].id = i

\* What an answer rests on: only the writer was told anything but to become one.
AnswerInv(s, a) ==
  /\ a.outcome # "WriteTransactionRequired" => mode[s] = "write"
  /\ AnswerStands(s, a)
  /\ a.outcome \notin {"MissingRow", "MigrationMismatch"}
  /\ a.outcome = "AlreadyImported" => Latest(s, a.call.id).delivery = a.call.state

\* What one caller's transaction may rely on.
SessionInv(s) ==
  /\ pc[s] \in Steps => CallInv(s)
  /\ pc[s] = "idle" => told[s] = {} /\ writes[s] = NoWrites /\ mode[s] = "none"
  /\ \A i \in Ids : writes[s][i] # Absent => WrittenInv(s, i)
  /\ \A a \in told[s] : AnswerInv(s, a)

\* The invariant behind the producers' promises: there is one writer, committed rows
\* are complete, uncommitted ones are the writer's and new, and every transaction is
\* consistent with what it was told.
IInv ==
  /\ TypeOK /\ mode \in [Sessions -> Modes]
  /\ \A s, t \in Sessions : mode[s] = "write" /\ mode[t] = "write" => s = t
  /\ \A i \in Ids : events[i] = Absent \/ Complete(events[i])
  /\ \A s \in Sessions, i \in Ids :
       writes[s][i] # Absent => events[i] = Absent /\ mode[s] = "write"
  /\ \A s \in Sessions : SessionInv(s)
===============================================================================
