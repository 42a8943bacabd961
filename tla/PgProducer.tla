------------------------------ MODULE PgProducer ------------------------------
(***************************************************************************)
(* enqueue_for_scope and import_for_scope of the PostgreSQL adapter, in    *)
(* READ COMMITTED transactions of their callers: every statement sees the  *)
(* rows committed before it began and the transaction's own.  INSERT ...   *)
(* ON CONFLICT DO NOTHING waits for an open transaction that has inserted  *)
(* the identity.                                                           *)
(*                                                                         *)
(* The row-level-security profile is installed: a statement sees and       *)
(* writes only rows of the tenant the transaction is bound to, and every   *)
(* call of a tenant handle binds its tenant first.                         *)
(***************************************************************************)
EXTENDS EventTable

CONSTANTS
  Tenants,   \* tenant ids
  TenantOf   \* the tenant of each identity

ASSUME TenantAssumption == TenantOf \in [Ids -> Tenants] /\ "none" \notin Tenants

VARIABLE bound  \* the transaction-local dovecote.tenant_id, "none" if unset

vars == <<events, txs, bound>>

Init == TxInit /\ bound = [s \in Sessions |-> "none"]

Open(s) == OpenTx(s) /\ UNCHANGED bound

bind_tenant(s, tenant) == bound' = [bound EXCEPT ![s] = tenant]

Enqueue(s) == BeginEnqueue(s) /\ bind_tenant(s, TenantOf[call'[s].id])

ImportForMigration(s) == BeginImport(s) /\ bind_tenant(s, TenantOf[call'[s].id])

\* The row of the call's identity; the policy hides it unless its tenant is bound.
Seen(s) == IF bound[s] = TenantOf[call[s].id] THEN Latest(s, call[s].id) ELSE Absent

\* Mutation of CanInsert: the INSERT does not wait for an open inserter.
CanInsertAnyway(s, i) == TRUE

\* The unique index makes the INSERT wait.
CanInsert(s, i) == Inserters(i) \subseteq {s}

\* Statement ON CONFLICT (tenant_id, source, event_id) DO NOTHING: a new row, or
\* none if the identity exists.
InsertEvent(s, found, new) ==
  LET i == call[s].id
  IN  /\ CanInsert(s, i)
      /\ IF Latest(s, i) = Absent
           THEN /\ writes' = [writes EXCEPT ![s][i].content = call[s].content]
                /\ Proceed(s, new)
           ELSE Proceed(s, found) /\ UNCHANGED writes
      /\ UNCHANGED <<events, bound>>

\* Mutation of InsertDelivery: the call returns before the delivery is inserted.
InsertNoDelivery(s, outcome) ==
  Return(s, outcome) /\ UNCHANGED <<events, writes, bound>>

InsertDelivery(s, outcome) ==
  /\ writes' = [writes EXCEPT ![s][call[s].id].delivery = call[s].state]
  /\ Return(s, outcome)
  /\ UNCHANGED <<events, bound>>

\* Every immutable field is compared.
same_event(c, row) == row.content = c.content

\* Mutation of Find: a duplicate is inserted again until it is new.
FindAgain(s, conflict, next) ==
  /\ Proceed(s, IF next = "enqueue_check" THEN "enqueue_insert" ELSE "import_insert")
  /\ UNCHANGED <<events, writes, bound>>

\* The duplicate is read and compared.
Find(s, conflict, next) ==
  LET row == Seen(s)
  IN  /\ IF row = Absent THEN Return(s, "MissingRow")
         ELSE IF ~same_event(call[s], row) THEN Return(s, conflict)
         ELSE Proceed(s, next)
      /\ UNCHANGED <<events, writes, bound>>

-------------------------------------------------------------------------------
(* enqueue_for_scope                                                       *)

EnqueueInsert(s) ==
  pc[s] = "enqueue_insert" /\ InsertEvent(s, "enqueue_find", "enqueue_delivery")

EnqueueDelivery(s) == pc[s] = "enqueue_delivery" /\ InsertDelivery(s, "Enqueued")

EnqueueFind(s) ==
  pc[s] = "enqueue_find" /\ Find(s, "IdempotencyConflict", "enqueue_check")

\* An event without its delivery row is no duplicate to be repaired.
EnqueueCheck(s) ==
  /\ pc[s] = "enqueue_check"
  /\ Return(s, IF Seen(s).delivery = "none" THEN "MigrationMismatch"
                                                          ELSE "AlreadyEnqueued")
  /\ UNCHANGED <<events, writes, bound>>

-------------------------------------------------------------------------------
(* import_for_scope                                                        *)

ImportInsert(s) ==
  pc[s] = "import_insert" /\ InsertEvent(s, "import_find", "import_delivery")

ImportDelivery(s) == pc[s] = "import_delivery" /\ InsertDelivery(s, "Imported")

ImportFind(s) ==
  pc[s] = "import_find" /\ Find(s, "IdentityConflict", "import_compare")

\* The canonical pending row, or the canonical delivered one with this stamp.
matches_import(state, row) == row.delivery = state

\* An unlocked read of the delivery: a worker may change it right after.
ImportCompare(s) ==
  LET row == Seen(s)
  IN  /\ pc[s] = "import_compare"
      /\ Return(s, IF row.delivery = "none" THEN "MigrationMismatch"
                   ELSE IF matches_import(call[s].state, row) THEN "AlreadyImported"
                   ELSE "ImportConflict")
      /\ UNCHANGED <<events, writes, bound>>

-------------------------------------------------------------------------------
Commit(s) == CommitTx(s) /\ bound' = [bound EXCEPT ![s] = "none"]

Rollback(s) == RollbackTx(s) /\ bound' = [bound EXCEPT ![s] = "none"]

Waits(s, t) ==
  /\ pc[s] \in {"enqueue_insert", "import_insert"}
  /\ s # t /\ t \in Inserters(call[s].id)

\* Sessions that wait for one another in a circle.
Deadlocked(s) ==
  \E S \in SUBSET Sessions : s \in S /\ \A a \in S : \E b \in S : Waits(a, b)

Continue(s) ==
  \/ EnqueueInsert(s) \/ EnqueueDelivery(s) \/ EnqueueFind(s) \/ EnqueueCheck(s)
  \/ ImportInsert(s) \/ ImportDelivery(s) \/ ImportFind(s) \/ ImportCompare(s)

Next ==
  \/ \E s \in Sessions : \/ Open(s) \/ Enqueue(s) \/ ImportForMigration(s)
                         \/ Continue(s) \/ Commit(s) \/ Rollback(s)
  \/ \E i \in Ids : Work(i) /\ UNCHANGED bound

Spec == Init /\ [][Next]_vars

\* A call's statements are executed, one that waits in its turn (waiters for a
\* row are served in order), a caller ends its transaction after finitely many
\* calls, and the
\* deadlock detector fails the statement of one of the sessions in a circle.
Fairness ==
  \A s \in Sessions : /\ SF_vars(Continue(s))
                      /\ SF_vars(pc[s] \in {"open", "failed"} /\ (Commit(s) \/ Rollback(s)))
                      /\ WF_vars(Deadlocked(s) /\ Rollback(s))

FairSpec == Spec /\ Fairness

-------------------------------------------------------------------------------
\* Between the statements of a call: the identity it inserted has no delivery row
\* yet; the duplicate it found is stored, and after the comparison equal; and the
\* tenant of the call is the bound one.
CallInv(s) ==
  LET c == call[s]
      row == Latest(s, c.id)
  IN  /\ c \in Call
      /\ bound[s] = TenantOf[c.id]
      /\ pc[s] \in {"enqueue_delivery", "import_delivery"} =>
           writes[s][c.id] = [content |-> c.content, delivery |-> "none"]
      /\ pc[s] \in {"enqueue_find", "import_find"} => Complete(row)
      /\ pc[s] \in {"enqueue_check", "import_compare"} =>
           Complete(row) /\ row.content = c.content

\* A row a transaction has inserted is complete, and no worker has seen it, except
\* while the call that inserted it is at the delivery INSERT.
WrittenInv(s, i) ==
  \/ Complete(writes[s][i]) /\ writes[s][i].delivery # "touched"
  \/ pc[s] \in {"enqueue_delivery", "import_delivery"} /\ call[s].id = i

\* What one caller's transaction may rely on.
SessionInv(s) ==
  /\ pc[s] \in Steps => CallInv(s)
  /\ pc[s] = "idle" => told[s] = {} /\ writes[s] = NoWrites
  /\ \A i \in Ids : writes[s][i] # Absent => WrittenInv(s, i)
  /\ \A a \in told[s] : /\ AnswerStands(s, a)
                         /\ a.outcome \notin {"MissingRow", "MigrationMismatch"}

\* The invariant behind the producers' promises: committed rows are complete, an
\* uncommitted row belongs to one transaction and to an identity nobody has
\* committed, and every transaction is consistent with what it was told.
IInv ==
  /\ TypeOK
  /\ bound \in [Sessions -> Tenants \union {"none"}]
  /\ \A i \in Ids : events[i] = Absent \/ Complete(events[i])
  /\ \A s \in Sessions, i \in Ids :
       writes[s][i] # Absent => events[i] = Absent /\ Inserters(i) = {s}
  /\ \A s \in Sessions : SessionInv(s)
===============================================================================
